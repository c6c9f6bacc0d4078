----------------------------- MODULE SampleQueue -----------------------------
(***************************************************************************)
(* What a SampleSinkFifo promises its two users.  The producer offers      *)
(* blocks of consecutive samples; each block is accepted up to the free    *)
(* room and the rest of it is dropped.  The consumer is given the accepted *)
(* samples in the order of their acceptance, each of them once, and        *)
(* releases their room later.  The ring, its indexes and the reader's loop *)
(* are the business of SampleSinkFifo, which implements this module.       *)
(***************************************************************************)
EXTENDS Naturals, Sequences

CONSTANTS Capacity,    (* the room of the queue, in samples                *)
          MaxBlock,    (* the longest block a producer offers              *)
          MaxSamples   (* bound: how many samples the producer makes       *)

VARIABLES produced,    (* samples made so far; the sample k is the number k *)
          accepted,    (* the samples that found room, in order             *)
          given,       (* how many of them the consumer has been given      *)
          released     (* how many of them no longer take up room           *)

vars == <<produced, accepted, given, released>>

(* The n samples that follow the first p ones. *)
Block(p, n) == [i \in 1..n |-> p + i]

(* How many samples of a block of n fit. *)
Fitting(n) ==
  LET room == Capacity - (Len(accepted) - released)
  IN  IF n < room THEN n ELSE room

Init == /\ produced = 0
        /\ accepted = << >>
        /\ given = 0
        /\ released = 0

Put(n) == /\ produced + n <= MaxSamples
          /\ produced' = produced + n
          /\ accepted' = accepted \o Block(produced, Fitting(n))
          /\ UNCHANGED <<given, released>>

Give == /\ given' \in (given + 1)..Len(accepted)
        /\ UNCHANGED <<produced, accepted, released>>

Release == /\ released' \in (released + 1)..given
           /\ UNCHANGED <<produced, accepted, given>>

Next == (\E n \in 1..MaxBlock : Put(n)) \/ Give \/ Release

Spec == Init /\ [][Next]_vars
==============================================================================
