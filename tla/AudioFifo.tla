------------------------------ MODULE AudioFifo ------------------------------
(***************************************************************************)
(* The FIFO between a channel and an audio device                          *)
(* (sdrbase/audio/audiofifo.cpp).  One thread writes: a demodulator, the   *)
(* worker of a serial DV device, or an audio input; one reads: an audio    *)
(* output, or a modulator.  Both wait for the other for a few milliseconds *)
(* (1 or 10), and go on without what they did not get.  A third, the main  *)
(* thread, clears the FIFO, or makes another of it for a new audio rate.   *)
(*                                                                         *)
(* What a call does between locking m_mutex and releasing it is one step.  *)
(* A call that waits takes the lock of its condition, releases m_mutex and *)
(* only then waits, while the other thread signals the condition with      *)
(* m_mutex alone: a signal in between is lost.                             *)
(***************************************************************************)
EXTENDS Naturals, Sequences, FiniteSets

CONSTANTS
  Sizes,      (* what setSize() and the constructor are asked for          *)
  MaxBlock,   (* bound: samples of one call                                *)
  MaxSamples  (* bound: samples the writer has to write                    *)

ASSUME SizesAssumption == Sizes # {} /\ Sizes \subseteq Nat \ {0}
ASSUME BlocksAssumption == MaxBlock \in Nat \ {0} /\ MaxSamples \in Nat

VARIABLES
  m_fifo, m_size, m_fill, m_head, m_tail,
  replacing, (* create() has deleted m_fifo and not yet made another        *)
  pc,        (* "idle", "called", "releasing" (m_mutex), "asleep", "woken"  *)
  asked,     (* numSamples of the call of each thread                       *)
  remaining, (* of it                                                       *)
  elapsed,   (* its timeout is over; as good as none, when it is 0          *)
  buffer,    (* what the reader has copied in this call                     *)
  produced,  (* history: how many samples there were to write: 1, 2, 3, ... *)
  heard,     (* history: the samples read() has returned                    *)
  lost,      (* history: those write() refused, or that were cleared        *)
  missed     (* history: a thread about to wait, or that waits, whose reason *)
             (* to wait has gone without a signal to it                     *)

ring == <<m_fifo, m_size, m_fill, m_head, m_tail>>
vars == <<ring, replacing, pc, asked, remaining, elapsed, buffer,
          produced, heard, lost, missed>>

Threads == {"writer", "reader"}

Slots(n) == 0..(n - 1)

AtMost(m, n) == IF m < n THEN m ELSE n

Wrap(x) == x % m_size

Init ==
  /\ m_size \in Sizes /\ m_fifo = [s \in Slots(m_size) |-> 0]
  /\ m_fill = 0 /\ m_head = 0 /\ m_tail = 0 /\ replacing = FALSE
  /\ pc = [t \in Threads |-> "idle"]
  /\ asked = [t \in Threads |-> 0] /\ remaining = [t \in Threads |-> 0]
  /\ elapsed = [t \in Threads |-> FALSE]
  /\ buffer = << >> /\ produced = 0 /\ heard = << >> /\ lost = {}
  /\ missed = [t \in Threads |-> FALSE]
-----------------------------------------------------------------------------
(* wakeOne() of the condition of t: t goes on if it waits; if it is about   *)
(* to, the signal is lost.                                                  *)
WakeOne(t, where) ==
  /\ pc' = IF where[t] = "asleep" THEN [where EXCEPT ![t] = "woken"] ELSE where
  /\ missed' = [missed EXCEPT ![t] = where[t] = "releasing"]

(* The samples from number m to number n. *)
Numbers(m, n) == {k \in 1..produced : m <= k /\ k <= n}

(* A faulty form of Returned, for a mutant: all that was asked for.         *)
ReturnedAll(t, left) == asked[t]

(* return total - remaining *)
Returned(t, left) == asked[t] - left

(* The call of t ends: what a write has not written its caller drops; what  *)
(* a read has read its caller takes from its buffer.                        *)
Ends(t, left, copied) ==
  /\ remaining' = [remaining EXCEPT ![t] = 0]
  /\ asked' = [asked EXCEPT ![t] = 0]
  /\ elapsed' = [elapsed EXCEPT ![t] = FALSE]
  /\ IF t = "writer"
       THEN /\ lost' = lost \cup
                 Numbers(produced - asked[t] + Returned(t, left) + 1, produced)
            /\ UNCHANGED <<heard, buffer>>
       ELSE /\ heard' = heard \o SubSeq(copied, 1, Returned(t, left))
            /\ buffer' = << >>
            /\ UNCHANGED lost

(* A write() or a read() is called, with some timeout or with none, ...     *)
Call(t, n, none) ==
  /\ pc[t] = "idle"
  /\ pc' = [pc EXCEPT ![t] = "called"]
  /\ asked' = [asked EXCEPT ![t] = n] /\ remaining' = [remaining EXCEPT ![t] = n]
  /\ elapsed' = [elapsed EXCEPT ![t] = none]
  /\ IF t = "writer" THEN produced' = produced + n /\ produced' <= MaxSamples
                     ELSE UNCHANGED produced
  /\ UNCHANGED <<ring, replacing, buffer, heard, lost, missed>>

(* ... and returns at once if it finds no m_fifo: it looks before it locks. *)
FindsNone(t) ==
  /\ pc[t] = "called" /\ replacing
  /\ pc' = [pc EXCEPT ![t] = "idle"]
  /\ Ends(t, asked[t], << >>)
  /\ UNCHANGED <<ring, replacing, produced, missed>>

(* QTime::elapsed() reaches the timeout. *)
TimePasses(t) ==
  /\ pc[t] # "idle" /\ ~elapsed[t]
  /\ elapsed' = [elapsed EXCEPT ![t] = TRUE]
  /\ UNCHANGED <<ring, replacing, pc, asked, remaining, buffer, produced,
                 heard, lost, missed>>

(* After the last sample copied: "if (isFull())", "if (isEmpty())" the call *)
(* ends when its time is over, and else waits.                              *)
Continues(t, left, copied) ==
  IF left = 0 \/ elapsed[t]
    THEN Ends(t, left, copied)
    ELSE /\ remaining' = [remaining EXCEPT ![t] = left]
         /\ buffer' = copied
         /\ UNCHANGED <<asked, elapsed, heard, lost>>

Afterwards(t, left) ==
  [pc EXCEPT ![t] = IF left = 0 \/ elapsed[t] THEN "idle" ELSE "releasing"]

(* A faulty form of Room, for a mutant: the samples there are not counted.  *)
WholeRoom(n) == AtMost(n, m_size)

(* What fits of n samples; the copy is done in two if it goes past the end. *)
Room(n) == AtMost(n, m_size - m_fill)

(* A faulty form of Signals, for a mutant: only when the FIFO was empty.    *)
SignalsOnEdge(t, copied) == pc[t] = "woken" \/ (copied > 0 /\ m_fill = 0)

(* The loop signals for each copy; one that was woken copies, and signals,  *)
(* before it looks for room or samples again.                               *)
Signals(t, copied) == pc[t] = "woken" \/ copied > 0

(* write(), with m_mutex *)
Write ==
  LET t      == "writer"
      copied == Room(remaining[t])
      left   == remaining[t] - copied
  IN /\ pc[t] \in {"called", "woken"} /\ ~replacing
     /\ m_fifo' = [s \in Slots(m_size) |->
                     LET i == Wrap(s + m_size - m_tail)
                     IN IF i < copied THEN produced - remaining[t] + i + 1
                                      ELSE m_fifo[s]]
     /\ m_tail' = Wrap(m_tail + copied)
     /\ m_fill' = m_fill + copied
     /\ Continues(t, left, buffer)
     /\ IF Signals(t, copied) THEN WakeOne("reader", Afterwards(t, left))
                              ELSE pc' = Afterwards(t, left) /\ UNCHANGED missed
     /\ UNCHANGED <<m_size, m_head, replacing, produced>>

(* read(), with m_mutex *)
Read ==
  LET t      == "reader"
      n      == AtMost(remaining[t], m_fill)
      left   == remaining[t] - n
      copied == buffer \o [i \in 1..n |-> m_fifo[Wrap(m_head + i - 1)]]
  IN /\ pc[t] \in {"called", "woken"} /\ ~replacing
     /\ m_head' = Wrap(m_head + n)
     /\ m_fill' = m_fill - n
     /\ Continues(t, left, copied)
     /\ IF Signals(t, n) THEN WakeOne("writer", Afterwards(t, left))
                         ELSE pc' = Afterwards(t, left) /\ UNCHANGED missed
     /\ UNCHANGED <<m_fifo, m_size, m_tail, replacing, produced>>

(* wait() of the condition, ... *)
Wait(t) ==
  /\ pc[t] = "releasing"
  /\ pc' = [pc EXCEPT ![t] = "asleep"]
  /\ UNCHANGED <<ring, replacing, asked, remaining, elapsed, buffer, produced,
                 heard, lost, missed>>

(* A faulty form of Timeout, for a mutant: the wait has no end of its own.  *)
NoTimeout(t) == FALSE

(* ... which gives up when the rest of the time, or a millisecond, is over. *)
Timeout(t) ==
  /\ pc[t] = "asleep"
  /\ pc' = [pc EXCEPT ![t] = "idle"]
  /\ missed' = [missed EXCEPT ![t] = FALSE]
  /\ Ends(t, remaining[t], buffer)
  /\ UNCHANGED <<ring, replacing, produced>>
-----------------------------------------------------------------------------
(* The samples in the ring, the oldest first. *)
Contents == [i \in 1..m_fill |-> m_fifo[Wrap(m_head + i - 1)]]

Held == {Contents[i] : i \in 1..m_fill}

(* drain(); nothing calls it, nor flush(). *)
Drain(n) ==
  /\ ~replacing
  /\ m_head' = Wrap(m_head + n) /\ m_fill' = m_fill - n
  /\ lost' = lost \cup {Contents[i] : i \in 1..n}
  /\ WakeOne("writer", pc)
  /\ UNCHANGED <<m_fifo, m_size, m_tail, replacing, asked, remaining, elapsed,
                 buffer, produced, heard>>

(* clear() *)
Clear ==
  /\ ~replacing
  /\ m_fill' = 0 /\ m_head' = 0 /\ m_tail' = 0 /\ lost' = lost \cup Held
  /\ WakeOne("writer", pc)
  /\ UNCHANGED <<m_fifo, m_size, replacing, asked, remaining, elapsed, buffer,
                 produced, heard>>

(* setSize(): m_mutex is held, which a call does not wait for to look at    *)
(* m_fifo, ...                                                              *)
SetSize ==
  /\ ~replacing
  /\ replacing' = TRUE
  /\ m_fill' = 0 /\ m_head' = 0 /\ m_tail' = 0 /\ lost' = lost \cup Held
  /\ missed' = [missed EXCEPT !["writer"] = @ \/ pc["writer"] \in {"releasing", "asleep"}]
  /\ UNCHANGED <<m_fifo, m_size, pc, asked, remaining, elapsed, buffer,
                 produced, heard>>

(* ... and released when there is another.  Nobody is signalled.            *)
Created(n) ==
  /\ replacing
  /\ replacing' = FALSE
  /\ m_size' = n /\ m_fifo' = [s \in Slots(n) |-> 0]
  /\ UNCHANGED <<m_fill, m_head, m_tail, pc, asked, remaining, elapsed, buffer,
                 produced, heard, lost, missed>>

Next ==
  \/ \E t \in Threads :
       \/ \E n \in 1..MaxBlock, none \in BOOLEAN : Call(t, n, none)
       \/ FindsNone(t) \/ TimePasses(t) \/ Wait(t) \/ Timeout(t)
  \/ Write \/ Read
  \/ \E n \in 1..m_fill : Drain(n)
  \/ Clear \/ SetSize
  \/ \E n \in Sizes : Created(n)

Spec == Init /\ [][Next]_vars

(* Threads go on, time passes, setSize() ends, and a call gets m_mutex      *)
(* though the others lock it again and again.                               *)
Fairness ==
  /\ SF_vars(Write) /\ SF_vars(Read)
  /\ \A t \in Threads : /\ WF_vars(FindsNone(t)) /\ WF_vars(TimePasses(t))
                        /\ WF_vars(Wait(t)) /\ WF_vars(Timeout(t))
  /\ WF_vars(\E n \in Sizes : Created(n))

FairSpec == Spec /\ Fairness
-----------------------------------------------------------------------------
(* The samples of a write() that is not over and that are not written yet.  *)
Unwritten ==
  [i \in 1..remaining["writer"] |-> produced - remaining["writer"] + i]

(* Types; the ring has no more samples than slots, and its tail is as far   *)
(* from its head as it has samples.                                         *)
TypeOK ==
  /\ m_size \in Sizes /\ m_fifo \in [Slots(m_size) -> 0..MaxSamples]
  /\ m_fill \in 0..m_size /\ m_head \in Slots(m_size) /\ m_tail = Wrap(m_head + m_fill)
  /\ replacing \in BOOLEAN /\ elapsed \in [Threads -> BOOLEAN]
  /\ pc \in [Threads -> {"idle", "called", "releasing", "asleep", "woken"}]
  /\ asked \in [Threads -> 0..MaxBlock]
  /\ remaining \in [Threads -> 0..MaxBlock]
  /\ \A t \in Threads : remaining[t] <= asked[t]
  /\ produced \in 0..MaxSamples /\ lost \subseteq 0..MaxSamples
  /\ missed \in [Threads -> BOOLEAN]

(* Each sample is in one place: what the reader has been given, what it is  *)
(* being given, what the ring has and what is still to be written are the   *)
(* samples in their order, each once, and those of them that are missing    *)
(* are those of which the writer was told, by the count that write() gave,  *)
(* that they were not written, or that were cleared.  It holds for all the  *)
(* ways in which waits, signals, timeouts and new sizes can meet.           *)
Accounted ==
  LET all == heard \o buffer \o Contents \o Unwritten
  IN /\ \A i, j \in 1..Len(all) : i < j => all[i] < all[j]
     /\ {all[i] : i \in 1..Len(all)} = (1..produced) \ lost

(* A thread that waits does so for a reason, a full FIFO or an empty one,   *)
(* unless the signal came before it waited, or setSize() gave none.  So a   *)
(* write waits in vain, and is cut short, only for those two.               *)
WaitsForReason ==
  /\ pc["writer"] = "asleep" /\ ~missed["writer"] => m_fill = m_size
  /\ pc["reader"] = "asleep" /\ ~missed["reader"] => m_fill = 0

(* Every call ends, whatever signals are lost: both threads can wait for    *)
(* each other, and only the timeouts get them out of it.                    *)
CallsEnd == \A t \in Threads : pc[t] # "idle" ~> pc[t] = "idle"
=============================================================================
