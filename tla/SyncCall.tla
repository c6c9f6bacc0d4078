------------------------------ MODULE SyncCall ------------------------------
(***************************************************************************)
(* What a SyncMessenger promises: one thread makes calls, one after the    *)
(* other; the message of each call is processed exactly once, after the    *)
(* call began and before it returns; and the call returns the result of    *)
(* processing that message, not of another one.                            *)
(***************************************************************************)
EXTENDS Naturals, Sequences

CONSTANT MaxCalls  (* bound: how many calls are made *)

VARIABLES begun,     (* how many calls have begun; the message of call k is k *)
          executed,  (* the messages processed so far, in order               *)
          returned   (* the results returned so far; the result of k is k     *)

vars == <<begun, executed, returned>>

Init == begun = 0 /\ executed = << >> /\ returned = << >>

Begin == /\ Len(returned) = begun /\ begun < MaxCalls
         /\ begun' = begun + 1
         /\ UNCHANGED <<executed, returned>>

Execute == /\ Len(executed) < begun
           /\ executed' = Append(executed, begun)
           /\ UNCHANGED <<begun, returned>>

Return == /\ Len(executed) = begun /\ Len(returned) < begun
          /\ returned' = Append(returned, begun)
          /\ UNCHANGED <<begun, executed>>

Next == Begin \/ Execute \/ Return

Spec == Init /\ [][Next]_vars
=============================================================================
