-------------------------- MODULE MCSampleSinkFifo --------------------------
(***************************************************************************)
(* Model checking SampleSinkFifo: a ring of three slots, blocks of up to   *)
(* one sample more than the ring holds, and enough samples for the indexes *)
(* to go around twice.                                                     *)
(***************************************************************************)
EXTENDS SampleSinkFifo
=============================================================================
