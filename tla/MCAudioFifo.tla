---------------------------- MODULE MCAudioFifo ----------------------------
(* Model checking AudioFifo: calls longer than the FIFO, and two sizes.     *)
EXTENDS AudioFifo
=============================================================================
