----------------------------- MODULE MCSinkEngine -----------------------------
(***************************************************************************)
(* Model checking SinkEngine.  Three channels, so that the engine goes from *)
(* none to one, two and three of them and back; a FIFO of four requests and *)
(* three requests queued, so that a level is told from its neighbours.      *)
(* MCSinkAnswered: two connections are told from one; two places for      *)
(* sinks, so that one is replaced.                                          *)
(***************************************************************************)
EXTENDS SinkEngine, TLC

ChannelSymmetry == Permutations(Channels)
=============================================================================
