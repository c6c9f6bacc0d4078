---------------------------- MODULE MCSourceEngine ----------------------------
(***************************************************************************)
(* Model checking SourceEngine.  Two sources, so that each is deleted and   *)
(* made again after the other; a channel; two rates, so that samplesDone    *)
(* reaches the bound of work() after a pass and not after the first.        *)
(***************************************************************************)
EXTENDS SourceEngine
=============================================================================
