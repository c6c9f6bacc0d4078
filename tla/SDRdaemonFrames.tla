-------------------------- MODULE SDRdaemonFrames --------------------------
(* What both ends of a stream agree on: the layout of a frame (struct       *)
(* Header of udpsinkfec.h and of sdrdaemonsourcebuffer.h).                  *)
EXTENDS Naturals

CONSTANTS
  N,    (* m_nbOriginalBlocks: 128, of which one has meta data              *)
  Wrap  (* frame numbers are modulo Wrap: 65536                             *)

ASSUME FramesAssumption == N \in Nat /\ N > 1 /\ Wrap \in Nat \ {0}
=============================================================================
