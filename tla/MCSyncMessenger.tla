--------------------------- MODULE MCSyncMessenger ---------------------------
(***************************************************************************)
(* Model checking SyncMessenger: four calls, each made in either way, so    *)
(* that a late wake-up of one call meets the next ones.                     *)
(***************************************************************************)
EXTENDS SyncMessenger
=============================================================================
