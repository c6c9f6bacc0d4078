--------------------------- MODULE MCSharedDevice ---------------------------
(* SharedDevice on one unit with a source and two sinks.                    *)
EXTENDS SharedDevice

(* No more than one thread has failed at a time. *)
OneFailure == Cardinality(silenced) <= 1
=============================================================================
