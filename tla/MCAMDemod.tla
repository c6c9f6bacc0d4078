----------------------------- MODULE MCAMDemod -----------------------------
(* AMDemod with two audio outputs, two rates of the source, a preset, and   *)
(* requests for one setting (PATCH) or both (PUT).                          *)
EXTENDS AMDemod

SomeRequests == {[keys |-> {k}, force |-> FALSE] : k \in Keys}
                  \cup {[keys |-> Keys, force |-> TRUE]}

(* At -6 a channel of 4 ends where the quarter does of the 16 received; one *)
(* of 8 is out of these, and of 32 received it leaves 2 to the NCO.         *)
SomeOffsets == {-6, 0}

OnePreset == {[m_inputFrequencyOffset |-> -6, m_audioDeviceName |-> DefaultDevice]}

(* Bound: what has crossed is followed up only as the first of the inputs.  *)
FirstCrossed == crossed => inputs = 1
=============================================================================
