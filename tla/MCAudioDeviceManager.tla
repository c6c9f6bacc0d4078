------------------------ MODULE MCAudioDeviceManager ------------------------
(* Channels of a kind are alike; a device asked for the rate 3, which none  *)
(* supports, opens with 2.                                                  *)
EXTENDS AudioDeviceManager, TLC

Closest(r) == IF r = 3 THEN 2 ELSE r

Alike == Permutations(Demods) \cup Permutations(Mods)

(* Demodulators with outputs, or modulators with inputs, to bound the       *)
(* states: the manager keeps the two sides apart, except that               *)
(* AddAudioSource lists a modulator with an output.                         *)
OneSide == \/ Mods \subseteq fresh /\ in = Side(TRUE)
           \/ Demods \subseteq fresh /\ \A d \in Devices : out.infos[d] = None
=============================================================================
