------------------------- MODULE AudioDeviceManager -------------------------
(***************************************************************************)
(* The AudioDeviceManager (sdrbase/audio/audiodevicemanager.cpp) with the  *)
(* audio outputs and inputs it opens and closes (audiooutput.cpp,          *)
(* audioinput.cpp), and the channels that use them: demodulators feed an   *)
(* output through an audio FIFO, modulators are fed by an input            *)
(* (plugins/channelrx/demodam, plugins/channeltx/modam stand for them).    *)
(*                                                                         *)
(* The manager keeps which FIFO is on which device, opens a device for its *)
(* first FIFO and closes it after its last, and sends the channels of a    *)
(* device its sample rate when it changes.  Channels handle messages on    *)
(* the main thread; the web interface and the audio dialog post messages   *)
(* and set the devices up, between any two of them.  A channel, its FIFO   *)
(* and its message queue are one here: each channel has one of each.       *)
(*                                                                         *)
(* Any start may fail, for the format nearest to the one asked for may not *)
(* have samples of 16 bits; the manager does not look at the result.       *)
(***************************************************************************)
EXTENDS Naturals, Sequences

CONSTANTS
  Demods, Mods, (* the channels there will ever be, each created once       *)
  Devices,      (* device indexes, the same for outputs and for inputs: a   *)
                (* channel asks with the index of a name, -1 if there is no *)
                (* such device, and one of an unknown index is not set up   *)
  SystemDefault,(* the index -1, on which every channel starts              *)
  None,         (* no entry in a map                                        *)
  Rates,        (* the sample rates one can ask for                         *)
  DefaultRate,  (* m_defaultAudioSampleRate                                 *)
  Supported(_), (* the rate of the format nearest to the one asked for      *)
  MaxMessages   (* bound: messages waiting in a channel's queue             *)

Channels == Demods \cup Mods

ASSUME ChannelsAssumption == Demods \cap Mods = {} /\ None \notin Channels
ASSUME DevicesAssumption == SystemDefault \in Devices /\ None \notin Devices
ASSUME RatesAssumption ==
  /\ DefaultRate \in Rates /\ None \notin Rates
  /\ \A r \in Rates : Supported(r) \in Rates /\ Supported(Supported(r)) = Supported(r)
ASSUME MessagesAssumption == MaxMessages \in Nat \ {0}

VARIABLES
  out,    (* the outputs, with the maps of the manager about them           *)
  in,     (* the inputs, likewise                                           *)
  alive,  (* the channels that exist                                        *)
  fresh,  (* the channels not created yet                                   *)
  m_audioSampleRate,    (* the audio rate each channel works with           *)
  m_inputMessageQueue,  (* of each channel: rates and new devices           *)
  overtaken (* history: channels that moved to another device with a rate  *)
            (* of a device they were listed with still to be handled        *)

vars == <<out, in, alive, fresh, m_audioSampleRate, m_inputMessageQueue,
          overtaken>>

(* What the manager and the devices of one side keep:                       *)
(*   counts  whether starts are counted, as an AudioInput does;             *)
(*   fifos   the FIFOs of each device;                                      *)
(*   made    devices that have an entry in m_audioOutputs, m_audioInputs;   *)
(*   opened  how often each is open (an output once, an input by count);    *)
(*   failed  history: those whose last start failed;                        *)
(*   format  the rate each was last opened with;                            *)
(*   infos   m_audioOutputInfos, m_audioInputInfos: the rates set;          *)
(*   on      m_audioSinkFifos, m_audioSourceFifos: the device of each FIFO; *)
(*   owner   m_audioFifoToSinkMessageQueues, ...ToSourceMessageQueues: the  *)
(*           FIFOs whose queue is known;                                    *)
(*   told    the queues listed for each device.  As no sequence of the      *)
(*           calls lists a demodulator twice on a device, and a modulator   *)
(*           listed twice is only told twice, a set will do.                *)
Side(counts) ==
  [counts |-> counts,
   fifos  |-> [d \in Devices |-> {}],     made  |-> {},
   opened |-> [d \in Devices |-> 0],       failed |-> {},
   format |-> [d \in Devices |-> DefaultRate],
   infos  |-> [d \in Devices |-> None],
   on     |-> [f \in Channels |-> None],  owner |-> {},
   told   |-> [d \in Devices |-> {}]]

Init ==
  /\ out = Side(FALSE) /\ in = Side(TRUE)
  /\ alive = {} /\ fresh = Channels
  /\ m_audioSampleRate = [c \in Channels |-> DefaultRate]
  /\ m_inputMessageQueue = [c \in Channels |-> << >>]
  /\ overtaken = {}
-----------------------------------------------------------------------------
(* getOutputSampleRate(), getInputSampleRate(): also the rate to open with. *)
SampleRate(side, d) == IF side.infos[d] = None THEN DefaultRate ELSE side.infos[d]

(* A start that fails returns before it opens anything, and the rate of the *)
(* format that was no good is stored like another.                          *)
FailedStart(side, d, r) ==
  [side EXCEPT !.failed = @ \cup {d}, !.infos[d] = Supported(r)]

(* A faulty form of StartOutput, for a mutant: the rate asked for is        *)
(* stored, not the one the device has.                                      *)
StartOutputAsAsked(side, d, r, opens) ==
  IF opens THEN [side EXCEPT !.opened[d] = 1, !.failed = @ \ {d},
                             !.format[d] = Supported(r), !.infos[d] = r]
           ELSE FailedStart(side, d, r)

(* AudioOutput::start() opens the device, whether it is open or not, ...    *)
StartOutput(side, d, r, opens) ==
  IF opens THEN [side EXCEPT !.opened[d] = 1, !.failed = @ \ {d},
                             !.format[d] = Supported(r), !.infos[d] = Supported(r)]
           ELSE FailedStart(side, d, r)

(* ... and stop() closes it.  It uses the pointer of a closed one, which    *)
(* was deleted or never set: the outcome modelled is that nothing happens,  *)
(* and where the program crashes instead the behaviour ends there.          *)
StopOutput(side, d) == [side EXCEPT !.opened[d] = 0]

(* AudioInput counts its starts and its stops: only the first and the last  *)
(* have an effect, and the others do not fail.  The rate it is open with is *)
(* stored in any case.                                                      *)
StartInput(side, d, r, opens) ==
  IF side.opened[d] = 0 /\ ~opens
    THEN FailedStart(side, d, r)
    ELSE LET format == IF side.opened[d] = 0 THEN Supported(r) ELSE side.format[d]
         IN [side EXCEPT !.opened[d] = @ + 1, !.failed = @ \ {d},
                         !.format[d] = format, !.infos[d] = format]

(* A faulty form of StopInput, for a mutant: only the last stop counts.    *)
StopInputLast(side, d) ==
  [side EXCEPT !.opened[d] = IF @ = 1 THEN 0 ELSE @]

StopInput(side, d) ==
  [side EXCEPT !.opened[d] = IF @ = 0 THEN 0 ELSE @ - 1]

Start(side, d, r, opens) == IF side.counts THEN StartInput(side, d, r, opens)
                                           ELSE StartOutput(side, d, r, opens)
Stop(side, d) == IF side.counts THEN StopInput(side, d) ELSE StopOutput(side, d)

(* addAudioSink() and addAudioSource() begin with the device: whether it    *)
(* opens or not, the FIFO comes on it.                                      *)
Prepare(side, d, opens) ==
  LET with == [side EXCEPT !.made = @ \cup {d}]
  IN IF side.fifos[d] = {} THEN Start(with, d, SampleRate(side, d), opens)
                           ELSE with

Attach(side, f, d) ==
  [side EXCEPT !.fifos[d] = @ \cup {f}, !.on[f] = d]

(* removeAudioSink(), removeAudioSource(): the queue taken off the list of  *)
(* the device is the one registered for the FIFO.                           *)
Detach(side, f) ==
  LET d    == side.on[f]
      left == [side EXCEPT !.fifos[d] = @ \ {f}, !.on[f] = None,
                           !.told[d]  = @ \ ({f} \cap side.owner),
                           !.owner    = @ \ {f}]
  IN IF left.fifos[d] = {} THEN Stop(left, d) ELSE left

RemoveAudioSink(side, f) == Detach(side, f)

(* A faulty form of RemoveAudioSource, for a mutant: the input is stopped   *)
(* once more, whether or not there are other FIFOs.                         *)
RemoveAudioSourceAndStop(side, f) == StopInput(Detach(side, f), side.on[f])

RemoveAudioSource(side, f) == Detach(side, f)

(* A faulty form of AddAudioSink, for a mutant: a FIFO that moves stays on  *)
(* the device it leaves.                                                    *)
AddAudioSinkTwice(side, f, d, opens) ==
  LET ready == Prepare(side, d, opens)
  IN [Attach(ready, f, d) EXCEPT !.owner = @ \cup {f}, !.told[d] = @ \cup {f}]

(* A faulty form of it, for a mutant: a FIFO that moves is not listed.      *)
AddAudioSinkUnlisted(side, f, d, opens) ==
  LET ready == Prepare(side, d, opens)
  IN CASE side.on[f] = None ->
            [Attach(ready, f, d) EXCEPT !.owner = @ \cup {f},
                                        !.told[d] = @ \cup {f}]
       [] side.on[f] \notin {None, d} ->
            [Attach(RemoveAudioSink(ready, f), f, d)
               EXCEPT !.told[side.on[f]] = @ \ {f}]
       [] OTHER -> ready

(* addAudioSink().  A FIFO that moves is listed with its new device, but    *)
(* removeAudioSink() has just forgotten its queue, which is not put back.   *)
AddAudioSink(side, f, d, opens) ==
  LET ready == Prepare(side, d, opens)
  IN CASE side.on[f] = None ->
            [Attach(ready, f, d) EXCEPT !.owner = @ \cup {f},
                                        !.told[d] = @ \cup {f}]
       [] side.on[f] \notin {None, d} ->
            [Attach(RemoveAudioSink(ready, f), f, d)
               EXCEPT !.told[side.on[f]] = @ \ {f}, !.told[d] = @ \cup {f}]
       [] OTHER -> ready

(* A faulty form of AddAudioSource, for a mutant: a FIFO that moves stays   *)
(* on the input it leaves.                                                  *)
AddAudioSourceTwice(side, f, d, opens) ==
  [Attach(Prepare(side, d, opens), f, d) EXCEPT !.owner = @ \cup {f}]

(* addAudioSource(), its part on the inputs; the queue is listed with the   *)
(* output of the same index, and never with the input.                      *)
AddAudioSource(side, f, d, opens) ==
  LET ready == Prepare(side, d, opens)
      free  == IF side.on[f] \in {None, d} THEN ready
                                           ELSE RemoveAudioSource(ready, f)
  IN [Attach(free, f, d) EXCEPT !.owner = @ \cup {f}]
-----------------------------------------------------------------------------
(* A faulty form of Add, for a mutant: the channel keeps its rate.          *)
AddKeepsRate(c, d, opens) ==
  /\ IF c \in Demods
       THEN out' = AddAudioSink(out, c, d, opens) /\ UNCHANGED in
       ELSE /\ in' = AddAudioSource(in, c, d, opens)
            /\ out' = [out EXCEPT !.told[d] = @ \cup {c}]
  /\ UNCHANGED m_audioSampleRate

(* The channels: their constructors and destructors, ...                    *)
Add(c, d, opens) ==
  \/ /\ c \in Demods
     /\ out' = AddAudioSink(out, c, d, opens)
     /\ m_audioSampleRate' = [m_audioSampleRate EXCEPT ![c] = SampleRate(out', d)]
     /\ UNCHANGED in
  \/ /\ c \in Mods
     /\ in' = AddAudioSource(in, c, d, opens)
     /\ out' = [out EXCEPT !.told[d] = @ \cup {c}]
     /\ m_audioSampleRate' = [m_audioSampleRate EXCEPT ![c] = SampleRate(in', d)]

Create(c) ==
  /\ c \in fresh
  /\ fresh' = fresh \ {c} /\ alive' = alive \cup {c}
  /\ \E opens \in BOOLEAN : Add(c, SystemDefault, opens)
  /\ UNCHANGED <<m_inputMessageQueue, overtaken>>

Destroy(c) ==
  /\ c \in alive
  /\ alive' = alive \ {c}
  /\ IF c \in Demods THEN out' = RemoveAudioSink(out, c) /\ UNCHANGED in
                     ELSE in' = RemoveAudioSource(in, c) /\ UNCHANGED out
  /\ m_inputMessageQueue' = [m_inputMessageQueue EXCEPT ![c] = << >>]
  /\ overtaken' = overtaken \ {c}
  /\ UNCHANGED <<fresh, m_audioSampleRate>>

(* ... and their messages.  webapiSettingsPutPatch() asks for a device, ... *)
Message(k, v) == [kind |-> k, value |-> v]

Waiting(c) == Len(m_inputMessageQueue[c])

AskForDevice(c, d) ==
  /\ c \in alive /\ Waiting(c) < MaxMessages
  /\ m_inputMessageQueue' =
       [m_inputMessageQueue EXCEPT ![c] = Append(@, Message("device", d))]
  /\ UNCHANGED <<out, in, alive, fresh, m_audioSampleRate, overtaken>>

(* ... which applySettings() acts on if it is another one; ...              *)
Take(c, k) ==
  /\ c \in alive /\ m_inputMessageQueue[c] # << >>
  /\ Head(m_inputMessageQueue[c]).kind = k
  /\ m_inputMessageQueue' = [m_inputMessageQueue EXCEPT ![c] = Tail(@)]
  /\ UNCHANGED <<alive, fresh>>

RatesAfter(c) == {i \in 2..Waiting(c) : m_inputMessageQueue[c][i].kind = "rate"}

ApplySettings(c) ==
  LET d == Head(m_inputMessageQueue[c]).value
  IN /\ Take(c, "device")
     /\ IF d \in {out.on[c], in.on[c]}
          THEN UNCHANGED <<out, in, m_audioSampleRate, overtaken>>
          ELSE /\ \E opens \in BOOLEAN : Add(c, d, opens)
               /\ overtaken' = IF RatesAfter(c) = {} THEN overtaken \ {c}
                                                     ELSE overtaken \cup {c}

(* ... a DSPConfigureAudio tells the rate.                                  *)
ConfigureAudio(c) ==
  /\ Take(c, "rate")
  /\ m_audioSampleRate' =
       [m_audioSampleRate EXCEPT ![c] = Head(m_inputMessageQueue[c]).value]
  /\ UNCHANGED <<out, in, overtaken>>
-----------------------------------------------------------------------------
(* "Send message to attached channels": a push to the queue of a channel    *)
(* that was deleted goes nowhere, where it does not fail.                   *)
Tell(channels, r) ==
  /\ \A c \in channels \cap alive : Waiting(c) < MaxMessages
  /\ m_inputMessageQueue' =
       [c \in Channels |-> IF c \in channels \cap alive
                             THEN Append(m_inputMessageQueue[c], Message("rate", r))
                             ELSE m_inputMessageQueue[c]]

Reopened(side, d, r, opens) ==
  Start(Stop(side, d), d, r, opens)

(* setOutputDeviceInfo(), setInputDeviceInfo() *)
Set(side, next, d, r) ==
  IF d \in side.made /\ r # SampleRate(side, d)
    THEN /\ \E opens \in BOOLEAN : next = Reopened(side, d, r, opens)
         /\ Tell(side.told[d], next.infos[d])
    ELSE /\ next = [side EXCEPT !.infos[d] = r]
         /\ UNCHANGED m_inputMessageQueue

(* unsetOutputDeviceInfo(), unsetInputDeviceInfo() *)
Unset(side, next, d) ==
  /\ side.infos[d] # None
  /\ IF d \in side.made
       THEN /\ \E opens \in BOOLEAN : next = Reopened(side, d, DefaultRate, opens)
            /\ IF next.infos[d] # side.infos[d]
                 THEN Tell(side.told[d], next.infos[d])
                 ELSE UNCHANGED m_inputMessageQueue
       ELSE /\ next = [side EXCEPT !.infos[d] = None]
            /\ UNCHANGED m_inputMessageQueue

Channelwise == <<alive, fresh, m_audioSampleRate, overtaken>>

SetOutputDeviceInfo(d, r) ==
  /\ Set(out, out', d, r)
  /\ UNCHANGED <<in, Channelwise>>

UnsetOutputDeviceInfo(d) ==
  /\ Unset(out, out', d)
  /\ UNCHANGED <<in, Channelwise>>

SetInputDeviceInfo(d, r) ==
  /\ Set(in, in', d, r)
  /\ UNCHANGED <<out, Channelwise>>

UnsetInputDeviceInfo(d) ==
  /\ Unset(in, in', d)
  /\ UNCHANGED <<out, Channelwise>>

Next ==
  \/ \E c \in Channels : \/ Create(c) \/ Destroy(c)
                         \/ ApplySettings(c) \/ ConfigureAudio(c)
  \/ \E c \in Channels, d \in Devices : AskForDevice(c, d)
  \/ \E d \in Devices :
       \/ UnsetOutputDeviceInfo(d) \/ UnsetInputDeviceInfo(d)
       \/ \E r \in Rates : SetOutputDeviceInfo(d, r) \/ SetInputDeviceInfo(d, r)

Spec == Init /\ [][Next]_vars
-----------------------------------------------------------------------------
SideType ==
  [counts : BOOLEAN,
   fifos  : [Devices -> SUBSET Channels], made   : SUBSET Devices,
   opened : [Devices -> 0..2],            failed : SUBSET Devices,
   format : [Devices -> Rates],           infos  : [Devices -> Rates \cup {None}],
   on     : [Channels -> Devices \cup {None}],
   owner  : SUBSET Channels,              told   : [Devices -> SUBSET Channels]]

Messages == [kind : {"rate"}, value : Rates] \cup [kind : {"device"}, value : Devices]

(* No device is open more than twice (an input can be, once for its FIFOs   *)
(* and once from a time it had none).                                       *)
TypeOK ==
  /\ out \in SideType /\ in \in SideType
  /\ alive \subseteq Channels /\ fresh \subseteq Channels
  /\ m_audioSampleRate \in [Channels -> Rates]
  /\ m_inputMessageQueue \in [Channels -> Seq(Messages)]
  /\ overtaken \subseteq Channels

(* The audio thread of a device goes through its FIFOs: each FIFO of a      *)
(* channel that exists is on exactly the device the manager has registered  *)
(* it with, and no device has a FIFO of a channel that was deleted, however *)
(* the channels come, go and change devices.                                *)
FifosWhereRegistered ==
  \A c \in Channels, d \in Devices :
    /\ c \in out.fifos[d] <=> c \in alive \cap Demods /\ out.on[c] = d
    /\ c \in in.fifos[d]  <=> c \in alive \cap Mods /\ in.on[c] = d

(* A device that has a FIFO is open, and with the rate the manager tells of *)
(* it, unless it could not be started the last time that was tried: setting *)
(* a device up, unsetting it, and other channels that leave it never close  *)
(* it or leave a rate that it does not have, and a start that failed is made*)
(* good by the next one that does not.                                      *)
OpenAtItsRate ==
  \A d \in Devices : \A side \in {out, in} :
    side.fifos[d] # {} /\ d \notin side.failed =>
      side.opened[d] > 0 /\ side.infos[d] = side.format[d]

(* A demodulator is listed with its output and with no other one, so that   *)
(* it is told of changes of that rate only.                                 *)
ListedWhereRegistered ==
  \A c \in alive \cap Demods, d \in Devices :
    c \in out.told[d] <=> out.on[c] = d

(* A demodulator that has handled its messages works at the rate set for    *)
(* its output (the one that is open, if it could be started), unless a      *)
(* change of the rate of the device it left was waiting behind the message  *)
(* that moved it: then it keeps that one.                                   *)
RateSettled ==
  \A c \in (alive \cap Demods) \ overtaken :
    m_inputMessageQueue[c] = << >> =>
      m_audioSampleRate[c] = out.infos[out.on[c]]

(* m_outputDeviceSinkMessageQueues are the "sink message queues attached to *)
(* device" (audiodevicemanager.h): none is that of a deleted channel, or of *)
(* a modulator, which has no output but an input.                           *)
ListedAreAttached ==
  \A d \in Devices : out.told[d] \subseteq {c \in alive : out.on[c] = d}
=============================================================================
