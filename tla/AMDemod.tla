------------------------------ MODULE AMDemod ------------------------------
(***************************************************************************)
(* A receive channel (plugins/channelrx/demodam/amdemod.cpp) with its      *)
(* channelizer, on a server: requests of the web come on threads of the    *)
(* HTTP server, read m_settings there and leave messages; presets are      *)
(* loaded, and messages handled, on the main thread; audio devices change  *)
(* their rates; the engine and the channelizer's thread configure the      *)
(* channelizer.  Of the settings there are those that other parts must     *)
(* follow: the frequency offset and the audio device.                      *)
(***************************************************************************)
EXTENDS DownChannelizer, FiniteSets

CONSTANTS
  Offsets,       (* what m_inputFrequencyOffset may be, 0 among them       *)
  Devices,       (* audio outputs                                          *)
  DefaultDevice, (* the one of default settings                            *)
  AudioRates,    (* of their rates                                         *)
  DefaultRate,   (* of the channel's input, when it is new (48000)         *)
  Requests,      (* the requests of the web: which keys, and whether force *)
  Presets,       (* settings a preset may have                             *)
  MaxInputs      (* bound: requests, presets, starts and changes of rates  *)

ASSUME DefaultsAssumption ==
  /\ 0 \in Offsets /\ DefaultDevice \in Devices
  /\ DefaultRate \in Nat \ {0} /\ MaxInputs \in Nat
ASSUME OffsetsAssumption == Offsets \subseteq Int
ASSUME AudioRatesAssumption == \A r \in AudioRates : r \in Nat \ {0} /\ r % 2 = 0

(* The unit of frequency is such that a band is halved and quartered        *)
(* without a rest as long as the half is as wide as some channel.           *)
ASSUME UnitAssumption ==
  \A w \in Widths, a \in AudioRates : 2 * a <= w => w % 4 = 0 /\ w \div 2 \in Widths

(* No rate is so much less than another that as many filters as this one    *)
(* has would leave nothing of it.                                           *)
ASSUME RatesAssumption ==
  \A r, s \in SampleRates, a \in AudioRates : r < a * s

VARIABLES
  demod,    (* members: m_settings, the rates, the NCO, the interpolator   *)
  attached, (* the audio output that has m_audioFifo                       *)
  rateOf,   (* the rate of each output                                     *)
  running,  (* the engine is in StRunning: the channel's thread runs       *)
  request,  (* what webapiSettingsPutPatch() has in hand                   *)
  inputs,   (* how many of MaxInputs there were                            *)
  crossed   (* history: something was asked while an earlier one waited,   *)
            (* or offset and device in one, or by a preset                 *)

vars == <<channelizerVars, m_inputMessageQueue, demod, attached, rateOf, running,
          request, inputs, crossed>>

Settings == [m_inputFrequencyOffset : Offsets, m_audioDeviceName : Devices]
Keys == {"m_inputFrequencyOffset", "m_audioDeviceName"}

RequestType == [settings : Settings, keys : SUBSET Keys, force : BOOLEAN,
                next : {"MsgConfigureChannelizer", "MsgConfigureAMDemod"}]

ASSUME RequestsAssumption ==
  /\ Requests \subseteq [keys : SUBSET Keys, force : BOOLEAN]
  /\ Presets \subseteq Settings /\ None \notin RequestType

Defaults == [m_inputFrequencyOffset |-> 0, m_audioDeviceName |-> DefaultDevice]

MsgConfigureChannelizer(rate, offset) ==
  [type |-> "MsgConfigureChannelizer", sampleRate |-> rate, centerFrequency |-> offset]
MsgConfigureAMDemod(settings, force) ==
  [type |-> "MsgConfigureAMDemod", settings |-> settings, force |-> force]
DSPConfigureAudio(rate) == [type |-> "DSPConfigureAudio", sampleRate |-> rate]

(* applyChannelSettings(): the NCO moves the offset to the centre, and the  *)
(* interpolator takes samples from the first rate to the second.            *)
WithChannelSettings(d, rate, offset, force) ==
  [d EXCEPT !.nco = IF force \/ <<offset, rate>> # <<d.m_inputFrequencyOffset, d.m_inputSampleRate>>
                    THEN <<offset, rate>> ELSE @,
            !.interpolator = IF force \/ rate # d.m_inputSampleRate
                             THEN <<rate, d.m_audioSampleRate>> ELSE @,
            !.m_inputSampleRate = rate,
            !.m_inputFrequencyOffset = offset]

(* A faulty form of WithAudioSampleRate, for a mutant: the interpolator is  *)
(* made with the member, which is assigned only after.                      *)
WithAudioSampleRateLate(d, rate) ==
  [d EXCEPT !.interpolator = <<d.m_inputSampleRate, d.m_audioSampleRate>>,
            !.m_audioSampleRate = rate]

(* applyAudioSampleRate(), but for the message it leaves first.             *)
WithAudioSampleRate(d, rate) ==
  [d EXCEPT !.interpolator = <<d.m_inputSampleRate, rate>>, !.m_audioSampleRate = rate]

New(rate) == [m_settings |-> Defaults, m_inputSampleRate |-> DefaultRate,
              m_inputFrequencyOffset |-> 0, m_audioSampleRate |-> rate,
              nco |-> <<0, DefaultRate>>, interpolator |-> <<DefaultRate, rate>>]

(* The channel is added to an engine that has a rate, or not yet.           *)
Init ==
  /\ rateOf \in [Devices -> AudioRates]
  /\ demod = New(rateOf[DefaultDevice]) /\ attached = DefaultDevice
  /\ \E rate \in SampleRates \cup {0} :
       IF rate = 0
       THEN channelizer = Fresh /\ m_inputMessageQueue = << >> /\ running = FALSE
       ELSE /\ channelizer = Applied([Fresh EXCEPT !.inputSampleRate = rate])
            /\ m_inputMessageQueue = <<Notification(channelizer)>>
            /\ running \in BOOLEAN
  /\ m_channelizerQueue = << >> /\ overlapped = FALSE
  /\ applying = [t \in Appliers |-> "idle"] /\ notif = [t \in Appliers |-> None]
  /\ request = None /\ inputs = 0 /\ crossed = FALSE
-----------------------------------------------------------------------------
Message == Head(m_inputMessageQueue)
Receives(type) == m_inputMessageQueue # << >> /\ Message.type = type

demodUnchanged == UNCHANGED <<demod, attached, rateOf, running, request, inputs, crossed>>

(* The main thread handles the messages of the demodulator one by one.      *)
HandleNotification ==
  /\ Receives("MsgChannelizerNotification")
  /\ demod' = WithChannelSettings(demod, Message.sampleRate, Message.frequencyOffset, FALSE)
  /\ m_inputMessageQueue' = Tail(m_inputMessageQueue)
  /\ UNCHANGED <<channelizerVars, attached, rateOf, running, request, inputs, crossed>>

HandleConfigureChannelizer ==
  /\ Receives("MsgConfigureChannelizer")
  /\ m_channelizerQueue' = Append(m_channelizerQueue,
                             [sampleRate      |-> Message.sampleRate,
                              centerFrequency |-> Message.centerFrequency])
  /\ m_inputMessageQueue' = Tail(m_inputMessageQueue)
  /\ demodUnchanged /\ UNCHANGED <<channelizer, applying, notif, overlapped>>

(* A faulty form of AskForRate, for a mutant: the offset asked for is what  *)
(* the channelizer has left to the NCO.                                     *)
AskWithRest(queue, rate) ==
  Append(queue, MsgConfigureChannelizer(rate, demod.m_inputFrequencyOffset))

(* applyAudioSampleRate(): the channelizer is asked for the new rate, with  *)
(* the offset that m_settings has by then.                                  *)
AskForRate(queue, rate) ==
  Append(queue, MsgConfigureChannelizer(rate, demod.m_settings.m_inputFrequencyOffset))

HandleConfigureAudio ==
  /\ Receives("DSPConfigureAudio")
  /\ LET rate == Message.sampleRate
         rest == Tail(m_inputMessageQueue)
     IN IF rate = demod.m_audioSampleRate
        THEN m_inputMessageQueue' = rest /\ UNCHANGED demod
        ELSE /\ m_inputMessageQueue' = AskForRate(rest, rate)
             /\ demod' = WithAudioSampleRate(demod, rate)
  /\ UNCHANGED <<channelizerVars, attached, rateOf, running, request, inputs, crossed>>

(* applySettings()                                                          *)
HandleConfigureAMDemod ==
  /\ Receives("MsgConfigureAMDemod")
  /\ LET settings == Message.settings
         device   == settings.m_audioDeviceName
         moves    == Message.force \/ device # demod.m_settings.m_audioDeviceName
         retunes  == moves /\ rateOf[device] # demod.m_audioSampleRate
         forced   == IF Message.force
                     THEN WithAudioSampleRate(demod, demod.m_audioSampleRate) ELSE demod
         applied  == IF retunes THEN WithAudioSampleRate(forced, rateOf[device]) ELSE forced
         rest     == Tail(m_inputMessageQueue)
     IN /\ attached' = IF moves THEN device ELSE attached
        /\ m_inputMessageQueue' = IF retunes THEN AskForRate(rest, rateOf[device]) ELSE rest
        /\ demod' = [applied EXCEPT !.m_settings = settings]
  /\ UNCHANGED <<channelizerVars, rateOf, running, request, inputs, crossed>>

HandleMessage == HandleNotification \/ HandleConfigureChannelizer
                   \/ HandleConfigureAudio \/ HandleConfigureAMDemod
-----------------------------------------------------------------------------
(* Something asked for earlier is still on its way to m_settings or to the  *)
(* channelizer's queue.                                                     *)
Pending ==
  \/ request # None
  \/ \E i \in DOMAIN m_inputMessageQueue :
       m_inputMessageQueue[i].type # "MsgChannelizerNotification"

Asks(crossing) ==
  /\ inputs < MaxInputs /\ inputs' = inputs + 1
  /\ crossed' = (crossed \/ Pending \/ crossing)

(* m_settings as a thread of the HTTP server finds it: while the main       *)
(* thread assigns it, some members may be new already.                      *)
Seen == {s \in Settings :
          \A k \in Keys :
            \/ s[k] = demod.m_settings[k]
            \/ Receives("MsgConfigureAMDemod") /\ s[k] = Message.settings[k]}

(* webapiSettingsPutPatch() copies m_settings and changes what it is asked, *)
ReadSettings(keys, force) ==
  /\ request = None
  /\ \E seen \in Seen, given \in Settings :
       request' = [settings |-> [k \in Keys |-> IF k \in keys THEN given[k] ELSE seen[k]],
                   keys |-> keys, force |-> force, next |-> "MsgConfigureChannelizer"]
  /\ Asks(keys = Keys)
  /\ UNCHANGED <<channelizerVars, m_inputMessageQueue, demod, attached, rateOf, running>>

(* asks for the offset, if that is among the keys,                          *)
RequestOffset ==
  /\ request # None /\ request.next = "MsgConfigureChannelizer"
  /\ m_inputMessageQueue' =
       IF "m_inputFrequencyOffset" \in request.keys
       THEN Append(m_inputMessageQueue,
                   MsgConfigureChannelizer(demod.m_audioSampleRate,
                                           request.settings.m_inputFrequencyOffset))
       ELSE m_inputMessageQueue
  /\ request' = [request EXCEPT !.next = "MsgConfigureAMDemod"]
  /\ UNCHANGED <<channelizerVars, demod, attached, rateOf, running, inputs, crossed>>

(* and for the settings.                                                    *)
RequestSettings ==
  /\ request # None /\ request.next = "MsgConfigureAMDemod"
  /\ m_inputMessageQueue' = Append(m_inputMessageQueue,
                                   MsgConfigureAMDemod(request.settings, request.force))
  /\ request' = None
  /\ UNCHANGED <<channelizerVars, demod, attached, rateOf, running, inputs, crossed>>

(* DeviceSet::loadChannelSettings() calls deserialize() of the channel.     *)
LoadPreset(settings) ==
  /\ demod' = [demod EXCEPT !.m_settings = settings]
  /\ m_inputMessageQueue' = Append(m_inputMessageQueue, MsgConfigureAMDemod(settings, TRUE))
  /\ Asks(TRUE)
  /\ UNCHANGED <<channelizerVars, attached, rateOf, running, request>>

(* setOutputDeviceInfo() tells those attached of a new rate.                *)
SetOutputRate(device, rate) ==
  /\ rate # rateOf[device] /\ rateOf' = [rateOf EXCEPT ![device] = rate]
  /\ m_inputMessageQueue' = IF attached = device
                            THEN Append(m_inputMessageQueue, DSPConfigureAudio(rate))
                            ELSE m_inputMessageQueue
  /\ Asks(FALSE)
  /\ UNCHANGED <<channelizerVars, demod, attached, running, request>>

(* The main thread waits while the engine initialises, which tells the      *)
(* channelizer the rate of the source, and starts, unless the source fails: *)
(* the channel's thread first, the demodulator after it.                    *)
Start(rate, ok) ==
  /\ ~running /\ Standing
  /\ inputs < MaxInputs /\ inputs' = inputs + 1
  /\ channelizer' = Applied([channelizer EXCEPT !.inputSampleRate = rate])
  /\ m_inputMessageQueue' = Append(m_inputMessageQueue, Notification(channelizer'))
  /\ overlapped' = FALSE /\ running' = ok
  /\ demod' = IF ok THEN WithChannelSettings(demod, demod.m_inputSampleRate,
                                             demod.m_inputFrequencyOffset, TRUE)
              ELSE demod
  /\ UNCHANGED <<m_channelizerQueue, applying, notif, attached, rateOf, request, crossed>>

(* A faulty form of Stop, for a mutant: it does not wait for the thread.    *)
StopWithoutWait ==
  /\ running
  /\ running' = FALSE
  /\ UNCHANGED <<channelizerVars, m_inputMessageQueue, demod, attached, rateOf,
                 request, inputs, crossed>>

(* The main thread waits for the channel's to leave its event loop, after   *)
(* what it handles: messages it has not begun stay for the next start.  It  *)
(* does not wait for the engine's, which may be configuring the channelizer.*)
Stop ==
  /\ running /\ ~Busy("channel")
  /\ running' = FALSE
  /\ UNCHANGED <<channelizerVars, m_inputMessageQueue, demod, attached, rateOf,
                 request, inputs, crossed>>

(* The source tells the engine of another rate.                             *)
Retune(rate) ==
  /\ inputs < MaxInputs /\ inputs' = inputs + 1
  /\ HandleSignal(rate)
  /\ UNCHANGED <<demod, attached, rateOf, running, request, crossed>>

ChannelThread ==
  /\ \/ running /\ HandleConfigure
     \/ RequestCentre
     \/ ApplyStep("channel")
  /\ demodUnchanged

EngineThread == ApplyStep("engine") /\ demodUnchanged

HttpThread == RequestOffset \/ RequestSettings

Environment ==
  \/ \E r \in Requests : ReadSettings(r.keys, r.force)
  \/ \E s \in Presets : LoadPreset(s)
  \/ \E d \in Devices, rate \in AudioRates : SetOutputRate(d, rate)
  \/ \E rate \in SampleRates, ok \in BOOLEAN : Start(rate, ok)
  \/ \E rate \in SampleRates : Retune(rate)
  \/ Stop

Next == HandleMessage \/ ChannelThread \/ EngineThread \/ HttpThread \/ Environment

Spec == Init /\ [][Next]_vars
-----------------------------------------------------------------------------
(* The members have the types of the code, rates are never negative, and    *)
(* the thread of a channel that is stopped is not in a handler.             *)
TypeOK ==
  /\ demod.m_settings \in Settings /\ demod.m_audioSampleRate \in AudioRates
  /\ demod.m_inputSampleRate \in Nat \ {0} /\ demod.m_inputFrequencyOffset \in Int
  /\ attached \in Devices /\ rateOf \in [Devices -> AudioRates]
  /\ channelizer.inputSampleRate \in SampleRates \cup {0}
  /\ channelizer.requestedOutputSampleRate \in AudioRates \cup {0}
  /\ channelizer.requestedCenterFrequency \in Offsets
  /\ channelizer.filterStages \in Seq(Modes)
  /\ applying \in [Appliers -> {"idle", "centre", "chain", "rate", "create", "push"}]
  /\ inputs \in 0..MaxInputs
  /\ Busy("channel") => running

(* When neither thread configures the channelizer, its filters pass all of  *)
(* the channel asked for last, of the source's last rate, and no narrower   *)
(* band they could have chosen does; a channel that reaches out of what is  *)
(* received gets it whole.                                                  *)
ChainFits ==
  Standing /\ channelizer.inputSampleRate # 0 =>
    LET pass == PassBand(channelizer.filterStages, channelizer.inputSampleRate)
        band == Around(pass.centre, pass.rate)
        chan == Requested(channelizer)
    IN IF SignalContainsChannel(Around(0, channelizer.inputSampleRate), chan)
       THEN /\ SignalContainsChannel(band, chan)
            /\ \A mode \in Modes : ~Fits(mode, band, chan)
       ELSE channelizer.filterStages = << >>

(* Nothing is on its way to the channel or to its channelizer.              *)
Rest ==
  /\ Standing /\ m_channelizerQueue = << >>
  /\ m_inputMessageQueue = << >> /\ request = None

Settled == Rest /\ ~overlapped /\ ~crossed /\ channelizer.inputSampleRate # 0

(* What the filters shift and what the NCO of the demodulator removes are   *)
(* together the offset of m_settings, once all is handled, unless the two   *)
(* threads configured the channelizer together or requests crossed.         *)
ListensAtOffset ==
  Settled =>
    PassBand(channelizer.filterStages, channelizer.inputSampleRate).centre + demod.nco[1]
      = demod.m_settings.m_inputFrequencyOffset

(* In the same states the demodulator takes the samples from the rate that  *)
(* leaves the filters, for both the NCO and the interpolator, to the rate   *)
(* of the audio device of its settings, which has its FIFO.                 *)
Resampled ==
  Settled =>
    LET rate == PassBand(channelizer.filterStages, channelizer.inputSampleRate).rate
    IN /\ demod.nco[2] = rate
       /\ demod.interpolator = <<rate, rateOf[demod.m_settings.m_audioDeviceName]>>
       /\ attached = demod.m_settings.m_audioDeviceName

(* So once all is handled the channel is where its settings say, whatever   *)
(* came in between: requests, audio rates, rates of the source, stops and   *)
(* starts that fail.                                                        *)
FollowsSettings == ListensAtOffset /\ Resampled
=============================================================================
