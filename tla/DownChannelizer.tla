--------------------------- MODULE DownChannelizer ---------------------------
(***************************************************************************)
(* The channelizer of a receive channel (sdrbase/dsp/downchannelizer.cpp): *)
(* a chain of half-band filters, each of which keeps half of the band that *)
(* comes in, as narrow as the channel asked for allows; what is left of    *)
(* the offset is for the demodulator to remove.                            *)
(*                                                                         *)
(* Two threads configure it: its own, when the channel asks for a rate and *)
(* an offset, and the engine's, which calls handleMessage() directly with  *)
(* each new rate of the source.  Only the chain is made with the mutex     *)
(* held; the two may be anywhere else in applyConfiguration() together.    *)
(*                                                                         *)
(* Frequencies are integers, in a unit that divides what filters halve.    *)
(***************************************************************************)
EXTENDS Integers, Sequences

CONSTANTS
  SampleRates, (* of the source                                            *)
  Widths,      (* of the bands: these rates, and what filters halve them to *)
  None

ASSUME WidthsAssumption ==
  /\ SampleRates \subseteq Widths
  /\ \A w \in Widths : w \in Nat \ {0} /\ w % 2 = 0

VARIABLES
  channelizer, (* its members: the rates and frequencies, m_filterStages   *)
  m_channelizerQueue,  (* its m_inputMessageQueue: DSPConfigureChannelizer *)
  m_inputMessageQueue, (* the demodulator's                                *)
  applying,    (* how far each thread is: "idle", "centre" (the requested  *)
               (* rate is written, the frequency not), or the next step of *)
               (* applyConfiguration(): "chain", "rate", "create", "push"  *)
  notif,       (* the MsgChannelizerNotification each has created, or None *)
  overlapped   (* history: one began while the other was busy, since one   *)
               (* began last when the other was not                        *)

channelizerVars == <<channelizer, m_channelizerQueue, applying, notif, overlapped>>

Appliers == {"channel", "engine"}
-----------------------------------------------------------------------------
Bands == [start : Int, end : Int]
Band(start, end) == [start |-> start, end |-> end]
Bandwidth(band)  == band.end - band.start
Centre(band)     == (band.start + band.end) \div 2
Around(centre, rate) == Band(centre - rate \div 2, centre + rate \div 2)

SignalContainsChannel(sig, chan) ==
  /\ sig.end > sig.start /\ chan.end > chan.start
  /\ sig.start <= chan.start /\ sig.end >= chan.end

Modes == {"LowerHalf", "UpperHalf", "Center"}

(* What a filter of each mode keeps of a band.                              *)
Half(mode, sig) ==
  LET width == Bandwidth(sig) \div 2
      start == CASE mode = "LowerHalf" -> sig.start
                 [] mode = "UpperHalf" -> sig.end - width
                 [] mode = "Center"    -> sig.start + Bandwidth(sig) \div 4
  IN Band(start, start + width)

Fits(mode, sig, chan) == SignalContainsChannel(Half(mode, sig), chan)

(* The order in which they are tried.                                       *)
FirstFit(sig, chan) ==
  IF Fits("LowerHalf", sig, chan) THEN "LowerHalf"
  ELSE IF Fits("UpperHalf", sig, chan) THEN "UpperHalf" ELSE "Center"

(* The filters from each band on, and what is left between the centres of   *)
(* the last and of the channel.                                             *)
FilterChain(chan) ==
  LET chain[sig \in Bands] ==
        IF \A mode \in Modes : ~Fits(mode, sig, chan)
        THEN [stages |-> << >>, ofs |-> Centre(chan) - Centre(sig)]
        ELSE LET first == FirstFit(sig, chan)
                 rest  == chain[Half(first, sig)]
             IN [stages |-> <<first>> \o rest.stages, ofs |-> rest.ofs]
  IN chain

CreateFilterChain(sig, chan) == FilterChain(chan)[sig]

(* A faulty form of Turn, for a mutant: the wrong way round.                *)
TurnAway == [LowerHalf |-> 1, UpperHalf |-> -1, Center |-> 0]

(* What the filters do to the samples: LowerHalf turns them by +1/4 of the  *)
(* rate, so that what was 1/4 below the centre comes to it, UpperHalf by    *)
(* -1/4, and each drops every other one.                                    *)
Turn == [LowerHalf |-> -1, UpperHalf |-> 1, Center |-> 0]

Passes(mode, pass) == [centre |-> pass.centre + Turn[mode] * (pass.rate \div 4),
                       rate   |-> pass.rate \div 2]

(* What comes out of the first of them, of the first two, ...               *)
PassBand(stages, rate) ==
  LET pass[n \in 0..Len(stages)] ==
        IF n = 0 THEN [centre |-> 0, rate |-> rate] ELSE Passes(stages[n], pass[n - 1])
  IN pass[Len(stages)]
-----------------------------------------------------------------------------
(* The members of a new one.                                                *)
Fresh == [inputSampleRate |-> 0, requestedOutputSampleRate |-> 0,
          requestedCenterFrequency |-> 0, currentOutputSampleRate |-> 0,
          currentCenterFrequency |-> 0, filterStages |-> << >>]

Requested(c) == Around(c.requestedCenterFrequency, c.requestedOutputSampleRate)

(* The part of applyConfiguration() that holds m_mutex.                     *)
Chained(c) ==
  LET chain == CreateFilterChain(Around(0, c.inputSampleRate), Requested(c))
  IN [c EXCEPT !.filterStages = chain.stages, !.currentCenterFrequency = chain.ofs]

(* 1 << n                                                                   *)
LeftShift[n \in Nat] == IF n = 0 THEN 1 ELSE 2 * LeftShift[n - 1]

WithRate(c, stages) ==
  [c EXCEPT !.currentOutputSampleRate = c.inputSampleRate \div LeftShift[stages]]

Notification(c) ==
  [type |-> "MsgChannelizerNotification", sampleRate |-> c.currentOutputSampleRate,
   frequencyOffset |-> c.currentCenterFrequency]

(* applyConfiguration() from start to end, when the other thread stands.    *)
Applied(c) == LET chained == Chained(c) IN WithRate(chained, Len(chained.filterStages))

Busy(t) == applying[t] # "idle"

Others(t) == Appliers \ {t}

At(t, step) == applying' = [applying EXCEPT ![t] = step]

Begins(t) == overlapped' = \E o \in Others(t) : Busy(o)
-----------------------------------------------------------------------------
(* A faulty form of HandleConfigure, for a mutant, that does what the TODO  *)
(* of handleMessage() says: "Change of center frequency has no impact".     *)
HandleConfigureOfRate ==
  /\ ~Busy("channel") /\ m_channelizerQueue # << >>
  /\ LET asked == Head(m_channelizerQueue)
         same  == asked.sampleRate = channelizer.requestedOutputSampleRate
     IN /\ channelizer' = [channelizer EXCEPT
                             !.requestedOutputSampleRate = asked.sampleRate,
                             !.requestedCenterFrequency = IF same THEN asked.centerFrequency ELSE @]
        /\ m_channelizerQueue' = IF same THEN Tail(m_channelizerQueue) ELSE m_channelizerQueue
        /\ At("channel", IF same THEN "idle" ELSE "centre")
  /\ Begins("channel") /\ UNCHANGED <<m_inputMessageQueue, notif>>

(* The channelizer's thread pops a DSPConfigureChannelizer and writes its   *)
(* rate, then its frequency.  Nobody else pops, so that the message stays   *)
(* at the head until both are written.                                      *)
HandleConfigure ==
  /\ ~Busy("channel") /\ m_channelizerQueue # << >>
  /\ channelizer' = [channelizer EXCEPT !.requestedOutputSampleRate =
                                           Head(m_channelizerQueue).sampleRate]
  /\ At("channel", "centre") /\ Begins("channel")
  /\ UNCHANGED <<m_channelizerQueue, m_inputMessageQueue, notif>>

RequestCentre ==
  /\ applying["channel"] = "centre"
  /\ channelizer' = [channelizer EXCEPT !.requestedCenterFrequency =
                                           Head(m_channelizerQueue).centerFrequency]
  /\ m_channelizerQueue' = Tail(m_channelizerQueue)
  /\ At("channel", IF channelizer.inputSampleRate = 0 THEN "idle" ELSE "chain")
  /\ UNCHANGED <<m_inputMessageQueue, notif, overlapped>>

(* The engine handles a DSPSignalNotification of the source.                *)
HandleSignal(rate) ==
  /\ ~Busy("engine")
  /\ channelizer' = [channelizer EXCEPT !.inputSampleRate = rate]
  /\ At("engine", "chain") /\ Begins("engine")
  /\ UNCHANGED <<m_channelizerQueue, m_inputMessageQueue, notif>>

MakeChain(t) ==
  /\ applying[t] = "chain"
  /\ channelizer' = Chained(channelizer)
  /\ At(t, "rate")
  /\ UNCHANGED <<m_channelizerQueue, m_inputMessageQueue, notif, overlapped>>

(* m_filterStages.size() without the mutex: while the other thread empties  *)
(* and fills the list, any length up to the one before or after.            *)
LengthsSeen(t) ==
  LET now == Len(channelizer.filterStages)
  IN {now} \cup UNION {0..n : n \in {m \in {now, Len(Chained(channelizer).filterStages)} :
                                       \E o \in Others(t) : applying[o] = "chain"}}

ComputeRate(t) ==
  /\ applying[t] = "rate"
  /\ \E stages \in LengthsSeen(t) : channelizer' = WithRate(channelizer, stages)
  /\ At(t, "create")
  /\ UNCHANGED <<m_channelizerQueue, m_inputMessageQueue, notif, overlapped>>

CreateNotification(t) ==
  /\ applying[t] = "create"
  /\ notif' = [notif EXCEPT ![t] = Notification(channelizer)]
  /\ At(t, "push")
  /\ UNCHANGED <<channelizer, m_channelizerQueue, m_inputMessageQueue, overlapped>>

(* The engine's copy of the DSPSignalNotification, which the demodulator    *)
(* does nothing with, is left out.                                          *)
PushNotification(t) ==
  /\ applying[t] = "push"
  /\ m_inputMessageQueue' = Append(m_inputMessageQueue, notif[t])
  /\ At(t, "idle") /\ notif' = [notif EXCEPT ![t] = None]
  /\ UNCHANGED <<channelizer, m_channelizerQueue, overlapped>>

ApplyStep(t) ==
  MakeChain(t) \/ ComputeRate(t) \/ CreateNotification(t) \/ PushNotification(t)

Standing == \A t \in Appliers : ~Busy(t)
=============================================================================
