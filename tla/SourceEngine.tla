---------------------------- MODULE SourceEngine ----------------------------
(***************************************************************************)
(* One receiving device set: the thread of its DSPDeviceSourceEngine       *)
(* (sdrbase/dsp/dspdevicesourceengine.cpp), and the main thread that       *)
(* commands it (sdrsrv/maincore.cpp, the handlers of the source and        *)
(* channel plugins; plugins/samplesource/testsource stands for the sources *)
(* that can record).  The engine                                           *)
(*   - takes events in order: dataReady() of the source's FIFO,            *)
(*     messageEnqueued() of its input queue, messageSent() of its          *)
(*     synchronous messenger;                                              *)
(*   - but leaves the running state on the main thread, which runs         *)
(*     stopAcquistion() itself, whatever the engine is doing meanwhile.    *)
(* A synchronous command is one step of the engine, during which the main  *)
(* thread waits: module SyncCall, which SyncMessenger implements.          *)
(* Corrections of the samples and the state of the sinks are left out.     *)
(***************************************************************************)
EXTENDS Naturals, Sequences

CONSTANTS
  Sources,      (* the sample sources there will ever be                    *)
  Channels,     (* the channels, each a sink on a thread of its own         *)
  None,         (* no source, no argument                                   *)
  MaxRate,      (* bound: the highest sample rate, in blocks per second     *)
  MaxData,      (* bound: data events queued at a time                      *)
  MaxMessages   (* bound: messages waiting in the input queue               *)

ASSUME SourcesAssumption == None \notin Sources /\ None \notin Channels
ASSUME RateAssumption == MaxRate \in Nat \ {0}
ASSUME QueuesAssumption == MaxData \in Nat /\ MaxMessages \in Nat \ {0}

VARIABLES
  m_state, m_deviceSampleSource, m_sampleRate,
  m_basebandSampleSinks, m_threadedBasebandSampleSinks,
  m_inputMessageQueue,  (* the sample rates of the DSPSignalNotifications   *)
  events,               (* what is queued for the engine's event loop       *)
  engine,               (* where the engine's thread is                     *)
  samplesDone,          (* of work()                                        *)
  todo,                 (* what the main thread has yet to do of the        *)
                        (* operation in progress                            *)
  sent,                 (* it has sent the first of these, and waits        *)
  running,              (* the sources and sinks started and not stopped    *)
  alive,                (* the objects constructed and not deleted          *)
  rate,                 (* the sample rate each source is set to            *)
  known                 (* the rate each sink was last notified of          *)

acquisition == <<m_state, m_deviceSampleSource, m_sampleRate,
                 m_basebandSampleSinks, m_threadedBasebandSampleSinks>>
objects == <<running, alive, rate, known>>
vars == <<acquisition, m_inputMessageQueue, events, engine, samplesDone,
          todo, sent, objects>>

Rates == 1..MaxRate
Record(s) == <<"record", s>>    (* the FileRecord of source s *)
Records == {Record(s) : s \in Sources}
(* Sources, their recorders and channels are told apart. *)
ASSUME KindsAssumption == /\ Sources \cap Channels = {}
                          /\ Records \cap (Sources \cup Channels \cup {None}) = {}
Sinks == m_basebandSampleSinks \cup m_threadedBasebandSampleSinks

Queued(event) == Len(SelectSeq(events, LAMBDA e : e = event))

Command(op, arg) == [op |-> op, arg |-> arg]
Synchronous == {"init", "start", "setSource", "addSink", "removeSink",
                "addThreadedSink", "removeThreadedSink"}
OnMainThread == {"gotoIdle", "stopSource", "setIdle", "new", "delete",
                 "freeChannels", "quit", "join"}

(* What the handlers of the main thread do, step by step. *)
ConstructSource(s) ==
  <<Command("new", s), Command("addSink", Record(s)), Command("setSource", s)>>
(* (DestroyEarly is a faulty form of DestroySource, for a mutant; the       *)
(* destructor of a source finds it stopped.)                                *)
DestroyEarly(s) ==
  <<Command("delete", s), Command("removeSink", Record(s))>>
DestroySource(s) ==
  <<Command("removeSink", Record(s)), Command("delete", s)>>
DestroyChannel(c) ==
  <<Command("removeThreadedSink", c), Command("delete", c)>>
StopAcquisition == <<Command("gotoIdle", None)>>

(* addSourceDevice() has started the engine and makes its first source. *)
Init ==
  /\ m_state = "StNotStarted" /\ m_deviceSampleSource = None
  /\ m_sampleRate = 0
  /\ m_basebandSampleSinks = {} /\ m_threadedBasebandSampleSinks = {}
  /\ m_inputMessageQueue = << >> /\ events = << >>
  /\ engine = "starting" /\ samplesDone = 0
  /\ \E s \in Sources : todo = ConstructSource(s)
  /\ sent = FALSE /\ running = {} /\ alive = {}
  /\ rate \in [Sources -> Rates]
  /\ known = [k \in Records \cup Channels |-> 0]
-----------------------------------------------------------------------------
(* The main thread handles a message, a request or a click. *)
AtRest == todo = << >> /\ m_deviceSampleSource \in alive

Undertake(commands) ==
  /\ AtRest
  /\ todo' = commands
  /\ UNCHANGED <<acquisition, m_inputMessageQueue, events, engine,
                 samplesDone, sent, running, rate, known>>

(* MsgStartStop of a source *)
StartRequest ==
  /\ Undertake(<<Command("init", None), Command("start", None)>>)
  /\ UNCHANGED alive

StopRequest == Undertake(StopAcquisition) /\ UNCHANGED alive

AddChannel(c) ==
  /\ c \notin alive
  /\ Undertake(<<Command("addThreadedSink", c)>>)
  /\ alive' = alive \cup {c}

RemoveChannel(c) ==
  /\ c \in alive
  /\ Undertake(DestroyChannel(c))
  /\ UNCHANGED alive

(* MainCore::changeSampleSource() *)
ChangeSampleSource(s) ==
  /\ s \notin alive
  /\ Undertake(StopAcquisition \o DestroySource(m_deviceSampleSource)
                 \o ConstructSource(s))
  /\ UNCHANGED alive

(* MainCore::removeLastDevice() *)
RemoveDevice ==
  /\ Undertake(StopAcquisition \o <<Command("freeChannels", None)>>
                 \o DestroySource(m_deviceSampleSource)
                 \o <<Command("quit", None), Command("join", None)>>)
  /\ UNCHANGED alive

(* applySettings() of the source tells its FileRecord, and then the engine, *)
(* of another sample rate.                                                  *)
ApplySettings(r) ==
  /\ AtRest /\ Queued("messages") < MaxMessages
  /\ r # rate[m_deviceSampleSource]
  /\ rate' = [rate EXCEPT ![m_deviceSampleSource] = r]
  /\ known' = [known EXCEPT ![Record(m_deviceSampleSource)] = r]
  /\ m_inputMessageQueue' = Append(m_inputMessageQueue, r)
  /\ events' = Append(events, "messages")
  /\ UNCHANGED <<acquisition, engine, samplesDone, todo, sent, running, alive>>

Operation ==
  \/ StartRequest \/ StopRequest \/ RemoveDevice
  \/ \E c \in Channels : AddChannel(c) \/ RemoveChannel(c)
  \/ \E s \in Sources : ChangeSampleSource(s)
  \/ \E r \in Rates : ApplySettings(r)
-----------------------------------------------------------------------------
(* The next step of the operation: sendWait() ...                           *)
SendWait ==
  /\ todo # << >> /\ Head(todo).op \in Synchronous /\ ~ sent
  /\ sent' = TRUE
  /\ events' = Append(events, "command")
  /\ UNCHANGED <<acquisition, m_inputMessageQueue, engine, samplesDone,
                 todo, objects>>

(* ... or something the main thread does itself. *)
Do(op, next) ==
  /\ todo # << >> /\ Head(todo).op = op
  /\ todo' = next \o Tail(todo)
  /\ UNCHANGED <<m_inputMessageQueue, events, engine, samplesDone, sent,
                 m_deviceSampleSource, m_basebandSampleSinks,
                 m_threadedBasebandSampleSinks, rate, known>>

(* gotoIdle() stops the sinks, ... *)
Stoppable == /\ m_state \in {"StReady", "StRunning"}
             /\ m_deviceSampleSource # None

GotoIdle ==
  /\ \/ /\ Stoppable
        /\ running' = running \ Sinks
        /\ Do("gotoIdle", <<Command("stopSource", None)>>)
        /\ UNCHANGED m_state
     \/ /\ ~ Stoppable
        /\ m_state' = IF m_state = "StNotStarted" THEN m_state ELSE "StIdle"
        /\ Do("gotoIdle", << >>)
        /\ UNCHANGED running
  /\ UNCHANGED <<m_sampleRate, alive>>

(* ... then the source, ... *)
StopSource ==
  /\ Do("stopSource", <<Command("setIdle", None)>>)
  /\ running' = running \ {m_deviceSampleSource}
  /\ m_sampleRate' = 0
  /\ UNCHANGED <<m_state, alive>>

(* ... and only then is the state set to what it returns. *)
SetIdle ==
  /\ Do("setIdle", << >>)
  /\ m_state' = "StIdle"
  /\ UNCHANGED <<m_sampleRate, running, alive>>

(* A source is made with its FileRecord and goes with it. *)
With(object) == {object} \cup {Record(s) : s \in {object} \cap Sources}

New ==
  /\ Do("new", << >>)
  /\ alive' = alive \cup With(Head(todo).arg)
  /\ UNCHANGED <<m_state, m_sampleRate, running>>

Delete ==
  /\ Do("delete", << >>)
  /\ alive' = alive \ With(Head(todo).arg)
  /\ UNCHANGED <<m_state, m_sampleRate, running>>

(* DeviceSet::freeRxChannels() *)
FreeChannels ==
  /\ \/ \E c \in Channels \cap alive :
          Do("freeChannels", Append(DestroyChannel(c), Head(todo)))
     \/ Channels \cap alive = {} /\ Do("freeChannels", << >>)
  /\ UNCHANGED <<m_state, m_sampleRate, running, alive>>

(* DSPDeviceSourceEngine::stop() finds nothing to stop and tells the event  *)
(* loop to exit; the destructor waits for the thread.                       *)
Quit ==
  /\ Do("quit", << >>)
  /\ m_state' = "StNotStarted"
  /\ UNCHANGED <<m_sampleRate, running, alive>>

Join ==
  /\ engine = "finished"
  /\ Do("join", << >>)
  /\ UNCHANGED <<m_state, m_sampleRate, running, alive>>

Continue == \/ SendWait \/ GotoIdle \/ StopSource \/ SetIdle
            \/ New \/ Delete \/ FreeChannels \/ Quit \/ Join
-----------------------------------------------------------------------------
(* The engine's thread starts, takes the next event, or exits. *)
EngineAt(from, to) == engine = from /\ engine' = to

Run ==
  /\ EngineAt("starting", "loop")
  /\ m_state' = "StIdle"
  /\ UNCHANGED <<m_deviceSampleSource, m_sampleRate, m_basebandSampleSinks,
                 m_threadedBasebandSampleSinks, m_inputMessageQueue, events,
                 samplesDone, todo, sent, objects>>

Exit ==
  /\ EngineAt("loop", "finished")
  /\ todo # << >> /\ Head(todo).op = "join"
  /\ UNCHANGED <<acquisition, m_inputMessageQueue, events, samplesDone,
                 todo, sent, objects>>

TakeEvent(event) ==
  /\ engine = "loop" /\ events # << >> /\ Head(events) = event
  /\ events' = Tail(events)

(* The thread of the source has written to its FIFO. *)
DataReady ==
  /\ m_deviceSampleSource \in running
  /\ Queued("data") < MaxData
  /\ events' = Append(events, "data")
  /\ UNCHANGED <<acquisition, m_inputMessageQueue, engine, samplesDone,
                 todo, sent, objects>>

(* handleData() looks at the state once ... *)
HandleData ==
  /\ TakeEvent("data")
  /\ engine' = IF m_state = "StRunning" THEN "work" ELSE "loop"
  /\ samplesDone' = 0
  /\ UNCHANGED <<acquisition, m_inputMessageQueue, todo, sent, objects>>

(* A faulty form of GoesOn, for a mutant: any number of samples. *)
GoesOnAndOn == m_inputMessageQueue = << >>

(* ... and work() goes on while the FIFO has samples, there is no message   *)
(* and it has not done the samples of a second.  The source may write at    *)
(* any time: whether the FIFO has samples is open.                          *)
GoesOn == m_inputMessageQueue = << >> /\ samplesDone < m_sampleRate

Work ==
  /\ engine = "work"
  /\ \E fill \in 0..1 :
       engine' = IF fill > 0 /\ GoesOn THEN "feed" ELSE "loop"
  /\ UNCHANGED <<acquisition, m_inputMessageQueue, events, samplesDone,
                 todo, sent, objects>>

(* All sinks are fed.  The count stops at MaxRate, which no rate exceeds.   *)
Feed ==
  /\ EngineAt("feed", "work")
  /\ samplesDone' = IF samplesDone < MaxRate THEN samplesDone + 1 ELSE samplesDone
  /\ UNCHANGED <<acquisition, m_inputMessageQueue, events, todo, sent, objects>>
-----------------------------------------------------------------------------
(* handleInputMessages() takes the messages one by one ... *)
TakeMessages ==
  /\ TakeEvent("messages")
  /\ engine' = "messages"
  /\ UNCHANGED <<acquisition, m_inputMessageQueue, samplesDone,
                 todo, sent, objects>>

(* ... and passes each new rate to the sinks and, through the source, to    *)
(* its GUI.                                                                 *)
Notify(sinks, r) ==
  known' = [k \in DOMAIN known |-> IF k \in sinks THEN r ELSE known[k]]

HandleMessage ==
  /\ EngineAt("messages", "messages")
  /\ m_inputMessageQueue # << >>
  /\ m_inputMessageQueue' = Tail(m_inputMessageQueue)
  /\ m_sampleRate' = Head(m_inputMessageQueue)
  /\ Notify(Sinks, Head(m_inputMessageQueue))
  /\ UNCHANGED <<m_state, m_deviceSampleSource, m_basebandSampleSinks,
                 m_threadedBasebandSampleSinks, events, samplesDone,
                 todo, sent, running, alive, rate>>

NoMoreMessages ==
  /\ EngineAt("messages", "loop")
  /\ m_inputMessageQueue = << >>
  /\ UNCHANGED <<acquisition, m_inputMessageQueue, events, samplesDone,
                 todo, sent, objects>>
-----------------------------------------------------------------------------
(* handleSynchronousMessages(), on the engine's thread: the main thread     *)
(* waits, and goes on with the rest of its operation.                       *)
Handling(op, newEvents) ==
  /\ engine = "loop" /\ events # << >> /\ Head(events) = "command"
  /\ todo # << >> /\ Head(todo).op = op
  /\ events' = Tail(events) \o newEvents
  /\ sent' = FALSE
  /\ UNCHANGED <<engine, samplesDone, alive, rate>>

Argument == Head(todo).arg
Done == todo' = Tail(todo)

(* Everything is stopped first, if need be.  Without a source the plugin   *)
(* does not go on to start it.                                              *)
InitAcquisition ==
  /\ Handling("init", << >>)
  /\ running' = IF Stoppable THEN running \ ({m_deviceSampleSource} \cup Sinks)
                             ELSE running
  /\ IF m_deviceSampleSource = None
       THEN /\ m_state' = "StError" /\ todo' = << >>
            /\ UNCHANGED <<m_sampleRate, known>>
       ELSE /\ m_state' = "StReady" /\ Done
            /\ m_sampleRate' = rate[m_deviceSampleSource]
            /\ Notify(Sinks, m_sampleRate')
  /\ UNCHANGED <<m_deviceSampleSource, m_basebandSampleSinks,
                 m_threadedBasebandSampleSinks, m_inputMessageQueue>>

(* gotoRunning(): the source applies its settings as it starts, which tells *)
(* the engine its rate; or it does not start.                               *)
StartAcquisition ==
  /\ m_state = "StReady" /\ Done
  /\ \/ /\ Handling("start", <<"messages">>)
        /\ m_state' = "StRunning"
        /\ running' = running \cup {m_deviceSampleSource} \cup Sinks
        /\ m_inputMessageQueue' =
             Append(m_inputMessageQueue, rate[m_deviceSampleSource])
     \/ /\ Handling("start", << >>)
        /\ m_state' = "StError"
        /\ UNCHANGED <<running, m_inputMessageQueue>>
  /\ UNCHANGED <<m_deviceSampleSource, m_sampleRate, m_basebandSampleSinks,
                 m_threadedBasebandSampleSinks, known>>

(* handleSetSource() ignores the state gotoIdle() returns. *)
SetSource ==
  /\ Handling("setSource", << >>) /\ Done
  /\ running' = IF Stoppable THEN running \ ({m_deviceSampleSource} \cup Sinks)
                             ELSE running
  /\ m_sampleRate' = IF Stoppable THEN 0 ELSE m_sampleRate
  /\ m_deviceSampleSource' = Argument
  /\ UNCHANGED <<m_state, m_basebandSampleSinks, m_inputMessageQueue,
                 m_threadedBasebandSampleSinks, known>>

(* Faulty forms of Joins, for mutants: the sink is not told the rate; it is *)
(* started whatever the state.                                              *)
JoinsUninformed(sink) ==
  /\ running' = running \cup (IF m_state = "StRunning" THEN {sink} ELSE {})
  /\ UNCHANGED known

JoinsRunning(sink) ==
  Notify({sink}, m_sampleRate) /\ running' = running \cup {sink}

(* A sink is told the rate when it comes, and runs if the others do. *)
Joins(sink) ==
  /\ Notify({sink}, m_sampleRate)
  /\ running' = running \cup (IF m_state = "StRunning" THEN {sink} ELSE {})

AddSink ==
  /\ Handling("addSink", << >>) /\ Done
  /\ m_basebandSampleSinks' = m_basebandSampleSinks \cup {Argument}
  /\ Joins(Argument)
  /\ UNCHANGED <<m_state, m_deviceSampleSource, m_sampleRate,
                 m_threadedBasebandSampleSinks, m_inputMessageQueue>>

(* A faulty form of AddThreadedSink, for a mutant: it is put with the sinks *)
(* of the main thread.                                                      *)
AddToBaseband ==
  /\ Handling("addThreadedSink", << >>) /\ Done
  /\ m_basebandSampleSinks' = m_basebandSampleSinks \cup {Argument}
  /\ Joins(Argument)
  /\ UNCHANGED <<m_state, m_deviceSampleSource, m_sampleRate,
                 m_threadedBasebandSampleSinks, m_inputMessageQueue>>

AddThreadedSink ==
  /\ Handling("addThreadedSink", << >>) /\ Done
  /\ m_threadedBasebandSampleSinks' =
       m_threadedBasebandSampleSinks \cup {Argument}
  /\ Joins(Argument)
  /\ UNCHANGED <<m_state, m_deviceSampleSource, m_sampleRate,
                 m_basebandSampleSinks, m_inputMessageQueue>>

RemoveSink ==
  /\ Handling("removeSink", << >>) /\ Done
  /\ m_basebandSampleSinks' = m_basebandSampleSinks \ {Argument}
  /\ running' = IF m_state = "StRunning" THEN running \ {Argument} ELSE running
  /\ UNCHANGED <<m_state, m_deviceSampleSource, m_sampleRate, known,
                 m_threadedBasebandSampleSinks, m_inputMessageQueue>>

RemoveThreadedSink ==
  /\ Handling("removeThreadedSink", << >>) /\ Done
  /\ m_threadedBasebandSampleSinks' =
       m_threadedBasebandSampleSinks \ {Argument}
  /\ running' = running \ {Argument}
  /\ UNCHANGED <<m_state, m_deviceSampleSource, m_sampleRate, known,
                 m_basebandSampleSinks, m_inputMessageQueue>>

HandleCommand == \/ InitAcquisition \/ StartAcquisition \/ SetSource
                 \/ AddSink \/ RemoveSink
                 \/ AddThreadedSink \/ RemoveThreadedSink

Engine == \/ Run \/ Exit \/ HandleData \/ Work \/ Feed
          \/ TakeMessages \/ HandleMessage \/ NoMoreMessages
          \/ HandleCommand

Next == Operation \/ Continue \/ DataReady \/ Engine

Spec == Init /\ [][Next]_vars

(* Both threads are scheduled.  No operation need be undertaken and no      *)
(* source need deliver samples.                                             *)
FairSpec == Spec /\ WF_vars(Continue) /\ WF_vars(Engine)
-----------------------------------------------------------------------------
Objects == Sources \cup Records \cup Channels

TypeOK ==
  /\ m_state \in {"StNotStarted", "StIdle", "StReady", "StRunning", "StError"}
  /\ m_deviceSampleSource \in Sources \cup {None}
  /\ m_sampleRate \in 0..MaxRate
  /\ m_basebandSampleSinks \subseteq Records
  /\ m_threadedBasebandSampleSinks \subseteq Channels
  /\ m_inputMessageQueue \in Seq(Rates)
  /\ events \in Seq({"data", "messages", "command"})
  /\ engine \in {"starting", "loop", "work", "feed", "messages", "finished"}
  /\ samplesDone \in 0..MaxRate
  /\ todo \in Seq([op : Synchronous \cup OnMainThread,
                   arg : Objects \cup {None}])
  /\ sent \in BOOLEAN
  /\ running \subseteq Objects /\ alive \subseteq Objects
  /\ rate \in [Sources -> Rates]
  /\ known \in [Records \cup Channels -> 0..MaxRate]

(* While the main thread is not in the middle of stopping them, either the  *)
(* source and all sinks run and the state says so, or nothing runs; through *)
(* failed starts, sinks that come and go, and changes of the source.        *)
MidStop == todo # << >> /\ Head(todo).op \in {"stopSource", "setIdle"}

AllOrNothing ==
  ~ MidStop =>
    running = IF m_state = "StRunning" THEN {m_deviceSampleSource} \cup Sinks
                                       ELSE {}

(* The engine's thread goes through its source and sinks in work() and      *)
(* handleInputMessages(), where the main thread does not wait for it: it    *)
(* finds none of them deleted.                                              *)
UsesLiveObjects ==
  engine \in {"work", "feed"} \/ (engine = "messages" /\ m_inputMessageQueue # << >>)
    => {m_deviceSampleSource} \cup Sinks \subseteq alive

(* When no message is left and an acquisition is on, the engine and every   *)
(* sink have the rate the source is set to, although some of them are told  *)
(* by the main thread and some by the engine, in their own time.            *)
RateSettled ==
  /\ m_state \in {"StReady", "StRunning"} /\ ~ MidStop
  /\ m_inputMessageQueue = << >> /\ engine # "messages"
  => /\ m_sampleRate = rate[m_deviceSampleSource]
     /\ \A k \in Sinks : known[k] = m_sampleRate

(* Every operation of the main thread comes to its end: a source that       *)
(* always has samples does not keep the engine from a command.              *)
OperationsEnd == todo # << >> ~> todo = << >>
=============================================================================
