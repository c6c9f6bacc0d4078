----------------------------- MODULE SinkEngine -----------------------------
(***************************************************************************)
(* One transmitting device set: the thread of its DSPDeviceSinkEngine      *)
(* (sdrbase/dsp/dspdevicesinkengine.cpp), the main thread that commands it *)
(* (sdrsrv/maincore.cpp), the thread of the device, and the thread of each *)
(* channel (BasebandSampleSource in a ThreadedBasebandSampleSource).       *)
(* The device reads its FIFO, whose dataWrite() asks for as many samples:  *)
(*   - a single channel is connected to it and writes to it itself;        *)
(*   - of several channels, the engine is connected to it: work() reads    *)
(*     the FIFO of each channel, whose dataWrite() the channel answers,    *)
(*     and writes the sum to the FIFO of the device.                       *)
(* checkNumberOfBasebandSources() goes from one way to the other, while    *)
(* the requests made the other way are still queued.  Nobody waits for an  *)
(* answer: the FIFO of a channel starts half full, and is counted here in  *)
(* requests.  The level of the device's FIFO, rates and the spectrum are   *)
(* left out.  A synchronous command is one step of the engine (SyncCall),  *)
(* or two if it changes the wiring, which the device reads through.        *)
(***************************************************************************)
EXTENDS Integers, Sequences, FiniteSets

CONSTANTS
  Sinks,          (* the places in memory of the device sinks              *)
  Channels,       (* the channels, each a source on a thread of its own    *)
  None,           (* no sink, no FIFO, no argument                         *)
  Size,           (* of the FIFO of a channel, in requests                 *)
  MaxRequests,    (* bound: requests queued at a time for any thread       *)
  MaxConnections  (* bound: connections of the engine that are counted     *)

ASSUME SinksAssumption == /\ None \notin Sinks /\ None \notin Channels
                          /\ Sinks \cap Channels = {}
ASSUME SizeAssumption == Size \in Nat /\ Size >= 2 /\ Size % 2 = 0
ASSUME BoundsAssumption == /\ MaxRequests \in Nat \ {0}
                           /\ MaxConnections \in Nat \ {0}

VARIABLES
  m_state, m_deviceSampleSink, m_threadedBasebandSampleSources,
  connections,         (* of the FIFO of each sink to handleData()         *)
  m_deviceSampleFifo,  (* of each channel, named by its sink               *)
  connected,           (* the channels connected to that FIFO              *)
  ahead,               (* of each channel's FIFO: how far the write index  *)
                       (* is ahead of the read index                       *)
  events,              (* what is queued for the engine's event loop       *)
  requests,            (* what is queued for the event loop of a channel   *)
  engine,              (* where the engine's thread is                     *)
  unread,              (* the channels work() has yet to read              *)
  todo, sent,          (* what the main thread has yet to do, as in        *)
                       (* SourceEngine                                     *)
  running,             (* the sink and channels started and not stopped    *)
  alive,               (* the objects constructed and not deleted          *)
  crashed              (* a pointer to nothing has been followed           *)

generation == <<m_state, m_deviceSampleSink, m_threadedBasebandSampleSources>>
wiring == <<connections, m_deviceSampleFifo, connected>>
queues == <<ahead, events, requests>>
main == <<todo, sent>>
objects == <<running, alive>>
vars == <<generation, wiring, queues, engine, unread, main, objects, crashed>>

Half == Size \div 2
Queued(event) == Len(SelectSeq(events, LAMBDA e : e = event))

Command(op, arg) == [op |-> op, arg |-> arg]
Synchronous == {"init", "start", "setSink",
                "addThreadedSource", "removeThreadedSource"}
OnMainThread == {"gotoIdle", "stopSink", "setIdle", "new", "delete",
                 "freeChannels", "quit", "join"}

(* What the handlers of the main thread do, step by step. *)
ConstructSink(k) == <<Command("new", k), Command("setSink", k)>>
(* (A faulty form of DestroyChannel, for a mutant.) *)
DestroyChannelEarly(c) ==
  <<Command("delete", c), Command("removeThreadedSource", c)>>
DestroyChannel(c) ==
  <<Command("removeThreadedSource", c), Command("delete", c)>>
StopGeneration == <<Command("gotoIdle", None)>>

(* addSinkDevice() has started the engine and makes its first sink. *)
Init ==
  /\ m_state = "StNotStarted" /\ m_deviceSampleSink = None
  /\ m_threadedBasebandSampleSources = {}
  /\ connections = [k \in Sinks |-> 0]
  /\ m_deviceSampleFifo = [c \in Channels |-> None] /\ connected = {}
  /\ ahead = [c \in Channels |-> Half]
  /\ events = << >> /\ requests = [c \in Channels |-> << >>]
  /\ engine = "starting" /\ unread = {}
  /\ \E k \in Sinks : todo = ConstructSink(k)
  /\ sent = FALSE /\ running = {} /\ alive = {} /\ crashed = FALSE
-----------------------------------------------------------------------------
(* The main thread handles a message, a request or a click. *)
Undertake(commands) ==
  /\ todo = << >> /\ m_deviceSampleSink \in alive
  /\ todo' = commands
  /\ UNCHANGED <<generation, wiring, queues, engine, unread, sent, running,
                 crashed>>

(* MsgStartStop of a sink *)
StartRequest ==
  /\ Undertake(<<Command("init", None), Command("start", None)>>)
  /\ UNCHANGED alive

StopRequest == Undertake(StopGeneration) /\ UNCHANGED alive

AddChannel(c) ==
  /\ c \notin alive
  /\ Undertake(<<Command("addThreadedSource", c)>>)
  /\ alive' = alive \cup {c}

RemoveChannel(c) ==
  /\ c \in alive
  /\ Undertake(DestroyChannel(c))
  /\ UNCHANGED alive

(* MainCore::changeSampleSink(): unlike a source, the old sink is deleted   *)
(* without a command to the engine.                                         *)
ChangeSampleSink(k) ==
  /\ k \notin alive
  /\ Undertake(StopGeneration \o <<Command("delete", m_deviceSampleSink)>>
                 \o ConstructSink(k))
  /\ UNCHANGED alive

(* MainCore::removeLastDevice() *)
RemoveDevice ==
  /\ Undertake(StopGeneration
                 \o <<Command("freeChannels", None),
                      Command("delete", m_deviceSampleSink),
                      Command("quit", None), Command("join", None)>>)
  /\ UNCHANGED alive

Operation ==
  \/ StartRequest \/ StopRequest \/ RemoveDevice
  \/ \E c \in Channels : AddChannel(c) \/ RemoveChannel(c)
  \/ \E k \in Sinks : ChangeSampleSink(k)
-----------------------------------------------------------------------------
(* The next step of the operation: sendWait() ...                           *)
SendWait ==
  /\ todo # << >> /\ Head(todo).op \in Synchronous /\ ~ sent
  /\ sent' = TRUE
  /\ events' = Append(events, "command")
  /\ UNCHANGED <<generation, wiring, ahead, requests, engine, unread, todo,
                 objects, crashed>>

(* ... or something the main thread does itself. *)
Do(op, next) ==
  /\ todo # << >> /\ Head(todo).op = op
  /\ todo' = next \o Tail(todo)
  /\ UNCHANGED <<m_deviceSampleSink, m_threadedBasebandSampleSources, events,
                 engine, unread, sent, crashed>>

Unwired == UNCHANGED <<wiring, ahead, requests>>

(* gotoIdle() stops the channels and waits for their threads, which leave   *)
(* what is queued for them, ...                                             *)
Stoppable == m_state \in {"StReady", "StRunning"} /\ m_deviceSampleSink # None

GotoIdle ==
  /\ \/ /\ Stoppable
        /\ running' = running \ m_threadedBasebandSampleSources
        /\ Do("gotoIdle", <<Command("stopSink", None)>>)
        /\ UNCHANGED m_state
     \/ /\ ~ Stoppable
        /\ m_state' = IF m_state = "StNotStarted" THEN m_state ELSE "StIdle"
        /\ Do("gotoIdle", << >>)
        /\ UNCHANGED running
  /\ Unwired /\ UNCHANGED alive

(* ... then the sink, ... *)
StopSink ==
  /\ Do("stopSink", <<Command("setIdle", None)>>)
  /\ running' = running \ {m_deviceSampleSink}
  /\ Unwired /\ UNCHANGED <<m_state, alive>>

(* ... and only then is the state set to what it returns. *)
SetIdle ==
  /\ Do("setIdle", << >>)
  /\ m_state' = "StIdle"
  /\ Unwired /\ UNCHANGED objects

New ==
  /\ Do("new", << >>)
  /\ alive' = alive \cup {Head(todo).arg}
  /\ Unwired /\ UNCHANGED <<m_state, running>>

(* An object goes with its connections and what is queued for it, but not   *)
(* with the pointers to it.  A channel is next made with a new FIFO.        *)
Delete ==
  /\ Do("delete", << >>)
  /\ LET object == Head(todo).arg IN
       /\ alive' = alive \ {object}
       /\ running' = running \ {object}
       /\ connections' = [k \in Sinks |-> IF k = object THEN 0
                                                        ELSE connections[k]]
       /\ connected' =
            {c \in connected : object \notin {c, m_deviceSampleFifo[c]}}
       /\ m_deviceSampleFifo' = [c \in Channels |->
            IF c = object THEN None ELSE m_deviceSampleFifo[c]]
       /\ requests' = [c \in Channels |->
            IF c = object THEN << >> ELSE requests[c]]
       /\ ahead' = [c \in Channels |-> IF c = object THEN Half ELSE ahead[c]]
  /\ UNCHANGED m_state

(* DeviceSet::freeTxChannels() *)
FreeChannels ==
  /\ \/ \E c \in Channels \cap alive :
          Do("freeChannels", Append(DestroyChannel(c), Head(todo)))
     \/ Channels \cap alive = {} /\ Do("freeChannels", << >>)
  /\ Unwired /\ UNCHANGED <<m_state, objects>>

(* DSPDeviceSinkEngine::stop() finds nothing to stop and tells the event    *)
(* loop to exit; the destructor waits for the thread.                       *)
Quit ==
  /\ Do("quit", << >>)
  /\ m_state' = "StNotStarted"
  /\ Unwired /\ UNCHANGED objects

Join ==
  /\ engine = "finished"
  /\ Do("join", << >>)
  /\ Unwired /\ UNCHANGED <<m_state, objects>>

Continue == \/ SendWait \/ GotoIdle \/ StopSink \/ SetIdle
            \/ New \/ Delete \/ FreeChannels \/ Quit \/ Join
-----------------------------------------------------------------------------
(* The thread of the device reads its FIFO: dataWrite() is queued once for  *)
(* every connection.                                                        *)
Room(c) == Len(requests[c]) + Queued("data")
             + (IF c \in unread THEN 1 ELSE 0) < MaxRequests

Read ==
  /\ m_deviceSampleSink \in running
  /\ Queued("data") < MaxRequests /\ \A c \in Channels : Room(c)
  /\ events' = events \o [i \in 1..connections[m_deviceSampleSink] |-> "data"]
  /\ requests' = [c \in Channels |->
       IF c \in connected /\ m_deviceSampleFifo[c] = m_deviceSampleSink
         THEN Append(requests[c], "device") ELSE requests[c]]
  /\ UNCHANGED <<generation, wiring, ahead, engine, unread, main, objects,
                 crashed>>

(* The thread of a channel takes the next request ... *)
TakeRequest(c, request) ==
  /\ c \in running /\ requests[c] # << >> /\ Head(requests[c]) = request
  /\ requests' = [requests EXCEPT ![c] = Tail(@)]
  /\ UNCHANGED <<generation, wiring, events, engine, unread, main, objects>>

(* ... and writes to its own FIFO, ... *)
WriteOwn(c) == ahead' = [ahead EXCEPT ![c] = (@ + 1) % Size]

HandleWriteToFifo(c) ==
  /\ TakeRequest(c, "own")
  /\ WriteOwn(c)
  /\ UNCHANGED crashed

(* (A faulty form of HandleWriteToDeviceFifo, for a mutant: without the     *)
(* FIFO of the device, the channel writes to its own.)                      *)
WriteSomewhere(c) ==
  /\ TakeRequest(c, "device")
  /\ IF m_deviceSampleFifo[c] = None THEN WriteOwn(c) ELSE UNCHANGED ahead
  /\ UNCHANGED crashed

(* ... or to that of the device, if it still has it.  What happens through  *)
(* a pointer to a deleted one is open.                                      *)
Outcomes(fifo) == IF fifo \in alive THEN {FALSE}
                  ELSE IF fifo = None THEN {TRUE} ELSE BOOLEAN

HandleWriteToDeviceFifo(c) ==
  /\ TakeRequest(c, "device")
  /\ crashed' \in Outcomes(m_deviceSampleFifo[c])
  /\ UNCHANGED ahead

Channel(c) == HandleWriteToFifo(c) \/ HandleWriteToDeviceFifo(c)
-----------------------------------------------------------------------------
(* The engine's thread starts, takes the next event, or exits. *)
EngineAt(from, to) == engine = from /\ engine' = to

Run ==
  /\ EngineAt("starting", "loop")
  /\ m_state' = "StIdle"
  /\ UNCHANGED <<m_deviceSampleSink, m_threadedBasebandSampleSources, wiring,
                 queues, unread, main, objects, crashed>>

Exit ==
  /\ EngineAt("loop", "finished")
  /\ todo # << >> /\ Head(todo).op = "join"
  /\ UNCHANGED <<generation, wiring, queues, unread, main, objects, crashed>>

(* handleData() looks at the state once, and work() at the number of        *)
(* channels; ...                                                            *)
HandleData ==
  /\ engine = "loop" /\ events # << >> /\ Head(events) = "data"
  /\ events' = Tail(events)
  /\ LET sources == m_threadedBasebandSampleSources
     IN IF m_state = "StRunning" /\ Cardinality(sources) > 1
          THEN engine' = "work" /\ unread' = sources
          ELSE UNCHANGED <<engine, unread>>
  /\ UNCHANGED <<generation, wiring, ahead, requests, main, objects, crashed>>

(* (A faulty form of ReadAdvance, for a mutant: an index that does not      *)
(* wrap.)                                                                   *)
AdvanceWithoutWrap(c) ==
  /\ engine = "work" /\ c \in unread /\ unread' = unread \ {c}
  /\ requests' = [requests EXCEPT ![c] = Append(@, "own")]
  /\ ahead' = [ahead EXCEPT ![c] = @ - 1]
  /\ UNCHANGED <<generation, wiring, events, engine, main, objects, crashed>>

(* ... it reads the FIFO of each of them, ... *)
ReadAdvance(c) ==
  /\ engine = "work" /\ c \in unread /\ unread' = unread \ {c}
  /\ requests' = [requests EXCEPT ![c] = Append(@, "own")]
  /\ ahead' = [ahead EXCEPT ![c] = (@ - 1) % Size]
  /\ UNCHANGED <<generation, wiring, events, engine, main, objects, crashed>>

(* ... and writes the sum to the FIFO of the device. *)
Merge ==
  /\ unread = {} /\ EngineAt("work", "loop")
  /\ crashed' \in Outcomes(m_deviceSampleSink)
  /\ UNCHANGED <<generation, wiring, queues, unread, main, objects>>
-----------------------------------------------------------------------------
(* handleSynchronousMessages(), on the engine's thread: the main thread     *)
(* waits, and goes on with the rest of its operation.                       *)
Handling(op) ==
  /\ engine = "loop" /\ events # << >> /\ Head(events) = "command"
  /\ todo # << >> /\ Head(todo).op = op
  /\ events' = Tail(events)
  /\ sent' = FALSE
  /\ UNCHANGED <<ahead, requests, engine, unread, alive, crashed>>

Argument == Head(todo).arg
Done == todo' = Tail(todo)
Stopped == IF Stoppable
             THEN running \ ({m_deviceSampleSink} \cup m_threadedBasebandSampleSources)
             ELSE running

(* Everything is stopped first, if need be.  Without a sink the plugin does *)
(* not go on to start it.                                                   *)
InitGeneration ==
  /\ Handling("init")
  /\ running' = Stopped
  /\ IF m_deviceSampleSink = None
       THEN m_state' = "StError" /\ todo' = << >>
       ELSE m_state' = "StReady" /\ Done
  /\ UNCHANGED <<wiring, m_deviceSampleSink, m_threadedBasebandSampleSources>>

(* gotoRunning(): the sink may not start. *)
StartGeneration ==
  /\ Handling("start") /\ Done /\ m_state = "StReady"
  /\ \/ /\ m_state' = "StRunning"
        /\ running' = running \cup {m_deviceSampleSink}
                              \cup m_threadedBasebandSampleSources
     \/ m_state' = "StError" /\ UNCHANGED running
  /\ UNCHANGED <<wiring, m_deviceSampleSink, m_threadedBasebandSampleSources>>

(* handleSetSink() leaves the wiring of the channels as it is. *)
SetSink ==
  /\ Handling("setSink") /\ Done
  /\ running' = Stopped
  /\ m_deviceSampleSink' = Argument
  /\ UNCHANGED <<m_state, wiring, m_threadedBasebandSampleSources>>

(* BasebandSampleSource::setDeviceSampleSourceFifo() of all the channels:   *)
(* one that has this FIFO already, or one at the same place, is left alone. *)
SetDeviceSampleSourceFifo(sources, fifo) ==
  LET others == {c \in sources : m_deviceSampleFifo[c] # fifo}
  IN /\ m_deviceSampleFifo' = [c \in Channels |->
          IF c \in sources THEN fifo ELSE m_deviceSampleFifo[c]]
     /\ connected' = IF fifo = None THEN connected \ others
                                    ELSE connected \cup others

Connections(n) == connections' = [connections EXCEPT ![m_deviceSampleSink] = n]

(* (A faulty form of Disconnect, for a mutant: the engine stays connected.) *)
DisconnectChannels(sources) ==
  /\ IF Cardinality(sources) = 1
       THEN UNCHANGED <<m_deviceSampleFifo, connected>>
       ELSE SetDeviceSampleSourceFifo(sources, None)
  /\ UNCHANGED connections

(* checkNumberOfBasebandSources() is two steps, as reads of the device come *)
(* in between: first it takes away the connections of the other way, ...    *)
Disconnect(sources) ==
  IF Cardinality(sources) = 1
    THEN Connections(0) /\ UNCHANGED <<m_deviceSampleFifo, connected>>
    ELSE SetDeviceSampleSourceFifo(sources, None) /\ UNCHANGED connections

(* ... then connect() adds one, whatever there is.  They are counted up to  *)
(* MaxConnections.                                                          *)
Connect(sources) ==
  IF Cardinality(sources) = 1
    THEN /\ SetDeviceSampleSourceFifo(sources, m_deviceSampleSink)
         /\ UNCHANGED connections
    ELSE /\ IF sources # {} /\ connections[m_deviceSampleSink] < MaxConnections
              THEN Connections(connections[m_deviceSampleSink] + 1)
              ELSE UNCHANGED connections
         /\ UNCHANGED <<m_deviceSampleFifo, connected>>

(* The engine takes the command, and has yet to connect and to answer: the  *)
(* main thread waits on.                                                    *)
Taking(op, sources) ==
  /\ EngineAt("loop", "connect") /\ events # << >> /\ Head(events) = "command"
  /\ todo # << >> /\ Head(todo).op = op
  /\ events' = Tail(events)
  /\ m_threadedBasebandSampleSources' = sources
  /\ Disconnect(sources)
  /\ UNCHANGED <<m_state, m_deviceSampleSink, ahead, requests, unread, main,
                 alive, crashed>>

AddThreadedSource ==
  /\ Taking("addThreadedSource", m_threadedBasebandSampleSources \cup {Argument})
  /\ UNCHANGED running

(* The channel that goes is stopped before, ... *)
RemoveThreadedSource ==
  /\ Taking("removeThreadedSource", m_threadedBasebandSampleSources \ {Argument})
  /\ running' = IF m_state = "StRunning" THEN running \ {Argument} ELSE running

(* ... and one that comes is started at the end. *)
Connecting ==
  /\ EngineAt("connect", "loop") /\ Done /\ sent' = FALSE
  /\ Connect(m_threadedBasebandSampleSources)
  /\ UNCHANGED <<generation, queues, unread, alive, crashed>>

(* (A faulty form of ConnectSources, for a mutant: the channel is not       *)
(* started with the others.)                                                *)
ConnectWithoutStart == Connecting /\ UNCHANGED running

ConnectSources ==
  /\ Connecting
  /\ running' = running \cup
       (IF Head(todo).op = "addThreadedSource" /\ m_state = "StRunning"
          THEN {Argument} ELSE {})

HandleCommand == \/ InitGeneration \/ StartGeneration \/ SetSink
                 \/ AddThreadedSource \/ RemoveThreadedSource \/ ConnectSources

Engine == \/ Run \/ Exit \/ HandleData \/ Merge \/ HandleCommand
          \/ \E c \in Channels : ReadAdvance(c)

(* Nothing happens after a crash. *)
Next == ~ crashed /\ (\/ Operation \/ Continue \/ Read \/ Engine
                      \/ \E c \in Channels : Channel(c))

Spec == Init /\ [][Next]_vars
-----------------------------------------------------------------------------
Objects == Sinks \cup Channels

TypeOK ==
  /\ m_state \in {"StNotStarted", "StIdle", "StReady", "StRunning", "StError"}
  /\ m_deviceSampleSink \in Sinks \cup {None}
  /\ m_threadedBasebandSampleSources \subseteq Channels
  /\ connections \in [Sinks -> 0..MaxConnections]
  /\ m_deviceSampleFifo \in [Channels -> Sinks \cup {None}]
  /\ connected \subseteq Channels
  /\ ahead \in [Channels -> 0..(Size - 1)]
  /\ events \in Seq({"data", "command"})
  /\ requests \in [Channels -> Seq({"device", "own"})]
  /\ engine \in {"starting", "loop", "work", "connect", "finished"}
  /\ unread \subseteq Channels
  /\ todo \in Seq([op : Synchronous \cup OnMainThread,
                   arg : Objects \cup {None}])
  /\ sent \in BOOLEAN /\ crashed \in BOOLEAN
  /\ running \subseteq Objects /\ alive \subseteq Objects

(* While the main thread is not in the middle of stopping them, nor the     *)
(* engine in that of a channel that comes or goes, either the sink and all  *)
(* channels run and the state says so, or nothing runs.                     *)
MidStop == todo # << >> /\ Head(todo).op \in {"stopSink", "setIdle"}

AllOrNothing ==
  ~ MidStop /\ engine # "connect" =>
    running = IF m_state = "StRunning"
                THEN {m_deviceSampleSink} \cup m_threadedBasebandSampleSources
                ELSE {}

(* The engine's thread goes through the channels in work() while the main   *)
(* thread does not wait for it: it finds none of them deleted.  (Nothing of *)
(* the kind protects the sink, which ChangeSampleSink deletes.)             *)
UsesLiveChannels ==
  engine = "work" => m_threadedBasebandSampleSources \subseteq alive

(* The FIFO of a channel is half full but for the requests queued: through  *)
(* stops and starts, with requests left in the queue of a stopped thread,   *)
(* and from one channel to several and back, the channel answers every read *)
(* of the engine once and nothing else.                                     *)
OwnRequests(c) == {i \in DOMAIN requests[c] : requests[c][i] = "own"}

OwnFifosBalanced ==
  \A c \in Channels : (ahead[c] + Cardinality(OwnRequests(c))) % Size = Half

(* A read of the device's FIFO is answered by the engine or by a channel,   *)
(* never by both, and by a channel only if it is the only one: however      *)
(* channels come and go, also between the disconnections and connections of *)
(* checkNumberOfBasebandSources(), and across changes of the sink.          *)
NeverBothWays ==
  LET sources == m_threadedBasebandSampleSources
  IN /\ \A c \in connected \cap sources : sources = {c}
     /\ \A k \in alive \cap {m_deviceSampleSink} :
          connections[k] > 0 => Cardinality(sources) > 1

(* handleData() is there to "handle data when samples have to be written to *)
(* the sample FIFO", m_deviceSampleFifo is the "reference to the device     *)
(* FIFO for single channel processing" (dspdevicesinkengine.h,              *)
(* basebandsamplesource.h): when no operation is in progress, a read of the *)
(* FIFO of the sink in use is answered by one of the two, and once.         *)
AnsweredOnce ==
  LET k == m_deviceSampleSink
      answering == {c \in m_threadedBasebandSampleSources \cap connected :
                      m_deviceSampleFifo[c] = k}
  IN todo = << >> /\ k \in alive /\ m_threadedBasebandSampleSources # {}
       => connections[k] + Cardinality(answering) = 1
=============================================================================
