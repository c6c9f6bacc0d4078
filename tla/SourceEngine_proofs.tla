------------------------ MODULE SourceEngine_proofs ------------------------
(***************************************************************************)
(* The proofs about the receiving engine, for any sources, channels and    *)
(* rates.  First: a receiving device runs as a whole or not at all,        *)
(* AllOrNothing of SourceEngine.                                           *)
(*                                                                         *)
(* The invariant is about the rest of the operation of the main thread:    *)
(* what was begun to be stopped is only at its head; an operation that     *)
(* replaces the source or ends the engine does not start one, and has      *)
(* stopped it when it comes to that.                                       *)
(***************************************************************************)
EXTENDS SourceEngine, TLAPS

Argumented(c) ==
  /\ c.op \in {"new", "delete"} => c.arg \in Sources \cup Channels
  /\ c.op = "setSource" => c.arg \in Sources
  /\ c.op \in {"addSink", "removeSink"} => c.arg \in Records
  /\ c.op \in {"addThreadedSink", "removeThreadedSink"} => c.arg \in Channels

Commands ==
  {c \in [op : Synchronous \cup OnMainThread, arg : Objects \cup {None}] :
     Argumented(c)}

Mid     == {"stopSource", "setIdle"}
Steady  == {c \in Commands : c.op \notin Mid}
Leaves  == {c \in Commands : c.op \notin {"init", "start"}}
Stays   == {c \in Commands :
              /\ c.op \notin {"removeSink", "setSource", "quit"}
              /\ c.op = "delete" => c.arg \in Channels}

(* Commands that may be done in any operation. *)
Harmless == Steady \cap Leaves \cap Stays

Operations ==
  /\ todo \in Seq(Commands)
  /\ todo # << >> => Tail(todo) \in Seq(Steady)
  /\ todo \in Seq(Leaves) \/ todo \in Seq(Stays)

Stopped ==
  \/ todo \in Seq(Stays)
  \/ Head(todo).op \in {"gotoIdle", "stopSource", "setIdle"}
  \/ m_state \notin {"StReady", "StRunning"}

Objective ==
  /\ m_deviceSampleSource \in Sources \cup {None}
  /\ m_basebandSampleSinks \subseteq Records
  /\ m_threadedBasebandSampleSinks \subseteq Channels
  /\ m_state \in {"StReady", "StRunning"} => m_deviceSampleSource # None
  /\ engine = "starting" => m_state # "StRunning"
  /\ alive \subseteq Objects

Halfway ==
  todo # << >> =>
    /\ Head(todo).op = "stopSource" => running \subseteq {m_deviceSampleSource}
    /\ Head(todo).op = "setIdle" => running = {}

Inv == Operations /\ Stopped /\ Objective /\ Halfway /\ AllOrNothing

LEMMA Kinds ==
  /\ None \notin Sources /\ None \notin Channels /\ None \notin Records
  /\ Sources \cap Channels = {} /\ Records \cap Sources = {}
  /\ Records \cap Channels = {}
  BY SourcesAssumption, KindsAssumption

LEMMA SeqHead ==
  ASSUME NEW S, NEW q \in Seq(S), q # << >>
  PROVE  Head(q) \in S /\ Tail(q) \in Seq(S)
  OBVIOUS

LEMMA SeqConcat ==
  ASSUME NEW S, NEW p \in Seq(S), NEW q \in Seq(S)
  PROVE  /\ p \o q \in Seq(S)
         /\ p # << >> => Head(p \o q) = Head(p) /\ Tail(p \o q) = Tail(p) \o q
         /\ p = << >> => p \o q = q
  OBVIOUS

LEMMA Parts ==
  /\ Steady \subseteq Commands /\ Leaves \subseteq Commands
  /\ Stays \subseteq Commands
  /\ Harmless \subseteq Steady /\ Harmless \subseteq Leaves
  /\ Harmless \subseteq Stays
  BY DEF Steady, Leaves, Stays, Harmless

LEMMA SeqSub ==
  ASSUME NEW S, NEW T, S \subseteq T, NEW q \in Seq(S)
  PROVE  q \in Seq(T)
  OBVIOUS

(* What is left of an operation after its head, with what is put before.    *)
LEMMA Continued ==
  ASSUME Operations, todo # << >>, NEW next \in Seq(Harmless)
  PROVE  LET q == next \o Tail(todo)
         IN /\ q \in Seq(Steady) /\ q \in Seq(Commands)
            /\ q # << >> => Tail(q) \in Seq(Steady) /\ Head(q) \in Steady
            /\ q \in Seq(Leaves) \/ q \in Seq(Stays)
            /\ todo \in Seq(Stays) => q \in Seq(Stays)
            /\ todo \in Seq(Leaves) => q \in Seq(Leaves)
<1> DEFINE q == next \o Tail(todo)
<1>1. Tail(todo) \in Seq(Steady) /\ Tail(todo) \in Seq(Commands)
  BY SeqHead DEF Operations
<1>2. /\ next \in Seq(Steady) /\ next \in Seq(Leaves) /\ next \in Seq(Stays)
  BY SeqSub, Parts
<1>3. q \in Seq(Steady)
  BY <1>1, <1>2, SeqConcat
<1>4. q \in Seq(Commands)
  BY <1>3, SeqSub, Parts
<1>5. todo \in Seq(Stays) => q \in Seq(Stays)
  BY <1>2, SeqHead, SeqConcat
<1>6. todo \in Seq(Leaves) => q \in Seq(Leaves)
  BY <1>2, SeqHead, SeqConcat
<1>7. q # << >> => Tail(q) \in Seq(Steady) /\ Head(q) \in Steady
  BY <1>3, SeqHead
<1> QED BY <1>3, <1>4, <1>5, <1>6, <1>7 DEF Operations
-----------------------------------------------------------------------------
(* The commands of the program are of these kinds.                          *)
LEMMA OfSource ==
  ASSUME NEW s \in Sources
  PROVE  /\ Command("new", s) \in Harmless
         /\ Command("addSink", Record(s)) \in Harmless
         /\ Command("delete", s) \in Steady \cap Leaves
         /\ Command("removeSink", Record(s)) \in Steady \cap Leaves
         /\ Command("setSource", s) \in Steady \cap Leaves
<1>1. Record(s) \in Records
  BY DEF Records
<1>2. s \in Objects /\ Record(s) \in Objects
  BY <1>1 DEF Objects
<1> QED BY <1>1, <1>2
    DEF Command, Harmless, Steady, Leaves, Stays, Mid, Commands, Argumented,
        Synchronous, OnMainThread

LEMMA OfChannel ==
  ASSUME NEW c \in Channels
  PROVE  /\ Command("addThreadedSink", c) \in Harmless
         /\ Command("removeThreadedSink", c) \in Harmless
         /\ Command("delete", c) \in Harmless
<1>1. c \in Objects
  BY DEF Objects
<1> QED BY <1>1
    DEF Command, Harmless, Steady, Leaves, Stays, Mid, Commands, Argumented,
        Synchronous, OnMainThread

LEMMA OfNone ==
  /\ Command("gotoIdle", None) \in Harmless
  /\ Command("freeChannels", None) \in Harmless
  /\ Command("join", None) \in Harmless
  /\ Command("init", None) \in Steady \cap Stays
  /\ Command("start", None) \in Steady \cap Stays
  /\ Command("quit", None) \in Steady \cap Leaves
  /\ Command("stopSource", None) \in Commands \cap Leaves \cap Stays
  /\ Command("setIdle", None) \in Commands \cap Leaves \cap Stays
  BY DEF Command, Harmless, Steady, Leaves, Stays, Mid, Commands, Argumented,
         Synchronous, OnMainThread

LEMMA Heads ==
  ASSUME NEW c \in Steady
  PROVE  c.op \notin Mid
  BY DEF Steady

(* An operation that the main thread undertakes.                            *)
LEMMA Undertaken ==
  ASSUME Inv, NEW commands \in Seq(Steady), Undertake(commands),
         alive' \subseteq Objects,
         \/ commands \in Seq(Stays)
         \/ commands # << >> /\ Head(commands).op = "gotoIdle" /\ commands \in Seq(Leaves)
  PROVE  Inv'
<1>1. /\ todo = << >> /\ todo' = commands
      /\ UNCHANGED <<m_state, m_deviceSampleSource, m_basebandSampleSinks,
                     m_threadedBasebandSampleSinks, engine, running>>
  BY DEF Undertake, AtRest, acquisition
<1>2. commands # << >> => Head(commands) \in Steady /\ Tail(commands) \in Seq(Steady)
  BY SeqHead
<1>3. Operations'
  BY <1>1, <1>2, SeqSub, Parts DEF Operations
<1>4. Stopped'
  BY <1>1 DEF Stopped
<1>5. Objective'
  BY <1>1 DEF Inv, Objective
<1>6. ~MidStop /\ ~MidStop'
  BY <1>1, <1>2, Heads DEF MidStop, Mid
<1>7. Halfway'
  BY <1>6 DEF Halfway, MidStop
<1>8. AllOrNothing'
  BY <1>1, <1>6 DEF Inv, AllOrNothing, Sinks
<1> QED BY <1>3, <1>4, <1>5, <1>7, <1>8 DEF Inv

LEMMA SourceAtRest ==
  ASSUME Inv, AtRest
  PROVE  m_deviceSampleSource \in Sources
  BY Kinds DEF Inv, Objective, AtRest, Objects

LEMMA SourceDestroyed ==
  ASSUME NEW s \in Sources
  PROVE  DestroySource(s) \in Seq(Steady) /\ DestroySource(s) \in Seq(Leaves)
  BY OfSource, Parts DEF DestroySource

LEMMA SourceConstructed ==
  ASSUME NEW s \in Sources
  PROVE  ConstructSource(s) \in Seq(Steady) /\ ConstructSource(s) \in Seq(Leaves)
  BY OfSource, Parts DEF ConstructSource

LEMMA ChannelDestroyed ==
  ASSUME NEW c \in Channels
  PROVE  DestroyChannel(c) \in Seq(Harmless)
  BY OfChannel DEF DestroyChannel

LEMMA OperationKeeps ==
  ASSUME Inv, Operation
  PROVE  Inv'
<1>0. alive \subseteq Objects
  BY DEF Inv, Objective
<1>1. CASE StartRequest
  <2> DEFINE commands == <<Command("init", None), Command("start", None)>>
  <2>1. commands \in Seq(Steady) /\ commands \in Seq(Stays)
    BY OfNone, Parts
  <2>2. Undertake(commands) /\ alive' = alive
    BY <1>1 DEF StartRequest
  <2> QED BY <1>0, <2>1, <2>2, Undertaken
<1>2. CASE StopRequest
  <2>1. StopAcquisition \in Seq(Steady) /\ StopAcquisition \in Seq(Stays)
    BY OfNone, Parts DEF StopAcquisition
  <2>2. Undertake(StopAcquisition) /\ alive' = alive
    BY <1>2 DEF StopRequest
  <2> QED BY <1>0, <2>1, <2>2, Undertaken
<1>3. CASE RemoveDevice
  <2> DEFINE s == m_deviceSampleSource
             free == <<Command("freeChannels", None)>>
             ends == <<Command("quit", None), Command("join", None)>>
             commands == StopAcquisition \o free \o DestroySource(s) \o ends
  <2>1. Undertake(commands) /\ alive' = alive /\ s \in Sources
    BY <1>3, SourceAtRest DEF RemoveDevice, Undertake
  <2>2. /\ StopAcquisition \in Seq(Steady) /\ StopAcquisition \in Seq(Leaves)
        /\ StopAcquisition # << >> /\ Head(StopAcquisition).op = "gotoIdle"
    BY OfNone, Parts DEF StopAcquisition, Command
  <2>3. free \in Seq(Steady) /\ free \in Seq(Leaves)
        /\ ends \in Seq(Steady) /\ ends \in Seq(Leaves)
    BY OfNone, Parts
  <2>4. DestroySource(s) \in Seq(Steady) /\ DestroySource(s) \in Seq(Leaves)
    BY <2>1, SourceDestroyed
  <2> HIDE DEF free, ends, s
  <2>5. /\ commands \in Seq(Steady) /\ commands \in Seq(Leaves)
        /\ commands # << >> /\ Head(commands).op = "gotoIdle"
    BY <2>2, <2>3, <2>4
  <2> QED BY <1>0, <2>1, <2>5, Undertaken
<1>4. ASSUME NEW c \in Channels, AddChannel(c) PROVE Inv'
  <2> DEFINE commands == <<Command("addThreadedSink", c)>>
  <2>1. commands \in Seq(Steady) /\ commands \in Seq(Stays)
    BY OfChannel, Parts
  <2>2. Undertake(commands) /\ alive' \subseteq Objects
    BY <1>0, <1>4 DEF AddChannel, Objects
  <2> QED BY <2>1, <2>2, Undertaken
<1>5. ASSUME NEW c \in Channels, RemoveChannel(c) PROVE Inv'
  <2>1. DestroyChannel(c) \in Seq(Steady) /\ DestroyChannel(c) \in Seq(Stays)
    BY ChannelDestroyed, SeqSub, Parts
  <2>2. Undertake(DestroyChannel(c)) /\ alive' = alive
    BY <1>5 DEF RemoveChannel
  <2> QED BY <1>0, <2>1, <2>2, Undertaken
<1>6. ASSUME NEW s \in Sources, ChangeSampleSource(s) PROVE Inv'
  <2> DEFINE old == m_deviceSampleSource
             commands == StopAcquisition \o DestroySource(old) \o ConstructSource(s)
  <2>1. Undertake(commands) /\ alive' = alive /\ old \in Sources
    BY <1>6, SourceAtRest DEF ChangeSampleSource, Undertake
  <2>2. /\ StopAcquisition \in Seq(Steady) /\ StopAcquisition \in Seq(Leaves)
        /\ StopAcquisition # << >> /\ Head(StopAcquisition).op = "gotoIdle"
    BY OfNone, Parts DEF StopAcquisition, Command
  <2>3. /\ DestroySource(old) \in Seq(Steady) /\ DestroySource(old) \in Seq(Leaves)
        /\ ConstructSource(s) \in Seq(Steady) /\ ConstructSource(s) \in Seq(Leaves)
    BY <2>1, SourceDestroyed, SourceConstructed
  <2> HIDE DEF old
  <2>4. /\ commands \in Seq(Steady) /\ commands \in Seq(Leaves)
        /\ commands # << >> /\ Head(commands).op = "gotoIdle"
    BY <2>2, <2>3
  <2> QED BY <1>0, <2>1, <2>4, Undertaken
<1>7. ASSUME NEW r \in Rates, ApplySettings(r) PROVE Inv'
  BY <1>7 DEF ApplySettings, acquisition, Inv, Operations, Stopped, Objective,
              Halfway, AllOrNothing, MidStop, Sinks
<1> QED BY <1>1, <1>2, <1>3, <1>4, <1>5, <1>6, <1>7 DEF Operation
-----------------------------------------------------------------------------
(* The main thread or the engine comes to the end of a command, and other   *)
(* commands may take its place.                                             *)
LEMMA Advance ==
  ASSUME Inv, todo # << >>, NEW next \in Seq(Harmless),
         todo' = next \o Tail(todo),
         \/ todo \in Seq(Stays)
         \/ m_state' \notin {"StReady", "StRunning"}
         \/ /\ m_state' = m_state
            /\ Head(todo).op \notin {"gotoIdle", "stopSource", "setIdle"}
  PROVE  Operations' /\ Stopped' /\ Halfway' /\ ~MidStop'
<1> DEFINE q == next \o Tail(todo)
<1>1. /\ q \in Seq(Steady) /\ q \in Seq(Commands)
      /\ q # << >> => Tail(q) \in Seq(Steady) /\ Head(q) \in Steady
      /\ q \in Seq(Leaves) \/ q \in Seq(Stays)
      /\ todo \in Seq(Stays) => q \in Seq(Stays)
  BY Continued DEF Inv
<1>2. todo' = q
  OBVIOUS
<1> HIDE DEF q
<1>3. Operations'
  BY <1>1, <1>2 DEF Operations
<1>4. Stopped'
  BY <1>1, <1>2 DEF Inv, Stopped
<1>5. ~MidStop'
  BY <1>1, <1>2, Heads DEF MidStop, Mid
<1> QED BY <1>3, <1>4, <1>5 DEF Halfway, MidStop

(* The main thread is in the middle of stopping.                            *)
LEMMA Begun ==
  ASSUME Inv, todo # << >>, NEW c \in Commands \cap Leaves \cap Stays,
         c.op \in Mid, todo' = <<c>> \o Tail(todo)
  PROVE  Operations' /\ Stopped' /\ todo' # << >> /\ Head(todo') = c
<1> DEFINE rest == Tail(todo)
<1>1. rest \in Seq(Steady)
  BY DEF Inv, Operations
<1>2. rest \in Seq(Leaves) \/ rest \in Seq(Stays)
  BY SeqHead DEF Inv, Operations
<1>3. rest \in Seq(Commands)
  BY <1>1, SeqSub, Parts
<1>4. todo' = <<c>> \o rest
  OBVIOUS
<1>5. <<c>> \in Seq(Commands) /\ <<c>> \in Seq(Leaves) /\ <<c>> \in Seq(Stays)
  OBVIOUS
<1> HIDE DEF rest
<1>6. todo' # << >> /\ Head(todo') = c /\ Tail(todo') = rest
  BY <1>3, <1>4
<1>7. todo' \in Seq(Commands) /\ (todo' \in Seq(Leaves) \/ todo' \in Seq(Stays))
  <2>1. <<c>> \o rest \in Seq(Commands)
    BY <1>3, <1>5, SeqConcat
  <2>2. rest \in Seq(Leaves) => <<c>> \o rest \in Seq(Leaves)
    BY <1>5, SeqConcat
  <2>3. rest \in Seq(Stays) => <<c>> \o rest \in Seq(Stays)
    BY <1>5, SeqConcat
  <2> QED BY <1>2, <1>4, <2>1, <2>2, <2>3
<1>8. Operations'
  BY <1>1, <1>6, <1>7 DEF Operations
<1>9. Stopped'
  BY <1>6 DEF Stopped, Mid
<1> QED BY <1>6, <1>8, <1>9

LEMMA Ended ==
  ASSUME Operations, todo # << >>
  PROVE  /\ << >> \in Seq(Harmless) /\ Tail(todo) = << >> \o Tail(todo)
         /\ Head(todo) \in Commands
<1>1. Tail(todo) \in Seq(Commands) /\ Head(todo) \in Commands
  BY SeqHead DEF Operations
<1> QED BY <1>1, SeqConcat

(* A command that only operations without a start, or without a change of   *)
(* source, hold.                                                            *)
LEMMA Settled ==
  ASSUME Inv, todo # << >>
  PROVE  /\ Head(todo).op \in {"init", "start"} => todo \in Seq(Stays)
         /\ \/ Head(todo).op \in {"removeSink", "setSource", "quit"}
            \/ Head(todo).op = "delete" /\ Head(todo).arg \in Sources
            => m_state \notin {"StReady", "StRunning"} /\ todo \in Seq(Leaves)
<1>1. todo \in Seq(Leaves) => Head(todo).op \notin {"init", "start"}
  BY SeqHead DEF Leaves
<1>2. todo \in Seq(Stays) =>
        /\ Head(todo).op \notin {"removeSink", "setSource", "quit"}
        /\ ~(Head(todo).op = "delete" /\ Head(todo).arg \in Sources)
  <2> SUFFICES ASSUME todo \in Seq(Stays)
               PROVE  /\ Head(todo).op \notin {"removeSink", "setSource", "quit"}
                      /\ Head(todo).op = "delete" => Head(todo).arg \notin Sources
    OBVIOUS
  <2>1. Head(todo) \in Stays
    BY SeqHead
  <2>2. /\ Head(todo).op \notin {"removeSink", "setSource", "quit"}
        /\ Head(todo).op = "delete" => Head(todo).arg \in Channels
    BY <2>1 DEF Stays
  <2>3. Head(todo).arg \in Channels => Head(todo).arg \notin Sources
    BY Kinds
  <2> QED BY <2>2, <2>3
<1> QED BY <1>1, <1>2 DEF Inv, Operations, Stopped

(* Without a source nothing runs.                                           *)
LEMMA NotStoppable ==
  ASSUME Inv, ~MidStop
  PROVE  /\ ~Stoppable => m_state # "StRunning"
         /\ m_state # "StRunning" => running = {}
         /\ running \ ({m_deviceSampleSource} \cup Sinks) = {}
  BY DEF Inv, Objective, AllOrNothing, Stoppable

LEMMA SendWaitKeeps ==
  ASSUME Inv, SendWait
  PROVE  Inv'
  BY DEF SendWait, acquisition, objects, Inv, Operations, Stopped, Objective,
         Halfway, AllOrNothing, MidStop, Sinks

LEMMA GotoIdleKeeps ==
  ASSUME Inv, GotoIdle
  PROVE  Inv'
<1>1. /\ todo # << >> /\ Head(todo).op = "gotoIdle"
      /\ UNCHANGED <<engine, m_deviceSampleSource, m_basebandSampleSinks,
                     m_threadedBasebandSampleSinks, alive>>
  BY DEF GotoIdle, Do
<1>2. ~MidStop
  BY <1>1 DEF MidStop
<1>3. CASE Stoppable
  <2> DEFINE c == Command("stopSource", None)
  <2>1. /\ running' = running \ Sinks /\ m_state' = m_state
        /\ todo' = <<c>> \o Tail(todo)
    BY <1>3 DEF GotoIdle, Do
  <2>2. c \in Commands \cap Leaves \cap Stays /\ c.op \in Mid /\ c.op = "stopSource"
    BY OfNone DEF Command, Mid
  <2> HIDE DEF c
  <2>3. Operations' /\ Stopped' /\ todo' # << >> /\ Head(todo') = c
    BY <1>1, <2>1, <2>2, Begun
  <2>4. running' \subseteq {m_deviceSampleSource'}
    BY <1>1, <1>2, <2>1, NotStoppable
  <2>5. MidStop' /\ Halfway'
    BY <2>2, <2>3, <2>4 DEF MidStop, Halfway
  <2>6. Objective'
    BY <1>1, <2>1 DEF Inv, Objective
  <2> QED BY <2>3, <2>5, <2>6 DEF Inv, AllOrNothing
<1>4. CASE ~Stoppable
  <2>1. /\ m_state' \in {"StNotStarted", "StIdle"} /\ running' = running
        /\ todo' = << >> \o Tail(todo)
    BY <1>4 DEF GotoIdle, Do
  <2>2. << >> \in Seq(Harmless)
    OBVIOUS
  <2>3. Operations' /\ Stopped' /\ Halfway' /\ ~MidStop'
    BY <1>1, <2>1, <2>2, Advance
  <2>4. AllOrNothing'
    BY <1>2, <1>4, <2>1, NotStoppable DEF AllOrNothing
  <2>5. Objective'
    BY <1>1, <2>1 DEF Inv, Objective
  <2> QED BY <2>3, <2>4, <2>5 DEF Inv
<1> QED BY <1>3, <1>4

LEMMA StopSourceKeeps ==
  ASSUME Inv, StopSource
  PROVE  Inv'
<1> DEFINE c == Command("setIdle", None)
<1>1. /\ todo # << >> /\ Head(todo).op = "stopSource"
      /\ todo' = <<c>> \o Tail(todo)
      /\ running' = running \ {m_deviceSampleSource}
      /\ UNCHANGED <<m_state, engine, m_deviceSampleSource, m_basebandSampleSinks,
                     m_threadedBasebandSampleSinks, alive>>
  BY DEF StopSource, Do
<1>2. c \in Commands \cap Leaves \cap Stays /\ c.op \in Mid /\ c.op = "setIdle"
  BY OfNone DEF Command, Mid
<1> HIDE DEF c
<1>3. Operations' /\ Stopped' /\ todo' # << >> /\ Head(todo') = c
  BY <1>1, <1>2, Begun
<1>4. running' = {}
  BY <1>1 DEF Inv, Halfway
<1>5. MidStop' /\ Halfway'
  BY <1>2, <1>3, <1>4 DEF MidStop, Halfway
<1>6. Objective'
  BY <1>1 DEF Inv, Objective
<1> QED BY <1>3, <1>5, <1>6 DEF Inv, AllOrNothing

LEMMA SetIdleKeeps ==
  ASSUME Inv, SetIdle
  PROVE  Inv'
<1>1. /\ todo # << >> /\ Head(todo).op = "setIdle"
      /\ todo' = << >> \o Tail(todo) /\ m_state' = "StIdle"
      /\ UNCHANGED <<running, engine, m_deviceSampleSource, m_basebandSampleSinks,
                     m_threadedBasebandSampleSinks, alive>>
  BY DEF SetIdle, Do
<1>2. << >> \in Seq(Harmless)
  OBVIOUS
<1>3. Operations' /\ Stopped' /\ Halfway' /\ ~MidStop'
  BY <1>1, <1>2, Advance
<1>4. running' = {}
  BY <1>1 DEF Inv, Halfway
<1>5. AllOrNothing' /\ Objective'
  BY <1>1, <1>4 DEF Inv, Objective, AllOrNothing
<1> QED BY <1>3, <1>5 DEF Inv

(* A step of the main thread that stops nothing.                            *)
LEMMA Elsewhere ==
  ASSUME Inv, todo # << >>, NEW next \in Seq(Harmless),
         todo' = next \o Tail(todo), alive' \subseteq Objects,
         Head(todo).op \notin {"gotoIdle", "stopSource", "setIdle"},
         UNCHANGED <<m_state, running, engine, m_deviceSampleSource,
                     m_basebandSampleSinks, m_threadedBasebandSampleSinks>>
  PROVE  Inv'
<1>1. Operations' /\ Stopped' /\ Halfway' /\ ~MidStop'
  BY Advance
<1>2. ~MidStop
  BY DEF MidStop
<1>3. AllOrNothing' /\ Objective'
  BY <1>1, <1>2 DEF Inv, Objective, AllOrNothing, Sinks
<1> QED BY <1>1, <1>3 DEF Inv

LEMMA ContinueKeeps ==
  ASSUME Inv, Continue
  PROVE  Inv'
<1>0. alive \subseteq Objects /\ << >> \in Seq(Harmless)
  BY DEF Inv, Objective
<1>1. CASE SendWait \/ GotoIdle \/ StopSource \/ SetIdle
  BY <1>1, SendWaitKeeps, GotoIdleKeeps, StopSourceKeeps, SetIdleKeeps
<1>2. CASE New
  <2>1. /\ todo # << >> /\ Head(todo).op = "new" /\ todo' = << >> \o Tail(todo)
        /\ alive' = alive \cup With(Head(todo).arg)
        /\ UNCHANGED <<m_state, running, engine, m_deviceSampleSource,
                       m_basebandSampleSinks, m_threadedBasebandSampleSinks>>
    BY <1>2 DEF New, Do
  <2>2. Head(todo) \in Commands
    BY <2>1, Ended DEF Inv
  <2>3. Head(todo).arg \in Sources \cup Channels
    BY <2>1, <2>2 DEF Commands, Argumented
  <2>4. With(Head(todo).arg) \subseteq Objects
    BY <2>3 DEF With, Objects, Records
  <2> QED BY <1>0, <2>1, <2>4, Elsewhere
<1>3. CASE Delete
  <2>1. /\ todo # << >> /\ Head(todo).op = "delete" /\ todo' = << >> \o Tail(todo)
        /\ alive' \subseteq alive
        /\ UNCHANGED <<m_state, running, engine, m_deviceSampleSource,
                       m_basebandSampleSinks, m_threadedBasebandSampleSinks>>
    BY <1>3 DEF Delete, Do
  <2> QED BY <1>0, <2>1, Elsewhere
<1>4. CASE FreeChannels
  <2>1. /\ todo # << >> /\ Head(todo).op = "freeChannels" /\ alive' = alive
        /\ UNCHANGED <<m_state, running, engine, m_deviceSampleSource,
                       m_basebandSampleSinks, m_threadedBasebandSampleSinks>>
        /\ \/ todo' = << >> \o Tail(todo)
           \/ \E c \in Channels :
                todo' = Append(DestroyChannel(c), Head(todo)) \o Tail(todo)
    BY <1>4 DEF FreeChannels, Do
  <2>2. Head(todo) \in Commands
    BY <2>1, Ended DEF Inv
  <2>3. Head(todo) \in Harmless
    BY <2>1, <2>2 DEF Harmless, Steady, Leaves, Stays, Mid
  <2>4. ASSUME NEW c \in Channels
        PROVE  Append(DestroyChannel(c), Head(todo)) \in Seq(Harmless)
    BY <2>3, ChannelDestroyed
  <2> QED BY <1>0, <2>1, <2>4, Elsewhere
<1>5. CASE Quit
  <2>1. /\ todo # << >> /\ Head(todo).op = "quit" /\ todo' = << >> \o Tail(todo)
        /\ m_state' = "StNotStarted"
        /\ UNCHANGED <<alive, running, engine, m_deviceSampleSource,
                       m_basebandSampleSinks, m_threadedBasebandSampleSinks>>
    BY <1>5 DEF Quit, Do
  <2>2. Operations' /\ Stopped' /\ Halfway' /\ ~MidStop'
    BY <1>0, <2>1, Advance
  <2>3. running = {}
    BY <2>1, Settled, NotStoppable DEF MidStop
  <2> QED BY <2>1, <2>2, <2>3 DEF Inv, Objective, AllOrNothing
<1>6. CASE Join
  <2>1. /\ todo # << >> /\ Head(todo).op = "join" /\ todo' = << >> \o Tail(todo)
        /\ alive' = alive
        /\ UNCHANGED <<m_state, running, engine, m_deviceSampleSource,
                       m_basebandSampleSinks, m_threadedBasebandSampleSinks>>
    BY <1>6 DEF Join, Do
  <2> QED BY <1>0, <2>1, Elsewhere
<1> QED BY <1>1, <1>2, <1>3, <1>4, <1>5, <1>6 DEF Continue
-----------------------------------------------------------------------------
(* The engine answers a command.                                            *)
LEMMA Answering ==
  ASSUME Inv, NEW op \in Synchronous, NEW newEvents, Handling(op, newEvents)
  PROVE  /\ todo # << >> /\ Head(todo).op = op /\ Head(todo) \in Commands
         /\ engine = "loop" /\ engine' = engine /\ alive' = alive
         /\ ~MidStop /\ op \notin {"gotoIdle", "stopSource", "setIdle"}
<1>1. /\ todo # << >> /\ Head(todo).op = op
      /\ engine = "loop" /\ engine' = engine /\ alive' = alive
  BY DEF Handling
<1>2. op \notin {"gotoIdle", "stopSource", "setIdle"}
  BY DEF Synchronous
<1> QED BY <1>1, <1>2, Ended DEF Inv, MidStop

LEMMA InitAcquisitionKeeps ==
  ASSUME Inv, InitAcquisition
  PROVE  Inv'
<1>1. /\ todo # << >> /\ Head(todo).op = "init" /\ engine' = "loop"
      /\ alive' = alive /\ ~MidStop
      /\ UNCHANGED <<m_deviceSampleSource, m_basebandSampleSinks,
                     m_threadedBasebandSampleSinks>>
  BY Answering DEF InitAcquisition, Synchronous
<1>2. running' = {}
  BY <1>1, NotStoppable DEF InitAcquisition
<1>3. CASE m_deviceSampleSource = None
  <2>1. m_state' = "StError" /\ todo' = << >>
    BY <1>3 DEF InitAcquisition
  <2>2. Operations' /\ Stopped' /\ Halfway' /\ ~MidStop'
    BY <2>1 DEF Operations, Stopped, Halfway, MidStop
  <2> QED BY <1>1, <1>2, <2>1, <2>2 DEF Inv, Objective, AllOrNothing
<1>4. CASE m_deviceSampleSource # None
  <2>1. m_state' = "StReady" /\ todo' = Tail(todo)
    BY <1>4 DEF InitAcquisition, Done
  <2>2. Operations' /\ Stopped' /\ Halfway' /\ ~MidStop'
    BY <1>1, <2>1, Settled, Ended, Advance DEF Inv
  <2> QED BY <1>1, <1>2, <1>4, <2>1, <2>2 DEF Inv, Objective, AllOrNothing
<1> QED BY <1>3, <1>4

LEMMA StartAcquisitionKeeps ==
  ASSUME Inv, StartAcquisition
  PROVE  Inv'
<1>1. /\ todo # << >> /\ Head(todo).op = "start" /\ engine' = "loop"
      /\ alive' = alive /\ ~MidStop
  BY Answering DEF StartAcquisition, Synchronous
<1>2. /\ m_state = "StReady" /\ todo' = Tail(todo)
      /\ UNCHANGED <<m_deviceSampleSource, m_basebandSampleSinks,
                     m_threadedBasebandSampleSinks>>
  BY DEF StartAcquisition, Done
<1>3. todo \in Seq(Stays)
  BY <1>1, Settled
<1>4. Operations' /\ Stopped' /\ Halfway' /\ ~MidStop'
  BY <1>1, <1>2, <1>3, Ended, Advance DEF Inv
<1>5. running = {} /\ m_deviceSampleSource # None
  BY <1>1, <1>2 DEF Inv, AllOrNothing, Objective
<1>6. \/ /\ m_state' = "StRunning"
         /\ running' = {m_deviceSampleSource} \cup Sinks
      \/ m_state' = "StError" /\ running' = {}
  BY <1>5 DEF StartAcquisition
<1>7. AllOrNothing'
  BY <1>2, <1>6 DEF AllOrNothing, Sinks
<1>8. Objective'
  BY <1>1, <1>2, <1>5, <1>6 DEF Inv, Objective
<1> QED BY <1>4, <1>7, <1>8 DEF Inv

LEMMA SetSourceKeeps ==
  ASSUME Inv, SetSource
  PROVE  Inv'
<1>1. /\ todo # << >> /\ Head(todo).op = "setSource" /\ engine' = "loop"
      /\ alive' = alive /\ ~MidStop /\ Head(todo) \in Commands
  BY Answering DEF SetSource, Synchronous
<1>2. /\ todo' = Tail(todo) /\ m_deviceSampleSource' = Head(todo).arg
      /\ UNCHANGED <<m_state, m_basebandSampleSinks,
                     m_threadedBasebandSampleSinks>>
  BY DEF SetSource, Done, Argument
<1>3. m_state # "StRunning" /\ running = {}
  BY <1>1, Settled, NotStoppable
<1>4. Operations' /\ Stopped' /\ Halfway' /\ ~MidStop'
  BY <1>1, <1>2, <1>3, Ended, Advance DEF Inv
<1>5. running' = {}
  BY <1>3 DEF SetSource
<1>6. m_deviceSampleSource' \in Sources
  BY <1>1, <1>2 DEF Commands, Argumented
<1>7. Objective'
  BY <1>1, <1>2, <1>6, Kinds DEF Inv, Objective
<1> QED BY <1>2, <1>3, <1>4, <1>5, <1>7 DEF Inv, AllOrNothing

(* A sink comes or goes: of Records, k, or of Channels, t.                  *)
LEMMA SinksKeep ==
  ASSUME Inv, todo # << >>, todo' = Tail(todo),
         Head(todo).op \notin {"gotoIdle", "stopSource", "setIdle"},
         m_state' = m_state, engine' = engine, alive' = alive,
         m_deviceSampleSource' = m_deviceSampleSource,
         m_basebandSampleSinks' \subseteq Records,
         m_threadedBasebandSampleSinks' \subseteq Channels,
         m_state = "StRunning" => running' = {m_deviceSampleSource} \cup Sinks',
         m_state # "StRunning" => running' = {}
  PROVE  Inv'
<1>1. Operations' /\ Stopped' /\ Halfway' /\ ~MidStop'
  BY Ended, Advance DEF Inv
<1>2. Objective'
  BY DEF Inv, Objective
<1>3. AllOrNothing'
  BY DEF AllOrNothing
<1> QED BY <1>1, <1>2, <1>3 DEF Inv

LEMMA SinksMove ==
  ASSUME Inv, AddSink \/ RemoveSink \/ AddThreadedSink \/ RemoveThreadedSink
  PROVE  Inv'
<1> DEFINE k == Head(todo).arg
<1>0. /\ m_basebandSampleSinks \subseteq Records
      /\ m_threadedBasebandSampleSinks \subseteq Channels
      /\ m_deviceSampleSource \in Sources \cup {None}
  BY DEF Inv, Objective
<1>1. CASE AddSink
  <2>1. /\ todo # << >> /\ Head(todo).op = "addSink" /\ engine' = engine
        /\ alive' = alive /\ ~MidStop /\ Head(todo) \in Commands
    BY <1>1, Answering DEF AddSink, Synchronous
  <2>2. /\ todo' = Tail(todo)
        /\ m_basebandSampleSinks' = m_basebandSampleSinks \cup {k}
        /\ running' = running \cup (IF m_state = "StRunning" THEN {k} ELSE {})
        /\ UNCHANGED <<m_state, m_deviceSampleSource, m_threadedBasebandSampleSinks>>
    BY <1>1 DEF AddSink, Done, Argument, Joins
  <2>3. k \in Records
    BY <2>1 DEF Commands, Argumented
  <2> HIDE DEF k
  <2>4. /\ m_state = "StRunning" => running' = {m_deviceSampleSource} \cup Sinks'
        /\ m_state # "StRunning" => running' = {}
    BY <2>1, <2>2 DEF Inv, AllOrNothing, Sinks
  <2> QED BY <1>0, <2>1, <2>2, <2>3, <2>4, SinksKeep
<1>2. CASE AddThreadedSink
  <2>1. /\ todo # << >> /\ Head(todo).op = "addThreadedSink" /\ engine' = engine
        /\ alive' = alive /\ ~MidStop /\ Head(todo) \in Commands
    BY <1>2, Answering DEF AddThreadedSink, Synchronous
  <2>2. /\ todo' = Tail(todo)
        /\ m_threadedBasebandSampleSinks' = m_threadedBasebandSampleSinks \cup {k}
        /\ running' = running \cup (IF m_state = "StRunning" THEN {k} ELSE {})
        /\ UNCHANGED <<m_state, m_deviceSampleSource, m_basebandSampleSinks>>
    BY <1>2 DEF AddThreadedSink, Done, Argument, Joins
  <2>3. k \in Channels
    BY <2>1 DEF Commands, Argumented
  <2> HIDE DEF k
  <2>4. /\ m_state = "StRunning" => running' = {m_deviceSampleSource} \cup Sinks'
        /\ m_state # "StRunning" => running' = {}
    BY <2>1, <2>2 DEF Inv, AllOrNothing, Sinks
  <2> QED BY <1>0, <2>1, <2>2, <2>3, <2>4, SinksKeep
<1>3. CASE RemoveSink
  <2>1. /\ todo # << >> /\ Head(todo).op = "removeSink" /\ engine' = engine
        /\ alive' = alive /\ ~MidStop /\ Head(todo) \in Commands
    BY <1>3, Answering DEF RemoveSink, Synchronous
  <2>2. /\ todo' = Tail(todo)
        /\ m_basebandSampleSinks' = m_basebandSampleSinks \ {k}
        /\ running' = IF m_state = "StRunning" THEN running \ {k} ELSE running
        /\ UNCHANGED <<m_state, m_deviceSampleSource, m_threadedBasebandSampleSinks>>
    BY <1>3 DEF RemoveSink, Done, Argument
  <2>3. k \in Records
    BY <2>1 DEF Commands, Argumented
  <2> HIDE DEF k
  <2>4. k # m_deviceSampleSource /\ k \notin m_threadedBasebandSampleSinks
    BY <1>0, <2>3, Kinds
  <2>5. /\ m_state = "StRunning" => running' = {m_deviceSampleSource} \cup Sinks'
        /\ m_state # "StRunning" => running' = {}
    BY <2>1, <2>2, <2>4 DEF Inv, AllOrNothing, Sinks
  <2> QED BY <1>0, <2>1, <2>2, <2>5, SinksKeep
<1>4. CASE RemoveThreadedSink
  <2>1. /\ todo # << >> /\ Head(todo).op = "removeThreadedSink" /\ engine' = engine
        /\ alive' = alive /\ ~MidStop /\ Head(todo) \in Commands
    BY <1>4, Answering DEF RemoveThreadedSink, Synchronous
  <2>2. /\ todo' = Tail(todo)
        /\ m_threadedBasebandSampleSinks' = m_threadedBasebandSampleSinks \ {k}
        /\ running' = running \ {k}
        /\ UNCHANGED <<m_state, m_deviceSampleSource, m_basebandSampleSinks>>
    BY <1>4 DEF RemoveThreadedSink, Done, Argument
  <2>3. k \in Channels
    BY <2>1 DEF Commands, Argumented
  <2> HIDE DEF k
  <2>4. k # m_deviceSampleSource /\ k \notin m_basebandSampleSinks
    BY <1>0, <2>3, Kinds
  <2>5. /\ m_state = "StRunning" => running' = {m_deviceSampleSource} \cup Sinks'
        /\ m_state # "StRunning" => running' = {}
    BY <2>1, <2>2, <2>4 DEF Inv, AllOrNothing, Sinks
  <2> QED BY <1>0, <2>1, <2>2, <2>5, SinksKeep
<1> QED BY <1>1, <1>2, <1>3, <1>4

(* What the engine does between commands, and the thread of the source.     *)
LEMMA NothingKeeps ==
  ASSUME Inv, engine' # "starting",
         UNCHANGED <<m_state, m_deviceSampleSource, m_basebandSampleSinks,
                     m_threadedBasebandSampleSinks, todo, running, alive>>
  PROVE  Inv'
  BY DEF Inv, Operations, Stopped, Objective, Halfway, AllOrNothing, MidStop, Sinks

LEMMA EngineKeeps ==
  ASSUME Inv, Engine
  PROVE  Inv'
<1>1. CASE Run
  <2>1. engine = "starting" /\ m_state # "StRunning"
    BY <1>1 DEF Run, EngineAt, Inv, Objective
  <2>2. /\ m_state' = "StIdle" /\ engine' = "loop"
        /\ UNCHANGED <<m_deviceSampleSource, m_basebandSampleSinks,
                       m_threadedBasebandSampleSinks, todo, running, alive>>
    BY <1>1 DEF Run, EngineAt, objects
  <2> QED BY <2>1, <2>2
      DEF Inv, Operations, Stopped, Objective, Halfway, AllOrNothing, MidStop, Sinks
<1>2. CASE Exit
  BY <1>2, NothingKeeps DEF Exit, EngineAt, acquisition, objects
<1>3. CASE HandleData
  BY <1>3, NothingKeeps DEF HandleData, TakeEvent, acquisition, objects
<1>4. CASE Work
  BY <1>4, NothingKeeps DEF Work, acquisition, objects
<1>5. CASE Feed
  BY <1>5, NothingKeeps DEF Feed, EngineAt, acquisition, objects
<1>6. CASE TakeMessages
  BY <1>6, NothingKeeps DEF TakeMessages, TakeEvent, acquisition, objects
<1>7. CASE HandleMessage
  BY <1>7, NothingKeeps DEF HandleMessage, EngineAt
<1>8. CASE NoMoreMessages
  BY <1>8, NothingKeeps DEF NoMoreMessages, EngineAt, acquisition, objects
<1>9. CASE HandleCommand
  BY <1>9, InitAcquisitionKeeps, StartAcquisitionKeeps, SetSourceKeeps, SinksMove
     DEF HandleCommand
<1> QED BY <1>1, <1>2, <1>3, <1>4, <1>5, <1>6, <1>7, <1>8, <1>9 DEF Engine

LEMMA StepKeeps ==
  ASSUME Inv, [Next]_vars
  PROVE  Inv'
<1>1. CASE DataReady
  BY <1>1 DEF DataReady, acquisition, objects, Inv, Operations, Stopped,
              Objective, Halfway, AllOrNothing, MidStop, Sinks
<1>2. CASE UNCHANGED vars
  BY <1>2 DEF vars, acquisition, objects, Inv, Operations, Stopped,
              Objective, Halfway, AllOrNothing, MidStop, Sinks
<1> QED BY <1>1, <1>2, OperationKeeps, ContinueKeeps, EngineKeeps DEF Next

LEMMA InitKeeps ==
  ASSUME Init
  PROVE  Inv
<1>1. PICK s \in Sources : todo = ConstructSource(s)
  BY DEF Init
<1>2. todo \in Seq(Steady) /\ todo \in Seq(Leaves)
  BY <1>1, SourceConstructed
<1>3. todo # << >> => Head(todo) \in Steady /\ Tail(todo) \in Seq(Steady)
  BY <1>2, SeqHead
<1>4. Operations
  BY <1>2, <1>3, SeqSub, Parts DEF Operations
<1>5. ~MidStop
  BY <1>3, Heads DEF MidStop, Mid
<1> QED BY <1>4, <1>5
    DEF Init, Inv, Stopped, Objective, Halfway, AllOrNothing, MidStop

(* The invariant holds in every behaviour of the two threads.               *)
THEOREM Invariance == Spec => []Inv
<1>1. Inv /\ [Next]_vars => Inv'
  BY StepKeeps
<1> QED BY InitKeeps, <1>1, PTL DEF Spec

(* Whatever operations the main thread undertakes and however they fail,    *)
(* the source and all sinks run, or nothing does: gotoIdle(), gotoRunning() *)
(* and the handlers of the commands (dspdevicesourceengine.cpp) agree.      *)
THEOREM RunsAsAWhole == Spec => []AllOrNothing
<1>1. Inv => AllOrNothing
  BY DEF Inv
<1> QED BY Invariance, <1>1, PTL
-----------------------------------------------------------------------------
(* The rest of the type invariant.                                          *)
Events == {"data", "messages", "command"}
Places == {"starting", "loop", "work", "feed", "messages", "finished"}
States == {"StNotStarted", "StIdle", "StReady", "StRunning", "StError"}

Rated ==
  /\ m_sampleRate \in 0..MaxRate
  /\ m_inputMessageQueue \in Seq(Rates)
  /\ rate \in [Sources -> Rates]
  /\ known \in [Records \cup Channels -> 0..MaxRate]

Placed ==
  /\ m_state \in States /\ events \in Seq(Events) /\ engine \in Places
  /\ samplesDone \in 0..MaxRate /\ sent \in BOOLEAN /\ running \subseteq Objects

LEMMA RatesAreRates ==
  /\ Rates \subseteq 0..MaxRate /\ 0 \in 0..MaxRate
  BY RateAssumption DEF Rates

LEMMA Notified ==
  ASSUME known \in [Records \cup Channels -> 0..MaxRate],
         NEW sinks, NEW r \in 0..MaxRate, Notify(sinks, r)
  PROVE  known' \in [Records \cup Channels -> 0..MaxRate]
  BY DEF Notify

LEMMA Members ==
  ASSUME Inv
  PROVE  /\ m_deviceSampleSource # None => m_deviceSampleSource \in Sources \cap Objects
         /\ Sinks \subseteq Objects
  BY DEF Inv, Objective, Sinks, Objects

LEMMA OperationTypes ==
  ASSUME Inv, Rated, Placed, Operation
  PROVE  Rated' /\ Placed'
<1>1. ASSUME NEW commands, Undertake(commands)
      PROVE  Rated' /\ Placed'
  BY <1>1 DEF Undertake, acquisition, Rated, Placed
<1>2. ASSUME NEW r \in Rates, ApplySettings(r)
      PROVE  Rated' /\ Placed'
  <2>1. m_deviceSampleSource \in Sources
    BY <1>2, SourceAtRest DEF ApplySettings
  <2>2. events' \in Seq(Events) /\ m_inputMessageQueue' \in Seq(Rates)
    BY <1>2 DEF ApplySettings, Rated, Placed, Events
  <2>3. /\ rate' \in [Sources -> Rates]
        /\ known' \in [Records \cup Channels -> 0..MaxRate]
    BY <1>2, RatesAreRates DEF ApplySettings, Rated
  <2>4. UNCHANGED <<m_state, m_sampleRate, engine, samplesDone, sent, running>>
    BY <1>2 DEF ApplySettings, acquisition
  <2> QED BY <2>2, <2>3, <2>4 DEF Rated, Placed
<1> QED BY <1>1, <1>2
    DEF Operation, StartRequest, StopRequest, AddChannel, RemoveChannel,
        ChangeSampleSource, RemoveDevice

LEMMA ContinueTypes ==
  ASSUME Inv, Rated, Placed, Continue
  PROVE  Rated' /\ Placed'
<1>1. CASE SendWait
  BY <1>1 DEF SendWait, acquisition, objects, Rated, Placed, Events
<1>2. ASSUME NEW op, NEW next, Do(op, next), m_state' \in States,
             m_sampleRate' \in 0..MaxRate, running' \subseteq running
      PROVE  Rated' /\ Placed'
  BY <1>2 DEF Do, Rated, Placed
<1>3. CASE GotoIdle
  <2>1. /\ m_state' \in States /\ m_sampleRate' \in 0..MaxRate
        /\ running' \subseteq running
    BY <1>3 DEF GotoIdle, Placed, Rated, States
  <2>2. \E next : Do("gotoIdle", next)
    BY <1>3 DEF GotoIdle
  <2> QED BY <1>2, <2>1, <2>2
<1>4. CASE StopSource
  <2>1. /\ m_state' \in States /\ m_sampleRate' \in 0..MaxRate
        /\ running' \subseteq running
    BY <1>4, RatesAreRates DEF StopSource, Placed
  <2>2. \E next : Do("stopSource", next)
    BY <1>4 DEF StopSource
  <2> QED BY <1>2, <2>1, <2>2
<1>5. CASE SetIdle \/ New \/ Delete \/ FreeChannels \/ Quit \/ Join
  <2>1. /\ m_state' \in States /\ m_sampleRate' \in 0..MaxRate
        /\ running' \subseteq running
    BY <1>5 DEF SetIdle, New, Delete, FreeChannels, Quit, Join, Placed, Rated, States
  <2>2. \E op, next : Do(op, next)
    BY <1>5 DEF SetIdle, New, Delete, FreeChannels, Quit, Join
  <2> QED BY <1>2, <2>1, <2>2
<1> QED BY <1>1, <1>3, <1>4, <1>5 DEF Continue

LEMMA HandlingTypes ==
  ASSUME Rated, Placed, NEW op, NEW newEvents \in Seq(Events), Handling(op, newEvents)
  PROVE  /\ events' \in Seq(Events) /\ engine' \in Places /\ sent' \in BOOLEAN
         /\ samplesDone' \in 0..MaxRate /\ rate' \in [Sources -> Rates]
<1>1. Tail(events) \in Seq(Events)
  BY DEF Handling, Placed
<1> QED BY <1>1, SeqConcat DEF Handling, Placed, Rated

LEMMA CommandTypes ==
  ASSUME Inv, Rated, Placed, HandleCommand
  PROVE  Rated' /\ Placed'
<1>0. << >> \in Seq(Events) /\ <<"messages">> \in Seq(Events)
  BY DEF Events
<1>1. CASE InitAcquisition
  <2>1. /\ events' \in Seq(Events) /\ engine' \in Places /\ sent' \in BOOLEAN
        /\ samplesDone' \in 0..MaxRate /\ rate' \in [Sources -> Rates]
    BY <1>0, <1>1, HandlingTypes DEF InitAcquisition
  <2>2. /\ running' \subseteq Objects /\ m_inputMessageQueue' = m_inputMessageQueue
        /\ m_state' \in States
    BY <1>1 DEF InitAcquisition, Placed, States
  <2>3. /\ m_sampleRate' \in 0..MaxRate
        /\ known' \in [Records \cup Channels -> 0..MaxRate]
    <3>1. CASE m_deviceSampleSource = None
      BY <1>1, <3>1 DEF InitAcquisition, Rated
    <3>2. CASE m_deviceSampleSource # None
      <4>1. m_sampleRate' = rate[m_deviceSampleSource] /\ Notify(Sinks, m_sampleRate')
        BY <1>1, <3>2 DEF InitAcquisition
      <4>2. m_sampleRate' \in 0..MaxRate
        BY <3>2, <4>1, Members, RatesAreRates DEF Rated
      <4> QED BY <4>1, <4>2, Notified DEF Rated
    <3> QED BY <3>1, <3>2
  <2> QED BY <2>1, <2>2, <2>3 DEF Rated, Placed
<1>2. CASE StartAcquisition
  <2>0. m_deviceSampleSource \in Sources \cap Objects /\ Sinks \subseteq Objects
    BY <1>2, Members DEF StartAcquisition, Inv, Objective
  <2>1. /\ events' \in Seq(Events) /\ engine' \in Places /\ sent' \in BOOLEAN
        /\ samplesDone' \in 0..MaxRate /\ rate' \in [Sources -> Rates]
    BY <1>0, <1>2, HandlingTypes DEF StartAcquisition
  <2>2. /\ running' \subseteq Objects /\ m_state' \in States
        /\ m_sampleRate' = m_sampleRate /\ known' = known
    BY <1>2, <2>0 DEF StartAcquisition, Placed, States
  <2>3. rate[m_deviceSampleSource] \in Rates
    BY <2>0 DEF Rated
  <2>4. m_inputMessageQueue' \in Seq(Rates)
    BY <1>2, <2>3 DEF StartAcquisition, Rated
  <2> QED BY <2>1, <2>2, <2>4 DEF Rated, Placed
<1>3. CASE SetSource
  <2>1. /\ events' \in Seq(Events) /\ engine' \in Places /\ sent' \in BOOLEAN
        /\ samplesDone' \in 0..MaxRate /\ rate' \in [Sources -> Rates]
    BY <1>0, <1>3, HandlingTypes DEF SetSource
  <2>2. /\ running' \subseteq Objects /\ m_state' \in States
        /\ m_sampleRate' \in 0..MaxRate /\ known' = known
        /\ m_inputMessageQueue' = m_inputMessageQueue
    BY <1>3, RatesAreRates DEF SetSource, Placed, Rated
  <2> QED BY <2>1, <2>2 DEF Rated, Placed
<1>4. CASE AddSink \/ AddThreadedSink
  <2>1. /\ events' \in Seq(Events) /\ engine' \in Places /\ sent' \in BOOLEAN
        /\ samplesDone' \in 0..MaxRate /\ rate' \in [Sources -> Rates]
    BY <1>0, <1>4, HandlingTypes DEF AddSink, AddThreadedSink
  <2>2. Argument \in Objects
    <3>1. /\ Head(todo) \in Commands
          /\ Head(todo).op \in {"addSink", "addThreadedSink"}
      BY <1>4, Answering DEF AddSink, AddThreadedSink, Synchronous
    <3> QED BY <3>1 DEF Commands, Argumented, Argument, Objects
  <2>3. /\ Joins(Argument) /\ m_state' = m_state /\ m_sampleRate' = m_sampleRate
        /\ m_inputMessageQueue' = m_inputMessageQueue
    BY <1>4 DEF AddSink, AddThreadedSink
  <2>4. known' \in [Records \cup Channels -> 0..MaxRate]
    BY <2>3, Notified DEF Joins, Rated
  <2>5. running' \subseteq Objects
    BY <2>2, <2>3 DEF Joins, Placed
  <2> QED BY <2>1, <2>3, <2>4, <2>5 DEF Rated, Placed
<1>5. CASE RemoveSink \/ RemoveThreadedSink
  <2>1. /\ events' \in Seq(Events) /\ engine' \in Places /\ sent' \in BOOLEAN
        /\ samplesDone' \in 0..MaxRate /\ rate' \in [Sources -> Rates]
    BY <1>0, <1>5, HandlingTypes DEF RemoveSink, RemoveThreadedSink
  <2>2. /\ running' \subseteq running
        /\ UNCHANGED <<m_state, m_sampleRate, known, m_inputMessageQueue>>
    BY <1>5 DEF RemoveSink, RemoveThreadedSink
  <2> QED BY <2>1, <2>2 DEF Rated, Placed
<1> QED BY <1>1, <1>2, <1>3, <1>4, <1>5 DEF HandleCommand

LEMMA EngineTypes ==
  ASSUME Inv, Rated, Placed, Engine
  PROVE  Rated' /\ Placed'
<1>1. CASE Run
  BY <1>1 DEF Run, EngineAt, objects, Rated, Placed, Places, States
<1>2. CASE Exit
  BY <1>2 DEF Exit, EngineAt, acquisition, objects, Rated, Placed, Places
<1>3. CASE HandleData
  <2>1. /\ events' \in Seq(Events) /\ engine' \in Places /\ samplesDone' \in 0..MaxRate
    BY <1>3, RatesAreRates DEF HandleData, TakeEvent, Placed, Places
  <2>2. UNCHANGED <<acquisition, m_inputMessageQueue, sent, objects>>
    BY <1>3 DEF HandleData
  <2> QED BY <2>1, <2>2 DEF acquisition, objects, Rated, Placed
<1>4. CASE Work
  BY <1>4 DEF Work, acquisition, objects, Rated, Placed, Places
<1>5. CASE Feed
  <2>1. samplesDone' \in 0..MaxRate /\ engine' \in Places
    BY <1>5, RateAssumption DEF Feed, EngineAt, Placed, Places
  <2>2. UNCHANGED <<acquisition, m_inputMessageQueue, events, sent, objects>>
    BY <1>5 DEF Feed
  <2> QED BY <2>1, <2>2 DEF acquisition, objects, Rated, Placed
<1>6. CASE TakeMessages
  <2>1. events' \in Seq(Events) /\ engine' \in Places
    BY <1>6 DEF TakeMessages, TakeEvent, Placed, Places
  <2>2. UNCHANGED <<acquisition, m_inputMessageQueue, samplesDone, sent, objects>>
    BY <1>6 DEF TakeMessages
  <2> QED BY <2>1, <2>2 DEF acquisition, objects, Rated, Placed
<1>7. CASE HandleMessage
  <2>1. /\ Head(m_inputMessageQueue) \in Rates
        /\ m_inputMessageQueue' \in Seq(Rates)
    BY <1>7 DEF HandleMessage, Rated
  <2>2. m_sampleRate' \in 0..MaxRate
    BY <1>7, <2>1, RatesAreRates DEF HandleMessage
  <2>3. known' \in [Records \cup Channels -> 0..MaxRate]
    BY <1>7, <2>1, RatesAreRates, Notified DEF HandleMessage, Rated
  <2>4. UNCHANGED <<m_state, events, engine, samplesDone, sent, running, rate>>
    BY <1>7 DEF HandleMessage, EngineAt
  <2> QED BY <2>1, <2>2, <2>3, <2>4 DEF Rated, Placed
<1>8. CASE NoMoreMessages
  BY <1>8 DEF NoMoreMessages, EngineAt, acquisition, objects, Rated, Placed, Places
<1> QED BY <1>1, <1>2, <1>3, <1>4, <1>5, <1>6, <1>7, <1>8, CommandTypes DEF Engine

(* What is computed and queued stays in its types.                          *)
THEOREM Types == Spec => [](Rated /\ Placed)
<1>1. Init => Rated /\ Placed
  <2> SUFFICES ASSUME Init PROVE Rated /\ Placed
    OBVIOUS
  <2>1. << >> \in Seq(Rates) /\ << >> \in Seq(Events)
    OBVIOUS
  <2>2. Rated
    BY <2>1, RatesAreRates DEF Init, Rated
  <2>3. Placed
    BY <2>1, RatesAreRates DEF Init, Placed, States, Places
  <2> QED BY <2>2, <2>3
<1>2. Inv /\ Rated /\ Placed /\ [Next]_vars => Rated' /\ Placed'
  <2> SUFFICES ASSUME Inv, Rated, Placed, [Next]_vars PROVE Rated' /\ Placed'
    OBVIOUS
  <2>1. CASE DataReady
    BY <2>1 DEF DataReady, acquisition, objects, Rated, Placed, Events
  <2>2. CASE UNCHANGED vars
    BY <2>2 DEF vars, acquisition, objects, Rated, Placed
  <2> QED BY <2>1, <2>2, OperationTypes, ContinueTypes, EngineTypes DEF Next
<1> QED BY Invariance, <1>1, <1>2, PTL DEF Spec

(* The variables of the engine and of the main thread keep their types.     *)
THEOREM TypeCorrect == Spec => []TypeOK
<1>1. Inv /\ Rated /\ Placed => TypeOK
  <2> SUFFICES ASSUME Inv, Rated, Placed PROVE TypeOK
    OBVIOUS
  <2>1. todo \in Seq([op : Synchronous \cup OnMainThread, arg : Objects \cup {None}])
    <3>1. Commands \subseteq [op : Synchronous \cup OnMainThread,
                             arg : Objects \cup {None}]
      BY DEF Commands
    <3>2. todo \in Seq(Commands)
      BY DEF Inv, Operations
    <3> QED BY <3>1, <3>2, SeqSub
  <2> QED BY <2>1
      DEF Inv, Objective, Rated, Placed, TypeOK, States, Places, Events
<1> QED BY Invariance, Types, <1>1, PTL

-----------------------------------------------------------------------------
(* The thread of the engine never finds its source or a sink deleted:       *)
(* UsesLiveObjects.  The main thread deletes an object right after a        *)
(* command that the engine has answered.  The answer finds the engine in    *)
(* its event loop, with every message of before handled; and the device is  *)
(* stopped, so that nothing puts the engine to work before it has another   *)
(* source.                                                                  *)

(* A command that depends on the one before it.                             *)
Depends(op) == op \in {"delete", "addSink", "addThreadedSink"}

(* A sink is told of when it is made, and an object deleted when it has     *)
(* been taken from the engine.                                              *)
Follows(c, d) ==
  /\ d.op # "addThreadedSink"
  /\ d.op = "addSink" => \E s \in Sources : c = Command("new", s) /\ d.arg = Record(s)
  /\ d.op = "delete" =>
       \/ d.arg \in Channels /\ c = Command("removeThreadedSink", d.arg)
       \/ d.arg \in Sources /\ c = Command("removeSink", Record(d.arg))

Linked(q) == \A i \in 1..Len(q) : i > 1 => Follows(q[i-1], q[i])

Ready(c) ==
  /\ c.op \in {"addSink", "addThreadedSink"} => c.arg \in alive
  /\ c.op = "delete" => With(c.arg) \cap Sinks = {}

(* What waits for the engine: a command, when the main thread has sent it,  *)
(* and after it only data.                                                  *)
Waiting ==
  /\ sent => todo # << >> /\ Head(todo).op \in Synchronous
  /\ ~sent => \A i \in 1..Len(events) : events[i] # "command"
  /\ \A i, j \in 1..Len(events) :
       i < j /\ events[i] = "command" => events[j] = "data"
  /\ m_inputMessageQueue # << >> =>
       engine = "messages" \/ \E i \in 1..Len(events) : events[i] = "messages"

(* The source is being replaced.                                            *)
Replaced ==
  \/ m_deviceSampleSource \notin alive
  \/ todo # << >> /\ Head(todo).op = "delete" /\ Head(todo).arg \in Sources

Quiet ==
  /\ engine \in {"starting", "loop", "finished"} /\ m_state # "StRunning"
  /\ m_inputMessageQueue = << >>
  /\ \A i \in 1..Len(events) : events[i] # "messages"
  /\ todo \in Seq(Leaves)

LiveInv ==
  /\ Linked(todo) /\ (todo # << >> => Ready(Head(todo)))
  /\ Sinks \subseteq alive
  /\ Waiting
  /\ Replaced => Quiet
-----------------------------------------------------------------------------
(* Sequences of commands.                                                   *)
LEMMA TailLinked ==
  ASSUME NEW q \in Seq(Commands), q # << >>, Linked(q)
  PROVE  /\ Linked(Tail(q))
         /\ Tail(q) # << >> => Follows(Head(q), Head(Tail(q)))
<1>1. /\ Tail(q) \in Seq(Commands) /\ Len(Tail(q)) = Len(q) - 1
      /\ \A i \in 1..Len(Tail(q)) : Tail(q)[i] = q[i+1]
      /\ Len(q) \in Nat /\ Len(q) > 0 /\ Head(q) = q[1]
  OBVIOUS
<1>2. ASSUME NEW i \in 1..Len(Tail(q)), i > 1
      PROVE  Follows(Tail(q)[i-1], Tail(q)[i])
  <2>1. i+1 \in 1..Len(q) /\ i+1 > 1 /\ (i+1)-1 = i /\ i-1 \in 1..Len(Tail(q)) /\ (i-1)+1 = i
    BY <1>1, <1>2
  <2>2. Follows(q[(i+1)-1], q[i+1])
    BY <2>1 DEF Linked
  <2> QED BY <1>1, <2>1, <2>2
<1>3. Tail(q) # << >> => Follows(Head(q), Head(Tail(q)))
  <2> SUFFICES ASSUME Tail(q) # << >> PROVE Follows(Head(q), Head(Tail(q)))
    OBVIOUS
  <2>1. Len(Tail(q)) > 0 /\ Head(Tail(q)) = Tail(q)[1]
    BY <1>1
  <2>2. 2 \in 1..Len(q) /\ 2 > 1 /\ 2-1 = 1 /\ 1 \in 1..Len(Tail(q)) /\ 1+1 = 2
    BY <1>1, <2>1
  <2>3. Follows(q[2-1], q[2])
    BY <2>2 DEF Linked
  <2> QED BY <1>1, <2>1, <2>2, <2>3
<1> QED BY <1>2, <1>3 DEF Linked

LEMMA LinkedConcat ==
  ASSUME NEW p \in Seq(Commands), NEW q \in Seq(Commands), Linked(p), Linked(q),
         p # << >> /\ q # << >> => Follows(p[Len(p)], Head(q))
  PROVE  Linked(p \o q)
<1>1. /\ Len(p \o q) = Len(p) + Len(q) /\ Len(p) \in Nat /\ Len(q) \in Nat
      /\ \A i \in 1..Len(p) : (p \o q)[i] = p[i]
      /\ \A i \in 1..Len(q) : (p \o q)[Len(p) + i] = q[i]
  OBVIOUS
<1>2. ASSUME NEW i \in 1..Len(p \o q), i > 1
      PROVE  Follows((p \o q)[i-1], (p \o q)[i])
  <2>1. CASE i <= Len(p)
    <3>1. i \in 1..Len(p) /\ i-1 \in 1..Len(p)
      BY <1>1, <1>2, <2>1
    <3>2. Follows(p[i-1], p[i])
      BY <1>2, <3>1 DEF Linked
    <3> QED BY <1>1, <3>1, <3>2
  <2>2. CASE i = Len(p) + 1
    <3>1. /\ Len(p) \in 1..Len(p) /\ 1 \in 1..Len(q) /\ i-1 = Len(p)
          /\ p # << >> /\ q # << >> /\ Head(q) = q[1]
      BY <1>1, <1>2, <2>2
    <3> QED BY <1>1, <2>2, <3>1
  <2>3. CASE i > Len(p) + 1
    <3> DEFINE j == i - Len(p)
    <3>1. /\ j \in 1..Len(q) /\ j > 1 /\ j-1 \in 1..Len(q)
          /\ Len(p) + j = i /\ Len(p) + (j-1) = i-1
      BY <1>1, <1>2, <2>3
    <3>2. Follows(q[j-1], q[j])
      BY <3>1 DEF Linked
    <3>3. (p \o q)[Len(p) + j] = q[j] /\ (p \o q)[Len(p) + (j-1)] = q[j-1]
      BY <1>1, <3>1
    <3> QED BY <3>1, <3>2, <3>3
  <2> QED BY <1>1, <1>2, <2>1, <2>2, <2>3
<1> QED BY <1>2 DEF Linked

LEMMA LinkedShort ==
  ASSUME NEW c
  PROVE  Linked(<< >>) /\ Linked(<<c>>)
  BY DEF Linked

LEMMA LinkedPair ==
  ASSUME NEW c \in Commands, NEW d \in Commands, Follows(c, d)
  PROVE  Linked(<<c, d>>)
<1>1. ASSUME NEW i \in 1..Len(<<c, d>>), i > 1
      PROVE  <<c, d>>[i-1] = c /\ <<c, d>>[i] = d
  BY <1>1
<1> QED BY <1>1 DEF Linked

LEMMA Independent ==
  ASSUME NEW c, NEW d, ~Depends(d.op)
  PROVE  Follows(c, d) /\ Ready(d)
  BY DEF Depends, Follows, Ready

LEMMA Parents ==
  ASSUME NEW c, NEW d, Follows(c, d),
         c.op \notin {"new", "removeSink", "removeThreadedSink"}
  PROVE  ~Depends(d.op)
  BY DEF Follows, Depends, Command
LEMMA LinkedTriple ==
  ASSUME NEW c, NEW d, NEW e, Follows(c, d), Follows(d, e)
  PROVE  Linked(<<c, d, e>>)
<1>1. ASSUME NEW i \in 1..Len(<<c, d, e>>), i > 1
      PROVE  \/ <<c, d, e>>[i-1] = c /\ <<c, d, e>>[i] = d
             \/ <<c, d, e>>[i-1] = d /\ <<c, d, e>>[i] = e
  BY <1>1
<1> QED BY <1>1 DEF Linked

(* The sequences that the handlers of the main thread are made of.          *)
LEMMA LinkedDestroySource ==
  ASSUME NEW s \in Sources
  PROVE  /\ Linked(DestroySource(s)) /\ DestroySource(s) # << >>
         /\ Head(DestroySource(s)).op = "removeSink"
         /\ DestroySource(s)[Len(DestroySource(s))].op = "delete"
<1>1. Follows(Command("removeSink", Record(s)), Command("delete", s))
  BY DEF Follows, Command
<1>2. Linked(DestroySource(s))
  BY <1>1, LinkedPair, OfSource, Parts DEF DestroySource
<1> QED BY <1>2 DEF DestroySource, Command

LEMMA LinkedConstructSource ==
  ASSUME NEW s \in Sources
  PROVE  /\ Linked(ConstructSource(s)) /\ ConstructSource(s) # << >>
         /\ Head(ConstructSource(s)).op = "new"
<1>1. Follows(Command("new", s), Command("addSink", Record(s)))
  BY DEF Follows, Command
<1>2. Follows(Command("addSink", Record(s)), Command("setSource", s))
  BY Independent DEF Depends, Command
<1>3. Linked(ConstructSource(s))
  BY <1>1, <1>2, LinkedTriple DEF ConstructSource
<1> QED BY <1>3 DEF ConstructSource, Command

LEMMA LinkedDestroyChannel ==
  ASSUME NEW c \in Channels
  PROVE  /\ Linked(DestroyChannel(c)) /\ DestroyChannel(c) # << >>
         /\ Head(DestroyChannel(c)).op = "removeThreadedSink"
         /\ DestroyChannel(c)[Len(DestroyChannel(c))].op = "delete"
<1>1. Follows(Command("removeThreadedSink", c), Command("delete", c))
  BY DEF Follows, Command
<1>2. Linked(DestroyChannel(c))
  BY <1>1, LinkedPair, OfChannel, Parts DEF DestroyChannel
<1> QED BY <1>2 DEF DestroyChannel, Command

LEMMA Together ==
  ASSUME NEW p \in Seq(Commands), NEW q \in Seq(Commands), Linked(p), Linked(q),
         p # << >>, q # << >>, ~Depends(Head(q).op)
  PROVE  /\ Linked(p \o q) /\ p \o q \in Seq(Commands) /\ p \o q # << >>
         /\ Head(p \o q) = Head(p)
<1>1. Follows(p[Len(p)], Head(q))
  BY Independent
<1> QED BY <1>1, LinkedConcat

(* An object that is made comes with its recorder, and goes with it.        *)
LEMMA Companions ==
  /\ \A s \in Sources : With(s) = {s, Record(s)} /\ Record(s) \in Records
  /\ \A c \in Channels : With(c) = {c}
  BY Kinds DEF With, Records

-----------------------------------------------------------------------------
(* An operation begins.                                                     *)
LEMMA BeginsLive ==
  ASSUME Inv, LiveInv, NEW commands \in Seq(Commands), commands # << >>,
         Undertake(commands), Linked(commands), alive \subseteq alive',
         Head(commands).op \notin {"addSink", "delete"},
         Head(commands).op = "addThreadedSink" => Head(commands).arg \in alive'
  PROVE  LiveInv'
<1>1. /\ todo = << >> /\ todo' = commands /\ m_deviceSampleSource \in alive
      /\ UNCHANGED <<m_state, m_deviceSampleSource, m_basebandSampleSinks,
                     m_threadedBasebandSampleSinks, engine, events, sent,
                     m_inputMessageQueue>>
  BY DEF Undertake, AtRest, acquisition
<1>2. ~sent
  BY <1>1 DEF LiveInv, Waiting
<1>3. Waiting'
  BY <1>1, <1>2 DEF LiveInv, Waiting
<1>4. ~Replaced'
  BY <1>1 DEF Replaced
<1>5. Sinks' \subseteq alive'
  BY <1>1 DEF LiveInv, Sinks
<1>6. Ready(Head(todo))'
  BY <1>1 DEF Ready
<1>7. Linked(todo')
  BY <1>1
<1> QED BY <1>3, <1>4, <1>5, <1>6, <1>7 DEF LiveInv, Linked

LEMMA OperationLive ==
  ASSUME Inv, Placed, LiveInv, Operation
  PROVE  LiveInv'
<1>0. /\ Command("gotoIdle", None) \in Commands
      /\ StopAcquisition \in Seq(Commands) /\ StopAcquisition # << >>
      /\ Linked(StopAcquisition) /\ Head(StopAcquisition).op = "gotoIdle"
  BY OfNone, Parts, LinkedShort DEF StopAcquisition, Command
<1>1. CASE StartRequest
  <2> DEFINE a == Command("init", None)
             b == Command("start", None)
  <2>1. /\ <<a, b>> \in Seq(Commands) /\ a.op = "init" /\ ~Depends(b.op)
        /\ a \in Commands /\ b \in Commands
    BY OfNone, Parts DEF Command, Depends
  <2>2. Undertake(<<a, b>>) /\ alive' = alive
    BY <1>1 DEF StartRequest
  <2> HIDE DEF a, b
  <2>3. Linked(<<a, b>>) /\ Head(<<a, b>>) = a
    BY <2>1, Independent, LinkedPair
  <2> QED BY <2>1, <2>2, <2>3, BeginsLive
<1>2. CASE StopRequest
  <2>1. Undertake(StopAcquisition) /\ alive' = alive
    BY <1>2 DEF StopRequest
  <2> QED BY <1>0, <2>1, BeginsLive
<1>3. CASE RemoveDevice
  <2> DEFINE s == m_deviceSampleSource
             free == <<Command("freeChannels", None)>>
             ends == <<Command("quit", None), Command("join", None)>>
  <2>1. /\ Undertake(StopAcquisition \o free \o DestroySource(s) \o ends)
        /\ alive' = alive /\ s \in Sources
    BY <1>3, SourceAtRest DEF RemoveDevice, Undertake
  <2>2. /\ free \in Seq(Commands) /\ free # << >> /\ Linked(free)
        /\ ~Depends(Head(free).op)
    BY OfNone, Parts, LinkedShort DEF Command, Depends
  <2>3. /\ ends \in Seq(Commands) /\ ends # << >> /\ ~Depends(Head(ends).op)
        /\ Linked(ends)
    <3>1. /\ Command("quit", None) \in Commands /\ Command("join", None) \in Commands
          /\ ~Depends(Command("join", None).op) /\ ~Depends(Command("quit", None).op)
      BY OfNone, Parts DEF Command, Depends
    <3>2. Linked(ends)
      BY <3>1, Independent, LinkedPair
    <3> QED BY <3>1, <3>2
  <2>4. /\ DestroySource(s) \in Seq(Commands) /\ DestroySource(s) # << >>
        /\ Linked(DestroySource(s)) /\ ~Depends(Head(DestroySource(s)).op)
    BY <2>1, SourceDestroyed, SeqSub, Parts, LinkedDestroySource DEF Depends
  <2> HIDE DEF free, ends, s
  <2> DEFINE one == StopAcquisition \o free
             two == one \o DestroySource(s)
             all == two \o ends
  <2>5. /\ one \in Seq(Commands) /\ one # << >> /\ Linked(one)
        /\ Head(one) = Head(StopAcquisition)
    BY <1>0, <2>2, Together
  <2> HIDE DEF one
  <2>6. /\ two \in Seq(Commands) /\ two # << >> /\ Linked(two)
        /\ Head(two) = Head(one)
    BY <2>4, <2>5, Together
  <2> HIDE DEF two
  <2>7. /\ all \in Seq(Commands) /\ all # << >> /\ Linked(all)
        /\ Head(all) = Head(two)
    BY <2>3, <2>6, Together
  <2>8. Head(all).op = "gotoIdle"
    BY <1>0, <2>5, <2>6, <2>7
  <2>9. Undertake(all)
    BY <2>1 DEF all, two, one
  <2> HIDE DEF all
  <2> QED BY <2>1, <2>7, <2>8, <2>9, BeginsLive
<1>4. ASSUME NEW c \in Channels, AddChannel(c) PROVE LiveInv'
  <2> DEFINE a == Command("addThreadedSink", c)
  <2>1. Undertake(<<a>>) /\ alive' = alive \cup {c}
    BY <1>4 DEF AddChannel
  <2>2. a \in Commands /\ a.op = "addThreadedSink" /\ a.arg = c
    BY OfChannel, Parts DEF Command
  <2> HIDE DEF a
  <2>3. <<a>> \in Seq(Commands) /\ <<a>> # << >> /\ Head(<<a>>) = a /\ Linked(<<a>>)
    BY <2>2, LinkedShort
  <2> QED BY <2>1, <2>2, <2>3, BeginsLive
<1>5. ASSUME NEW c \in Channels, RemoveChannel(c) PROVE LiveInv'
  <2>1. Undertake(DestroyChannel(c)) /\ alive' = alive
    BY <1>5 DEF RemoveChannel
  <2>2. DestroyChannel(c) \in Seq(Commands)
    BY ChannelDestroyed, SeqSub, Parts
  <2>3. /\ Linked(DestroyChannel(c)) /\ DestroyChannel(c) # << >>
        /\ Head(DestroyChannel(c)).op = "removeThreadedSink"
    BY LinkedDestroyChannel
  <2> QED BY <2>1, <2>2, <2>3, BeginsLive
<1>6. ASSUME NEW s \in Sources, ChangeSampleSource(s) PROVE LiveInv'
  <2> DEFINE old == m_deviceSampleSource
  <2>1. /\ Undertake(StopAcquisition \o DestroySource(old) \o ConstructSource(s))
        /\ alive' = alive /\ old \in Sources
    BY <1>6, SourceAtRest DEF ChangeSampleSource, Undertake
  <2>2. /\ DestroySource(old) \in Seq(Commands) /\ DestroySource(old) # << >>
        /\ Linked(DestroySource(old)) /\ ~Depends(Head(DestroySource(old)).op)
    BY <2>1, SourceDestroyed, SeqSub, Parts, LinkedDestroySource DEF Depends
  <2>3. /\ ConstructSource(s) \in Seq(Commands) /\ ConstructSource(s) # << >>
        /\ Linked(ConstructSource(s)) /\ ~Depends(Head(ConstructSource(s)).op)
    BY SourceConstructed, SeqSub, Parts, LinkedConstructSource DEF Depends
  <2> HIDE DEF old
  <2> DEFINE one == StopAcquisition \o DestroySource(old)
             all == one \o ConstructSource(s)
  <2>4. /\ one \in Seq(Commands) /\ one # << >> /\ Linked(one)
        /\ Head(one) = Head(StopAcquisition)
    BY <1>0, <2>2, Together
  <2> HIDE DEF one
  <2>5. /\ all \in Seq(Commands) /\ all # << >> /\ Linked(all)
        /\ Head(all) = Head(one)
    BY <2>3, <2>4, Together
  <2>6. Head(all).op = "gotoIdle"
    BY <1>0, <2>4, <2>5
  <2>7. Undertake(all)
    BY <2>1 DEF all, one
  <2> HIDE DEF all
  <2> QED BY <2>1, <2>5, <2>6, <2>7, BeginsLive
<1>7. ASSUME NEW r \in Rates, ApplySettings(r) PROVE LiveInv'
  <2>1. /\ todo = << >> /\ todo' = << >> /\ m_deviceSampleSource \in alive
        /\ events' = Append(events, "messages")
        /\ UNCHANGED <<m_state, m_deviceSampleSource, m_basebandSampleSinks,
                       m_threadedBasebandSampleSinks, engine, sent, alive>>
    BY <1>7 DEF ApplySettings, AtRest, acquisition
  <2>2. ~sent /\ \A i \in 1..Len(events) : events[i] # "command"
    BY <2>1 DEF LiveInv, Waiting
  <2>3. Len(events') = Len(events) + 1 /\ Len(events) \in Nat
        /\ events'[Len(events) + 1] = "messages"
        /\ \A i \in 1..Len(events) : events'[i] = events[i]
    BY <2>1 DEF Placed
  <2>4. \A i \in 1..Len(events') : events'[i] # "command"
    BY <2>2, <2>3
  <2>5. \E i \in 1..Len(events') : events'[i] = "messages"
    BY <2>3
  <2>6. Waiting'
    BY <2>1, <2>2, <2>4, <2>5 DEF Waiting
  <2>7. ~Replaced' /\ Sinks' \subseteq alive' /\ Linked(todo')
    BY <2>1, LinkedShort DEF LiveInv, Replaced, Sinks
  <2> QED BY <2>1, <2>6, <2>7 DEF LiveInv, Linked
<1> QED BY <1>1, <1>2, <1>3, <1>4, <1>5, <1>6, <1>7 DEF Operation
-----------------------------------------------------------------------------
(* What is left of an operation after its head.                             *)
LEMMA RestLinked ==
  ASSUME Inv, LiveInv, todo # << >>, NEW next \in Seq(Commands), Linked(next),
         next # << >> => Head(todo).op \notin
                           {"new", "removeSink", "removeThreadedSink"}
  PROVE  /\ Linked(next \o Tail(todo))
         /\ next = << >> => next \o Tail(todo) = Tail(todo)
         /\ Tail(todo) # << >> => Follows(Head(todo), Head(Tail(todo)))
         /\ todo \in Seq(Leaves) /\ next \in Seq(Leaves)
              => next \o Tail(todo) \in Seq(Leaves)
<1> DEFINE rest == Tail(todo)
<1>1. todo \in Seq(Commands) /\ rest \in Seq(Commands)
  BY SeqHead DEF Inv, Operations
<1>2. Linked(rest) /\ (rest # << >> => Follows(Head(todo), Head(rest)))
  BY <1>1, TailLinked DEF LiveInv
<1>3. todo \in Seq(Leaves) => rest \in Seq(Leaves)
  BY SeqHead
<1> HIDE DEF rest
<1>4. next # << >> /\ rest # << >> => Follows(next[Len(next)], Head(rest))
  BY <1>2, Parents, Independent
<1>5. Linked(next \o rest)
  BY <1>1, <1>2, <1>4, LinkedConcat
<1>6. next = << >> => next \o rest = rest
  BY <1>1, SeqConcat
<1>7. next \in Seq(Leaves) /\ rest \in Seq(Leaves) => next \o rest \in Seq(Leaves)
  BY SeqConcat
<1> QED BY <1>2, <1>3, <1>5, <1>6, <1>7 DEF rest

LEMMA WaitingOnMain ==
  ASSUME LiveInv, NEW op \in OnMainThread, NEW next, Do(op, next)
  PROVE  ~sent /\ Waiting'
<1>1. ~sent
  BY DEF LiveInv, Waiting, Do, OnMainThread, Synchronous
<1> QED BY <1>1 DEF LiveInv, Waiting, Do

(* The source stays quiet.                                                  *)
LEMMA StaysQuiet ==
  ASSUME Quiet, UNCHANGED <<engine, events, m_inputMessageQueue>>,
         m_state' # "StRunning", todo' \in Seq(Leaves)
  PROVE  Quiet'
  BY DEF Quiet

(* A step of the main thread that makes and deletes nothing.                *)
LEMMA MainThreadLive ==
  ASSUME Inv, LiveInv, NEW op \in OnMainThread \ {"new", "delete"},
         NEW next \in Seq(Commands), Do(op, next), Linked(next),
         next # << >> => ~Depends(Head(next).op),
         todo \in Seq(Leaves) => next \in Seq(Leaves),
         m_state = "StRunning" \/ m_state' # "StRunning", alive' = alive
  PROVE  LiveInv'
<1>1. /\ todo # << >> /\ Head(todo).op = op /\ todo' = next \o Tail(todo)
      /\ UNCHANGED <<engine, events, m_inputMessageQueue, m_deviceSampleSource,
                     m_basebandSampleSinks, m_threadedBasebandSampleSinks>>
  BY DEF Do
<1>2. Waiting'
  BY WaitingOnMain
<1>3. Head(todo).op \notin {"new", "delete", "removeSink", "removeThreadedSink"}
  BY <1>1 DEF OnMainThread
<1>4. /\ Linked(todo')
      /\ next = << >> => todo' = Tail(todo)
      /\ Tail(todo) # << >> => Follows(Head(todo), Head(Tail(todo)))
      /\ todo \in Seq(Leaves) => todo' \in Seq(Leaves)
  BY <1>1, <1>3, RestLinked
<1>5. todo' # << >> => ~Depends(Head(todo').op)
  <2>1. CASE next = << >>
    BY <1>3, <1>4, <2>1, Parents
  <2>2. CASE next # << >>
    <3>1. Tail(todo) \in Seq(Commands)
      BY <1>1, SeqHead DEF Inv, Operations
    <3>2. Head(next \o Tail(todo)) = Head(next)
      BY <2>2, <3>1, SeqConcat
    <3> QED BY <1>1, <2>2, <3>2
  <2> QED BY <2>1, <2>2
<1>6. todo' # << >> => Ready(Head(todo))'
  BY <1>5 DEF Ready, Depends
<1>7. Replaced' => m_deviceSampleSource \notin alive
  BY <1>1, <1>5 DEF Replaced, Depends
<1>8. Replaced' => Quiet'
  <2> SUFFICES ASSUME Replaced' PROVE Quiet'
    OBVIOUS
  <2>1. Quiet
    BY <1>7 DEF LiveInv, Replaced
  <2> QED BY <1>1, <1>4, <2>1, StaysQuiet DEF Quiet
<1>9. Sinks' \subseteq alive'
  BY <1>1 DEF LiveInv, Sinks
<1> QED BY <1>2, <1>4, <1>6, <1>8, <1>9 DEF LiveInv, Linked

LEMMA NewLive ==
  ASSUME Inv, LiveInv, New
  PROVE  LiveInv'
<1>1. /\ todo # << >> /\ Head(todo).op = "new" /\ todo' = << >> \o Tail(todo)
      /\ Do("new", << >>) /\ alive' = alive \cup With(Head(todo).arg)
      /\ UNCHANGED <<engine, events, m_inputMessageQueue, m_deviceSampleSource,
                     m_basebandSampleSinks, m_threadedBasebandSampleSinks, m_state>>
  BY DEF New, Do
<1>2. Waiting'
  BY <1>1, WaitingOnMain DEF OnMainThread
<1>3. << >> \in Seq(Commands) /\ << >> \in Seq(Leaves)
  OBVIOUS
<1>4. /\ Linked(todo') /\ todo' = Tail(todo)
      /\ Tail(todo) # << >> => Follows(Head(todo), Head(Tail(todo)))
      /\ todo \in Seq(Leaves) => todo' \in Seq(Leaves)
  BY <1>1, <1>3, LinkedShort, RestLinked
<1>5. todo' # << >> =>
        \/ ~Depends(Head(todo').op)
        \/ Head(todo').op = "addSink" /\ Head(todo').arg \in alive'
  <2> SUFFICES ASSUME todo' # << >>, Depends(Head(todo').op)
               PROVE  Head(todo').op = "addSink" /\ Head(todo').arg \in alive'
    OBVIOUS
  <2>1. Follows(Head(todo), Head(todo'))
    BY <1>4
  <2>2. Head(todo').op = "addSink"
    BY <1>1, <2>1 DEF Follows, Depends, Command
  <2>3. PICK s \in Sources : Head(todo) = Command("new", s) /\ Head(todo').arg = Record(s)
    BY <2>1, <2>2 DEF Follows
  <2>4. Head(todo).arg = s
    BY <2>3 DEF Command
  <2>5. Record(s) \in With(s)
    BY Companions
  <2> QED BY <1>1, <2>2, <2>3, <2>4, <2>5
<1>6. todo' # << >> => Ready(Head(todo))'
  BY <1>5 DEF Ready, Depends
<1>7. Replaced' => m_deviceSampleSource \notin alive
  BY <1>1, <1>5 DEF Replaced, Depends
<1>8. Replaced' => Quiet'
  <2> SUFFICES ASSUME Replaced' PROVE Quiet'
    OBVIOUS
  <2>1. Quiet
    BY <1>7 DEF LiveInv, Replaced
  <2> QED BY <1>1, <1>4, <2>1, StaysQuiet DEF Quiet
<1>9. Sinks' \subseteq alive'
  BY <1>1 DEF LiveInv, Sinks
<1> QED BY <1>2, <1>4, <1>6, <1>8, <1>9 DEF LiveInv, Linked

LEMMA DeleteLive ==
  ASSUME Inv, LiveInv, Delete
  PROVE  LiveInv'
<1> DEFINE x == Head(todo).arg
<1>1. /\ todo # << >> /\ Head(todo).op = "delete" /\ todo' = << >> \o Tail(todo)
      /\ Do("delete", << >>) /\ alive' = alive \ With(x)
      /\ UNCHANGED <<engine, events, m_inputMessageQueue, m_deviceSampleSource,
                     m_basebandSampleSinks, m_threadedBasebandSampleSinks, m_state>>
  BY DEF Delete, Do
<1>2. Waiting'
  BY <1>1, WaitingOnMain DEF OnMainThread
<1>3. << >> \in Seq(Commands) /\ << >> \in Seq(Leaves)
  OBVIOUS
<1>4. /\ Linked(todo') /\ todo' = Tail(todo)
      /\ Tail(todo) # << >> => Follows(Head(todo), Head(Tail(todo)))
      /\ todo \in Seq(Leaves) => todo' \in Seq(Leaves)
  BY <1>1, <1>3, LinkedShort, RestLinked
<1>5. todo' # << >> => ~Depends(Head(todo').op)
  BY <1>1, <1>4, Parents
<1>6. todo' # << >> => Ready(Head(todo))'
  BY <1>5 DEF Ready, Depends
<1>7. Sinks' \subseteq alive'
  <2>1. With(x) \cap Sinks = {}
    BY <1>1 DEF LiveInv, Ready
  <2> QED BY <1>1, <2>1 DEF LiveInv, Sinks
<1>8. Replaced' => Replaced
  <2> SUFFICES ASSUME Replaced', ~Replaced PROVE FALSE
    OBVIOUS
  <2>1. m_deviceSampleSource \notin alive' /\ m_deviceSampleSource \in alive
    BY <1>1, <1>5 DEF Replaced, Depends
  <2>2. x \in Sources \cup Channels
    BY <1>1, Ended DEF Inv, Commands, Argumented
  <2>3. x \in Channels
    BY <1>1, <2>2 DEF Replaced
  <2>4. m_deviceSampleSource = x
    BY <1>1, <2>1, <2>3, Companions
  <2> QED BY <2>3, <2>4, Kinds DEF Inv, Objective
<1>9. Replaced' => Quiet'
  <2> SUFFICES ASSUME Replaced' PROVE Quiet'
    OBVIOUS
  <2>1. Quiet
    BY <1>8 DEF LiveInv
  <2> QED BY <1>1, <1>4, <2>1, StaysQuiet DEF Quiet
<1> QED BY <1>2, <1>4, <1>6, <1>7, <1>9 DEF LiveInv, Linked

LEMMA SendWaitLive ==
  ASSUME Inv, Placed, LiveInv, SendWait
  PROVE  LiveInv'
<1>1. /\ todo # << >> /\ Head(todo).op \in Synchronous /\ ~sent /\ sent' = TRUE
      /\ events' = Append(events, "command")
      /\ UNCHANGED <<m_state, m_deviceSampleSource, m_basebandSampleSinks,
                     m_threadedBasebandSampleSinks, engine, todo, alive,
                     m_inputMessageQueue>>
  BY DEF SendWait, acquisition, objects
<1>2. \A i \in 1..Len(events) : events[i] # "command"
  BY <1>1 DEF LiveInv, Waiting
<1>3. Len(events') = Len(events) + 1 /\ Len(events) \in Nat
      /\ events'[Len(events) + 1] = "command"
      /\ \A i \in 1..Len(events) : events'[i] = events[i]
  BY <1>1 DEF Placed
<1>4. \A i, j \in 1..Len(events') : i < j => events'[i] # "command"
  BY <1>2, <1>3
<1>5. Waiting'
  <2>1. m_inputMessageQueue # << >> =>
          engine = "messages" \/ \E i \in 1..Len(events') : events'[i] = "messages"
    BY <1>3 DEF LiveInv, Waiting
  <2> QED BY <1>1, <1>4, <2>1 DEF Waiting
<1>6. Quiet => Quiet'
  BY <1>1, <1>3 DEF Quiet
<1> QED BY <1>1, <1>5, <1>6 DEF LiveInv, Linked, Ready, Replaced, Sinks

LEMMA ContinueLive ==
  ASSUME Inv, Placed, LiveInv, Continue
  PROVE  LiveInv'
<1>0. << >> \in Seq(Commands) /\ << >> \in Seq(Leaves) /\ Linked(<< >>)
  <2>1. Linked(<< >>)
    BY LinkedShort
  <2> QED BY <2>1
<1>1. CASE SendWait
  BY <1>1, SendWaitLive
<1>2. CASE New
  BY <1>2, NewLive
<1>3. CASE Delete
  BY <1>3, DeleteLive
<1>4. CASE GotoIdle
  <2> DEFINE c == Command("stopSource", None)
  <2>1. /\ c \in Commands /\ c \in Leaves /\ ~Depends(c.op)
    BY OfNone DEF Command, Depends
  <2>2. /\ Do("gotoIdle", <<c>>) \/ Do("gotoIdle", << >>)
        /\ alive' = alive /\ (m_state = "StRunning" \/ m_state' # "StRunning")
    BY <1>4 DEF GotoIdle
  <2> HIDE DEF c
  <2>3. /\ <<c>> \in Seq(Commands) /\ <<c>> \in Seq(Leaves) /\ Linked(<<c>>)
        /\ ~Depends(Head(<<c>>).op)
    BY <2>1, LinkedShort
  <2>4. "gotoIdle" \in OnMainThread \ {"new", "delete"}
    BY DEF OnMainThread
  <2> QED BY <1>0, <2>2, <2>3, <2>4, MainThreadLive
<1>5. CASE StopSource
  <2> DEFINE c == Command("setIdle", None)
  <2>1. /\ c \in Commands /\ c \in Leaves /\ ~Depends(c.op)
    BY OfNone DEF Command, Depends
  <2>2. Do("stopSource", <<c>>) /\ alive' = alive /\ m_state' = m_state
    BY <1>5 DEF StopSource
  <2> HIDE DEF c
  <2>3. /\ <<c>> \in Seq(Commands) /\ <<c>> \in Seq(Leaves) /\ Linked(<<c>>)
        /\ ~Depends(Head(<<c>>).op)
    BY <2>1, LinkedShort
  <2>4. "stopSource" \in OnMainThread \ {"new", "delete"}
    BY DEF OnMainThread
  <2> QED BY <2>2, <2>3, <2>4, MainThreadLive
<1>6. CASE FreeChannels
  <2>1. /\ alive' = alive /\ m_state' = m_state
        /\ \/ Do("freeChannels", << >>)
           \/ \E c \in Channels :
                Do("freeChannels", Append(DestroyChannel(c), Head(todo)))
    BY <1>6 DEF FreeChannels
  <2>2. "freeChannels" \in OnMainThread \ {"new", "delete"}
    BY DEF OnMainThread
  <2>3. ASSUME NEW c \in Channels,
               Do("freeChannels", Append(DestroyChannel(c), Head(todo)))
        PROVE  LiveInv'
    <3> DEFINE d == DestroyChannel(c)
               h == Head(todo)
    <3>1. h \in Commands /\ h.op = "freeChannels" /\ todo # << >>
      BY <2>3, Ended DEF Inv, Do
    <3>2. d \in Seq(Commands) /\ d \in Seq(Leaves)
      BY ChannelDestroyed, SeqSub, Parts
    <3>3. Linked(d) /\ d # << >> /\ Head(d).op = "removeThreadedSink"
      BY LinkedDestroyChannel
    <3>4. h \in Leaves /\ ~Depends(h.op)
      BY <3>1 DEF Leaves, Depends
    <3>5. Do("freeChannels", Append(d, h))
      BY <2>3
    <3> HIDE DEF d, h
    <3>6. /\ <<h>> \in Seq(Commands) /\ <<h>> # << >> /\ Head(<<h>>) = h
          /\ Linked(<<h>>) /\ Append(d, h) = d \o <<h>>
      BY <3>1, <3>2, LinkedShort
    <3>7. /\ Linked(Append(d, h)) /\ Append(d, h) \in Seq(Commands)
          /\ Append(d, h) # << >> /\ Head(Append(d, h)) = Head(d)
      BY <3>2, <3>3, <3>4, <3>6, Together
    <3>8. Append(d, h) \in Seq(Leaves)
      BY <3>2, <3>4
    <3>9. ~Depends(Head(Append(d, h)).op)
      BY <3>3, <3>7 DEF Depends
    <3> QED BY <2>1, <2>2, <3>5, <3>7, <3>8, <3>9, MainThreadLive
  <2> QED BY <1>0, <2>1, <2>2, <2>3, MainThreadLive
<1>7. CASE SetIdle \/ Quit \/ Join
  <2>1. /\ alive' = alive /\ (m_state' = m_state \/ m_state' # "StRunning")
        /\ Do("setIdle", << >>) \/ Do("quit", << >>) \/ Do("join", << >>)
    BY <1>7 DEF SetIdle, Quit, Join
  <2>2. {"setIdle", "quit", "join"} \subseteq OnMainThread \ {"new", "delete"}
    BY DEF OnMainThread
  <2> QED BY <1>0, <2>1, <2>2, MainThreadLive
<1> QED BY <1>1, <1>2, <1>3, <1>4, <1>5, <1>6, <1>7 DEF Continue
-----------------------------------------------------------------------------
(* The engine answers a command: nothing but data waits any more.           *)
LEMMA AnswerLive ==
  ASSUME Inv, Placed, LiveInv, NEW op, NEW newEvents \in {<< >>, <<"messages">>},
         Handling(op, newEvents)
  PROVE  /\ todo # << >> /\ Head(todo).op = op /\ Head(todo) \in Commands
         /\ engine' = "loop" /\ ~sent' /\ alive' = alive
         /\ m_inputMessageQueue = << >>
         /\ \A i \in 1..Len(events') : events'[i] # "command"
         /\ newEvents = << >> =>
              \A i \in 1..Len(events') : events'[i] # "messages"
         /\ newEvents # << >> =>
              \E i \in 1..Len(events') : events'[i] = "messages"
<1>1. /\ todo # << >> /\ Head(todo).op = op /\ Head(todo) \in Commands
      /\ engine = "loop" /\ engine' = "loop" /\ ~sent' /\ alive' = alive
      /\ events # << >> /\ Head(events) = "command"
      /\ events' = Tail(events) \o newEvents
  BY Ended DEF Handling, Inv
<1>2. /\ Len(events) \in Nat /\ Len(events) > 0 /\ events[1] = "command"
      /\ Tail(events) \in Seq(Events) /\ Len(Tail(events)) = Len(events) - 1
      /\ \A i \in 1..Len(Tail(events)) : Tail(events)[i] = events[i+1]
  BY <1>1 DEF Placed
<1>3. \A j \in 1..Len(events) : 1 < j => events[j] = "data"
  BY <1>2 DEF LiveInv, Waiting
<1>4. \A i \in 1..Len(Tail(events)) : Tail(events)[i] = "data"
  BY <1>2, <1>3
<1>5. m_inputMessageQueue = << >>
  BY <1>1, <1>2, <1>3 DEF LiveInv, Waiting
<1> DEFINE q == Tail(events)
<1>6. q \in Seq(Events) /\ (\A i \in 1..Len(q) : q[i] = "data") /\ events' = q \o newEvents
  BY <1>1, <1>2, <1>4
<1> HIDE DEF q
<1>7. CASE newEvents = << >>
  <2>1. events' = q
    BY <1>6, <1>7
  <2> QED BY <1>1, <1>5, <1>6, <1>7, <2>1
<1>8. CASE newEvents = <<"messages">>
  <2>1. events' = Append(q, "messages")
    BY <1>6, <1>8
  <2>2. /\ Len(q) \in Nat /\ Len(events') = Len(q) + 1
        /\ events'[Len(q) + 1] = "messages"
        /\ \A i \in 1..Len(q) : events'[i] = q[i]
    BY <1>6, <2>1
  <2>3. \A i \in 1..Len(events') : events'[i] \in {"data", "messages"}
    BY <1>6, <2>2
  <2>4. \E i \in 1..Len(events') : events'[i] = "messages"
    BY <2>2
  <2>5. newEvents # << >>
    BY <1>8
  <2> QED BY <1>1, <1>5, <2>3, <2>4, <2>5
<1> QED BY <1>7, <1>8

(* A command whose answer makes nothing of what follows.                    *)
LEMMA PlainAnswerLive ==
  ASSUME Inv, Placed, LiveInv,
         NEW op \in Synchronous \ {"removeSink", "removeThreadedSink", "setSource"},
         NEW newEvents \in {<< >>, <<"messages">>}, Handling(op, newEvents),
         newEvents # << >> => op = "start",
         newEvents = << >> => m_inputMessageQueue' = m_inputMessageQueue,
         todo' = Tail(todo) \/ todo' = << >>,
         m_state = "StRunning" \/ m_state' # "StRunning" \/ op = "start",
         m_deviceSampleSource' = m_deviceSampleSource,
         Sinks' \subseteq alive
  PROVE  LiveInv'
<1>1. /\ todo # << >> /\ Head(todo).op = op /\ engine' = "loop" /\ ~sent'
      /\ alive' = alive /\ m_inputMessageQueue = << >>
      /\ \A i \in 1..Len(events') : events'[i] # "command"
      /\ newEvents = << >> => \A i \in 1..Len(events') : events'[i] # "messages"
      /\ newEvents # << >> => \E i \in 1..Len(events') : events'[i] = "messages"
  BY AnswerLive
<1>2. Waiting'
  BY <1>1 DEF Waiting
<1>3. /\ << >> \in Seq(Commands) /\ << >> \in Seq(Leaves) /\ Linked(<< >>)
      /\ Head(todo).op \notin {"new", "delete", "removeSink", "removeThreadedSink"}
  <2>1. Linked(<< >>)
    BY LinkedShort
  <2> QED BY <1>1, <2>1 DEF Synchronous
<1>4. /\ Linked(todo')
      /\ todo' # << >> => ~Depends(Head(todo').op)
      /\ todo \in Seq(Leaves) => todo' \in Seq(Leaves)
  <2>1. CASE todo' = << >>
    BY <1>3, <2>1
  <2>2. CASE todo' = Tail(todo)
    <3>1. /\ Linked(Tail(todo))
          /\ Tail(todo) # << >> => Follows(Head(todo), Head(Tail(todo)))
          /\ todo \in Seq(Leaves) => Tail(todo) \in Seq(Leaves)
      BY <1>1, <1>3, RestLinked
    <3> QED BY <1>3, <2>2, <3>1, Parents
  <2> QED BY <2>1, <2>2
<1>5. todo' # << >> => Ready(Head(todo))'
  BY <1>4 DEF Ready, Depends
<1>6. Replaced' => m_deviceSampleSource \notin alive
  BY <1>1, <1>4 DEF Replaced, Depends
<1>7. Replaced' => Quiet'
  <2> SUFFICES ASSUME Replaced' PROVE Quiet'
    OBVIOUS
  <2>1. Quiet
    BY <1>6 DEF LiveInv, Replaced
  <2>2. op # "start"
    <3>1. Head(todo) \in Leaves
      BY <1>1, <2>1, SeqHead DEF Quiet
    <3> QED BY <1>1, <3>1 DEF Leaves
  <2> QED BY <1>1, <1>4, <2>1, <2>2 DEF Quiet
<1> QED BY <1>1, <1>2, <1>4, <1>5, <1>7 DEF LiveInv, Linked

(* An answer that begins, or goes on with, the replacement of the source.   *)
LEMMA QuietAnswer ==
  ASSUME Inv, Placed, LiveInv, NEW op, Handling(op, << >>),
         m_inputMessageQueue' = m_inputMessageQueue, todo' \in Seq(Leaves),
         m_state' # "StRunning"
  PROVE  Quiet' /\ Waiting'
<1>1. /\ engine' = "loop" /\ ~sent' /\ m_inputMessageQueue = << >>
      /\ \A i \in 1..Len(events') : events'[i] # "command"
      /\ \A i \in 1..Len(events') : events'[i] # "messages"
  BY AnswerLive
<1> QED BY <1>1 DEF Quiet, Waiting

LEMMA Rested ==
  ASSUME Inv, LiveInv, todo # << >>
  PROVE  /\ Linked(Tail(todo))
         /\ Tail(todo) # << >> => Follows(Head(todo), Head(Tail(todo)))
         /\ todo \in Seq(Leaves) => Tail(todo) \in Seq(Leaves)
<1>1. todo \in Seq(Commands)
  BY DEF Inv, Operations
<1> QED BY <1>1, SeqHead, TailLinked DEF LiveInv

LEMMA CommandLive ==
  ASSUME Inv, Placed, LiveInv, HandleCommand
  PROVE  LiveInv'
<1>0. Sinks \subseteq alive /\ m_basebandSampleSinks \subseteq Records
      /\ m_threadedBasebandSampleSinks \subseteq Channels
  BY DEF LiveInv, Inv, Objective
<1>1. CASE InitAcquisition
  <2>1. /\ Handling("init", << >>) /\ m_inputMessageQueue' = m_inputMessageQueue
        /\ todo' = Tail(todo) \/ todo' = << >>
        /\ m_state' # "StRunning" /\ m_deviceSampleSource' = m_deviceSampleSource
        /\ Sinks' = Sinks
    BY <1>1 DEF InitAcquisition, Done, Sinks
  <2>2. "init" \in Synchronous \ {"removeSink", "removeThreadedSink", "setSource"}
    BY DEF Synchronous
  <2> QED BY <1>0, <2>1, <2>2, PlainAnswerLive
<1>2. CASE StartAcquisition
  <2>1. /\ todo' = Tail(todo) /\ m_deviceSampleSource' = m_deviceSampleSource
        /\ Sinks' = Sinks
        /\ \/ Handling("start", <<"messages">>)
           \/ Handling("start", << >>) /\ m_inputMessageQueue' = m_inputMessageQueue
    BY <1>2 DEF StartAcquisition, Done, Sinks
  <2>2. "start" \in Synchronous \ {"removeSink", "removeThreadedSink", "setSource"}
    BY DEF Synchronous
  <2>3. <<"messages">> # << >>
    OBVIOUS
  <2> QED BY <1>0, <2>1, <2>2, <2>3, PlainAnswerLive
<1>3. CASE SetSource
  <2>1. /\ Handling("setSource", << >>) /\ m_inputMessageQueue' = m_inputMessageQueue
        /\ todo' = Tail(todo) /\ m_state' = m_state /\ Sinks' = Sinks
    BY <1>3 DEF SetSource, Done, Sinks
  <2>2. todo # << >> /\ Head(todo).op = "setSource" /\ alive' = alive
    BY <2>1, AnswerLive
  <2>3. m_state # "StRunning" /\ todo \in Seq(Leaves)
    BY <2>2, Settled
  <2>4. /\ Linked(todo') /\ todo' \in Seq(Leaves)
        /\ todo' # << >> => ~Depends(Head(todo').op)
    BY <2>1, <2>2, <2>3, Rested, Parents
  <2>5. Quiet' /\ Waiting'
    BY <2>1, <2>3, <2>4, QuietAnswer
  <2>6. todo' # << >> => Ready(Head(todo))'
    BY <2>4 DEF Ready, Depends
  <2> QED BY <1>0, <2>1, <2>2, <2>4, <2>5, <2>6 DEF LiveInv, Linked
<1>4. CASE AddSink \/ AddThreadedSink
  <2>1. PICK op \in {"addSink", "addThreadedSink"} : Handling(op, << >>)
    BY <1>4 DEF AddSink, AddThreadedSink
  <2>2. /\ m_inputMessageQueue' = m_inputMessageQueue /\ todo' = Tail(todo)
        /\ m_deviceSampleSource' = m_deviceSampleSource /\ m_state' = m_state
        /\ Sinks' = Sinks \cup {Head(todo).arg}
    BY <1>4 DEF AddSink, AddThreadedSink, Done, Argument, Sinks
  <2>3. todo # << >> /\ Head(todo).op = op
    BY <2>1, AnswerLive
  <2>4. Head(todo).arg \in alive
    BY <2>3 DEF LiveInv, Ready
  <2>5. op \in Synchronous \ {"removeSink", "removeThreadedSink", "setSource"}
    BY DEF Synchronous
  <2> QED BY <1>0, <2>1, <2>2, <2>4, <2>5, PlainAnswerLive
<1>5. CASE RemoveSink
  <2>1. /\ Handling("removeSink", << >>) /\ m_inputMessageQueue' = m_inputMessageQueue
        /\ todo' = Tail(todo) /\ m_state' = m_state
        /\ m_basebandSampleSinks' = m_basebandSampleSinks \ {Head(todo).arg}
        /\ m_threadedBasebandSampleSinks' = m_threadedBasebandSampleSinks
    BY <1>5 DEF RemoveSink, Done, Argument
  <2>2. todo # << >> /\ Head(todo).op = "removeSink" /\ alive' = alive
    BY <2>1, AnswerLive
  <2>3. m_state # "StRunning" /\ todo \in Seq(Leaves)
    BY <2>2, Settled
  <2>4. /\ Linked(todo') /\ todo' \in Seq(Leaves)
        /\ todo' # << >> => Follows(Head(todo), Head(todo'))
    BY <2>1, <2>2, <2>3, Rested
  <2>5. Quiet' /\ Waiting'
    BY <2>1, <2>3, <2>4, QuietAnswer
  <2>6. ASSUME todo' # << >>, Depends(Head(todo').op)
        PROVE  Head(todo').op = "delete" /\ With(Head(todo').arg) \cap Sinks' = {}
    <3> DEFINE x == Head(todo').arg
    <3>1. Head(todo').op = "delete" /\ x \in Sources
          /\ Head(todo) = Command("removeSink", Record(x))
      BY <2>2, <2>4, <2>6 DEF Follows, Depends, Command
    <3>2. Head(todo).arg = Record(x)
      BY <3>1 DEF Command
    <3>3. With(x) = {x, Record(x)} /\ Record(x) \in Records
      BY <3>1, Companions
    <3>4. /\ x \notin Records /\ x \notin Channels /\ Record(x) \notin Channels
      BY <3>1, <3>3, Kinds
    <3>5. Sinks' \subseteq (Records \ {Record(x)}) \cup Channels
      BY <1>0, <2>1, <3>2 DEF Sinks
    <3> HIDE DEF x
    <3>6. With(x) \cap Sinks' = {}
      BY <3>3, <3>4, <3>5
    <3> QED BY <3>1, <3>6 DEF x
  <2>7. todo' # << >> => Ready(Head(todo))'
    BY <2>6 DEF Ready, Depends
  <2>8. Sinks' \subseteq alive'
    BY <1>0, <2>1, <2>2 DEF Sinks
  <2> QED BY <2>4, <2>5, <2>7, <2>8 DEF LiveInv, Linked
<1>6. CASE RemoveThreadedSink
  <2>1. /\ Handling("removeThreadedSink", << >>)
        /\ m_inputMessageQueue' = m_inputMessageQueue
        /\ todo' = Tail(todo) /\ m_state' = m_state
        /\ m_deviceSampleSource' = m_deviceSampleSource
        /\ m_threadedBasebandSampleSinks' =
             m_threadedBasebandSampleSinks \ {Head(todo).arg}
        /\ m_basebandSampleSinks' = m_basebandSampleSinks
    BY <1>6 DEF RemoveThreadedSink, Done, Argument
  <2>2. /\ todo # << >> /\ Head(todo).op = "removeThreadedSink" /\ alive' = alive
        /\ engine' = "loop" /\ ~sent' /\ m_inputMessageQueue = << >>
        /\ \A i \in 1..Len(events') : events'[i] # "command"
        /\ \A i \in 1..Len(events') : events'[i] # "messages"
    BY <2>1, AnswerLive
  <2>3. Waiting'
    BY <2>1, <2>2 DEF Waiting
  <2>4. /\ Linked(todo')
        /\ todo' # << >> => Follows(Head(todo), Head(todo'))
        /\ todo \in Seq(Leaves) => todo' \in Seq(Leaves)
    BY <2>1, <2>2, Rested
  <2>5. ASSUME todo' # << >>, Depends(Head(todo').op)
        PROVE  /\ Head(todo').op = "delete" /\ Head(todo').arg \in Channels
               /\ With(Head(todo').arg) \cap Sinks' = {}
    <3> DEFINE x == Head(todo').arg
    <3>1. Head(todo').op = "delete" /\ x \in Channels
          /\ Head(todo) = Command("removeThreadedSink", x)
      BY <2>2, <2>4, <2>5 DEF Follows, Depends, Command
    <3>2. Head(todo).arg = x
      BY <3>1 DEF Command
    <3>3. With(x) = {x} /\ x \notin Records
      BY <3>1, Companions, Kinds
    <3>4. x \notin Sinks'
      BY <1>0, <2>1, <3>2, <3>3 DEF Sinks
    <3> HIDE DEF x
    <3>5. With(x) \cap Sinks' = {}
      BY <3>3, <3>4
    <3> QED BY <3>1, <3>5 DEF x
  <2>6. todo' # << >> => Ready(Head(todo))'
    BY <2>5 DEF Ready, Depends
  <2>7. Replaced' => Quiet'
    <3> SUFFICES ASSUME Replaced' PROVE Quiet'
      OBVIOUS
    <3>1. m_deviceSampleSource \notin alive
      <4>1. Head(todo').arg \in Channels => Head(todo').arg \notin Sources
        BY Kinds
      <4> QED BY <2>1, <2>2, <2>5, <4>1 DEF Replaced, Depends
    <3>2. Quiet
      BY <3>1 DEF LiveInv, Replaced
    <3> QED BY <2>1, <2>2, <2>4, <3>2 DEF Quiet
  <2>8. Sinks' \subseteq alive'
    BY <1>0, <2>1, <2>2 DEF Sinks
  <2> QED BY <2>3, <2>4, <2>6, <2>7, <2>8 DEF LiveInv, Linked
<1> QED BY <1>1, <1>2, <1>3, <1>4, <1>5, <1>6 DEF HandleCommand
-----------------------------------------------------------------------------
(* What the engine does between commands, and the thread of the source.     *)
LEMMA BetweenLive ==
  ASSUME LiveInv, Waiting', Quiet => Quiet',
         UNCHANGED <<m_deviceSampleSource, m_basebandSampleSinks,
                     m_threadedBasebandSampleSinks, todo, alive>>
  PROVE  LiveInv'
  BY DEF LiveInv, Linked, Ready, Replaced, Sinks

LEMMA TakeEventLive ==
  ASSUME Placed, LiveInv, NEW event, TakeEvent(event), event # "command",
         UNCHANGED <<todo, sent, m_inputMessageQueue>>,
         event = "messages" => engine' = "messages"
  PROVE  /\ Waiting' /\ (Quiet => event # "messages")
         /\ Quiet => \A i \in 1..Len(events') : events'[i] # "messages"
<1>1. /\ engine = "loop" /\ events # << >> /\ events[1] = event
      /\ Len(events) \in Nat /\ Len(events) > 0 /\ Len(events') = Len(events) - 1
      /\ \A i \in 1..Len(events') : events'[i] = events[i+1]
  BY DEF TakeEvent, Placed
<1>2. \A i \in 1..Len(events') : i+1 \in 1..Len(events)
  BY <1>1
<1>3. ~sent' => \A i \in 1..Len(events') : events'[i] # "command"
  BY <1>1, <1>2 DEF LiveInv, Waiting
<1>4. ASSUME NEW i \in 1..Len(events'), NEW j \in 1..Len(events'),
             i < j, events'[i] = "command"
      PROVE  events'[j] = "data"
  <2>1. i+1 \in 1..Len(events) /\ j+1 \in 1..Len(events) /\ i+1 < j+1
    BY <1>2, <1>4
  <2> QED BY <1>1, <1>4, <2>1 DEF LiveInv, Waiting
<1>5. ASSUME m_inputMessageQueue' # << >>
      PROVE  engine' = "messages" \/ \E i \in 1..Len(events') : events'[i] = "messages"
  <2>1. PICK i \in 1..Len(events) : events[i] = "messages"
    BY <1>1, <1>5 DEF LiveInv, Waiting
  <2>2. CASE i = 1
    BY <1>1, <2>1, <2>2
  <2>3. CASE i > 1
    <3>1. i-1 \in 1..Len(events') /\ (i-1)+1 = i
      BY <1>1, <2>3
    <3> QED BY <1>1, <2>1, <3>1
  <2> QED BY <2>2, <2>3
<1>6. Quiet => event # "messages"
  BY <1>1 DEF Quiet
<1>7. Quiet => \A i \in 1..Len(events') : events'[i] # "messages"
  BY <1>1, <1>2 DEF Quiet
<1> QED BY <1>3, <1>4, <1>5, <1>6, <1>7 DEF LiveInv, Waiting

LEMMA DataReadyLive ==
  ASSUME Placed, LiveInv, DataReady
  PROVE  LiveInv'
<1>1. /\ events' = Append(events, "data")
      /\ UNCHANGED <<m_state, m_deviceSampleSource, m_basebandSampleSinks,
                     m_threadedBasebandSampleSinks, m_inputMessageQueue, engine,
                     todo, sent, alive>>
  BY DEF DataReady, acquisition, objects
<1>2. Len(events') = Len(events) + 1 /\ Len(events) \in Nat
      /\ events'[Len(events) + 1] = "data"
      /\ \A i \in 1..Len(events) : events'[i] = events[i]
  BY <1>1 DEF Placed
<1>3. \A i \in 1..Len(events') :
        events'[i] # "data" => i \in 1..Len(events) /\ events'[i] = events[i]
  BY <1>2
<1>4. ~sent' => \A i \in 1..Len(events') : events'[i] # "command"
  BY <1>1, <1>3 DEF LiveInv, Waiting
<1>5. ASSUME NEW i \in 1..Len(events'), NEW j \in 1..Len(events'),
             i < j, events'[i] = "command"
      PROVE  events'[j] = "data"
  <2>1. CASE j \in 1..Len(events)
    BY <1>2, <1>3, <1>5, <2>1 DEF LiveInv, Waiting
  <2>2. CASE j = Len(events) + 1
    BY <1>2, <2>2
  <2> QED BY <1>2, <2>1, <2>2
<1>6. m_inputMessageQueue' # << >> =>
        engine' = "messages" \/ \E i \in 1..Len(events') : events'[i] = "messages"
  BY <1>1, <1>2 DEF LiveInv, Waiting
<1>7. Waiting'
  BY <1>1, <1>4, <1>5, <1>6 DEF LiveInv, Waiting
<1>8. Quiet => Quiet'
  BY <1>1, <1>3 DEF Quiet
<1> QED BY <1>1, <1>7, <1>8, BetweenLive

LEMMA EngineLive ==
  ASSUME Inv, Placed, LiveInv, Engine
  PROVE  LiveInv'
<1>1. ASSUME NEW from, NEW to, EngineAt(from, to), from \notin {"messages", "finished"},
             to \in {"loop", "finished", "work", "feed"},
             from \in {"starting", "loop"} => to \in {"loop", "finished"},
             m_state' = m_state \/ m_state' # "StRunning",
             UNCHANGED <<m_deviceSampleSource, m_basebandSampleSinks, events,
                         m_threadedBasebandSampleSinks, m_inputMessageQueue,
                         todo, sent, alive>>
      PROVE  LiveInv'
  <2>1. Waiting'
    BY <1>1 DEF EngineAt, LiveInv, Waiting
  <2>2. Quiet => from \in {"starting", "loop"}
    BY <1>1 DEF EngineAt, Quiet
  <2>3. Quiet => Quiet'
    BY <1>1, <2>2 DEF EngineAt, Quiet
  <2> QED BY <1>1, <2>1, <2>3, BetweenLive
<1>2. CASE Run
  <2>1. /\ EngineAt("starting", "loop") /\ m_state' # "StRunning"
        /\ UNCHANGED <<m_deviceSampleSource, m_basebandSampleSinks, events,
                       m_threadedBasebandSampleSinks, m_inputMessageQueue,
                       todo, sent, alive>>
    BY <1>2 DEF Run, objects
  <2> QED BY <1>1, <2>1
<1>3. CASE Exit
  <2>1. /\ EngineAt("loop", "finished")
        /\ UNCHANGED <<m_state, m_deviceSampleSource, m_basebandSampleSinks, events,
                       m_threadedBasebandSampleSinks, m_inputMessageQueue,
                       todo, sent, alive>>
    BY <1>3 DEF Exit, acquisition, objects
  <2> QED BY <1>1, <2>1
<1>4. CASE Work
  <2>1. /\ EngineAt("work", "feed") \/ EngineAt("work", "loop")
        /\ UNCHANGED <<m_state, m_deviceSampleSource, m_basebandSampleSinks, events,
                       m_threadedBasebandSampleSinks, m_inputMessageQueue,
                       todo, sent, alive>>
    BY <1>4 DEF Work, EngineAt, acquisition, objects
  <2> QED BY <1>1, <2>1
<1>5. CASE Feed
  <2>1. /\ EngineAt("feed", "work")
        /\ UNCHANGED <<m_state, m_deviceSampleSource, m_basebandSampleSinks, events,
                       m_threadedBasebandSampleSinks, m_inputMessageQueue,
                       todo, sent, alive>>
    BY <1>5 DEF Feed, acquisition, objects
  <2> QED BY <1>1, <2>1
<1>6. CASE HandleData
  <2>1. /\ TakeEvent("data")
        /\ engine' = IF m_state = "StRunning" THEN "work" ELSE "loop"
        /\ UNCHANGED <<m_state, m_deviceSampleSource, m_basebandSampleSinks,
                       m_threadedBasebandSampleSinks, m_inputMessageQueue,
                       todo, sent, alive>>
    BY <1>6 DEF HandleData, acquisition, objects
  <2>2. /\ Waiting'
        /\ Quiet => \A i \in 1..Len(events') : events'[i] # "messages"
    BY <2>1, TakeEventLive
  <2>3. Quiet => Quiet'
    BY <2>1, <2>2 DEF Quiet
  <2> QED BY <2>1, <2>2, <2>3, BetweenLive
<1>7. CASE TakeMessages
  <2>1. /\ TakeEvent("messages") /\ engine' = "messages"
        /\ UNCHANGED <<m_state, m_deviceSampleSource, m_basebandSampleSinks,
                       m_threadedBasebandSampleSinks, m_inputMessageQueue,
                       todo, sent, alive>>
    BY <1>7 DEF TakeMessages, acquisition, objects
  <2>2. Waiting' /\ ~Quiet
    BY <2>1, TakeEventLive
  <2> QED BY <2>1, <2>2, BetweenLive
<1>8. CASE HandleMessage
  <2>1. /\ engine = "messages" /\ engine' = "messages"
        /\ UNCHANGED <<m_deviceSampleSource, m_basebandSampleSinks, events,
                       m_threadedBasebandSampleSinks, todo, sent, alive>>
    BY <1>8 DEF HandleMessage, EngineAt
  <2>2. Waiting' /\ ~Quiet
    BY <2>1 DEF LiveInv, Waiting, Quiet
  <2> QED BY <2>1, <2>2, BetweenLive
<1>9. CASE NoMoreMessages
  <2>1. /\ engine = "messages" /\ m_inputMessageQueue = << >>
        /\ UNCHANGED <<m_deviceSampleSource, m_basebandSampleSinks, events,
                       m_threadedBasebandSampleSinks, m_inputMessageQueue,
                       todo, sent, alive>>
    BY <1>9 DEF NoMoreMessages, EngineAt, acquisition, objects
  <2>2. Waiting' /\ ~Quiet
    BY <2>1 DEF LiveInv, Waiting, Quiet
  <2> QED BY <2>1, <2>2, BetweenLive
<1>10. CASE HandleCommand
  BY <1>10, CommandLive
<1> QED BY <1>2, <1>3, <1>4, <1>5, <1>6, <1>7, <1>8, <1>9, <1>10 DEF Engine

LEMMA InitLive ==
  ASSUME Init
  PROVE  LiveInv
<1>1. PICK s \in Sources : todo = ConstructSource(s)
  BY DEF Init
<1>2. /\ Linked(todo) /\ todo # << >> /\ Head(todo).op = "new" /\ todo \in Seq(Leaves)
  BY <1>1, LinkedConstructSource, SourceConstructed
<1>3. Ready(Head(todo)) /\ Quiet /\ Waiting /\ Sinks \subseteq alive
  BY <1>2 DEF Init, Ready, Quiet, Waiting, Sinks
<1> QED BY <1>2, <1>3 DEF LiveInv

(* What the main thread deletes has been taken from the engine, and the     *)
(* engine is at rest when its source goes.                                  *)
THEOREM AtRestWhenReplaced == Spec => []LiveInv
<1>1. Inv /\ Rated /\ Placed /\ LiveInv /\ [Next]_vars => LiveInv'
  <2> SUFFICES ASSUME Inv, Placed, LiveInv, [Next]_vars PROVE LiveInv'
    OBVIOUS
  <2>1. CASE DataReady
    BY <2>1, DataReadyLive
  <2>2. CASE UNCHANGED vars
    BY <2>2 DEF vars, acquisition, objects, LiveInv, Linked, Ready, Waiting,
                Replaced, Quiet, Sinks
  <2> QED BY <2>1, <2>2, OperationLive, ContinueLive, EngineLive DEF Next
<1> QED BY Invariance, Types, InitLive, <1>1, PTL DEF Spec

(* work() and handleInputMessages() of the engine's thread find neither     *)
(* their source nor a sink deleted, whatever sources and channels the main  *)
(* thread makes, replaces and deletes meanwhile.                            *)
THEOREM ObjectsLive == Spec => []UsesLiveObjects
<1>1. LiveInv => UsesLiveObjects
  <2> SUFFICES ASSUME LiveInv,
                      \/ engine \in {"work", "feed"}
                      \/ engine = "messages" /\ m_inputMessageQueue # << >>
               PROVE  {m_deviceSampleSource} \cup Sinks \subseteq alive
    BY DEF UsesLiveObjects
  <2>1. ~Quiet
    BY DEF Quiet
  <2> QED BY <2>1 DEF LiveInv, Replaced
<1> QED BY AtRestWhenReplaced, <1>1, PTL
-----------------------------------------------------------------------------
(* While an acquisition is on, the last of the messages that wait has the   *)
(* rate of the source; when none waits, all have been told it.              *)
Acquiring == m_state \in {"StReady", "StRunning"} /\ ~MidStop

LastMessage == m_inputMessageQueue[Len(m_inputMessageQueue)]

ToldLast ==
  /\ Acquiring /\ m_inputMessageQueue # << >> =>
       LastMessage = rate[m_deviceSampleSource]
  /\ Acquiring /\ m_inputMessageQueue = << >> =>
       /\ m_sampleRate = rate[m_deviceSampleSource]
       /\ \A k \in Sinks : known[k] = m_sampleRate

LEMMA SinksAreKnown ==
  ASSUME Inv, Rated
  PROVE  Sinks \subseteq DOMAIN known /\ DOMAIN known = Records \cup Channels
  BY DEF Inv, Objective, Rated, Sinks

(* A step that changes neither rates nor the sinks.                         *)
LEMMA RatesStay ==
  ASSUME ToldLast, Acquiring' => Acquiring,
         UNCHANGED <<m_inputMessageQueue, rate, m_deviceSampleSource,
                     m_basebandSampleSinks, m_threadedBasebandSampleSinks, known>>,
         Acquiring' => m_sampleRate' = m_sampleRate
  PROVE  ToldLast'
  BY DEF ToldLast, Sinks, LastMessage

LEMMA RateAppended ==
  ASSUME Rated, NEW r \in Rates,
         m_inputMessageQueue' = Append(m_inputMessageQueue, r)
  PROVE  m_inputMessageQueue' # << >> /\ LastMessage' = r
  BY DEF Rated, LastMessage

LEMMA OperationTold ==
  ASSUME Inv, Rated, ToldLast, Operation
  PROVE  ToldLast'
<1>1. ASSUME NEW commands, Undertake(commands) PROVE ToldLast'
  <2>1. ~MidStop
    BY <1>1 DEF Undertake, AtRest, MidStop
  <2> QED BY <1>1, <2>1, RatesStay DEF Undertake, acquisition, Acquiring
<1>2. ASSUME NEW r \in Rates, ApplySettings(r) PROVE ToldLast'
  <2>1. m_deviceSampleSource \in Sources
    BY <1>2, SourceAtRest DEF ApplySettings
  <2>2. /\ rate' = [rate EXCEPT ![m_deviceSampleSource] = r]
        /\ m_deviceSampleSource' = m_deviceSampleSource
        /\ m_inputMessageQueue' = Append(m_inputMessageQueue, r)
    BY <1>2 DEF ApplySettings, acquisition
  <2>3. rate'[m_deviceSampleSource'] = r
    BY <2>1, <2>2 DEF Rated
  <2>4. m_inputMessageQueue' # << >> /\ LastMessage' = r
    BY <2>2, RateAppended
  <2> QED BY <2>3, <2>4 DEF ToldLast
<1> QED BY <1>1, <1>2
    DEF Operation, StartRequest, StopRequest, AddChannel, RemoveChannel,
        ChangeSampleSource, RemoveDevice

LEMMA ContinueTold ==
  ASSUME Inv, ToldLast, Continue
  PROVE  ToldLast'
<1>1. CASE SendWait
  BY <1>1, RatesStay DEF SendWait, acquisition, objects, Acquiring, MidStop
<1>2. CASE StopSource
  <2>1. /\ todo # << >> /\ Head(todo).op = "stopSource"
        /\ todo' = <<Command("setIdle", None)>> \o Tail(todo)
    BY <1>2 DEF StopSource, Do
  <2>2. /\ Command("setIdle", None) \in Commands \cap Leaves \cap Stays
        /\ Command("setIdle", None).op = "setIdle"
    BY OfNone DEF Command
  <2>3. todo' # << >> /\ Head(todo') = Command("setIdle", None)
    BY <2>1, <2>2, Begun DEF Mid
  <2>4. ~Acquiring'
    BY <2>2, <2>3 DEF Acquiring, MidStop
  <2> QED BY <2>4 DEF ToldLast
<1>3. CASE SetIdle \/ Quit
  BY <1>3 DEF SetIdle, Quit, ToldLast, Acquiring
<1>4. CASE GotoIdle
  <2>1. ~MidStop
    BY <1>4 DEF GotoIdle, Do, MidStop
  <2>2. m_state' = m_state \/ m_state' \in {"StNotStarted", "StIdle"}
    BY <1>4 DEF GotoIdle
  <2>3. Acquiring' => Acquiring
    BY <2>1, <2>2 DEF Acquiring
  <2>4. UNCHANGED <<m_inputMessageQueue, rate, m_deviceSampleSource, m_sampleRate,
                    m_basebandSampleSinks, m_threadedBasebandSampleSinks, known>>
    BY <1>4 DEF GotoIdle, Do
  <2> QED BY <2>3, <2>4, RatesStay
<1>5. CASE New \/ Delete \/ FreeChannels \/ Join
  <2>1. PICK op \in {"new", "delete", "freeChannels", "join"} : \E next : Do(op, next)
    BY <1>5 DEF New, Delete, FreeChannels, Join
  <2>2. ~MidStop
    BY <2>1 DEF Do, MidStop
  <2>3. m_state' = m_state /\ m_sampleRate' = m_sampleRate
    BY <1>5 DEF New, Delete, FreeChannels, Join
  <2>4. Acquiring' => Acquiring
    BY <2>2, <2>3 DEF Acquiring
  <2>5. UNCHANGED <<m_inputMessageQueue, rate, m_deviceSampleSource,
                    m_basebandSampleSinks, m_threadedBasebandSampleSinks, known>>
    BY <2>1 DEF Do
  <2> QED BY <2>3, <2>4, <2>5, RatesStay
<1> QED BY <1>1, <1>2, <1>3, <1>4, <1>5 DEF Continue

LEMMA CommandTold ==
  ASSUME Inv, Rated, Placed, LiveInv, ToldLast, HandleCommand
  PROVE  ToldLast'
<1>0. << >> \in {<< >>, <<"messages">>}
  OBVIOUS
<1>1. CASE InitAcquisition
  <2>1. /\ Handling("init", << >>) /\ m_inputMessageQueue' = m_inputMessageQueue
        /\ m_deviceSampleSource' = m_deviceSampleSource /\ Sinks' = Sinks
    BY <1>1 DEF InitAcquisition, Sinks
  <2>2. m_inputMessageQueue' = << >> /\ rate' = rate
    BY <1>0, <2>1, AnswerLive DEF Handling
  <2>3. CASE m_deviceSampleSource = None
    BY <1>1, <2>3 DEF InitAcquisition, ToldLast, Acquiring
  <2>4. CASE m_deviceSampleSource # None
    <3>1. m_sampleRate' = rate[m_deviceSampleSource] /\ Notify(Sinks, m_sampleRate')
      BY <1>1, <2>4 DEF InitAcquisition
    <3>2. \A k \in Sinks : known'[k] = m_sampleRate'
      BY <3>1, SinksAreKnown DEF Notify
    <3> QED BY <2>1, <2>2, <3>1, <3>2 DEF ToldLast
  <2> QED BY <2>3, <2>4
<1>2. CASE StartAcquisition
  <2>1. CASE m_state' = "StRunning"
    <3>1. /\ m_inputMessageQueue' =
               Append(m_inputMessageQueue, rate[m_deviceSampleSource])
          /\ m_state = "StReady" /\ m_deviceSampleSource' = m_deviceSampleSource
          /\ rate' = rate
      BY <1>2, <2>1 DEF StartAcquisition, Handling
    <3>2. m_deviceSampleSource \in Sources
      BY <3>1 DEF Inv, Objective
    <3>3. rate[m_deviceSampleSource] \in Rates
      BY <3>2 DEF Rated
    <3>4. m_inputMessageQueue' # << >> /\ LastMessage' = rate[m_deviceSampleSource]
      BY <3>1, <3>3, RateAppended
    <3> QED BY <3>1, <3>4 DEF ToldLast
  <2>2. CASE m_state' # "StRunning"
    BY <1>2, <2>2 DEF StartAcquisition, ToldLast, Acquiring
  <2> QED BY <2>1, <2>2
<1>3. CASE SetSource
  <2>1. Handling("setSource", << >>) /\ m_state' = m_state
    BY <1>3 DEF SetSource
  <2>2. todo # << >> /\ Head(todo).op = "setSource"
    BY <1>0, <2>1, AnswerLive
  <2>3. ~Acquiring'
    BY <2>1, <2>2, Settled DEF Acquiring
  <2> QED BY <2>3 DEF ToldLast
<1>4. CASE AddSink \/ AddThreadedSink
  <2> DEFINE k == Head(todo).arg
  <2>1. PICK op \in {"addSink", "addThreadedSink"} : Handling(op, << >>)
    BY <1>4 DEF AddSink, AddThreadedSink
  <2>2. /\ todo # << >> /\ Head(todo).op = op /\ m_inputMessageQueue = << >>
        /\ Head(todo) \in Commands /\ rate' = rate
    BY <1>0, <2>1, AnswerLive DEF Handling
  <2>3. /\ UNCHANGED <<m_inputMessageQueue, m_deviceSampleSource, m_state, m_sampleRate>>
        /\ Sinks' = Sinks \cup {k} /\ Notify({k}, m_sampleRate)
    BY <1>4 DEF AddSink, AddThreadedSink, Argument, Joins, Sinks
  <2>4. k \in Records \cup Channels
    BY <2>2 DEF Commands, Argumented
  <2>5. ~MidStop
    BY <2>2 DEF MidStop
  <2> HIDE DEF k
  <2>6. \A j \in Sinks' : j # k => j \in Sinks /\ known'[j] = known[j]
    BY <2>3, SinksAreKnown DEF Notify
  <2>7. known'[k] = m_sampleRate
    BY <2>3, <2>4, SinksAreKnown DEF Notify
  <2>8. Acquiring' => Acquiring
    BY <2>3, <2>5 DEF Acquiring
  <2> QED BY <2>2, <2>3, <2>6, <2>7, <2>8 DEF ToldLast
<1>5. CASE RemoveSink \/ RemoveThreadedSink
  <2>1. PICK op \in {"removeSink", "removeThreadedSink"} : Handling(op, << >>)
    BY <1>5 DEF RemoveSink, RemoveThreadedSink
  <2>2. /\ todo # << >> /\ Head(todo).op = op /\ rate' = rate
    BY <1>0, <2>1, AnswerLive DEF Handling
  <2>3. /\ UNCHANGED <<m_inputMessageQueue, m_deviceSampleSource, m_state,
                       m_sampleRate, known>>
        /\ Sinks' \subseteq Sinks
    BY <1>5 DEF RemoveSink, RemoveThreadedSink, Sinks
  <2>4. Acquiring' => Acquiring
    BY <2>2, <2>3 DEF Acquiring, MidStop
  <2> QED BY <2>2, <2>3, <2>4 DEF ToldLast, LastMessage
<1> QED BY <1>1, <1>2, <1>3, <1>4, <1>5 DEF HandleCommand

LEMMA HandleMessageTold ==
  ASSUME Inv, Rated, ToldLast, HandleMessage
  PROVE  ToldLast'
<1> DEFINE q == m_inputMessageQueue
<1>1. /\ q # << >> /\ m_inputMessageQueue' = Tail(q) /\ m_sampleRate' = Head(q)
      /\ Notify(Sinks, Head(q)) /\ Sinks' = Sinks
      /\ UNCHANGED <<m_state, m_deviceSampleSource, rate, todo>>
  BY DEF HandleMessage, Sinks
<1>2. q \in Seq(Rates)
  BY DEF Rated
<1>3. Acquiring' = Acquiring
  BY <1>1 DEF Acquiring, MidStop
<1>4. \A k \in Sinks : known'[k] = Head(q)
  BY <1>1, SinksAreKnown DEF Notify
<1>5. Tail(q) # << >> => Tail(q)[Len(Tail(q))] = q[Len(q)]
  BY <1>1, <1>2
<1>6. Tail(q) = << >> => q[Len(q)] = Head(q)
  BY <1>1, <1>2
<1> QED BY <1>1, <1>3, <1>4, <1>5, <1>6 DEF ToldLast, LastMessage

(* The source applies its rate on the main thread, tells its recorder       *)
(* itself and the engine by a message; sinks come and go, the device is     *)
(* stopped and started: in the end all have the rate of the source.         *)
THEOREM RatesSettle == Spec => []RateSettled
<1>1. Init => ToldLast
  BY DEF Init, ToldLast, Acquiring
<1>2. Inv /\ Rated /\ Placed /\ LiveInv /\ ToldLast /\ [Next]_vars => ToldLast'
  <2> SUFFICES ASSUME Inv, Rated, Placed, LiveInv, ToldLast, [Next]_vars
               PROVE  ToldLast'
    OBVIOUS
  <2>1. CASE Run \/ UNCHANGED vars
    BY <2>1, RatesStay DEF Run, vars, acquisition, objects, Acquiring, MidStop
  <2>2. CASE DataReady
    BY <2>2, RatesStay DEF DataReady, acquisition, objects, Acquiring, MidStop
  <2>3. CASE Exit \/ HandleData \/ Work \/ Feed \/ TakeMessages \/ NoMoreMessages
    <3>1. UNCHANGED <<acquisition, m_inputMessageQueue, todo, objects>>
      BY <2>3 DEF Exit, HandleData, Work, Feed, TakeMessages, NoMoreMessages
    <3> QED BY <3>1, RatesStay DEF acquisition, objects, Acquiring, MidStop
  <2>4. CASE HandleMessage
    BY <2>4, HandleMessageTold
  <2>5. CASE HandleCommand
    BY <2>5, CommandTold
  <2> QED BY <2>1, <2>2, <2>3, <2>4, <2>5, OperationTold, ContinueTold
      DEF Next, Engine
<1>3. ToldLast => RateSettled
  BY DEF ToldLast, Acquiring, RateSettled
<1> QED BY Invariance, Types, AtRestWhenReplaced, <1>1, <1>2, <1>3, PTL DEF Spec
=============================================================================
