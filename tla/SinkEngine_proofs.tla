-------------------------- MODULE SinkEngine_proofs --------------------------
(***************************************************************************)
(* Theorems about SinkEngine and, at the end, about SyncMessenger, through *)
(* which its synchronous commands come: where both have a name for the     *)
(* same thing, that of the messenger says so.                              *)
(***************************************************************************)
EXTENDS SinkEngine, SyncMessenger, FiniteSetTheorems, SequenceTheorems, TLAPS

-----------------------------------------------------------------------------
(* The requests in a queue that are for the channel's own FIFO. *)
Own(queue) == {i \in DOMAIN queue : queue[i] = "own"}
Queues == Seq({"device", "own"})

LEMMA OwnFinite ==
  ASSUME NEW q \in Queues
  PROVE  IsFiniteSet(Own(q)) /\ Cardinality(Own(q)) \in Nat
  <1>1. Own(q) \subseteq 1..Len(q)
    BY DEF Own, Queues
  <1>2. Len(q) \in Int
    BY DEF Queues
  <1>3. IsFiniteSet(1..Len(q))
    BY <1>2, FS_Interval
  <1> QED BY <1>1, <1>3, FS_Subset, FS_CardinalityType

(* A request that is queued counts if it is for that FIFO ... *)
LEMMA OwnAppend ==
  ASSUME NEW q \in Queues, NEW r \in {"device", "own"}
  PROVE  /\ Append(q, r) \in Queues
         /\ Cardinality(Own(Append(q, r)))
              = Cardinality(Own(q)) + (IF r = "own" THEN 1 ELSE 0)
  <1>1. Append(q, r) \in Queues
    BY DEF Queues
  <1>2. CASE r = "own"
    <2>1. Own(Append(q, r)) = Own(q) \cup {Len(q) + 1}
      BY <1>2 DEF Own, Queues
    <2>2. Len(q) + 1 \notin Own(q)
      BY DEF Own, Queues
    <2> QED BY <1>1, <1>2, <2>1, <2>2, OwnFinite, FS_AddElement
  <1>3. CASE r = "device"
    <2>1. Own(Append(q, r)) = Own(q)
      BY <1>3 DEF Own, Queues
    <2> QED BY <1>1, <1>3, <2>1, OwnFinite
  <1> QED BY <1>2, <1>3

(* ... and no more when it is taken. *)
LEMMA OwnTail ==
  ASSUME NEW q \in Queues, q # << >>
  PROVE  /\ Tail(q) \in Queues /\ Head(q) \in {"device", "own"}
         /\ Cardinality(Own(q))
              = Cardinality(Own(Tail(q))) + (IF Head(q) = "own" THEN 1 ELSE 0)
  <1> DEFINE rest == Own(q) \ {1}
             f == [i \in Own(Tail(q)) |-> i + 1]
  <1>1. Tail(q) \in Queues /\ Head(q) \in {"device", "own"}
    BY DEF Queues
  <1>2. /\ Len(q) \in Nat /\ Len(q) > 0 /\ DOMAIN q = 1..Len(q)
        /\ DOMAIN Tail(q) = 1..(Len(q) - 1)
        /\ \A i \in 1..(Len(q) - 1) : Tail(q)[i] = q[i + 1]
        /\ Head(q) = q[1]
    BY DEF Queues
  <1>3. f \in [Own(Tail(q)) -> rest]
    BY <1>2 DEF Own
  <1>4. f \in Injection(Own(Tail(q)), rest)
    BY <1>2, <1>3 DEF Injection, IsInjective, Own
  <1>5. ASSUME NEW j \in rest PROVE \E i \in Own(Tail(q)) : f[i] = j
    <2>1. j - 1 \in Own(Tail(q)) /\ f[j - 1] = j
      BY <1>2 DEF Own
    <2> QED BY <2>1
  <1>6. f \in Surjection(Own(Tail(q)), rest)
    BY <1>3, <1>5 DEF Surjection
  <1>7. ExistsBijection(Own(Tail(q)), rest)
    BY <1>4, <1>6 DEF ExistsBijection, Bijection
  <1>8. Cardinality(rest) = Cardinality(Own(Tail(q)))
    BY <1>1, <1>7, OwnFinite, FS_Bijection
  <1>9. Cardinality(rest) = IF 1 \in Own(q) THEN Cardinality(Own(q)) - 1
                                            ELSE Cardinality(Own(q))
    BY OwnFinite, FS_RemoveElement
  <1>10. 1 \in Own(q) <=> Head(q) = "own"
    BY <1>2 DEF Own
  <1> QED BY <1>1, <1>8, <1>9, <1>10, OwnFinite

(* Quotient and remainder are unique, so that ... *)
LEMMA Quotients ==
  ASSUME NEW d \in Int, NEW e \in Int, NEW r \in 0..(Size - 1),
         NEW s \in 0..(Size - 1), Size * d + r = Size * e + s
  PROVE  r = s
  <1>0. Size \in Int /\ Size > 0
    BY SizeAssumption
  <1>1. CASE d > e
    <2>1. Size * d >= Size * (e + 1)
      BY <1>0, <1>1
    <2>2. Size * (e + 1) = Size * e + Size
      BY <1>0
    <2> QED BY <1>0, <2>1, <2>2
  <1>2. CASE e > d
    <2>1. Size * e >= Size * (d + 1)
      BY <1>0, <1>2
    <2>2. Size * (d + 1) = Size * d + Size
      BY <1>0
    <2> QED BY <1>0, <2>1, <2>2
  <1>3. CASE d = e
    BY <1>0, <1>3
  <1> QED BY <1>1, <1>2, <1>3

(* ... numbers that differ by Size have the same remainder. *)
LEMMA Period ==
  ASSUME NEW x \in Int
  PROVE  (x + Size) % Size = x % Size
  <1> DEFINE d == x \div Size
             e == (x + Size) \div Size
             r == x % Size
             s == (x + Size) % Size
  <1>0. Size \in Int /\ Size > 0
    BY SizeAssumption
  <1>1. d \in Int /\ r \in 0..(Size - 1) /\ x = Size * d + r
    BY <1>0
  <1>2. e \in Int /\ s \in 0..(Size - 1) /\ x + Size = Size * e + s
    BY <1>0
  <1>3. Size * (d + 1) = Size * d + Size
    BY <1>0, <1>1
  <1> HIDE DEF d, e, r, s
  <1>4. Size * (d + 1) + r = Size * e + s
    BY <1>0, <1>1, <1>2, <1>3
  <1>5. d + 1 \in Int
    BY <1>1
  <1>6. r = s
    BY <1>1, <1>2, <1>4, <1>5, Quotients
  <1> QED BY <1>6 DEF r, s

(* A step of an index and its wrap do not matter to a sum modulo Size. *)
LEMMA Steps ==
  ASSUME NEW a \in 0..(Size - 1), NEW n \in Nat
  PROVE  /\ (a + 1) % Size \in 0..(Size - 1)
         /\ (a - 1) % Size \in 0..(Size - 1)
         /\ (((a + 1) % Size) + n) % Size = (a + 1 + n) % Size
         /\ (((a - 1) % Size) + n) % Size = (a - 1 + n) % Size
  <1>0. Size \in Int /\ Size > 0
    BY SizeAssumption
  <1>1. (((a + 1) % Size) + n) % Size = (a + 1 + n) % Size
    <2>1. CASE a + 1 < Size
      <3>1. (a + 1) % Size = a + 1
        BY <1>0, <2>1
      <3> QED BY <3>1
    <2>2. CASE a + 1 = Size
      <3>1. (a + 1) % Size = 0
        BY <1>0, <2>2
      <3>2. (n + Size) % Size = n % Size
        BY Period
      <3> QED BY <1>0, <2>2, <3>1, <3>2
    <2> QED BY <1>0, <2>1, <2>2
  <1>2. (((a - 1) % Size) + n) % Size = (a - 1 + n) % Size
    <2>1. CASE a > 0
      <3>1. (a - 1) % Size = a - 1
        BY <1>0, <2>1
      <3> QED BY <3>1
    <2>2. CASE a = 0
      <3>1. (a - 1 + Size) % Size = (a - 1) % Size
        BY <2>2, Period
      <3>2. (a - 1 + Size) % Size = a - 1 + Size
        BY <1>0, <2>2
      <3>3. (a - 1 + n + Size) % Size = (a - 1 + n) % Size
        BY <2>2, Period
      <3> QED BY <1>0, <2>2, <3>1, <3>2, <3>3
    <2> QED BY <2>1, <2>2
  <1> QED BY <1>0, <1>1, <1>2
-----------------------------------------------------------------------------
(* OwnFifosBalanced, with the types it needs, is inductive.                 *)
Levels ==
  /\ ahead \in [Channels -> 0..(Size - 1)]
  /\ requests \in [Channels -> Queues]

Balance == Levels /\ OwnFifosBalanced

LevelOf(c) == (ahead[c] + Cardinality(Own(requests[c]))) % Size

LEMMA Balanced == OwnFifosBalanced <=> \A c \in Channels : LevelOf(c) = Half
  BY DEF OwnFifosBalanced, OwnRequests, LevelOf, Own

(* The level of a FIFO with no request queued. *)
LEMMA Fresh ==
  /\ << >> \in Queues /\ Cardinality(Own(<< >>)) = 0
  /\ Half \in 0..(Size - 1) /\ (Half + 0) % Size = Half
  <1>1. Own(<< >>) = {}
    BY DEF Own
  <1>2. Half \in 0..(Size - 1)
    BY SizeAssumption DEF Half
  <1>3. Half % Size = Half
    BY <1>2, SizeAssumption
  <1> QED BY <1>1, <1>2, <1>3, FS_EmptySet DEF Queues

LEMMA BalanceInit == Init => Balance
  <1> SUFFICES ASSUME Init PROVE Balance
    OBVIOUS
  <1>1. Levels
    BY Fresh DEF Init, Levels
  <1>2. \A c \in Channels : LevelOf(c) = Half
    BY Fresh DEF Init, LevelOf
  <1> QED BY <1>1, <1>2, Balanced DEF Balance

(* A level is that of the same queue, one of the cases below, or new. *)
LEMMA OneChannel ==
  ASSUME Balance, NEW c \in Channels,
         ahead' \in [Channels -> 0..(Size - 1)], requests' \in [Channels -> Queues],
         \A d \in Channels \ {c} : ahead'[d] = ahead[d]
                                    /\ Cardinality(Own(requests'[d]))
                                         = Cardinality(Own(requests[d])),
         LevelOf(c)' = Half
  PROVE  Balance'
  <1>1. Levels'
    BY DEF Levels
  <1>2. \A d \in Channels : LevelOf(d)' = Half
    BY Balanced DEF Balance, LevelOf
  <1>3. OwnFifosBalanced'
    BY <1>2 DEF OwnFifosBalanced, OwnRequests, LevelOf, Own
  <1> QED BY <1>1, <1>3 DEF Balance

(* No action changes more than the level of one FIFO, but for Read, which   *)
(* queues other requests, and Delete, after which a FIFO is new.            *)
LEMMA ReadBalance == ASSUME Balance, Read PROVE Balance'
  <1> DEFINE asked == {c \in connected : m_deviceSampleFifo[c] = m_deviceSampleSink}
  <1>1. /\ ahead' = ahead
        /\ requests' = [c \in Channels |->
             IF c \in asked THEN Append(requests[c], "device") ELSE requests[c]]
    BY DEF Read
  <1>2. ASSUME NEW c \in Channels
        PROVE  /\ requests'[c] \in Queues
               /\ Cardinality(Own(requests'[c])) = Cardinality(Own(requests[c]))
    <2>1. requests[c] \in Queues
      BY DEF Balance, Levels
    <2>2. CASE c \in asked
      <3>1. requests'[c] = Append(requests[c], "device")
        BY <1>1, <2>2
      <3>2. "device" \in {"device", "own"} /\ "device" # "own"
        OBVIOUS
      <3>3. /\ Append(requests[c], "device") \in Queues
            /\ Cardinality(Own(Append(requests[c], "device")))
                 = Cardinality(Own(requests[c])) + 0
        BY <2>1, <3>2, OwnAppend
      <3>4. Cardinality(Own(requests[c])) \in Nat
        BY <2>1, OwnFinite
      <3>5. Cardinality(Own(Append(requests[c], "device")))
              = Cardinality(Own(requests[c]))
        BY <3>3, <3>4
      <3> QED BY <3>1, <3>3, <3>5
    <2>3. CASE c \notin asked
      BY <1>1, <2>1, <2>3
    <2> QED BY <2>2, <2>3
  <1>3. Levels'
    BY <1>1, <1>2 DEF Balance, Levels
  <1>4. OwnFifosBalanced'
    BY <1>1, <1>2, Balanced DEF Balance, OwnFifosBalanced, OwnRequests, LevelOf, Own
  <1> QED BY <1>3, <1>4 DEF Balance

LEMMA DeleteBalance == ASSUME Balance, Delete PROVE Balance'
  <1> DEFINE object == Head(todo).arg
  <1>1. /\ ahead' = [c \in Channels |-> IF c = object THEN Half ELSE ahead[c]]
        /\ requests' = [c \in Channels |->
             IF c = object THEN << >> ELSE requests[c]]
    BY DEF Delete
  <1> HIDE DEF object
  <1>2. Levels'
    BY <1>1, Fresh DEF Balance, Levels
  <1>3. ASSUME NEW c \in Channels PROVE LevelOf(c)' = Half
    BY <1>1, Fresh, Balanced DEF Balance, LevelOf
  <1>4. OwnFifosBalanced'
    BY <1>3 DEF OwnFifosBalanced, OwnRequests, LevelOf, Own
  <1> QED BY <1>2, <1>4 DEF Balance

(* A request taken and answered in the channel's own FIFO. *)
LEMMA WriteOwnBalance ==
  ASSUME Balance, NEW c \in Channels, HandleWriteToFifo(c)
  PROVE  Balance'
  <1> DEFINE q == requests[c]
             n == Cardinality(Own(Tail(q)))
  <1>1. q \in Queues /\ ahead[c] \in 0..(Size - 1)
    BY DEF Balance, Levels
  <1>2. /\ q # << >> /\ Head(q) = "own"
        /\ requests' = [requests EXCEPT ![c] = Tail(q)]
        /\ ahead' = [ahead EXCEPT ![c] = (ahead[c] + 1) % Size]
    BY DEF HandleWriteToFifo, TakeRequest, WriteOwn
  <1>3. /\ Tail(q) \in Queues /\ n \in Nat
        /\ Cardinality(Own(q)) = n + 1
    BY <1>1, <1>2, OwnTail, OwnFinite
  <1> HIDE DEF n
  <1>4. (ahead[c] + 1) % Size \in 0..(Size - 1)
    BY <1>1, Steps, <1>3
  <1>5. /\ ahead' \in [Channels -> 0..(Size - 1)]
        /\ requests' \in [Channels -> Queues]
        /\ ahead'[c] = (ahead[c] + 1) % Size /\ requests'[c] = Tail(q)
        /\ \A d \in Channels \ {c} : ahead'[d] = ahead[d]
                                     /\ requests'[d] = requests[d]
    BY <1>2, <1>3, <1>4 DEF Balance, Levels
  <1>6. LevelOf(c)' = (ahead[c] + 1 + n) % Size
    BY <1>1, <1>3, <1>5, Steps DEF LevelOf, n
  <1>7. ahead[c] + 1 + n = ahead[c] + Cardinality(Own(q))
    BY <1>1, <1>3
  <1>8. LevelOf(c) = Half
    BY Balanced DEF Balance
  <1>9. LevelOf(c)' = Half
    BY <1>6, <1>7, <1>8 DEF LevelOf
  <1> QED BY <1>5, <1>9, OneChannel

(* A request taken and answered in the FIFO of the device. *)
LEMMA WriteDeviceBalance ==
  ASSUME Balance, NEW c \in Channels, HandleWriteToDeviceFifo(c)
  PROVE  Balance'
  <1> DEFINE q == requests[c]
  <1>1. q \in Queues
    BY DEF Balance, Levels
  <1>2. /\ q # << >> /\ Head(q) = "device"
        /\ requests' = [requests EXCEPT ![c] = Tail(q)]
        /\ ahead' = ahead
    BY DEF HandleWriteToDeviceFifo, TakeRequest
  <1>3. /\ Tail(q) \in Queues
        /\ Cardinality(Own(q)) = Cardinality(Own(Tail(q)))
    BY <1>1, <1>2, OwnTail, OwnFinite
  <1>4. /\ ahead' \in [Channels -> 0..(Size - 1)]
        /\ requests' \in [Channels -> Queues]
        /\ requests'[c] = Tail(q)
        /\ \A d \in Channels \ {c} : requests'[d] = requests[d]
    BY <1>2, <1>3 DEF Balance, Levels
  <1>5. LevelOf(c)' = LevelOf(c)
    BY <1>2, <1>3, <1>4 DEF LevelOf
  <1>6. LevelOf(c)' = Half
    BY <1>5, Balanced DEF Balance
  <1> QED BY <1>2, <1>4, <1>6, OneChannel

(* work() reads a FIFO, which queues a request for its channel. *)
LEMMA ReadAdvanceBalance ==
  ASSUME Balance, NEW c \in Channels, ReadAdvance(c)
  PROVE  Balance'
  <1> DEFINE q == requests[c]
             n == Cardinality(Own(q))
  <1>1. q \in Queues /\ ahead[c] \in 0..(Size - 1)
    BY DEF Balance, Levels
  <1>2. /\ requests' = [requests EXCEPT ![c] = Append(q, "own")]
        /\ ahead' = [ahead EXCEPT ![c] = (ahead[c] - 1) % Size]
    BY DEF ReadAdvance
  <1>3. /\ Append(q, "own") \in Queues /\ n \in Nat
        /\ Cardinality(Own(Append(q, "own"))) = n + 1
    BY <1>1, OwnAppend, OwnFinite
  <1>4. (ahead[c] - 1) % Size \in 0..(Size - 1)
    BY <1>1, <1>3, Steps
  <1> HIDE DEF n
  <1>5. /\ ahead' \in [Channels -> 0..(Size - 1)]
        /\ requests' \in [Channels -> Queues]
        /\ ahead'[c] = (ahead[c] - 1) % Size
        /\ requests'[c] = Append(q, "own")
        /\ \A d \in Channels \ {c} : ahead'[d] = ahead[d]
                                     /\ requests'[d] = requests[d]
    BY <1>2, <1>3, <1>4 DEF Balance, Levels
  <1>6. LevelOf(c)' = (((ahead[c] - 1) % Size) + (n + 1)) % Size
    BY <1>3, <1>5 DEF LevelOf
  <1>7. n + 1 \in Nat /\ ahead[c] - 1 + (n + 1) = ahead[c] + n
    BY <1>1, <1>3
  <1>8. LevelOf(c)' = (ahead[c] + n) % Size
    BY <1>1, <1>6, <1>7, Steps
  <1>9. LevelOf(c) = Half
    BY Balanced DEF Balance
  <1>10. LevelOf(c)' = Half
    BY <1>8, <1>9 DEF LevelOf, n
  <1> QED BY <1>5, <1>10, OneChannel

LEMMA UnchangedBalance ==
  ASSUME Balance, UNCHANGED <<ahead, requests>> PROVE Balance'
  BY DEF Balance, Levels, OwnFifosBalanced, OwnRequests

LEMMA BalanceNext == ASSUME Balance, [Next]_vars PROVE Balance'
  <1>1. CASE Operation
    <2>1. UNCHANGED queues
      BY <1>1 DEF Operation, StartRequest, StopRequest, RemoveDevice,
         AddChannel, RemoveChannel, ChangeSampleSink, Undertake
    <2> QED BY <2>1, UnchangedBalance DEF queues
  <1>2. CASE Continue
    <2>1. CASE Delete
      BY <2>1, DeleteBalance
    <2>2. CASE ~ Delete
      <3>1. UNCHANGED <<ahead, requests>>
        BY <1>2, <2>2 DEF Continue, SendWait, GotoIdle, StopSink, SetIdle, New,
           FreeChannels, Quit, Join, Unwired
      <3> QED BY <3>1, UnchangedBalance
    <2> QED BY <2>1, <2>2
  <1>3. CASE Read
    BY <1>3, ReadBalance
  <1>4. CASE Engine
    <2>1. ASSUME NEW c \in Channels, ReadAdvance(c) PROVE Balance'
      BY <2>1, ReadAdvanceBalance
    <2>2. CASE Run \/ Exit \/ HandleData \/ Merge
      BY <2>2, UnchangedBalance DEF Run, Exit, HandleData, Merge, queues
    <2>3. CASE HandleCommand
      BY <2>3, UnchangedBalance DEF HandleCommand, InitGeneration,
         StartGeneration, SetSink, AddThreadedSource, RemoveThreadedSource,
         ConnectSources, Handling, Taking, Connecting, queues
    <2> QED BY <1>4, <2>1, <2>2, <2>3 DEF Engine
  <1>5. ASSUME NEW c \in Channels, Channel(c) PROVE Balance'
    BY <1>5, WriteOwnBalance, WriteDeviceBalance DEF Channel
  <1>6. CASE UNCHANGED vars
    BY <1>6, UnchangedBalance DEF vars, queues
  <1> QED BY <1>1, <1>2, <1>3, <1>4, <1>5, <1>6 DEF Next

(* Every read of a channel's FIFO by the engine is answered once by the     *)
(* channel, for any number of channels, any size, and any wiring.           *)
THEOREM Balances == Spec => []OwnFifosBalanced
  <1>1. Init => Balance
    BY BalanceInit
  <1>2. Balance /\ [Next]_vars => Balance'
    BY BalanceNext
  <1>3. Balance => OwnFifosBalanced
    BY DEF Balance
  <1> QED BY <1>1, <1>2, <1>3, PTL DEF Spec
-----------------------------------------------------------------------------
(* The rest of the operation of the main thread, as in SourceEngine_proofs: *)
(* what was begun to be stopped is only at its head; an operation that      *)
(* replaces the sink or ends the engine starts nothing, and has stopped the *)
(* sink when it comes to that.                                              *)
Argumented(c) ==
  /\ c.op \in {"new", "setSink"} => c.arg \in Sinks
  /\ c.op = "delete" => c.arg \in Objects
  /\ c.op \in {"addThreadedSource", "removeThreadedSource"} => c.arg \in Channels

Commands ==
  {c \in [op : Synchronous \cup OnMainThread, arg : Objects \cup {None}] :
     Argumented(c)}

Mid    == {"stopSink", "setIdle"}
Steady == {c \in Commands : c.op \notin Mid}
Leaves == {c \in Commands : c.op \notin {"init", "start"}}
Stays  == {c \in Commands : /\ c.op \notin {"new", "setSink", "quit"}
                            /\ c.op = "delete" => c.arg \in Channels}

(* The only sink that is deleted is the one in use. *)
InUse == {c \in Commands :
            c.op = "delete" /\ c.arg \in Sinks => c.arg = m_deviceSampleSink}

Generating == m_state \in {"StReady", "StRunning"}

Operations ==
  /\ todo \in Seq(Commands)
  /\ todo # << >> => Tail(todo) \in Seq(Steady)
  /\ todo \in Seq(Leaves) \/ todo \in Seq(Stays)

StoppedFirst ==
  \/ todo \in Seq(Stays)
  \/ Head(todo).op \in {"gotoIdle", "stopSink", "setIdle"}
  \/ ~Generating

Objective ==
  /\ m_deviceSampleSink \in Sinks \cup {None}
  /\ m_threadedBasebandSampleSources \subseteq Channels \cap alive
  /\ Generating => m_deviceSampleSink # None
  /\ engine = "starting" => m_state # "StRunning"
  /\ alive \subseteq Objects

Halfway ==
  todo # << >> =>
    /\ Head(todo).op = "stopSink" => running \subseteq {m_deviceSampleSink}
    /\ Head(todo).op = "setIdle" => running = {}

Inv == Operations /\ StoppedFirst /\ Objective /\ Halfway /\ AllOrNothing

(* In the middle of checkNumberOfBasebandSources() the main thread waits,   *)
(* and all runs but a channel that is about to be started.                  *)
Starting == IF Head(todo).op = "addThreadedSource" THEN {Argument} ELSE {}

Window ==
  engine = "connect" =>
    /\ todo # << >> /\ Head(todo).op \in {"addThreadedSource", "removeThreadedSource"}
    /\ Head(todo).op = "addThreadedSource" =>
         Argument \in m_threadedBasebandSampleSources
    /\ Head(todo).op = "removeThreadedSource" =>
         Argument \notin m_threadedBasebandSampleSources
    /\ m_state = "StRunning" => running \cup Starting
         = {m_deviceSampleSink} \cup m_threadedBasebandSampleSources
    /\ m_state # "StRunning" => running = {}

(* A command that depends on the one before it: a channel is deleted when   *)
(* the engine has let go of it, and a sink made when the other is gone.     *)
Depends(d) ==
  \/ d.op \in {"addThreadedSource", "new", "setSink"}
  \/ d.op = "delete" /\ d.arg \in Channels

Follows(c, d) ==
  /\ c.op # "setSink" /\ d.op # "addThreadedSource"
  /\ d.op = "new" => c.op = "delete" /\ c.arg \in Sinks
  /\ d.op = "setSink" => c.op = "new"
  /\ d.op = "delete" /\ d.arg \in Channels => c = Command("removeThreadedSource", d.arg)

Linked(q) == \A i \in 1..Len(q) : i > 1 => Follows(q[i-1], q[i])

Ready(c) ==
  /\ c.op = "addThreadedSource" => c.arg \in alive
  /\ c.op = "delete" /\ c.arg \in Channels =>
       c.arg \notin m_threadedBasebandSampleSources
  /\ c.op \in {"new", "setSink"} => \A k \in Sinks : connections[k] = 0

(* A command is ready after a step.                                         *)
ReadyNext(c) ==
  /\ c.op = "addThreadedSource" => c.arg \in alive'
  /\ c.op = "delete" /\ c.arg \in Channels =>
       c.arg \notin m_threadedBasebandSampleSources'
  /\ c.op \in {"new", "setSink"} => \A k \in Sinks : connections'[k] = 0

InOrder ==
  /\ Linked(todo) /\ (todo # << >> => Ready(Head(todo)))
  /\ todo \in Seq(InUse)

(* The engine is connected to the sink in use, and only for several         *)
(* channels; a channel that is connected has a FIFO.                        *)
Wired ==
  /\ connections \in [Sinks -> 0..MaxConnections]
  /\ m_deviceSampleFifo \in [Channels -> Sinks \cup {None}]
  /\ connected \subseteq {c \in Channels : m_deviceSampleFifo[c] # None}
  /\ IsFiniteSet(m_threadedBasebandSampleSources)
  /\ \A k \in Sinks : connections[k] > 0 =>
       k = m_deviceSampleSink /\ Cardinality(m_threadedBasebandSampleSources) > 1
  /\ \A c \in connected \cap m_threadedBasebandSampleSources :
       m_threadedBasebandSampleSources = {c}
-----------------------------------------------------------------------------
LEMMA Kinds ==
  /\ None \notin Sinks /\ None \notin Channels /\ None \notin Objects
  /\ Sinks \cap Channels = {}
  BY SinksAssumption DEF Objects

LEMMA SeqHead ==
  ASSUME NEW S, NEW q \in Seq(S), q # << >>
  PROVE  Head(q) \in S /\ Tail(q) \in Seq(S)
  OBVIOUS

LEMMA SeqConcat ==
  ASSUME NEW S, NEW p \in Seq(S), NEW q \in Seq(S)
  PROVE  /\ p \o q \in Seq(S)
         /\ p # << >> => Head(p \o q) = Head(p) /\ Tail(p \o q) = Tail(p) \o q
         /\ p = << >> => p \o q = q
  OBVIOUS

LEMMA SeqSub ==
  ASSUME NEW S, NEW T, S \subseteq T, NEW q \in Seq(S)
  PROVE  q \in Seq(T)
  OBVIOUS

LEMMA Parts ==
  /\ Steady \subseteq Commands /\ Leaves \subseteq Commands
  /\ Stays \subseteq Commands /\ InUse \subseteq Commands
  BY DEF Steady, Leaves, Stays, InUse

LEMMA TailLinked ==
  ASSUME NEW q \in Seq(Commands), q # << >>, Linked(q)
  PROVE  /\ Linked(Tail(q))
         /\ Tail(q) # << >> => Follows(Head(q), Head(Tail(q)))
<1>1. /\ Tail(q) \in Seq(Commands) /\ Len(Tail(q)) = Len(q) - 1
      /\ \A i \in 1..Len(Tail(q)) : Tail(q)[i] = q[i+1]
      /\ Len(q) \in Nat /\ Len(q) > 0 /\ Head(q) = q[1]
  OBVIOUS
<1>2. ASSUME NEW i \in 1..Len(Tail(q)), i > 1
      PROVE  Follows(Tail(q)[i-1], Tail(q)[i])
  <2>1. i+1 \in 1..Len(q) /\ i+1 > 1 /\ (i+1)-1 = i /\ i-1 \in 1..Len(Tail(q)) /\ (i-1)+1 = i
    BY <1>1, <1>2
  <2>2. Follows(q[(i+1)-1], q[i+1])
    BY <2>1 DEF Linked
  <2> QED BY <1>1, <2>1, <2>2
<1>3. Tail(q) # << >> => Follows(Head(q), Head(Tail(q)))
  <2> SUFFICES ASSUME Tail(q) # << >> PROVE Follows(Head(q), Head(Tail(q)))
    OBVIOUS
  <2>1. Len(Tail(q)) > 0 /\ Head(Tail(q)) = Tail(q)[1]
    BY <1>1
  <2>2. 2 \in 1..Len(q) /\ 2 > 1 /\ 2-1 = 1 /\ 1 \in 1..Len(Tail(q)) /\ 1+1 = 2
    BY <1>1, <2>1
  <2>3. Follows(q[2-1], q[2])
    BY <2>2 DEF Linked
  <2> QED BY <1>1, <2>1, <2>2, <2>3
<1> QED BY <1>2, <1>3 DEF Linked

LEMMA LinkedConcat ==
  ASSUME NEW p \in Seq(Commands), NEW q \in Seq(Commands), Linked(p), Linked(q),
         p # << >> /\ q # << >> => Follows(p[Len(p)], Head(q))
  PROVE  Linked(p \o q)
<1>1. /\ Len(p \o q) = Len(p) + Len(q) /\ Len(p) \in Nat /\ Len(q) \in Nat
      /\ \A i \in 1..Len(p) : (p \o q)[i] = p[i]
      /\ \A i \in 1..Len(q) : (p \o q)[Len(p) + i] = q[i]
  OBVIOUS
<1>2. ASSUME NEW i \in 1..Len(p \o q), i > 1
      PROVE  Follows((p \o q)[i-1], (p \o q)[i])
  <2>1. CASE i <= Len(p)
    <3>1. i \in 1..Len(p) /\ i-1 \in 1..Len(p)
      BY <1>1, <1>2, <2>1
    <3>2. Follows(p[i-1], p[i])
      BY <1>2, <3>1 DEF Linked
    <3> QED BY <1>1, <3>1, <3>2
  <2>2. CASE i = Len(p) + 1
    <3>1. /\ Len(p) \in 1..Len(p) /\ 1 \in 1..Len(q) /\ i-1 = Len(p)
          /\ p # << >> /\ q # << >> /\ Head(q) = q[1]
      BY <1>1, <1>2, <2>2
    <3> QED BY <1>1, <2>2, <3>1
  <2>3. CASE i > Len(p) + 1
    <3> DEFINE j == i - Len(p)
    <3>1. /\ j \in 1..Len(q) /\ j > 1 /\ j-1 \in 1..Len(q)
          /\ Len(p) + j = i /\ Len(p) + (j-1) = i-1
      BY <1>1, <1>2, <2>3
    <3>2. Follows(q[j-1], q[j])
      BY <3>1 DEF Linked
    <3>3. (p \o q)[Len(p) + j] = q[j] /\ (p \o q)[Len(p) + (j-1)] = q[j-1]
      BY <1>1, <3>1
    <3> QED BY <3>1, <3>2, <3>3
  <2> QED BY <1>1, <1>2, <2>1, <2>2, <2>3
<1> QED BY <1>2 DEF Linked

LEMMA Independent ==
  ASSUME NEW c, NEW d, ~Depends(d), c.op # "setSink"
  PROVE  Follows(c, d)
  BY DEF Depends, Follows

LEMMA Parents ==
  ASSUME NEW c, NEW d, Follows(c, d)
  PROVE  /\ c.op \notin {"new", "delete", "removeThreadedSource"} => ~Depends(d)
         /\ c.op # "setSink"
         /\ c.op = "new" => d.op \in {"setSink"} \/ ~Depends(d)
         /\ c.op = "delete" => (d.op = "new" /\ c.arg \in Sinks) \/ ~Depends(d)
         /\ c.op = "removeThreadedSource" =>
              \/ ~Depends(d)
              \/ d.op = "delete" /\ d.arg \in Channels /\ c.arg = d.arg
  BY DEF Follows, Depends, Command

LEMMA Unready ==
  ASSUME NEW c, ~Depends(c)
  PROVE  Ready(c) /\ ReadyNext(c)
  BY DEF Ready, ReadyNext, Depends

-----------------------------------------------------------------------------
(* A part of an operation that replaces the sink or ends the engine.        *)
Chain(q) ==
  /\ q \in Seq(Steady) /\ q \in Seq(Leaves) /\ q \in Seq(InUse)
  /\ Linked(q) /\ q # << >>

LEMMA ChainOne ==
  ASSUME NEW c \in Steady \cap Leaves \cap InUse
  PROVE  Chain(<<c>>) /\ Head(<<c>>) = c /\ <<c>>[Len(<<c>>)] = c
  BY DEF Chain, Linked

LEMMA ChainTwo ==
  ASSUME NEW c \in Steady \cap Leaves \cap InUse,
         NEW d \in Steady \cap Leaves \cap InUse, Follows(c, d)
  PROVE  /\ Chain(<<c, d>>) /\ Head(<<c, d>>) = c
         /\ <<c, d>>[Len(<<c, d>>)] = d
<1>1. ASSUME NEW i \in 1..Len(<<c, d>>), i > 1
      PROVE  <<c, d>>[i-1] = c /\ <<c, d>>[i] = d
  BY <1>1
<1>2. Linked(<<c, d>>)
  BY <1>1 DEF Linked
<1>3. /\ <<c, d>> \in Seq(Steady) /\ <<c, d>> \in Seq(Leaves)
      /\ <<c, d>> \in Seq(InUse) /\ <<c, d>> # << >>
  OBVIOUS
<1> QED BY <1>2, <1>3 DEF Chain

LEMMA Chained ==
  ASSUME NEW p, NEW q, Chain(p), Chain(q), Follows(p[Len(p)], Head(q))
  PROVE  /\ Chain(p \o q) /\ Head(p \o q) = Head(p)
         /\ (p \o q)[Len(p \o q)] = q[Len(q)]
<1>1. /\ p \in Seq(Commands) /\ q \in Seq(Commands) /\ p # << >> /\ q # << >>
      /\ Linked(p) /\ Linked(q)
  BY SeqSub, Parts DEF Chain
<1>2. Linked(p \o q)
  BY <1>1, LinkedConcat
<1>3. /\ p \o q \in Seq(Steady) /\ p \o q \in Seq(Leaves) /\ p \o q \in Seq(InUse)
  BY SeqConcat DEF Chain
<1>4. p \o q # << >> /\ Head(p \o q) = Head(p) /\ (p \o q)[Len(p \o q)] = q[Len(q)]
  BY <1>1
<1> QED BY <1>2, <1>3, <1>4 DEF Chain

(* The commands of the program are of these kinds.                          *)
LEMMA OfSink ==
  ASSUME NEW k \in Sinks
  PROVE  /\ Command("new", k) \in Steady \cap Leaves \cap InUse
         /\ Command("setSink", k) \in Steady \cap Leaves \cap InUse
         /\ k = m_deviceSampleSink =>
              Command("delete", k) \in Steady \cap Leaves \cap InUse
<1>1. k \in Objects
  BY DEF Objects
<1> QED BY <1>1
    DEF Command, Steady, Leaves, InUse, Mid, Commands, Argumented,
        Synchronous, OnMainThread

LEMMA OfChannel ==
  ASSUME NEW c \in Channels
  PROVE  \A op \in {"addThreadedSource", "removeThreadedSource", "delete"} :
           Command(op, c) \in Steady \cap Leaves \cap Stays \cap InUse
<1>1. c \in Objects /\ c \notin Sinks
  BY Kinds DEF Objects
<1> QED BY <1>1
    DEF Command, Steady, Leaves, Stays, InUse, Mid, Commands, Argumented,
        Synchronous, OnMainThread

LEMMA OfNone ==
  /\ Command("gotoIdle", None) \in Steady \cap Leaves \cap Stays \cap InUse
  /\ Command("freeChannels", None) \in Steady \cap Leaves \cap Stays \cap InUse
  /\ Command("join", None) \in Steady \cap Leaves \cap Stays \cap InUse
  /\ Command("init", None) \in Steady \cap Stays \cap InUse
  /\ Command("start", None) \in Steady \cap Stays \cap InUse
  /\ Command("quit", None) \in Steady \cap Leaves \cap InUse
  /\ Command("stopSink", None) \in Commands \cap Leaves \cap Stays \cap InUse
  /\ Command("setIdle", None) \in Commands \cap Leaves \cap Stays \cap InUse
  BY DEF Command, Steady, Leaves, Stays, InUse, Mid, Commands, Argumented,
         Synchronous, OnMainThread
-----------------------------------------------------------------------------
(* An operation that the main thread undertakes.                            *)
LEMMA SameInUse ==
  ASSUME m_deviceSampleSink' = m_deviceSampleSink
  PROVE  InUse' = InUse
  BY DEF InUse

LEMMA Begins ==
  ASSUME Inv, Wired, NEW commands, Undertake(commands), commands # << >>,
         commands \in Seq(Steady), commands \in Seq(InUse), Linked(commands),
         \/ commands \in Seq(Stays)
         \/ commands \in Seq(Leaves) /\ Head(commands).op = "gotoIdle",
         alive \subseteq alive', alive' \subseteq Objects,
         Head(commands).op \notin {"new", "setSink", "delete"},
         Head(commands).op = "addThreadedSource" => Head(commands).arg \in alive'
  PROVE  Inv' /\ InOrder' /\ Wired'
<1>1. /\ todo = << >> /\ todo' = commands
      /\ UNCHANGED <<m_state, m_deviceSampleSink, m_threadedBasebandSampleSources,
                     engine, running, connections, m_deviceSampleFifo, connected>>
  BY DEF Undertake, generation, wiring
<1>2. Head(commands) \in Steady /\ Tail(commands) \in Seq(Steady)
  BY SeqHead
<1>3. commands \in Seq(Commands)
  BY SeqSub, Parts
<1>4. Operations'
  BY <1>1, <1>2, <1>3 DEF Operations
<1>5. StoppedFirst'
  BY <1>1 DEF StoppedFirst
<1>6. Objective'
  BY <1>1 DEF Inv, Objective, Generating
<1>7. ~MidStop /\ ~MidStop'
  BY <1>1, <1>2 DEF MidStop, Mid, Steady
<1>8. Halfway'
  BY <1>7 DEF Halfway, MidStop
<1>9. AllOrNothing'
  BY <1>1, <1>7 DEF Inv, AllOrNothing
<1>10. Ready(Head(todo))'
  BY <1>1 DEF Ready
<1>11. InOrder'
  <2>1. todo' \in Seq(InUse')
    BY <1>1, SameInUse
  <2>2. Linked(todo')
    BY <1>1
  <2> QED BY <1>10, <2>1, <2>2 DEF InOrder, Linked
<1>12. Wired'
  BY <1>1 DEF Wired
<1> QED BY <1>4, <1>5, <1>6, <1>8, <1>9, <1>11, <1>12 DEF Inv

LEMMA SinkAtRest ==
  ASSUME Inv, m_deviceSampleSink \in alive
  PROVE  m_deviceSampleSink \in Sinks
  BY Kinds DEF Inv, Objective

LEMMA Stopping ==
  /\ Chain(StopGeneration) /\ Head(StopGeneration).op = "gotoIdle"
  /\ StopGeneration[Len(StopGeneration)].op = "gotoIdle"
  /\ StopGeneration \in Seq(Stays)
<1> DEFINE c == Command("gotoIdle", None)
<1>1. c \in Steady \cap Leaves \cap Stays \cap InUse /\ c.op = "gotoIdle"
  BY OfNone DEF Command
<1>2. StopGeneration = <<c>>
  BY DEF StopGeneration
<1> HIDE DEF c
<1>3. Chain(<<c>>) /\ Head(<<c>>) = c /\ <<c>>[Len(<<c>>)] = c
  BY <1>1, ChainOne
<1> QED BY <1>1, <1>2, <1>3

LEMMA Constructing ==
  ASSUME NEW k \in Sinks
  PROVE  /\ Chain(ConstructSink(k)) /\ Head(ConstructSink(k)).op = "new"
<1> DEFINE a == Command("new", k)
           b == Command("setSink", k)
<1>1. /\ a \in Steady \cap Leaves \cap InUse /\ a.op = "new"
      /\ b \in Steady \cap Leaves \cap InUse /\ b.op = "setSink"
  BY OfSink DEF Command
<1>2. ConstructSink(k) = <<a, b>>
  BY DEF ConstructSink
<1> HIDE DEF a, b
<1>3. Follows(a, b)
  BY <1>1 DEF Follows
<1>4. Chain(<<a, b>>) /\ Head(<<a, b>>) = a
  BY <1>1, <1>3, ChainTwo
<1> QED BY <1>1, <1>2, <1>4

LEMMA DestroyingChannel ==
  ASSUME NEW c \in Channels
  PROVE  /\ Chain(DestroyChannel(c)) /\ DestroyChannel(c) \in Seq(Stays)
         /\ Head(DestroyChannel(c)).op = "removeThreadedSource"
         /\ DestroyChannel(c)[Len(DestroyChannel(c))].op = "delete"
<1> DEFINE a == Command("removeThreadedSource", c)
           b == Command("delete", c)
<1>1. /\ a \in Steady \cap Leaves \cap Stays \cap InUse
      /\ b \in Steady \cap Leaves \cap Stays \cap InUse
      /\ a.op = "removeThreadedSource" /\ b.op = "delete" /\ b.arg = c
  BY OfChannel DEF Command
<1>2. DestroyChannel(c) = <<a, b>>
  BY DEF DestroyChannel
<1>3. Follows(a, b)
  BY Kinds DEF Follows, Command
<1> HIDE DEF a, b
<1>4. /\ Chain(<<a, b>>) /\ Head(<<a, b>>) = a
      /\ <<a, b>>[Len(<<a, b>>)] = b
  BY <1>1, <1>3, ChainTwo
<1>5. <<a, b>> \in Seq(Stays)
  BY <1>1
<1> QED BY <1>1, <1>2, <1>4, <1>5

LEMMA OperationKeeps ==
  ASSUME Inv, InOrder, Wired, Operation
  PROVE  Inv' /\ InOrder' /\ Wired'
<1>0. alive \subseteq Objects
  BY DEF Inv, Objective
<1>1. CASE StartRequest
  <2> DEFINE a == Command("init", None)
             b == Command("start", None)
  <2>1. /\ a \in Steady \cap Stays \cap InUse /\ b \in Steady \cap Stays \cap InUse
        /\ a.op = "init" /\ b.op = "start"
    BY OfNone DEF Command
  <2>2. Undertake(<<a, b>>) /\ alive' = alive
    BY <1>1 DEF StartRequest
  <2> HIDE DEF a, b
  <2>3. Follows(a, b)
    BY <2>1 DEF Follows
  <2>4. Linked(<<a, b>>)
    <3>1. ASSUME NEW i \in 1..Len(<<a, b>>), i > 1
          PROVE  <<a, b>>[i-1] = a /\ <<a, b>>[i] = b
      BY <3>1
    <3> QED BY <2>3, <3>1 DEF Linked
  <2>5. /\ <<a, b>> \in Seq(Steady) /\ <<a, b>> \in Seq(Stays)
        /\ <<a, b>> \in Seq(InUse) /\ <<a, b>> # << >> /\ Head(<<a, b>>) = a
    BY <2>1
  <2> QED BY <1>0, <2>1, <2>2, <2>4, <2>5, Begins
<1>2. CASE StopRequest
  <2>1. Undertake(StopGeneration) /\ alive' = alive
    BY <1>2 DEF StopRequest
  <2> QED BY <1>0, <2>1, Stopping, Begins DEF Chain
<1>3. CASE RemoveDevice
  <2> DEFINE k == m_deviceSampleSink
             f == Command("freeChannels", None)
             d == Command("delete", k)
             q == Command("quit", None)
             j == Command("join", None)
  <2>1. Undertake(StopGeneration \o <<f, d, q, j>>) /\ alive' = alive /\ k \in Sinks
    BY <1>3, SinkAtRest DEF RemoveDevice, Undertake
  <2>2. /\ f \in Steady \cap Leaves \cap InUse /\ f.op = "freeChannels"
        /\ q \in Steady \cap Leaves \cap InUse /\ q.op = "quit"
        /\ j \in Steady \cap Leaves \cap InUse /\ j.op = "join"
        /\ d \in Steady \cap Leaves \cap InUse /\ d.op = "delete" /\ d.arg \in Sinks
    BY <2>1, OfNone, OfSink DEF Command
  <2>3. ~Depends(f) /\ ~Depends(d) /\ ~Depends(q) /\ ~Depends(j)
    BY <2>2, Kinds DEF Depends
  <2> HIDE DEF k, f, d, q, j
  <2>4. Follows(f, d) /\ Follows(d, q) /\ Follows(q, j)
    BY <2>2, <2>3, Independent
  <2>5. <<f, d, q, j>> \in Seq(Steady) /\ <<f, d, q, j>> \in Seq(Leaves)
        /\ <<f, d, q, j>> \in Seq(InUse) /\ <<f, d, q, j>> # << >>
        /\ Head(<<f, d, q, j>>) = f
    BY <2>2
  <2>6. Linked(<<f, d, q, j>>)
    <3>1. ASSUME NEW i \in 1..Len(<<f, d, q, j>>), i > 1
          PROVE  \/ <<f, d, q, j>>[i-1] = f /\ <<f, d, q, j>>[i] = d
                 \/ <<f, d, q, j>>[i-1] = d /\ <<f, d, q, j>>[i] = q
                 \/ <<f, d, q, j>>[i-1] = q /\ <<f, d, q, j>>[i] = j
      BY <3>1
    <3> QED BY <2>4, <3>1 DEF Linked
  <2> DEFINE rest == <<f, d, q, j>>
  <2>7. Chain(rest)
    BY <2>5, <2>6 DEF Chain
  <2>8. Follows(StopGeneration[Len(StopGeneration)], Head(rest))
    BY <2>3, <2>5, Stopping, Independent
  <2>9. Undertake(StopGeneration \o rest)
    BY <2>1
  <2> HIDE DEF rest
  <2>10. /\ Chain(StopGeneration \o rest)
         /\ Head(StopGeneration \o rest).op = "gotoIdle"
    BY <2>7, <2>8, Stopping, Chained
  <2> QED BY <1>0, <2>1, <2>9, <2>10, Begins DEF Chain
<1>4. ASSUME NEW c \in Channels, AddChannel(c) PROVE Inv' /\ InOrder' /\ Wired'
  <2> DEFINE a == Command("addThreadedSource", c)
  <2>1. Undertake(<<a>>) /\ alive' = alive \cup {c} /\ c \in Objects
    BY <1>4 DEF AddChannel, Objects
  <2>2. /\ a \in Steady \cap Stays \cap InUse \cap Leaves
        /\ a.op = "addThreadedSource" /\ a.arg = c
    BY OfChannel DEF Command
  <2> HIDE DEF a
  <2>3. Chain(<<a>>) /\ Head(<<a>>) = a /\ <<a>> \in Seq(Stays)
    BY <2>2, ChainOne
  <2> QED BY <1>0, <2>1, <2>2, <2>3, Begins DEF Chain
<1>5. ASSUME NEW c \in Channels, RemoveChannel(c) PROVE Inv' /\ InOrder' /\ Wired'
  <2>1. Undertake(DestroyChannel(c)) /\ alive' = alive
    BY <1>5 DEF RemoveChannel
  <2> QED BY <1>0, <2>1, DestroyingChannel, Begins DEF Chain
<1>6. ASSUME NEW k \in Sinks, ChangeSampleSink(k) PROVE Inv' /\ InOrder' /\ Wired'
  <2> DEFINE old == m_deviceSampleSink
             d == Command("delete", old)
  <2>1. /\ Undertake(StopGeneration \o <<d>> \o ConstructSink(k))
        /\ alive' = alive /\ old \in Sinks
    BY <1>6, SinkAtRest DEF ChangeSampleSink, Undertake
  <2>2. d \in Steady \cap Leaves \cap InUse /\ d.op = "delete" /\ d.arg \in Sinks
    BY <2>1, OfSink DEF Command
  <2>3. ~Depends(d)
    BY <2>2, Kinds DEF Depends
  <2> HIDE DEF old, d
  <2>4. Chain(<<d>>) /\ Head(<<d>>) = d /\ <<d>>[Len(<<d>>)] = d
    BY <2>2, ChainOne
  <2>5. Follows(StopGeneration[Len(StopGeneration)], d)
    BY <2>3, Stopping, Independent
  <2> DEFINE p == StopGeneration \o <<d>>
  <2>6. Chain(p) /\ Head(p).op = "gotoIdle" /\ p[Len(p)] = d
    BY <2>4, <2>5, Stopping, Chained
  <2>7. Follows(d, Head(ConstructSink(k)))
    BY <2>2, Constructing DEF Follows
  <2> HIDE DEF p
  <2>8. Chain(p \o ConstructSink(k)) /\ Head(p \o ConstructSink(k)).op = "gotoIdle"
    BY <2>6, <2>7, Constructing, Chained
  <2>9. Undertake(p \o ConstructSink(k))
    BY <2>1 DEF p
  <2> QED BY <1>0, <2>1, <2>8, <2>9, Begins DEF Chain
<1> QED BY <1>1, <1>2, <1>3, <1>4, <1>5, <1>6 DEF Operation
-----------------------------------------------------------------------------
(* What is left of an operation after its head, and what the head puts      *)
(* before it.                                                               *)
LEMMA Advance ==
  ASSUME Inv, todo # << >>, NEW next, next = << >> \/ next \in Seq(Steady),
         next \in Seq(Leaves), next \in Seq(Stays), todo' = next \o Tail(todo),
         \/ todo \in Seq(Stays)
         \/ m_state' \notin {"StReady", "StRunning"}
         \/ m_state' = m_state /\ Head(todo).op \notin {"gotoIdle", "stopSink", "setIdle"}
  PROVE  Operations' /\ StoppedFirst' /\ Halfway' /\ ~MidStop'
<1> DEFINE rest == Tail(todo)
           q == next \o rest
<1>1. rest \in Seq(Steady) /\ next \in Seq(Steady)
  BY DEF Inv, Operations
<1>2. /\ todo \in Seq(Leaves) => rest \in Seq(Leaves)
      /\ todo \in Seq(Stays) => rest \in Seq(Stays)
  BY SeqHead
<1>3. todo' = q
  OBVIOUS
<1> HIDE DEF rest
<1>4. q \in Seq(Steady)
  BY <1>1, SeqConcat
<1>5. /\ todo \in Seq(Leaves) => q \in Seq(Leaves)
      /\ todo \in Seq(Stays) => q \in Seq(Stays)
  BY <1>2, SeqConcat
<1> HIDE DEF q
<1>6. q # << >> => Head(q) \in Steady /\ Tail(q) \in Seq(Steady)
  BY <1>4, SeqHead
<1>7. q \in Seq(Commands)
  BY <1>4, SeqSub, Parts
<1>8. Operations'
  BY <1>3, <1>5, <1>6, <1>7 DEF Inv, Operations
<1>9. StoppedFirst'
  BY <1>3, <1>5 DEF Inv, StoppedFirst, Generating
<1>10. ~MidStop'
  BY <1>3, <1>6 DEF MidStop, Mid, Steady
<1> QED BY <1>8, <1>9, <1>10 DEF Halfway, MidStop

(* The main thread is in the middle of stopping.                            *)
LEMMA Begun ==
  ASSUME Inv, todo # << >>, NEW c \in Commands \cap Leaves \cap Stays,
         c.op \in Mid, todo' = <<c>> \o Tail(todo)
  PROVE  Operations' /\ StoppedFirst' /\ todo' # << >> /\ Head(todo') = c
<1> DEFINE rest == Tail(todo)
<1>1. rest \in Seq(Steady)
  BY DEF Inv, Operations
<1>2. rest \in Seq(Leaves) \/ rest \in Seq(Stays)
  BY SeqHead DEF Inv, Operations
<1>3. rest \in Seq(Commands)
  BY <1>1, SeqSub, Parts
<1>4. todo' = <<c>> \o rest
  OBVIOUS
<1>5. <<c>> \in Seq(Commands) /\ <<c>> \in Seq(Leaves) /\ <<c>> \in Seq(Stays)
  OBVIOUS
<1> HIDE DEF rest
<1>6. todo' # << >> /\ Head(todo') = c /\ Tail(todo') = rest
  BY <1>3, <1>4
<1>7. <<c>> \o rest \in Seq(Commands)
  BY <1>3, <1>5, SeqConcat
<1>8. /\ rest \in Seq(Leaves) => <<c>> \o rest \in Seq(Leaves)
      /\ rest \in Seq(Stays) => <<c>> \o rest \in Seq(Stays)
  BY <1>5, SeqConcat
<1>9. Operations'
  BY <1>1, <1>2, <1>4, <1>6, <1>7, <1>8 DEF Operations
<1>10. StoppedFirst'
  BY <1>6 DEF StoppedFirst, Mid
<1> QED BY <1>6, <1>9, <1>10

(* The order of the commands is kept.                                       *)
LEMMA Ordered ==
  ASSUME Inv, InOrder, todo # << >>, NEW next \in Seq(Commands),
         next \in Seq(InUse), Linked(next),
         next # << >> =>
           /\ Head(todo).op \notin {"new", "delete", "removeThreadedSource"}
           /\ next[Len(next)].op # "setSink" /\ ~Depends(Head(next)),
         next = << >> /\ Tail(todo) # << >> => ReadyNext(Head(Tail(todo))),
         todo' = next \o Tail(todo), m_deviceSampleSink' = m_deviceSampleSink
  PROVE  InOrder'
<1> DEFINE rest == Tail(todo)
<1>1. todo \in Seq(Commands) /\ rest \in Seq(Commands) /\ rest \in Seq(InUse)
  BY SeqHead DEF Inv, Operations, InOrder
<1>2. Linked(rest) /\ (rest # << >> => Follows(Head(todo), Head(rest)))
  BY <1>1, TailLinked DEF InOrder
<1>3. next = << >> /\ rest # << >> => ReadyNext(Head(rest))
  OBVIOUS
<1>4. todo' = next \o rest
  OBVIOUS
<1> HIDE DEF rest
<1>5. next # << >> /\ rest # << >> => Follows(next[Len(next)], Head(rest))
  BY <1>2, Parents, Independent
<1>6. Linked(todo')
  BY <1>1, <1>2, <1>4, <1>5, LinkedConcat
<1>7. todo' \in Seq(InUse')
  <2>1. next \o rest \in Seq(InUse)
    BY <1>1, SeqConcat
  <2>2. InUse' = InUse
    BY SameInUse
  <2> QED BY <1>4, <2>1, <2>2
<1>8. todo' # << >> => ReadyNext(Head(todo'))
  <2>1. CASE next = << >>
    <3>1. todo' = rest
      BY <1>1, <1>4, <2>1, SeqConcat
    <3> QED BY <1>3, <2>1, <3>1
  <2>2. CASE next # << >>
    <3>1. Head(todo') = Head(next)
      BY <1>1, <1>4, <2>2, SeqConcat
    <3> QED BY <2>2, <3>1, Unready
  <2> QED BY <2>1, <2>2
<1> QED BY <1>6, <1>7, <1>8 DEF InOrder, Linked, Ready, ReadyNext

(* A command after which the next one depends on nothing.                   *)
LEMMA Plain ==
  ASSUME Inv, InOrder, todo # << >>,
         Head(todo).op \notin {"new", "delete", "removeThreadedSource"}
  PROVE  Tail(todo) # << >> => ReadyNext(Head(Tail(todo)))
<1>1. todo \in Seq(Commands)
  BY DEF Inv, Operations
<1>2. Tail(todo) # << >> => Follows(Head(todo), Head(Tail(todo)))
  BY <1>1, TailLinked DEF InOrder
<1> QED BY <1>2, Parents, Unready

LEMMA Nothing ==
  /\ << >> \in Seq(Commands) /\ << >> \in Seq(Steady) /\ << >> \in Seq(Leaves)
  /\ << >> \in Seq(Stays) /\ << >> \in Seq(InUse)
  /\ Linked(<< >>)
<1>1. Len(<< >>) = 0 /\ 1..0 = {}
  OBVIOUS
<1>2. Linked(<< >>)
  BY <1>1 DEF Linked
<1> QED BY <1>2

LEMMA Current ==
  ASSUME Inv, todo # << >>
  PROVE  /\ Head(todo) \in Commands /\ Tail(todo) \in Seq(Commands)
         /\ << >> \o Tail(todo) = Tail(todo)
<1>1. Tail(todo) \in Seq(Commands) /\ Head(todo) \in Commands
  BY SeqHead DEF Inv, Operations
<1> QED BY <1>1, Nothing, SeqConcat

(* A command that only operations without a start, or without a change of   *)
(* sink, hold.                                                              *)
LEMMA Settled ==
  ASSUME Inv, todo # << >>
  PROVE  /\ Head(todo).op \in {"init", "start"} => todo \in Seq(Stays)
         /\ \/ Head(todo).op \in {"new", "setSink", "quit"}
            \/ Head(todo).op = "delete" /\ Head(todo).arg \in Sinks
            => ~Generating
<1>1. todo \in Seq(Leaves) => Head(todo).op \notin {"init", "start"}
  BY SeqHead DEF Leaves
<1>2. todo \in Seq(Stays) =>
        /\ Head(todo).op \notin {"new", "setSink", "quit"}
        /\ ~(Head(todo).op = "delete" /\ Head(todo).arg \in Sinks)
  BY SeqHead, Kinds DEF Stays
<1> QED BY <1>1, <1>2 DEF Inv, Operations, StoppedFirst

LEMMA NotStoppable ==
  ASSUME Inv, ~MidStop, engine # "connect"
  PROVE  /\ ~Stoppable => m_state # "StRunning"
         /\ m_state # "StRunning" => running = {}
         /\ running \ ({m_deviceSampleSink} \cup m_threadedBasebandSampleSources) = {}
  BY DEF Inv, Objective, Generating, AllOrNothing, Stoppable
-----------------------------------------------------------------------------
(* The main thread goes on.                                                 *)
Wires == <<connections, m_deviceSampleFifo, connected>>
InEngine == <<m_deviceSampleSink, m_threadedBasebandSampleSources, engine>>

LEMMA SendWaitKeeps ==
  ASSUME Inv, InOrder, Wired, SendWait
  PROVE  Inv' /\ InOrder' /\ Wired'
<1>1. UNCHANGED <<m_state, InEngine, Wires, todo, running, alive>>
  BY DEF SendWait, generation, wiring, objects, InEngine, Wires
<1>2. Inv'
  BY <1>1 DEF InEngine, Inv, Operations, StoppedFirst, Objective, Generating,
              Halfway, AllOrNothing, MidStop
<1>3. InOrder' /\ Wired'
  BY <1>1 DEF InEngine, Wires, InOrder, Linked, Ready, InUse, Wired
<1> QED BY <1>2, <1>3

LEMMA GotoIdleKeeps ==
  ASSUME Inv, InOrder, Wired, engine # "connect", GotoIdle
  PROVE  Inv' /\ InOrder' /\ Wired'
<1>1. /\ todo # << >> /\ Head(todo).op = "gotoIdle"
      /\ UNCHANGED <<InEngine, Wires, alive>>
  BY DEF GotoIdle, Do, Unwired, wiring, InEngine, Wires
<1>2. ~MidStop
  BY <1>1 DEF MidStop
<1>3. Wired'
  BY <1>1 DEF InEngine, Wires, Wired
<1>4. CASE Stoppable
  <2> DEFINE c == Command("stopSink", None)
  <2>1. /\ running' = running \ m_threadedBasebandSampleSources
        /\ m_state' = m_state /\ todo' = <<c>> \o Tail(todo)
    BY <1>4 DEF GotoIdle, Do
  <2>2. /\ c \in Commands \cap Leaves \cap Stays \cap InUse /\ c.op \in Mid
        /\ c.op = "stopSink" /\ ~Depends(c)
    BY OfNone DEF Command, Mid, Depends
  <2> HIDE DEF c
  <2>3. Operations' /\ StoppedFirst' /\ todo' # << >> /\ Head(todo') = c
    BY <1>1, <2>1, <2>2, Begun
  <2>4. running' \subseteq {m_deviceSampleSink'}
    BY <1>1, <1>2, <2>1, NotStoppable DEF InEngine
  <2>5. MidStop' /\ Halfway'
    BY <2>2, <2>3, <2>4 DEF MidStop, Halfway
  <2>6. Objective'
    BY <1>1, <2>1 DEF InEngine, Inv, Objective, Generating
  <2>7. InOrder'
    <3>1. /\ <<c>> \in Seq(Commands) /\ <<c>> \in Seq(InUse) /\ <<c>> # << >>
          /\ Head(<<c>>) = c /\ <<c>>[Len(<<c>>)] = c /\ Linked(<<c>>)
      BY <2>2 DEF Linked
    <3> QED BY <1>1, <2>1, <2>2, <3>1, Ordered DEF InEngine
  <2> QED BY <1>3, <2>3, <2>5, <2>6, <2>7 DEF Inv, AllOrNothing
<1>5. CASE ~Stoppable
  <2>1. /\ m_state' \in {"StNotStarted", "StIdle"} /\ running' = running
        /\ todo' = << >> \o Tail(todo)
    BY <1>5 DEF GotoIdle, Do
  <2>2. Operations' /\ StoppedFirst' /\ Halfway' /\ ~MidStop'
    BY <1>1, <2>1, Nothing, Advance
  <2>3. AllOrNothing'
    BY <1>2, <1>5, <2>1, NotStoppable DEF AllOrNothing
  <2>4. Objective'
    BY <1>1, <2>1 DEF InEngine, Inv, Objective, Generating
  <2>5. InOrder'
    BY <1>1, <2>1, Nothing, Plain, Ordered DEF InEngine
  <2> QED BY <1>3, <2>2, <2>3, <2>4, <2>5 DEF Inv
<1> QED BY <1>4, <1>5

LEMMA StopSinkKeeps ==
  ASSUME Inv, InOrder, Wired, StopSink
  PROVE  Inv' /\ InOrder' /\ Wired'
<1> DEFINE c == Command("setIdle", None)
<1>1. /\ todo # << >> /\ Head(todo).op = "stopSink"
      /\ todo' = <<c>> \o Tail(todo)
      /\ running' = running \ {m_deviceSampleSink}
      /\ UNCHANGED <<m_state, InEngine, Wires, alive>>
  BY DEF StopSink, Do, Unwired, wiring, InEngine, Wires
<1>2. /\ c \in Commands \cap Leaves \cap Stays \cap InUse /\ c.op \in Mid
      /\ c.op = "setIdle" /\ ~Depends(c)
  BY OfNone DEF Command, Mid, Depends
<1> HIDE DEF c
<1>3. Operations' /\ StoppedFirst' /\ todo' # << >> /\ Head(todo') = c
  BY <1>1, <1>2, Begun
<1>4. running' = {}
  BY <1>1 DEF Inv, Halfway
<1>5. MidStop' /\ Halfway'
  BY <1>2, <1>3, <1>4 DEF MidStop, Halfway
<1>6. Objective'
  BY <1>1 DEF InEngine, Inv, Objective, Generating
<1>7. InOrder'
  <2>1. /\ <<c>> \in Seq(Commands) /\ <<c>> \in Seq(InUse) /\ <<c>> # << >>
        /\ Head(<<c>>) = c /\ <<c>>[Len(<<c>>)] = c /\ Linked(<<c>>)
    BY <1>2 DEF Linked
  <2> QED BY <1>1, <1>2, <2>1, Ordered DEF InEngine
<1>8. Wired'
  BY <1>1 DEF InEngine, Wires, Wired
<1> QED BY <1>3, <1>5, <1>6, <1>7, <1>8 DEF Inv, AllOrNothing

LEMMA SetIdleKeeps ==
  ASSUME Inv, InOrder, Wired, SetIdle
  PROVE  Inv' /\ InOrder' /\ Wired'
<1>1. /\ todo # << >> /\ Head(todo).op = "setIdle"
      /\ todo' = << >> \o Tail(todo) /\ m_state' = "StIdle"
      /\ UNCHANGED <<running, InEngine, Wires, alive>>
  BY DEF SetIdle, Do, Unwired, wiring, objects, InEngine, Wires
<1>2. Operations' /\ StoppedFirst' /\ Halfway' /\ ~MidStop'
  BY <1>1, Nothing, Advance
<1>3. running' = {}
  BY <1>1 DEF Inv, Halfway
<1>4. AllOrNothing' /\ Objective'
  BY <1>1, <1>3 DEF InEngine, Inv, Objective, Generating, AllOrNothing
<1>5. InOrder'
  BY <1>1, Nothing, Plain, Ordered DEF InEngine
<1>6. Wired'
  BY <1>1 DEF InEngine, Wires, Wired
<1> QED BY <1>2, <1>4, <1>5, <1>6 DEF Inv

(* A step of the main thread that stops and changes nothing.                *)
LEMMA Elsewhere ==
  ASSUME Inv, InOrder, Wired, todo # << >>,
         NEW next, next = << >> \/ next \in Seq(Steady),
         next \in Seq(Leaves), next \in Seq(Stays), next \in Seq(InUse), Linked(next),
         Head(todo).op \notin {"gotoIdle", "stopSink", "setIdle", "delete",
                               "removeThreadedSource"},
         next # << >> => /\ Head(todo).op # "new" /\ next[Len(next)].op # "setSink"
                         /\ ~Depends(Head(next)),
         next = << >> /\ Tail(todo) # << >> => ReadyNext(Head(Tail(todo))),
         todo' = next \o Tail(todo), alive \subseteq alive', alive' \subseteq Objects,
         UNCHANGED <<m_state, running, InEngine, Wires>>
  PROVE  Inv' /\ InOrder' /\ Wired'
<1>1. Operations' /\ StoppedFirst' /\ Halfway' /\ ~MidStop'
  BY Advance
<1>2. ~MidStop
  BY DEF MidStop
<1>3. AllOrNothing' /\ Objective'
  BY <1>1, <1>2 DEF InEngine, Inv, Objective, Generating, AllOrNothing
<1>4. next \in Seq(Commands)
  BY SeqSub, Parts
<1>5. InOrder'
  BY <1>4, Ordered DEF InEngine
<1>6. Wired'
  BY DEF InEngine, Wires, Wired
<1> QED BY <1>1, <1>3, <1>5, <1>6 DEF Inv

LEMMA NewKeeps ==
  ASSUME Inv, InOrder, Wired, New
  PROVE  Inv' /\ InOrder' /\ Wired'
<1>1. /\ todo # << >> /\ Head(todo).op = "new" /\ todo' = << >> \o Tail(todo)
      /\ alive' = alive \cup {Head(todo).arg}
      /\ UNCHANGED <<m_state, running, InEngine, Wires>>
  BY DEF New, Do, Unwired, wiring, InEngine, Wires
<1>2. Head(todo) \in Commands
  BY <1>1, Current
<1>3. Head(todo).arg \in Objects
  BY <1>1, <1>2 DEF Commands, Argumented, Objects
<1>4. alive \subseteq alive' /\ alive' \subseteq Objects
  BY <1>1, <1>3 DEF Inv, Objective
<1>5. Tail(todo) # << >> => ReadyNext(Head(Tail(todo)))
  <2> SUFFICES ASSUME Tail(todo) # << >> PROVE ReadyNext(Head(Tail(todo)))
    OBVIOUS
  <2>1. todo \in Seq(Commands) /\ Linked(todo)
    BY DEF Inv, Operations, InOrder
  <2>2. Follows(Head(todo), Head(Tail(todo)))
    BY <1>1, <2>1, TailLinked
  <2>3. CASE ~Depends(Head(Tail(todo)))
    BY <2>3, Unready
  <2>4. CASE Head(Tail(todo)).op = "setSink"
    <3>1. \A k \in Sinks : connections'[k] = 0
      BY <1>1 DEF InOrder, Ready, Wires
    <3> QED BY <2>4, <3>1 DEF ReadyNext
  <2> QED BY <1>1, <2>2, <2>3, <2>4, Parents
<1> QED BY <1>1, <1>4, <1>5, Nothing, Elsewhere

(* What is deleted is neither in the engine nor running.                    *)
LEMMA DeleteKeeps ==
  ASSUME Inv, InOrder, Wired, engine # "connect", Delete
  PROVE  Inv' /\ InOrder' /\ Wired'
<1> DEFINE x == Head(todo).arg
<1>1. /\ todo # << >> /\ Head(todo).op = "delete" /\ todo' = << >> \o Tail(todo)
      /\ alive' = alive \ {x} /\ running' = running \ {x}
      /\ connections' = [k \in Sinks |-> IF k = x THEN 0 ELSE connections[k]]
      /\ connected' = {c \in connected : x \notin {c, m_deviceSampleFifo[c]}}
      /\ m_deviceSampleFifo' =
           [c \in Channels |-> IF c = x THEN None ELSE m_deviceSampleFifo[c]]
      /\ UNCHANGED <<m_state, m_deviceSampleSink, m_threadedBasebandSampleSources,
                     engine>>
  BY DEF Delete, Do
<1>2. x \in Sinks \/ (x \in Channels /\ x \notin Sinks)
  <2>1. Head(todo) \in Commands
    BY <1>1, Current
  <2>2. x \in Objects
    BY <1>1, <2>1 DEF Commands, Argumented
  <2> HIDE DEF x
  <2> QED BY <2>2, Kinds DEF Objects
<1>3. x \in Channels => x \notin m_threadedBasebandSampleSources
  BY <1>1 DEF InOrder, Ready
<1>4. x \in Sinks => x = m_deviceSampleSink /\ ~Generating
  <2>1. Head(todo) \in InUse
    BY <1>1, SeqHead DEF InOrder
  <2> QED BY <1>1, <2>1, Settled DEF InUse
<1>5. ~MidStop
  BY <1>1 DEF MidStop
<1> HIDE DEF x
<1>6. running' = running
  <2>1. CASE x \in Sinks
    <3>1. running = {}
      BY <1>4, <1>5, <2>1, NotStoppable DEF Generating
    <3> QED BY <1>1, <3>1
  <2>2. CASE x \in Channels
    <3>1. x \notin m_threadedBasebandSampleSources /\ x # m_deviceSampleSink
      BY <1>3, <2>2, Kinds DEF Inv, Objective
    <3>2. x \notin running
      BY <1>5, <3>1 DEF Inv, AllOrNothing
    <3> QED BY <1>1, <3>2
  <2> QED BY <1>2, <2>1, <2>2
<1>7. Operations' /\ StoppedFirst' /\ Halfway' /\ ~MidStop'
  BY <1>1, Nothing, Advance
<1>8. AllOrNothing'
  BY <1>1, <1>5, <1>6 DEF Inv, AllOrNothing
<1>9. Objective'
  <2>1. x \notin m_threadedBasebandSampleSources
    BY <1>2, <1>3, Kinds DEF Inv, Objective
  <2> QED BY <1>1, <2>1 DEF Inv, Objective, Generating
<1>10. \A k \in Sinks : connections'[k] > 0 => connections[k] > 0
  BY <1>1
<1>11. Wired'
  <2>1. connections' \in [Sinks -> 0..MaxConnections]
    BY <1>1, BoundsAssumption DEF Wired
  <2>2. /\ m_deviceSampleFifo' \in [Channels -> Sinks \cup {None}]
        /\ connected' \subseteq {c \in Channels : m_deviceSampleFifo'[c] # None}
        /\ connected' \subseteq connected
    BY <1>1 DEF Wired
  <2> QED BY <1>1, <1>10, <2>1, <2>2 DEF Wired
<1>12. Tail(todo) # << >> => ReadyNext(Head(Tail(todo)))
  <2> SUFFICES ASSUME Tail(todo) # << >> PROVE ReadyNext(Head(Tail(todo)))
    OBVIOUS
  <2>1. todo \in Seq(Commands) /\ Linked(todo)
    BY DEF Inv, Operations, InOrder
  <2>2. Follows(Head(todo), Head(Tail(todo)))
    BY <1>1, <2>1, TailLinked
  <2>3. CASE ~Depends(Head(Tail(todo)))
    BY <2>3, Unready
  <2>4. CASE Head(Tail(todo)).op = "new" /\ x \in Sinks
    <3>1. \A k \in Sinks : connections[k] \in Nat /\ (connections[k] > 0 => k = x)
      BY <1>4, <2>4, BoundsAssumption DEF Wired
    <3>2. \A k \in Sinks : connections'[k] = 0
      BY <1>1, <3>1
    <3> QED BY <2>4, <3>2 DEF ReadyNext
  <2> QED BY <1>1, <2>2, <2>3, <2>4, Parents DEF x
<1>13. InOrder'
  BY <1>1, <1>12, Nothing, Ordered
<1> QED BY <1>7, <1>8, <1>9, <1>11, <1>13 DEF Inv

LEMMA FreeChannelsKeeps ==
  ASSUME Inv, InOrder, Wired, FreeChannels
  PROVE  Inv' /\ InOrder' /\ Wired'
<1>1. /\ todo # << >> /\ Head(todo).op = "freeChannels"
      /\ UNCHANGED <<m_state, running, alive, InEngine, Wires>>
      /\ \/ todo' = << >> \o Tail(todo)
         \/ \E c \in Channels :
              todo' = Append(DestroyChannel(c), Head(todo)) \o Tail(todo)
  BY DEF FreeChannels, Do, Unwired, wiring, objects, InEngine, Wires
<1>2. alive \subseteq Objects
  BY DEF Inv, Objective
<1>3. ASSUME NEW c \in Channels,
             todo' = Append(DestroyChannel(c), Head(todo)) \o Tail(todo)
      PROVE  Inv' /\ InOrder' /\ Wired'
  <2> DEFINE d == DestroyChannel(c)
             h == Head(todo)
  <2>1. h \in Commands /\ h.op = "freeChannels"
    BY <1>1, Current
  <2>2. h \in Steady \cap Leaves \cap Stays \cap InUse /\ ~Depends(h)
    BY <2>1 DEF Steady, Mid, Leaves, Stays, InUse, Depends
  <2>3. /\ Chain(d) /\ d \in Seq(Stays) /\ Head(d).op = "removeThreadedSource"
        /\ d[Len(d)].op = "delete"
    BY DestroyingChannel
  <2>4. todo' = Append(d, h) \o Tail(todo)
    BY <1>3
  <2> HIDE DEF d, h
  <2>5. Chain(<<h>>) /\ Head(<<h>>) = h /\ <<h>>[Len(<<h>>)] = h
    BY <2>2, ChainOne
  <2>6. Follows(d[Len(d)], Head(<<h>>))
    BY <2>2, <2>3, <2>5, Independent
  <2>7. Append(d, h) = d \o <<h>>
    BY <2>3 DEF Chain
  <2>8. /\ Chain(Append(d, h)) /\ Head(Append(d, h)) = Head(d)
        /\ Append(d, h)[Len(Append(d, h))] = h
    <3>1. /\ Chain(d \o <<h>>) /\ Head(d \o <<h>>) = Head(d)
          /\ (d \o <<h>>)[Len(d \o <<h>>)] = <<h>>[Len(<<h>>)]
      BY <2>3, <2>5, <2>6, Chained
    <3> QED BY <2>5, <2>7, <3>1
  <2>9. Append(d, h) \in Seq(Stays)
    BY <2>2, <2>3
  <2>10. ~Depends(Head(Append(d, h)))
    BY <2>3, <2>8 DEF Depends
  <2> DEFINE next == Append(d, h)
  <2>11. /\ next \in Seq(Steady) /\ next \in Seq(Leaves) /\ next \in Seq(Stays)
         /\ next \in Seq(InUse) /\ Linked(next) /\ next # << >>
         /\ next[Len(next)].op # "setSink" /\ ~Depends(Head(next))
    BY <2>1, <2>8, <2>9, <2>10 DEF Chain
  <2>12. todo' = next \o Tail(todo)
    BY <2>4
  <2> HIDE DEF next
  <2> QED BY <1>1, <1>2, <2>11, <2>12, Elsewhere
<1>4. CASE todo' = << >> \o Tail(todo)
  BY <1>1, <1>2, <1>4, Nothing, Plain, Elsewhere
<1> QED BY <1>1, <1>3, <1>4

LEMMA QuitKeeps ==
  ASSUME Inv, InOrder, Wired, engine # "connect", Quit
  PROVE  Inv' /\ InOrder' /\ Wired'
<1>1. /\ todo # << >> /\ Head(todo).op = "quit" /\ todo' = << >> \o Tail(todo)
      /\ m_state' = "StNotStarted"
      /\ UNCHANGED <<running, alive, InEngine, Wires>>
  BY DEF Quit, Do, Unwired, wiring, objects, InEngine, Wires
<1>2. Operations' /\ StoppedFirst' /\ Halfway' /\ ~MidStop'
  BY <1>1, Nothing, Advance
<1>3. running = {}
  BY <1>1, Settled, NotStoppable DEF MidStop, Generating
<1>4. AllOrNothing' /\ Objective'
  BY <1>1, <1>3 DEF InEngine, Inv, Objective, Generating, AllOrNothing
<1>5. InOrder'
  BY <1>1, Nothing, Plain, Ordered DEF InEngine
<1>6. Wired'
  BY <1>1 DEF InEngine, Wires, Wired
<1> QED BY <1>2, <1>4, <1>5, <1>6 DEF Inv

LEMMA ContinueKeeps ==
  ASSUME Inv, InOrder, Wired, engine # "connect", Continue
  PROVE  Inv' /\ InOrder' /\ Wired'
<1>1. CASE Join
  <2>1. /\ todo # << >> /\ Head(todo).op = "join" /\ todo' = << >> \o Tail(todo)
        /\ UNCHANGED <<m_state, running, alive, InEngine, Wires>>
    BY <1>1 DEF Join, Do, Unwired, wiring, objects, InEngine, Wires
  <2>2. alive \subseteq Objects
    BY DEF Inv, Objective
  <2> QED BY <2>1, <2>2, Nothing, Plain, Elsewhere
<1> QED BY <1>1, SendWaitKeeps, GotoIdleKeeps, StopSinkKeeps, SetIdleKeeps,
           NewKeeps, DeleteKeeps, FreeChannelsKeeps, QuitKeeps DEF Continue
-----------------------------------------------------------------------------
(* The engine answers a command.                                            *)
LEMMA Answering ==
  ASSUME Inv, NEW op \in Synchronous, Handling(op)
  PROVE  /\ todo # << >> /\ Head(todo).op = op /\ Head(todo) \in Commands
         /\ engine = "loop" /\ engine' = "loop" /\ alive' = alive /\ ~MidStop
         /\ Head(todo).op \notin {"gotoIdle", "stopSink", "setIdle", "new", "delete"}
         /\ Tail(todo) = << >> \o Tail(todo)
<1>1. /\ todo # << >> /\ Head(todo).op = op
      /\ engine = "loop" /\ engine' = "loop" /\ alive' = alive
  BY DEF Handling
<1> QED BY <1>1, Current DEF MidStop, Synchronous

LEMMA InitGenerationKeeps ==
  ASSUME Inv, InOrder, Wired, InitGeneration
  PROVE  Inv' /\ InOrder' /\ Wired'
<1>1. /\ todo # << >> /\ Head(todo).op = "init"
      /\ engine = "loop" /\ engine' = "loop"
      /\ alive' = alive /\ ~MidStop /\ Tail(todo) = << >> \o Tail(todo)
      /\ UNCHANGED <<m_deviceSampleSink, m_threadedBasebandSampleSources, Wires>>
  BY Answering DEF InitGeneration, Synchronous, wiring, Wires
<1>2. running' = {}
  BY <1>1, NotStoppable DEF InitGeneration, Stopped
<1>3. Wired'
  BY <1>1 DEF Wires, Wired
<1>4. CASE m_deviceSampleSink = None
  <2>1. m_state' = "StError" /\ todo' = << >>
    BY <1>4 DEF InitGeneration
  <2>2. Operations' /\ StoppedFirst' /\ Halfway' /\ ~MidStop'
    BY <2>1, Nothing DEF Operations, StoppedFirst, Halfway, MidStop
  <2>3. InOrder'
    BY <1>1, <2>1, Nothing, SameInUse DEF InOrder, Linked
  <2> QED BY <1>1, <1>2, <1>3, <2>1, <2>2, <2>3
      DEF Inv, Objective, Generating, AllOrNothing
<1>5. CASE m_deviceSampleSink # None
  <2>1. m_state' = "StReady" /\ todo' = << >> \o Tail(todo)
    BY <1>1, <1>5 DEF InitGeneration, Done
  <2>2. Operations' /\ StoppedFirst' /\ Halfway' /\ ~MidStop'
    BY <1>1, <2>1, Settled, Nothing, Advance
  <2>3. InOrder'
    BY <1>1, <2>1, Nothing, Plain, Ordered
  <2> QED BY <1>1, <1>2, <1>3, <1>5, <2>1, <2>2, <2>3
      DEF Inv, Objective, Generating, AllOrNothing
<1> QED BY <1>4, <1>5

LEMMA StartGenerationKeeps ==
  ASSUME Inv, InOrder, Wired, StartGeneration
  PROVE  Inv' /\ InOrder' /\ Wired'
<1>1. /\ todo # << >> /\ Head(todo).op = "start"
      /\ engine = "loop" /\ engine' = "loop"
      /\ alive' = alive /\ ~MidStop /\ Tail(todo) = << >> \o Tail(todo)
  BY Answering DEF StartGeneration, Synchronous
<1>2. /\ m_state = "StReady" /\ todo' = << >> \o Tail(todo)
      /\ UNCHANGED <<m_deviceSampleSink, m_threadedBasebandSampleSources, Wires>>
  BY <1>1 DEF StartGeneration, Done, wiring, Wires
<1>3. Operations' /\ StoppedFirst' /\ Halfway' /\ ~MidStop'
  BY <1>1, <1>2, Settled, Nothing, Advance
<1>4. running = {} /\ m_deviceSampleSink # None
  BY <1>1, <1>2 DEF Inv, AllOrNothing, Objective, Generating
<1>5. \/ /\ m_state' = "StRunning"
         /\ running' = {m_deviceSampleSink} \cup m_threadedBasebandSampleSources
      \/ m_state' = "StError" /\ running' = {}
  BY <1>4 DEF StartGeneration
<1>6. AllOrNothing' /\ Objective'
  BY <1>1, <1>2, <1>4, <1>5 DEF Inv, AllOrNothing, Objective, Generating
<1>7. InOrder'
  BY <1>1, <1>2, Nothing, Plain, Ordered
<1>8. Wired'
  BY <1>2 DEF Wires, Wired
<1> QED BY <1>3, <1>6, <1>7, <1>8 DEF Inv

(* The engine is connected to no sink when it is given another.             *)
LEMMA SetSinkKeeps ==
  ASSUME Inv, InOrder, Wired, SetSink
  PROVE  Inv' /\ InOrder' /\ Wired'
<1>1. /\ todo # << >> /\ Head(todo).op = "setSink"
      /\ engine = "loop" /\ engine' = "loop"
      /\ alive' = alive /\ ~MidStop /\ Head(todo) \in Commands
  BY Answering DEF SetSink, Synchronous
<1>2. /\ todo' = Tail(todo) /\ m_deviceSampleSink' = Head(todo).arg
      /\ UNCHANGED <<m_state, m_threadedBasebandSampleSources, Wires>>
  BY DEF SetSink, Done, Argument, wiring, Wires
<1>3. todo' = << >>
  <2>1. todo \in Seq(Commands) /\ Linked(todo)
    BY DEF Inv, Operations, InOrder
  <2>2. Tail(todo) # << >> => Follows(Head(todo), Head(Tail(todo)))
    BY <1>1, <2>1, TailLinked
  <2> QED BY <1>1, <1>2, <2>2, Parents
<1>4. m_state # "StRunning" /\ running = {} /\ ~Generating
  BY <1>1, Settled, NotStoppable DEF Generating
<1>5. Operations' /\ StoppedFirst' /\ Halfway' /\ ~MidStop'
  BY <1>3, Nothing DEF Operations, StoppedFirst, Halfway, MidStop
<1>6. running' = {}
  BY <1>4 DEF SetSink, Stopped
<1>7. m_deviceSampleSink' \in Sinks
  BY <1>1, <1>2 DEF Commands, Argumented
<1>8. Objective' /\ AllOrNothing'
  BY <1>1, <1>2, <1>4, <1>6, <1>7, Kinds DEF Inv, Objective, Generating, AllOrNothing
<1>9. InOrder'
  <2>1. Len(<< >>) = 0 /\ 1..0 = {} /\ << >> \in Seq(InUse')
    OBVIOUS
  <2> QED BY <1>3, <2>1 DEF InOrder, Linked
<1>10. Wired'
  <2>1. \A k \in Sinks : connections[k] = 0
    BY <1>1 DEF InOrder, Ready
  <2> QED BY <1>2, <2>1 DEF Wires, Wired
<1> QED BY <1>5, <1>8, <1>9, <1>10 DEF Inv

(* A channel that is given no FIFO is not connected.                        *)
LEMMA FifosSet ==
  ASSUME Wired, NEW s \in SUBSET Channels, NEW fifo \in Sinks \cup {None},
         SetDeviceSampleSourceFifo(s, fifo)
  PROVE  /\ m_deviceSampleFifo' \in [Channels -> Sinks \cup {None}]
         /\ connected' \subseteq {c \in Channels : m_deviceSampleFifo'[c] # None}
         /\ fifo = None => connected' \cap s = {}
<1>1. m_deviceSampleFifo' = [c \in Channels |->
        IF c \in s THEN fifo ELSE m_deviceSampleFifo[c]]
  BY DEF SetDeviceSampleSourceFifo
<1>2. m_deviceSampleFifo' \in [Channels -> Sinks \cup {None}]
  BY <1>1 DEF Wired
<1>3. connected \subseteq Channels /\ \A c \in connected : m_deviceSampleFifo[c] # None
  BY DEF Wired
<1>4. CASE fifo = None
  <2>1. connected' = connected \ {c \in s : m_deviceSampleFifo[c] # fifo}
    BY <1>4 DEF SetDeviceSampleSourceFifo
  <2> QED BY <1>1, <1>2, <1>3, <1>4, <2>1
<1>5. CASE fifo # None
  <2>1. connected' = connected \cup {c \in s : m_deviceSampleFifo[c] # fifo}
    BY <1>5 DEF SetDeviceSampleSourceFifo
  <2> QED BY <1>1, <1>2, <1>3, <1>5, <2>1
<1> QED BY <1>4, <1>5

(* checkNumberOfBasebandSources() first takes away what one way is no more  *)
(* for the new channels, ...                                                *)
LEMMA Disconnected ==
  ASSUME Inv, Wired, NEW s \in SUBSET Channels, IsFiniteSet(s),
         s = {} => Cardinality(m_threadedBasebandSampleSources) <= 1,
         Disconnect(s), m_threadedBasebandSampleSources' = s,
         m_deviceSampleSink' = m_deviceSampleSink
  PROVE  Wired'
<1>1. m_deviceSampleSink \in Sinks \cup {None} /\ Cardinality(s) \in Nat
  BY FS_CardinalityType DEF Inv, Objective
<1>2. /\ connections \in [Sinks -> 0..MaxConnections]
      /\ \A k \in Sinks : connections[k] > 0 => k = m_deviceSampleSink
      /\ MaxConnections \in Nat /\ 0 \in 0..MaxConnections
  BY BoundsAssumption DEF Wired
<1>3. CASE Cardinality(s) = 1
  <2>1. PICK x : s = {x}
    BY <1>3, FS_Singleton
  <2>2. /\ connections' = [connections EXCEPT ![m_deviceSampleSink] = 0]
        /\ UNCHANGED <<m_deviceSampleFifo, connected>>
    BY <1>3 DEF Disconnect, Connections
  <2>3. connections' \in [Sinks -> 0..MaxConnections]
    BY <1>2, <2>2
  <2>4. ASSUME NEW k \in Sinks PROVE ~(connections'[k] > 0)
    <3>1. CASE k = m_deviceSampleSink
      <4>1. connections'[k] = 0
        BY <1>2, <2>2, <3>1
      <4> QED BY <4>1
    <3>2. CASE k # m_deviceSampleSink
      <4>1. connections'[k] = connections[k]
        BY <1>2, <2>2, <3>2
      <4> QED BY <1>2, <3>2, <4>1
    <3> QED BY <3>1, <3>2
  <2> QED BY <1>1, <2>1, <2>2, <2>3, <2>4 DEF Wired
<1>4. CASE Cardinality(s) # 1
  <2>1. SetDeviceSampleSourceFifo(s, None) /\ connections' = connections
    BY <1>4 DEF Disconnect
  <2>2. ASSUME NEW k \in Sinks, connections'[k] > 0 PROVE Cardinality(s) > 1
    <3>1. Cardinality(m_threadedBasebandSampleSources) > 1
      BY <2>1, <2>2 DEF Wired
    <3>2. Cardinality(m_threadedBasebandSampleSources) \in Nat
      BY FS_CardinalityType DEF Wired
    <3>3. s # {}
      BY <3>1, <3>2
    <3> QED BY <1>1, <1>4, <3>3, FS_EmptySet
  <2> QED BY <1>2, <2>1, <2>2, FifosSet DEF Wired
<1> QED BY <1>3, <1>4

(* ... and then connects the other way.                                     *)
LEMMA Connected ==
  ASSUME Inv, Wired, Connect(m_threadedBasebandSampleSources),
         UNCHANGED <<m_threadedBasebandSampleSources, m_deviceSampleSink>>
  PROVE  Wired'
<1> DEFINE s == m_threadedBasebandSampleSources
<1>1. /\ m_deviceSampleSink \in Sinks \cup {None} /\ s \in SUBSET Channels
      /\ IsFiniteSet(s) /\ Cardinality(s) \in Nat
  BY FS_CardinalityType DEF Inv, Objective, Wired
<1>2. /\ connections \in [Sinks -> 0..MaxConnections]
      /\ \A k \in Sinks :
           connections[k] > 0 => k = m_deviceSampleSink /\ Cardinality(s) > 1
      /\ MaxConnections \in Nat
  BY BoundsAssumption DEF Wired
<1>3. s' = s /\ m_deviceSampleSink' = m_deviceSampleSink
  OBVIOUS
<1>4. CASE Cardinality(s) = 1
  <2>1. PICK x : s = {x}
    BY <1>1, <1>4, FS_Singleton
  <2>2. connections' = connections /\ SetDeviceSampleSourceFifo(s, m_deviceSampleSink)
    BY <1>4 DEF Connect
  <2> QED BY <1>1, <1>2, <1>3, <2>1, <2>2, FifosSet DEF Wired
<1>5. CASE Cardinality(s) # 1
  <2>1. UNCHANGED <<m_deviceSampleFifo, connected>>
    BY <1>5 DEF Connect
  <2>2. CASE s # {} /\ connections[m_deviceSampleSink] < MaxConnections
    <3> DEFINE n == connections[m_deviceSampleSink] + 1
    <3>1. connections' = [connections EXCEPT ![m_deviceSampleSink] = n]
      BY <1>5, <2>2 DEF Connect, Connections
    <3>2. m_deviceSampleSink \in Sinks => n \in 0..MaxConnections
      BY <1>2, <2>2
    <3> HIDE DEF n
    <3>3. connections' \in [Sinks -> 0..MaxConnections]
      BY <1>1, <1>2, <3>1, <3>2
    <3>4. \A k \in Sinks : k # m_deviceSampleSink => connections'[k] = connections[k]
      BY <1>2, <3>1
    <3>5. Cardinality(s) > 1
      BY <1>1, <1>5, <2>2, FS_EmptySet
    <3> QED BY <1>2, <1>3, <2>1, <3>3, <3>4, <3>5 DEF Wired
  <2>3. CASE ~(s # {} /\ connections[m_deviceSampleSink] < MaxConnections)
    <3>1. connections' = connections
      BY <1>5, <2>3 DEF Connect
    <3> QED BY <1>3, <2>1, <3>1 DEF Wired
  <2> QED BY <2>2, <2>3
<1> QED BY <1>4, <1>5

(* The engine takes a command about a channel: the others run on.           *)
LEMMA ChannelsMove ==
  ASSUME Inv, InOrder, NEW s \in SUBSET (Channels \cap alive),
         NEW op \in {"addThreadedSource", "removeThreadedSource"}, Taking(op, s),
         Wired',
         IF op = "addThreadedSource" THEN Argument \in s ELSE Argument \notin s,
         m_state = "StRunning" =>
           running' \cup Starting = {m_deviceSampleSink} \cup s,
         m_state # "StRunning" => running' = {}
  PROVE  Inv' /\ InOrder' /\ Wired' /\ Window'
<1>1. /\ engine' = "connect" /\ todo # << >> /\ Head(todo).op = op
      /\ m_threadedBasebandSampleSources' = s
      /\ UNCHANGED <<m_state, m_deviceSampleSink, todo, alive>>
  BY DEF Taking, EngineAt, main
<1>2. Operations' /\ StoppedFirst' /\ Halfway' /\ Objective' /\ AllOrNothing'
  BY <1>1 DEF Inv, Operations, StoppedFirst, Halfway, Objective, Generating,
              AllOrNothing
<1>3. Ready(Head(todo))'
  BY <1>1 DEF InOrder, Ready
<1>4. InOrder'
  BY <1>1, <1>3 DEF InOrder, Linked, InUse
<1>5. Argument' = Argument /\ Starting' = Starting
  BY <1>1 DEF Argument, Starting
<1>6. Window'
  BY <1>1, <1>5 DEF Window
<1> QED BY <1>2, <1>4, <1>6 DEF Inv

LEMMA AddThreadedSourceKeeps ==
  ASSUME Inv, InOrder, Wired, AddThreadedSource
  PROVE  Inv' /\ InOrder' /\ Wired' /\ Window'
<1> DEFINE s == m_threadedBasebandSampleSources \cup {Argument}
<1>1. /\ Taking("addThreadedSource", s) /\ running' = running
  BY DEF AddThreadedSource
<1>2. /\ todo # << >> /\ Head(todo).op = "addThreadedSource" /\ engine = "loop"
      /\ Disconnect(s) /\ m_threadedBasebandSampleSources' = s
      /\ m_deviceSampleSink' = m_deviceSampleSink
  BY <1>1 DEF Taking, EngineAt
<1>3. Head(todo) \in Commands /\ ~MidStop
  BY <1>2, Current DEF MidStop
<1>4. Argument \in Channels \cap alive
  BY <1>2, <1>3 DEF Argument, Commands, Argumented, InOrder, Ready
<1>5. s \in SUBSET (Channels \cap alive) /\ s \in SUBSET Channels /\ Argument \in s
  BY <1>4 DEF Inv, Objective
<1>6. IsFiniteSet(s)
  BY FS_AddElement DEF Wired
<1>7. /\ m_state = "StRunning" => running' \cup Starting = {m_deviceSampleSink} \cup s
      /\ m_state # "StRunning" => running' = {}
  BY <1>1, <1>2, <1>3 DEF Inv, AllOrNothing, Starting
<1> HIDE DEF s
<1>8. Wired'
  BY <1>2, <1>5, <1>6, Disconnected
<1> QED BY <1>1, <1>5, <1>7, <1>8, ChannelsMove

LEMMA RemoveThreadedSourceKeeps ==
  ASSUME Inv, InOrder, Wired, RemoveThreadedSource
  PROVE  Inv' /\ InOrder' /\ Wired' /\ Window'
<1> DEFINE s == m_threadedBasebandSampleSources \ {Argument}
<1>1. /\ Taking("removeThreadedSource", s)
      /\ running' = IF m_state = "StRunning" THEN running \ {Argument} ELSE running
  BY DEF RemoveThreadedSource
<1>2. /\ todo # << >> /\ Head(todo).op = "removeThreadedSource" /\ engine = "loop"
      /\ Disconnect(s) /\ m_threadedBasebandSampleSources' = s
      /\ m_deviceSampleSink' = m_deviceSampleSink
  BY <1>1 DEF Taking, EngineAt
<1>3. Head(todo) \in Commands /\ ~MidStop
  BY <1>2, Current DEF MidStop
<1>4. Argument \in Channels /\ Argument # m_deviceSampleSink
  <2>1. Argument \in Channels
    BY <1>2, <1>3 DEF Argument, Commands, Argumented
  <2> QED BY <2>1, Kinds DEF Inv, Objective
<1>5. s \in SUBSET (Channels \cap alive) /\ s \in SUBSET Channels /\ Argument \notin s
  BY DEF Inv, Objective
<1>6. IsFiniteSet(s) /\ (s = {} => Cardinality(m_threadedBasebandSampleSources) <= 1)
  <2>1. IsFiniteSet(m_threadedBasebandSampleSources)
    BY DEF Wired
  <2>2. /\ IsFiniteSet(s)
        /\ Cardinality(s) = IF Argument \in m_threadedBasebandSampleSources
                              THEN Cardinality(m_threadedBasebandSampleSources) - 1
                              ELSE Cardinality(m_threadedBasebandSampleSources)
    BY <2>1, FS_RemoveElement
  <2>3. s = {} => Cardinality(s) = 0
    BY FS_EmptySet
  <2>4. Cardinality(m_threadedBasebandSampleSources) \in Nat
    BY <2>1, FS_CardinalityType
  <2> QED BY <2>2, <2>3, <2>4
<1>7. Starting = {}
  BY <1>2 DEF Starting
<1>8. /\ m_state = "StRunning" => running' \cup Starting = {m_deviceSampleSink} \cup s
      /\ m_state # "StRunning" => running' = {}
  BY <1>1, <1>2, <1>3, <1>4, <1>7 DEF Inv, AllOrNothing
<1> HIDE DEF s
<1>9. Wired'
  BY <1>2, <1>5, <1>6, Disconnected
<1> QED BY <1>1, <1>5, <1>8, <1>9, ChannelsMove

(* It has connected the other way, starts what is new, and answers.         *)
LEMMA ConnectSourcesKeeps ==
  ASSUME Inv, InOrder, Wired, Window, ConnectSources
  PROVE  Inv' /\ InOrder' /\ Wired' /\ Window'
<1>1. /\ engine = "connect" /\ engine' = "loop" /\ todo' = Tail(todo)
      /\ Connect(m_threadedBasebandSampleSources)
      /\ UNCHANGED <<m_state, m_deviceSampleSink, m_threadedBasebandSampleSources,
                     alive>>
      /\ running' = running \cup
           (IF Head(todo).op = "addThreadedSource" /\ m_state = "StRunning"
              THEN {Argument} ELSE {})
  BY DEF ConnectSources, Connecting, EngineAt, Done, generation
<1>2. /\ todo # << >>
      /\ Head(todo).op \in {"addThreadedSource", "removeThreadedSource"}
      /\ Head(todo).op = "removeThreadedSource" =>
           Argument \notin m_threadedBasebandSampleSources
      /\ m_state = "StRunning" => running \cup Starting
           = {m_deviceSampleSink} \cup m_threadedBasebandSampleSources
      /\ m_state # "StRunning" => running = {}
  BY <1>1 DEF Window
<1>3. todo' = << >> \o Tail(todo)
  BY <1>1, <1>2, Current
<1>4. Operations' /\ StoppedFirst' /\ Halfway' /\ ~MidStop'
  BY <1>1, <1>2, <1>3, Nothing, Advance
<1>5. /\ m_state = "StRunning" => running' = {m_deviceSampleSink}
                                               \cup m_threadedBasebandSampleSources
      /\ m_state # "StRunning" => running' = {}
  BY <1>1, <1>2 DEF Starting
<1>6. Objective' /\ AllOrNothing'
  BY <1>1, <1>5 DEF Inv, Objective, Generating, AllOrNothing
<1>7. Tail(todo) # << >> => ReadyNext(Head(Tail(todo)))
  <2> SUFFICES ASSUME Tail(todo) # << >> PROVE ReadyNext(Head(Tail(todo)))
    OBVIOUS
  <2> DEFINE d == Head(Tail(todo))
  <2>1. todo \in Seq(Commands) /\ Linked(todo)
    BY DEF Inv, Operations, InOrder
  <2>2. Follows(Head(todo), d)
    BY <1>2, <2>1, TailLinked
  <2> HIDE DEF d
  <2>3. CASE ~Depends(d)
    BY <2>3, Unready DEF d
  <2>4. CASE /\ Head(todo).op = "removeThreadedSource" /\ d.op = "delete"
             /\ Head(todo).arg = d.arg
    <3>1. d.arg \notin m_threadedBasebandSampleSources'
      BY <1>1, <1>2, <2>4 DEF Argument
    <3>2. ReadyNext(d)
      BY <2>4, <3>1 DEF ReadyNext
    <3> QED BY <3>2 DEF d
  <2> QED BY <1>2, <2>2, <2>3, <2>4, Parents
<1>8. InOrder'
  BY <1>1, <1>2, <1>3, <1>7, Nothing, Ordered
<1>9. Wired'
  BY <1>1, Connected
<1>10. Window'
  BY <1>1 DEF Window
<1> QED BY <1>4, <1>6, <1>8, <1>9, <1>10 DEF Inv

(* What the engine does between commands, and the other threads.            *)
LEMMA NothingKeeps ==
  ASSUME Inv, InOrder, Wired,
         engine' = engine \/ (engine # "connect" /\ engine' # "starting"),
         UNCHANGED <<m_state, m_deviceSampleSink, m_threadedBasebandSampleSources,
                     Wires, todo, running, alive>>
  PROVE  Inv' /\ InOrder' /\ Wired'
<1>1. Inv'
  BY DEF Inv, Operations, StoppedFirst, Objective, Generating, Halfway,
         AllOrNothing, MidStop
<1>2. InOrder' /\ Wired'
  BY DEF Wires, InOrder, Linked, Ready, InUse, Wired
<1> QED BY <1>1, <1>2

(* Nothing else moves in the window but the device and the channels.        *)
LEMMA Outside ==
  ASSUME Window
  PROVE  /\ \A op \in OnMainThread : \A next : Do(op, next) =>
              engine # "connect" /\ engine' = engine
         /\ todo = << >> => engine # "connect"
  BY DEF Window, Do, OnMainThread

LEMMA WindowStays ==
  ASSUME Window, UNCHANGED <<m_state, m_deviceSampleSink,
           m_threadedBasebandSampleSources, todo, running, engine>>
  PROVE  Window'
<1>1. Argument' = Argument /\ Starting' = Starting
  BY DEF Argument, Starting
<1> QED BY <1>1 DEF Window

LEMMA WindowKeeps ==
  ASSUME Window, [Next]_vars, ~AddThreadedSource, ~RemoveThreadedSource
  PROVE  Window'
<1>1. CASE Operation
  <2>1. todo = << >> /\ engine' = engine
    BY <1>1 DEF Operation, StartRequest, StopRequest, RemoveDevice, AddChannel,
       RemoveChannel, ChangeSampleSink, Undertake
  <2> QED BY <2>1, Outside DEF Window
<1>2. CASE Continue
  <2>1. CASE SendWait
    BY <2>1, WindowStays DEF SendWait, generation, objects
  <2>2. CASE ~SendWait
    <3>1. \E op \in OnMainThread : \E next : Do(op, next)
      BY <1>2, <2>2 DEF Continue, GotoIdle, StopSink, SetIdle, New, Delete,
         FreeChannels, Quit, Join, OnMainThread
    <3> QED BY <3>1, Outside DEF Window
  <2> QED BY <2>1, <2>2
<1>3. CASE Engine
  <2>1. engine' # "connect"
    BY <1>3 DEF Engine, Run, Exit, HandleData, ReadAdvance, Merge, EngineAt,
       HandleCommand, InitGeneration, StartGeneration, SetSink, Handling,
       ConnectSources, Connecting
  <2> QED BY <2>1 DEF Window
<1>4. CASE Read
  BY <1>4, WindowStays DEF Read, generation, main, objects
<1>5. ASSUME NEW c \in Channels, Channel(c) PROVE Window'
  BY <1>5, WindowStays DEF Channel, HandleWriteToFifo, HandleWriteToDeviceFifo,
     TakeRequest, generation, main, objects
<1>6. CASE UNCHANGED vars
  BY <1>6, WindowStays DEF vars, generation, main, objects
<1> QED BY <1>1, <1>2, <1>3, <1>4, <1>5, <1>6 DEF Next

LEMMA OthersKeep ==
  ASSUME Inv, InOrder, Wired, engine' = engine,
         UNCHANGED <<generation, wiring, main, objects>>
  PROVE  Inv' /\ InOrder' /\ Wired'
  BY NothingKeeps DEF generation, wiring, main, objects, Wires

LEMMA NextKeeps ==
  ASSUME Inv, InOrder, Wired, Window, [Next]_vars
  PROVE  Inv' /\ InOrder' /\ Wired'
<1>1. CASE Run
  <2>1. engine = "starting" /\ m_state # "StRunning"
    BY <1>1 DEF Run, EngineAt, Inv, Objective
  <2>2. /\ m_state' = "StIdle" /\ engine' = "loop"
        /\ UNCHANGED <<m_deviceSampleSink, m_threadedBasebandSampleSources,
                       Wires, todo, running, alive>>
    BY <1>1 DEF Run, EngineAt, main, objects, wiring, Wires
  <2>3. Inv'
    BY <2>1, <2>2
       DEF Inv, Operations, StoppedFirst, Objective, Generating, Halfway,
           AllOrNothing, MidStop
  <2>4. InOrder' /\ Wired'
    BY <2>2 DEF Wires, InOrder, Linked, Ready, InUse, Wired
  <2> QED BY <2>3, <2>4
<1>2. CASE Exit \/ Merge
  BY <1>2, NothingKeeps
     DEF Exit, Merge, EngineAt, generation, wiring, main, objects, Wires
<1>3. CASE HandleData
  BY <1>3, NothingKeeps DEF HandleData, generation, wiring, main, objects, Wires
<1>4. ASSUME NEW c \in Channels, ReadAdvance(c) \/ Channel(c)
      PROVE  Inv' /\ InOrder' /\ Wired'
  BY <1>4, OthersKeep
     DEF ReadAdvance, Channel, HandleWriteToFifo, HandleWriteToDeviceFifo,
         TakeRequest
<1>5. CASE Read
  BY <1>5, OthersKeep DEF Read
<1>6. CASE UNCHANGED vars
  BY <1>6, OthersKeep DEF vars
<1>7. CASE HandleCommand
  BY <1>7, InitGenerationKeeps, StartGenerationKeeps, SetSinkKeeps,
     AddThreadedSourceKeeps, RemoveThreadedSourceKeeps, ConnectSourcesKeeps
     DEF HandleCommand
<1>8. CASE Continue
  <2>1. CASE SendWait
    BY <2>1, SendWaitKeeps
  <2>2. CASE ~SendWait
    <3>1. \E op \in OnMainThread : \E next : Do(op, next)
      BY <1>8, <2>2 DEF Continue, GotoIdle, StopSink, SetIdle, New, Delete,
         FreeChannels, Quit, Join, OnMainThread
    <3> QED BY <1>8, <3>1, Outside, ContinueKeeps
  <2> QED BY <2>1, <2>2
<1> QED BY <1>1, <1>2, <1>3, <1>4, <1>5, <1>6, <1>7, <1>8, OperationKeeps
    DEF Next, Engine

LEMMA StepKeeps ==
  ASSUME Inv, InOrder, Wired, Window, [Next]_vars
  PROVE  Inv' /\ InOrder' /\ Wired' /\ Window'
<1>1. CASE AddThreadedSource \/ RemoveThreadedSource
  BY <1>1, AddThreadedSourceKeeps, RemoveThreadedSourceKeeps
<1> QED BY <1>1, NextKeeps, WindowKeeps

LEMMA InitKeeps ==
  ASSUME Init
  PROVE  Inv /\ InOrder /\ Wired /\ Window
<1>1. PICK k \in Sinks : todo = ConstructSink(k)
  BY DEF Init
<1>2. Chain(todo) /\ Head(todo).op = "new"
  BY <1>1, Constructing
<1>3. Head(todo) \in Steady /\ Tail(todo) \in Seq(Steady) /\ todo \in Seq(Commands)
  BY <1>2, SeqHead, SeqSub, Parts DEF Chain
<1>4. Operations
  BY <1>2, <1>3 DEF Operations, Chain
<1>5. ~MidStop
  BY <1>3 DEF MidStop, Mid, Steady
<1>6. Inv
  BY <1>4, <1>5
     DEF Init, Inv, StoppedFirst, Objective, Generating, Halfway, AllOrNothing, MidStop
<1>7. InOrder
  BY <1>2 DEF Init, InOrder, Ready, Chain
<1>8. Wired
  <2>1. connections \in [Sinks -> 0..MaxConnections]
    BY BoundsAssumption DEF Init
  <2> QED BY <2>1, FS_EmptySet DEF Init, Wired
<1>9. Window
  BY DEF Init, Window
<1> QED BY <1>6, <1>7, <1>8, <1>9

(* The invariant holds in every behaviour of the four kinds of threads.     *)
THEOREM Invariance == Spec => [](Inv /\ InOrder /\ Wired /\ Window)
<1>1. Inv /\ InOrder /\ Wired /\ Window /\ [Next]_vars
        => Inv' /\ InOrder' /\ Wired' /\ Window'
  BY StepKeeps
<1> QED BY InitKeeps, <1>1, PTL DEF Spec

(* Whatever operations the main thread undertakes and however they fail,    *)
(* the sink and all channels run, or nothing does: gotoIdle(),              *)
(* gotoRunning() and the handlers of the commands                           *)
(* (dspdevicesinkengine.cpp) agree.                                         *)
THEOREM RunsAsAWhole == Spec => []AllOrNothing
<1>1. Inv => AllOrNothing
  BY DEF Inv
<1> QED BY Invariance, <1>1, PTL

(* work() finds none of its channels deleted, though the main thread does   *)
(* not wait for it: a channel is deleted after the engine has let go of it. *)
THEOREM ChannelsLive == Spec => []UsesLiveChannels
<1>1. Inv => UsesLiveChannels
  BY DEF Inv, Objective, UsesLiveChannels
<1> QED BY Invariance, <1>1, PTL

(* However channels come and go, checkNumberOfBasebandSources() leaves      *)
(* either the engine or a single channel connected, never both, also while  *)
(* it goes from one to the other, and a new sink is never found with a      *)
(* connection of an old one.                                                *)
THEOREM OneWay == Spec => []NeverBothWays
<1>1. Inv /\ Wired => NeverBothWays
  <2> SUFFICES ASSUME Inv, Wired PROVE NeverBothWays
    OBVIOUS
  <2>1. alive \cap {m_deviceSampleSink} \subseteq Sinks
    BY Kinds DEF Inv, Objective
  <2> QED BY <2>1 DEF Wired, NeverBothWays
<1> QED BY Invariance, <1>1, PTL
-----------------------------------------------------------------------------
(* The rest of the type invariant.                                          *)
Events == {"data", "command"}

Placed ==
  /\ m_state \in {"StNotStarted", "StIdle", "StReady", "StRunning", "StError"}
  /\ events \in Seq(Events)
  /\ engine \in {"starting", "loop", "work", "connect", "finished"}
  /\ unread \subseteq Channels
  /\ sent \in BOOLEAN /\ crashed \in BOOLEAN /\ running \subseteq Objects

LEMMA PlacedInit == Init => Placed
<1>1. << >> \in Seq(Events)
  OBVIOUS
<1> QED BY <1>1 DEF Init, Placed

LEMMA ContinuePlaced ==
  ASSUME Placed, Continue
  PROVE  Placed'
<1>1. CASE SendWait
  BY <1>1 DEF SendWait, generation, objects, Placed, Events
<1>2. ASSUME NEW op, NEW next, Do(op, next), running' \subseteq running,
             m_state' \in {"StNotStarted", "StIdle", m_state}
      PROVE  Placed'
  BY <1>2 DEF Do, Placed
<1>3. CASE GotoIdle
  BY <1>2, <1>3 DEF GotoIdle
<1>4. CASE StopSink
  BY <1>2, <1>4 DEF StopSink
<1>5. CASE SetIdle
  BY <1>2, <1>5 DEF SetIdle, objects
<1>6. CASE New
  BY <1>2, <1>6 DEF New
<1>7. CASE Delete
  BY <1>2, <1>7 DEF Delete
<1>8. CASE FreeChannels
  BY <1>2, <1>8 DEF FreeChannels, objects
<1>9. CASE Quit
  BY <1>2, <1>9 DEF Quit, objects
<1>10. CASE Join
  BY <1>2, <1>10 DEF Join, objects
<1> QED BY <1>1, <1>3, <1>4, <1>5, <1>6, <1>7, <1>8, <1>9, <1>10 DEF Continue

LEMMA CommandPlaced ==
  ASSUME Inv, Window, Placed, HandleCommand
  PROVE  Placed'
<1>1. /\ m_deviceSampleSink # None => m_deviceSampleSink \in Objects
      /\ m_threadedBasebandSampleSources \subseteq Objects
  BY DEF Inv, Objective, Objects
<1>2. ASSUME NEW op, Handling(op)
      PROVE  events' \in Seq(Events) /\ UNCHANGED <<engine, unread, crashed>>
             /\ sent' = FALSE
  BY <1>2 DEF Handling, Placed
<1>3. CASE InitGeneration
  <2>1. running' \subseteq running /\ m_state' \in {"StError", "StReady"}
    BY <1>3 DEF InitGeneration, Stopped
  <2> QED BY <1>2, <1>3, <2>1 DEF InitGeneration, Placed
<1>4. CASE StartGeneration
  <2>1. m_deviceSampleSink # None
    BY <1>4 DEF StartGeneration, Inv, Objective, Generating
  <2>2. running' \subseteq Objects /\ m_state' \in {"StRunning", "StError"}
    BY <1>1, <1>4, <2>1 DEF StartGeneration, Placed
  <2> QED BY <1>2, <1>4, <2>2 DEF StartGeneration, Placed
<1>5. CASE SetSink
  <2>1. running' \subseteq running /\ m_state' = m_state
    BY <1>5 DEF SetSink, Stopped
  <2> QED BY <1>2, <1>5, <2>1 DEF SetSink, Placed
<1>6. ASSUME NEW op, NEW sources, Taking(op, sources), running' \subseteq running
      PROVE  Placed'
  BY <1>6 DEF Taking, EngineAt, main, Placed
<1>7. CASE AddThreadedSource
  BY <1>6, <1>7 DEF AddThreadedSource
<1>8. CASE RemoveThreadedSource
  BY <1>6, <1>8 DEF RemoveThreadedSource
<1>9. CASE ConnectSources
  <2>1. Head(todo).op = "addThreadedSource" => Argument \in Objects
    <3>1. todo # << >>
      BY <1>9 DEF ConnectSources, Connecting, EngineAt, Window
    <3>2. Head(todo) \in Commands
      BY <3>1, Current
    <3> QED BY <3>2 DEF Commands, Argumented, Argument, Objects
  <2>2. running' \subseteq Objects
    BY <1>9, <2>1 DEF ConnectSources, Placed
  <2> QED BY <1>9, <2>2 DEF ConnectSources, Connecting, EngineAt, generation, queues, Placed
<1> QED BY <1>3, <1>4, <1>5, <1>7, <1>8, <1>9 DEF HandleCommand

LEMMA ReadPlaced ==
  ASSUME Inv, Wired, Placed, Read
  PROVE  Placed'
<1> DEFINE n == connections[m_deviceSampleSink]
           answers == [i \in 1..n |-> "data"]
<1>1. m_deviceSampleSink \in Sinks
  BY Kinds DEF Read, Placed, Inv, Objective
<1>2. n \in Nat
  BY <1>1, BoundsAssumption DEF Wired
<1>3. events' = events \o answers
  BY DEF Read
<1> HIDE DEF n
<1>4. answers \in Seq(Events)
  BY <1>2 DEF Events
<1> HIDE DEF answers
<1>5. events' \in Seq(Events)
  BY <1>3, <1>4, SeqConcat DEF Placed
<1> QED BY <1>5 DEF Read, generation, main, objects, Placed

LEMMA StepPlaced ==
  ASSUME Inv, Wired, Window, Placed, [Next]_vars
  PROVE  Placed'
<1>1. CASE Operation
  <2>1. ASSUME NEW commands, Undertake(commands)
        PROVE  Placed'
    BY <2>1 DEF Undertake, generation, queues, Placed
  <2> QED BY <1>1, <2>1
      DEF Operation, StartRequest, StopRequest, AddChannel, RemoveChannel,
          ChangeSampleSink, RemoveDevice
<1>2. CASE Run \/ Exit \/ Merge
  <2>1. \A k : \A b \in Outcomes(k) : b \in BOOLEAN
    BY DEF Outcomes
  <2> QED BY <1>2, <2>1
      DEF Run, Exit, Merge, EngineAt, generation, queues, main, objects, Placed
<1>3. CASE HandleData
  BY <1>3 DEF HandleData, generation, main, objects, Placed, Inv, Objective
<1>4. ASSUME NEW c \in Channels, ReadAdvance(c)
      PROVE  Placed'
  BY <1>4 DEF ReadAdvance, generation, main, objects, Placed
<1>5. ASSUME NEW c \in Channels, Channel(c)
      PROVE  Placed'
  <2>1. crashed' \in BOOLEAN
    BY <1>5 DEF Channel, HandleWriteToFifo, HandleWriteToDeviceFifo, Outcomes, Placed
  <2>2. UNCHANGED <<generation, events, engine, unread, main, objects>>
    BY <1>5 DEF Channel, HandleWriteToFifo, HandleWriteToDeviceFifo, TakeRequest
  <2> QED BY <2>1, <2>2 DEF generation, main, objects, Placed
<1>6. CASE UNCHANGED vars
  BY <1>6 DEF vars, generation, queues, main, objects, Placed
<1> QED BY <1>1, <1>2, <1>3, <1>4, <1>5, <1>6, ContinuePlaced, CommandPlaced, ReadPlaced
    DEF Next, Engine

(* The variables of the threads keep their types: the indices of the FIFOs  *)
(* stay in them, and the operations are made of the commands there are.     *)
THEOREM TypeCorrect == Spec => []TypeOK
<1>1. Inv /\ Wired /\ Window /\ Placed /\ [Next]_vars => Placed'
  BY StepPlaced
<1>2. Balance /\ [Next]_vars => Balance'
  BY BalanceNext
<1>3. Inv /\ Wired /\ Placed /\ Balance => TypeOK
  <2> SUFFICES ASSUME Inv, Wired, Placed, Balance PROVE TypeOK
    OBVIOUS
  <2>1. todo \in Seq([op : Synchronous \cup OnMainThread, arg : Objects \cup {None}])
    <3>1. Commands \subseteq [op : Synchronous \cup OnMainThread,
                             arg : Objects \cup {None}]
      BY DEF Commands
    <3>2. todo \in Seq(Commands)
      BY DEF Inv, Operations
    <3> QED BY <3>1, <3>2, SeqSub
  <2> QED BY <2>1
      DEF Inv, Objective, Wired, Placed, Balance, Levels, Queues, TypeOK, Events
<1> QED BY Invariance, BalanceInit, PlacedInit, <1>1, <1>2, <1>3, PTL DEF Spec
-----------------------------------------------------------------------------
(***************************************************************************)
(* The message of a synchronous command is alive whenever a thread uses    *)
(* it, and the messenger implements SyncCall, for any number of calls.     *)
(*                                                                         *)
(* The caller and the engine share no lock, so the invariant follows them  *)
(* through the call: while the caller is anywhere but in its wait, the     *)
(* engine is away (back in its event loop, or about to wake a caller that  *)
(* has already gone); while it waits, Waiting lists how far the engine has *)
(* got.                                                                    *)
(***************************************************************************)
(* The engine has nothing more to do for a call than a late wake-up. *)
Away == pc["engine"] \in {"idle", "wake"}

(* The waiting caller and the engine, from the signal to the flag. *)
Waiting ==
  \/ signals = 1 /\ Away /\ ~ m_complete /\ Len(executed) = call - 1
  \/ /\ signals = 0 /\ pc["engine"] \in {"get", "process"}
     /\ ~ m_complete /\ Len(executed) = call - 1
  \/ /\ signals = 0 /\ pc["engine"] = "result"
     /\ ~ m_complete /\ Len(executed) = call
  \/ /\ signals = 0 /\ pc["engine"] = "complete"
     /\ ~ m_complete /\ Len(executed) = call /\ m_result = call
  \/ /\ signals = 0 /\ Away
     /\ m_complete /\ Len(executed) = call /\ m_result = call

Between ==
  pc["caller"] = "idle" =>
    Away /\ signals = 0 /\ Len(executed) = call /\ Len(returned) = call

During ==
  pc["caller"] # "idle" =>
    call > 0 /\ Len(returned) = call - 1 /\ m_message = call

Before ==
  /\ pc["caller"] \in {"clear", "emit", "get", "process"} =>
       Away /\ signals = 0 /\ Len(executed) = call - 1
  /\ pc["caller"] = "emit" => ~ m_complete

After ==
  /\ pc["caller"] \in {"result", "complete", "wake", "return"} =>
       Away /\ signals = 0 /\ Len(executed) = call
  /\ pc["caller"] \in {"complete", "wake", "return"} => m_result = call

Wait == pc["caller"] \in {"check", "sleep", "asleep"} => Waiting

Holding ==
  \A t \in Threads : pc[t] \in {"process", "result"} => held[t] = call

MessengerInv == MessengerTypeOK /\ Between /\ During /\ Before /\ After /\ Wait /\ Holding
-----------------------------------------------------------------------------
LEMMA MessengerInitInv == MessengerInit => MessengerInv
  <1> SUFFICES ASSUME MessengerInit PROVE MessengerInv
    OBVIOUS
  <1>1. /\ pc["caller"] = "idle" /\ pc["engine"] = "idle"
        /\ Len(executed) = 0 /\ Len(returned) = 0
    BY DEF MessengerInit, Threads
  <1>2. executed \in Seq(0..MaxCalls) /\ returned \in Seq(0..MaxCalls)
    BY DEF MessengerInit
  <1>3. pc \in [Threads -> {"idle"}] /\ held \in [Threads -> {0}]
    BY DEF MessengerInit
  <1>4. 0 \in 0..MaxCalls
    BY CallsAssumption
  <1>5. MessengerTypeOK
    <2>1. /\ m_message \in 0..MaxCalls /\ m_result \in 0..MaxCalls
          /\ call \in 0..MaxCalls /\ m_complete \in BOOLEAN
          /\ held \in [Threads -> 0..MaxCalls]
      BY <1>3, <1>4 DEF MessengerInit
    <2>2. signals \in 0..1
      BY DEF MessengerInit
    <2>3. pc \in [Threads -> HandlerPlaces \cup {"idle", "clear", "emit", "check",
                                            "sleep", "asleep", "return"}]
      BY <1>3
    <2> QED BY <1>1, <1>2, <2>1, <2>2, <2>3 DEF MessengerTypeOK
  <1>6. Between /\ During /\ Before /\ After /\ Wait /\ Holding
    BY <1>1 DEF MessengerInit, Between, During, Before, After, Wait, Holding, Away,
                Threads
  <1> QED BY <1>5, <1>6 DEF MessengerInv

(* Steps of the caller outside handleSynchronousMessages(). *)
LEMMA CallerInv ==
  ASSUME MessengerInv, \/ BeginSendWait \/ CallDirectly \/ Clear \/ Emit \/ Check
              \/ Sleep \/ Timeout \/ Return
  PROVE  MessengerInv'
  <1> USE CallsAssumption DEF MessengerInv, Goto
  <1>1. CASE BeginSendWait \/ CallDirectly
    <2>1. PICK where \in {"clear", "get"} : Begin(where)
      BY <1>1 DEF BeginSendWait, CallDirectly
    <2>2. MessengerTypeOK'
      BY <2>1 DEF Begin, MessengerTypeOK, Threads, HandlerPlaces
    <2>3. Between' /\ During' /\ Before' /\ After' /\ Wait' /\ Holding'
      BY <2>1 DEF Begin, MessengerTypeOK, Threads, HandlerPlaces, Between, During, Before,
                  After, Wait, Holding, Away
    <2> QED BY <2>2, <2>3
  <1>2. CASE Clear
    <2>1. MessengerTypeOK'
      BY <1>2 DEF Clear, MessengerTypeOK, Threads, HandlerPlaces
    <2>2. Between' /\ During' /\ Before' /\ After' /\ Wait' /\ Holding'
      BY <1>2 DEF Clear, MessengerTypeOK, Threads, Between, During, Before, After,
                  Wait, Waiting, Holding, Away
    <2> QED BY <2>1, <2>2
  <1>3. CASE Emit
    <2>1. MessengerTypeOK'
      BY <1>3 DEF Emit, MessengerTypeOK, Threads, HandlerPlaces, Before
    <2>2. Between' /\ During' /\ Before' /\ After' /\ Wait' /\ Holding'
      BY <1>3 DEF Emit, MessengerTypeOK, Threads, Between, During, Before, After,
                  Wait, Waiting, Holding, Away
    <2> QED BY <2>1, <2>2
  <1>4. CASE Check
    <2>1. MessengerTypeOK'
      BY <1>4 DEF Check, MessengerTypeOK, Threads, HandlerPlaces
    <2>2. Between' /\ During' /\ Before' /\ After' /\ Wait' /\ Holding'
      BY <1>4 DEF Check, MessengerTypeOK, Threads, Between, During, Before, After,
                  Wait, Waiting, Holding, Away
    <2> QED BY <2>1, <2>2
  <1>5. CASE Sleep
    <2>1. MessengerTypeOK'
      BY <1>5 DEF Sleep, MessengerTypeOK, Threads, HandlerPlaces
    <2>2. Between' /\ During' /\ Before' /\ After' /\ Wait' /\ Holding'
      BY <1>5 DEF Sleep, MessengerTypeOK, Threads, Between, During, Before, After,
                  Wait, Waiting, Holding, Away
    <2> QED BY <2>1, <2>2
  <1>6. CASE Timeout
    <2>1. MessengerTypeOK'
      BY <1>6 DEF Timeout, MessengerTypeOK, Threads, HandlerPlaces
    <2>2. Between' /\ During' /\ Before' /\ After' /\ Wait' /\ Holding'
      BY <1>6 DEF Timeout, MessengerTypeOK, Threads, Between, During, Before, After,
                  Wait, Waiting, Holding, Away
    <2> QED BY <2>1, <2>2
  <1>7. CASE Return
    <2>1. MessengerTypeOK'
      BY <1>7 DEF Return, MessengerTypeOK, Threads, HandlerPlaces
    <2>2. Between' /\ During' /\ Before' /\ After' /\ Wait' /\ Holding'
      BY <1>7 DEF Return, MessengerTypeOK, Threads, Between, During, Before, After,
                  Wait, Holding, Away
    <2> QED BY <2>1, <2>2
  <1> QED BY <1>1, <1>2, <1>3, <1>4, <1>5, <1>6, <1>7

(* The engine takes the signal of the call in progress. *)
LEMMA TakeEventInv ==
  ASSUME MessengerInv, TakeEvent
  PROVE  MessengerInv'
  <1> USE DEF MessengerInv, Goto
  <1>1. MessengerTypeOK'
    BY DEF TakeEvent, MessengerTypeOK, Threads, HandlerPlaces
  <1>2. pc["caller"] \in {"check", "sleep", "asleep"} /\ pc'["caller"] = pc["caller"]
    BY DEF TakeEvent, MessengerTypeOK, Threads, HandlerPlaces, Between, Before, After
  <1>3. Waiting'
    BY <1>2 DEF TakeEvent, MessengerTypeOK, Threads, Wait, Waiting, Away
  <1>4. Between' /\ During' /\ Before' /\ After' /\ Wait' /\ Holding'
    BY <1>2, <1>3 DEF TakeEvent, MessengerTypeOK, Threads, Between, During, Before,
                      After, Wait, Holding
  <1> QED BY <1>1, <1>4

(* The steps of handleSynchronousMessages(), on either thread. *)
LEMMA HandleInv ==
  ASSUME MessengerInv, NEW t \in Threads, Handle(t)
  PROVE  MessengerInv'
  <1> USE CallsAssumption DEF MessengerInv, Goto
  <1>1. CASE GetMessage(t)
    <2>1. MessengerTypeOK'
      BY <1>1 DEF GetMessage, MessengerTypeOK, Threads, HandlerPlaces
    <2>2. Between' /\ During' /\ Before' /\ After' /\ Wait' /\ Holding'
      BY <1>1 DEF GetMessage, MessengerTypeOK, Threads, HandlerPlaces, Between, During,
                  Before, After, Wait, Waiting, Holding, Away
    <2> QED BY <2>1, <2>2
  <1>2. CASE Process(t)
    <2>1. MessengerTypeOK'
      BY <1>2 DEF Process, MessengerTypeOK, Threads, HandlerPlaces
    <2>2. Between' /\ During' /\ Before' /\ After' /\ Wait' /\ Holding'
      BY <1>2 DEF Process, MessengerTypeOK, Threads, HandlerPlaces, Between, During,
                  Before, After, Wait, Waiting, Holding, Away
    <2> QED BY <2>1, <2>2
  <1>3. CASE SetResult(t)
    <2>1. MessengerTypeOK'
      BY <1>3 DEF SetResult, MessengerTypeOK, Threads, HandlerPlaces
    <2>2. Between' /\ During' /\ Before' /\ After' /\ Wait' /\ Holding'
      BY <1>3 DEF SetResult, MessengerTypeOK, Threads, HandlerPlaces, Between, During,
                  Before, After, Wait, Waiting, Holding, Away
    <2> QED BY <2>1, <2>2
  <1>4. CASE SetComplete(t)
    <2>1. MessengerTypeOK'
      BY <1>4 DEF SetComplete, MessengerTypeOK, Threads, HandlerPlaces
    <2>2. Between' /\ During' /\ Before' /\ After' /\ Wait' /\ Holding'
      BY <1>4 DEF SetComplete, MessengerTypeOK, Threads, HandlerPlaces, Between, During,
                  Before, After, Wait, Waiting, Holding, Away
    <2> QED BY <2>1, <2>2
  <1>5. CASE WakeAll(t)
    <2>1. MessengerTypeOK'
      BY <1>5 DEF WakeAll, MessengerTypeOK, Threads, HandlerPlaces
    <2>2. Between' /\ During' /\ Before' /\ After' /\ Wait' /\ Holding'
      BY <1>5 DEF WakeAll, MessengerTypeOK, Threads, HandlerPlaces, Between, During,
                  Before, After, Wait, Waiting, Holding, Away
    <2> QED BY <2>1, <2>2
  <1> QED BY <1>1, <1>2, <1>3, <1>4, <1>5 DEF Handle

LEMMA MessengerNextInv == MessengerInv /\ [MessengerNext]_messengerVars => MessengerInv'
  <1> SUFFICES ASSUME MessengerInv, [MessengerNext]_messengerVars PROVE MessengerInv'
    OBVIOUS
  <1>1. CASE \/ BeginSendWait \/ CallDirectly \/ Clear \/ Emit \/ Check
             \/ Sleep \/ Timeout \/ Return
    BY <1>1, CallerInv
  <1>2. CASE TakeEvent
    BY <1>2, TakeEventInv
  <1>3. ASSUME NEW t \in Threads, Handle(t) PROVE MessengerInv'
    BY <1>3, HandleInv
  <1>4. CASE UNCHANGED messengerVars
    BY <1>4 DEF messengerVars, MessengerInv, MessengerTypeOK, Between, During,
                Before, After, Wait, Waiting, Holding, Away
  <1> QED BY <1>1, <1>2, <1>3, <1>4 DEF MessengerNext, CallerThread, EngineThread, Threads

(* The invariant of the messenger holds however the caller and the engine   *)
(* interleave between sendWait() and done().                                *)
THEOREM MessengerInvariance == MessengerSpec => []MessengerInv
  BY MessengerInitInv, MessengerNextInv, PTL DEF MessengerSpec

(* The places of the threads and the message in the hands of each stay what *)
(* sendWait() and handleSynchronousMessages() expect: at most one signal is *)
(* ever queued.                                                             *)
THEOREM MessengerTypeCorrect == MessengerSpec => []MessengerTypeOK
  <1>1. MessengerInv => MessengerTypeOK
    BY DEF MessengerInv
  <1> QED BY MessengerInvariance, <1>1, PTL

(* However the two threads interleave, handleSynchronousMessages() only     *)
(* goes through a message whose call has not returned.                      *)
THEOREM Alive == MessengerSpec => []MessageAlive
  <1>1. MessengerInv => MessageAlive
    BY DEF MessengerInv, MessageAlive, MessengerTypeOK, Threads, HandlerPlaces,
           Between, During, Wait, Before, After, Waiting, Holding, Away
  <1> QED BY MessengerInvariance, <1>1, PTL
-----------------------------------------------------------------------------
LEMMA SyncStep == MessengerInv /\ [MessengerNext]_messengerVars => [Sync!Next]_(Sync!vars)
  <1> SUFFICES ASSUME MessengerInv, [MessengerNext]_messengerVars
               PROVE  [Sync!Next]_(Sync!vars)
    OBVIOUS
  <1> USE DEF MessengerInv, Goto
  <1>1. CASE BeginSendWait \/ CallDirectly
    <2>1. Sync!Begin
      BY <1>1 DEF BeginSendWait, CallDirectly, Begin, Between, Sync!Begin
    <2> QED BY <2>1 DEF Sync!Next
  <1>2. CASE Return
    <2>1. m_result = call /\ Len(executed) = call /\ Len(returned) < call
      BY <1>2 DEF Return, After, During, MessengerTypeOK
    <2>2. Sync!Return
      BY <1>2, <2>1 DEF Return, Sync!Return
    <2> QED BY <2>2 DEF Sync!Next
  <1>3. ASSUME NEW t \in Threads, Process(t)
        PROVE  Sync!Next
    <2>1. held[t] = call /\ Len(executed) < call
      BY <1>3 DEF Process, Holding, Before, Wait, Waiting, Between, After,
                  Away, MessengerTypeOK, Threads, HandlerPlaces
    <2>2. Sync!Execute
      BY <1>3, <2>1 DEF Process, Sync!Execute
    <2> QED BY <2>2 DEF Sync!Next
  <1>4. CASE \/ Clear \/ Emit \/ Check \/ Sleep \/ Timeout \/ TakeEvent
             \/ UNCHANGED messengerVars
    BY <1>4 DEF Clear, Emit, Check, Sleep, Timeout, TakeEvent, messengerVars, Sync!vars
  <1>5. ASSUME NEW t \in Threads,
               GetMessage(t) \/ SetResult(t) \/ SetComplete(t) \/ WakeAll(t)
        PROVE  UNCHANGED Sync!vars
    BY <1>5 DEF GetMessage, SetResult, SetComplete, WakeAll, Sync!vars
  <1> QED BY <1>1, <1>2, <1>3, <1>4, <1>5
          DEF MessengerNext, CallerThread, EngineThread, Handle, Threads

(* Each message is processed once, before its call returns, and the call    *)
(* returns that message's result.                                           *)
THEOREM Implementation == MessengerSpec => ImplementsSyncCall
  <1>1. MessengerInit => Sync!Init
    BY DEF MessengerInit, Sync!Init
  <1> QED BY MessengerInvariance, SyncStep, <1>1, PTL
          DEF MessengerSpec, ImplementsSyncCall, Sync!Spec
=============================================================================
