------------------------ MODULE SharedDevice_proofs ------------------------
(***************************************************************************)
(* SharedDevice for any number of device sets and units: suspensions end,  *)
(* whatever lists of buddies there are (who is suspended twice, by a list  *)
(* that has it twice or by two lists, is resumed too); the lists, the      *)
(* handles and the leaders of each unit agree; and each change of the      *)
(* hardware's rate has reached, or waits for, each device that runs.       *)
(***************************************************************************)
EXTENDS SharedDevice, FunctionTheorems, FiniteSetTheorems, SequenceTheorems, TLAPS

(* A thread runs for a device that runs only; only such a thread fails, and *)
(* only such a one is left suspended.                                       *)
Inv ==
  /\ threads.running \subseteq running
  /\ silenced \subseteq running
  /\ running \ silenced \subseteq threads.running

(* Those that ran before an access to the hardware run after it, those that *)
(* did not do not.                                                          *)
LEMMA ResumedRun ==
  ASSUME NEW others
  PROVE  Resumed(others).running = threads.running
  BY Zenon DEF Resumed, Suspended

LEMMA WithoutRun ==
  ASSUME NEW s, NEW t
  PROVE  Without(s, t).running = t.running \ {s}
  BY DEF Without

(* What Inv says, from how the threads and the histories change.            *)
THEOREM Suspensions == Spec => []Inv
<1>1. Init => Inv
  BY DEF Init, Inv
<1>2. Inv /\ [Next]_vars => Inv'
  <2> SUFFICES ASSUME Inv, [Next]_vars PROVE Inv'
    OBVIOUS
  <2>1. CASE UNCHANGED vars
    BY <2>1 DEF vars, Inv
  <2>2. ASSUME NEW s \in Sets, NEW v, Change(s, v) PROVE Inv'
    <3>1. /\ running' = running \ {s} /\ silenced' = silenced \ {s}
          /\ threads'.running = threads.running \ {s}
      BY <2>2, ResumedRun, WithoutRun DEF Change
    <3> QED BY <3>1 DEF Inv
  <2>3. ASSUME NEW s \in Sets, Stop(s) PROVE Inv'
    <3>1. /\ running' = running \ {s} /\ silenced' = silenced \ {s}
          /\ threads' = [Resumed(Buddies(s)) EXCEPT !.running = @ \ {s}]
      BY <2>3 DEF Stop
    <3>2. threads'.running = threads.running \ {s}
      BY <3>1, ResumedRun DEF Resumed, Suspended
    <3> QED BY <3>1, <3>2 DEF Inv
  <2>4. ASSUME NEW s \in Sets, Start(s) PROVE Inv'
    <3>1. /\ running' = running \cup {s} /\ silenced' = silenced
          /\ threads' = [Resumed(Buddies(s)) EXCEPT !.running = @ \cup {s}]
      BY <2>4 DEF Start
    <3>2. threads'.running = threads.running \cup {s}
      BY <3>1, ResumedRun DEF Resumed, Suspended
    <3> QED BY <3>1, <3>2 DEF Inv
  <2>5. ASSUME NEW s \in Sets, EnableFails(s) PROVE Inv'
    BY <2>5 DEF EnableFails, Suspended, Inv
  <2>6. ASSUME NEW s \in Sets, ThreadFails(s) PROVE Inv'
    <3>1. /\ s \in threads.running
          /\ threads' = [threads EXCEPT !.running = @ \ {s}]
          /\ silenced' = silenced \cup {s} /\ running' = running
      BY <2>6 DEF ThreadFails
    <3> QED BY <3>1 DEF Inv
  <2>7. ASSUME NEW s \in Sets, HandleSettings(s) PROVE Inv'
    BY <2>7, ResumedRun DEF HandleSettings, Inv
  <2>8. ASSUME NEW s \in Sets,
               (\E r \in Rates : Configure(s, r)) \/ HandleReport(s)
        PROVE Inv'
    BY <2>8 DEF Configure, HandleReport, Inv
  <2> QED BY <2>1, <2>2, <2>3, <2>4, <2>5, <2>6, <2>7, <2>8 DEF Next
<1> QED BY <1>1, <1>2, PTL DEF Spec

(* A device that runs streams, but for failures, whoever suspends it.       *)
THEOREM SuspensionsEnd == Spec => []Streaming
<1>1. Inv => Streaming
  BY DEF Inv, Streaming
<1> QED BY <1>1, Suspensions, PTL
-----------------------------------------------------------------------------
(* Types.  The queues are a function, and a device runs on a unit only;     *)
(* what else TypeOK says is inductive with what Inv says of the threads.    *)
Messages == [kind : {"settings", "rx", "tx"}, rate : Rates]

Types ==
  /\ TypeOK
  /\ m_inputMessageQueue \in [Sets -> Seq(Messages)]
  /\ \A s \in running : unit[s] \in Units

LEMMA Constants ==
  /\ Sets \subseteq Nat /\ Sources \subseteq Sets /\ Sinks \subseteq Sets
  /\ DefaultRate \in Rates /\ File \notin Units
  /\ \A s \in Sets : s \in Sources \/ s \in Sinks
  BY SetsAssumption, UnitsAssumption, RatesAssumption DEF Sets, Sinks

LEMMA LastSet ==
  ASSUME NEW s \in Sets
  PROVE  Initialised(s) \in Sets
  BY Constants, LastAssumption, SetsAssumption DEF Initialised, Sinks, Sets

LEMMA MessagesTyped ==
  ASSUME NEW s \in Sets, NEW r \in Rates
  PROVE  Message(Report(s), r) \in Messages
  BY DEF Message, Report, Messages

LEMMA ToldTyped ==
  ASSUME NEW queues \in [Sets -> Seq(Messages)], NEW s \in Sets, NEW to,
         NEW r \in Rates
  PROVE  Told(queues, s, to, r) \in [Sets -> Seq(Messages)]
<1>1. \A t \in Sets : Append(queues[t], Message(Report(s), r)) \in Seq(Messages)
  BY MessagesTyped
<1> QED BY <1>1 DEF Told

LEMMA HandledTyped ==
  ASSUME m_inputMessageQueue \in [Sets -> Seq(Messages)], NEW s \in Sets,
         m_inputMessageQueue[s] # << >>
  PROVE  /\ Unhandled(s) \in [Sets -> Seq(Messages)]
         /\ Head(m_inputMessageQueue[s]) \in Messages
  BY DEF Unhandled

LEMMA SuspendedTyped ==
  ASSUME NEW others, TypeOK
  PROVE  /\ Suspended(others).wasRunning \subseteq Sets
         /\ Resumed(others).wasRunning \subseteq Sets
<1>1. Suspended(others).wasRunning \subseteq Sets
  BY DEF Suspended, TypeOK
<1> QED BY <1>1, Zenon DEF Resumed, Suspended

LEMMA OpenTyped ==
  ASSUME TypeOK, NEW s \in Sets, NEW v \in Units \cup {File},
         NEW found \in SUBSET Sets, OpenDevice(s, v, found)
  PROVE  /\ params' \in [Sets -> (Sets \X Units) \cup {None}]
         /\ open' \subseteq Sets \X Units
  BY DEF TypeOK, OpenDevice

LEMMA RatesTyped ==
  ASSUME TypeOK, NEW s \in Sets, NEW r \in Rates, NEW acquired,
         ApplySettings(s, r, acquired)
  PROVE  rate' \in [Sets -> Rates] /\ hardware' \in [Units -> Rates]
  BY DEF TypeOK, ApplySettings

LEMMA FoundAreSets ==
  ASSUME NEW s \in Sets, NEW v
  PROVE  SameDevice(s, v) \subseteq Sets
  BY DEF SameDevice

(* Types of what does not change with each step, and of the rest.           *)
Devices == /\ unit \in [Sets -> Units \cup {File}]
           /\ leader \in [Sets -> BOOLEAN]
           /\ params \in [Sets -> (Sets \X Units) \cup {None}]
           /\ open \subseteq Sets \X Units

Values == /\ rate \in [Sets -> Rates] /\ hardware \in [Units -> Rates]
          /\ m_inputMessageQueue \in [Sets -> Seq(Messages)]
          /\ misled \subseteq Sets

Runs == /\ running \subseteq Sets /\ threads.wasRunning \subseteq Sets
        /\ \A s \in running : unit[s] \in Units

LEMMA TypesAre == Types /\ Inv <=> Devices /\ Values /\ Runs /\ Inv
  BY DEF Types, TypeOK, Devices, Values, Runs, Inv, Messages

LEMMA ChangeKeeps ==
  ASSUME Types, NEW s \in Sets, NEW v \in Units \cup {File}, Change(s, v)
  PROVE  Devices' /\ Values' /\ Runs'
<1> DEFINE found == SameDevice(s, v)
           i     == Initialised(s)
           to    == IF i = s THEN found ELSE ToSet(Listed(s, found)[i])
           of    == IF i = s THEN DefaultRate ELSE rate[i]
           on    == IF i = s THEN v ELSE unit[i]
           gone  == [m_inputMessageQueue EXCEPT ![s] = << >>]
<1>1. found \in SUBSET Sets /\ i \in Sets /\ of \in Rates
  BY FoundAreSets, LastSet, Constants DEF Types, TypeOK
<1>2. /\ unit' = [unit EXCEPT ![s] = v]
      /\ leader' = [t \in Sets |-> leader[t] \/ t \in Heirs(s) \/ (t = s /\ found = {})]
      /\ OpenDevice(s, v, found)
      /\ running' = running \ {s}
      /\ threads' = Without(s, Resumed(Buddies(s) \cup found \cup to))
      /\ rate' = [rate EXCEPT ![s] = DefaultRate]
      /\ hardware' = IF i # s /\ i \in running THEN [hardware EXCEPT ![on] = of]
                                                ELSE hardware
      /\ m_inputMessageQueue' = IF on = File THEN gone ELSE Told(gone, i, to, of)
      /\ misled' \subseteq misled
  BY DEF Change
<1> HIDE DEF found, i, to, of, on, gone
<1>3. Devices'
  <2>1. leader' \in [Sets -> BOOLEAN]
    BY <1>2, Zenon DEF Types, TypeOK
  <2>2. unit' \in [Sets -> Units \cup {File}]
    BY <1>2 DEF Types, TypeOK
  <2> QED BY <1>1, <1>2, <2>1, <2>2, OpenTyped DEF Types, Devices
<1>4. Values'
  <2>1. gone \in [Sets -> Seq(Messages)]
    BY DEF Types, gone
  <2>2. m_inputMessageQueue' \in [Sets -> Seq(Messages)]
    BY <2>1, <1>1, <1>2, ToldTyped
  <2>3. rate' \in [Sets -> Rates]
    BY <1>2, Constants DEF Types, TypeOK
  <2>4. hardware' \in [Units -> Rates]
    BY <1>1, <1>2 DEF Types, TypeOK
  <2>5. misled' \subseteq Sets
    BY <1>2 DEF Types, TypeOK
  <2> QED BY <2>2, <2>3, <2>4, <2>5 DEF Values
<1>5. Runs'
  BY <1>2, SuspendedTyped DEF Types, TypeOK, Runs, Without
<1> QED BY <1>3, <1>4, <1>5

LEMMA OthersKeep ==
  ASSUME Types, NEW s \in Sets,
         Stop(s) \/ Start(s) \/ EnableFails(s) \/ ThreadFails(s)
  PROVE  Devices' /\ Values' /\ Runs'
<1>1. Devices'
  BY DEF Types, TypeOK, Devices, Stop, Start, EnableFails, ThreadFails
<1>2. Values'
  <2>1. CASE Start(s)
    <3>1. m_inputMessageQueue' \in [Sets -> Seq(Messages)]
      BY <2>1, ToldTyped DEF Start, Types, TypeOK
    <3>2. rate' \in [Sets -> Rates] /\ hardware' \in [Units -> Rates]
      BY <2>1, RatesTyped DEF Start, Types, TypeOK
    <3> QED BY <2>1, <3>1, <3>2 DEF Start, Types, TypeOK, Values
  <2>2. CASE Stop(s) \/ EnableFails(s) \/ ThreadFails(s)
    BY <2>2 DEF Types, TypeOK, Values, Stop, EnableFails, ThreadFails
  <2> QED BY <2>1, <2>2
<1>3. Runs'
  <2>1. running' \subseteq Sets
    BY DEF Types, TypeOK, Stop, Start, EnableFails, ThreadFails
  <2>2. CASE Stop(s)
    BY <2>1, <2>2, SuspendedTyped DEF Stop, Runs, Types, Resumed, Suspended
  <2>3. CASE Start(s)
    <3>1. threads'.wasRunning = Resumed(Buddies(s)).wasRunning
      BY <2>3, Zenon DEF Start, Resumed, Suspended
    <3>2. /\ running' = running \cup {s} /\ UNCHANGED unit
          /\ unit[s] \in Units
      BY <2>3 DEF Start, Types, TypeOK
    <3> QED BY <2>1, <3>1, <3>2, SuspendedTyped DEF Runs, Types
  <2>4. CASE EnableFails(s)
    BY <2>1, <2>4, SuspendedTyped DEF EnableFails, Runs, Types
  <2>5. CASE ThreadFails(s)
    BY <2>1, <2>5 DEF ThreadFails, Runs, Types, TypeOK
  <2> QED BY <2>2, <2>3, <2>4, <2>5
<1> QED BY <1>1, <1>2, <1>3

LEMMA MessagesKeep ==
  ASSUME Types, NEW s \in Sets,
         (\E r \in Rates : Configure(s, r)) \/ HandleSettings(s) \/ HandleReport(s)
  PROVE  Devices' /\ Values' /\ Runs'
<1>1. Devices'
  BY DEF Types, TypeOK, Devices, Configure, HandleSettings, HandleReport
<1>2. ASSUME NEW r \in Rates, Configure(s, r) PROVE Values' /\ Runs'
  <2>1. Message("settings", r) \in Messages /\ m_inputMessageQueue[s] \in Seq(Messages)
    BY DEF Message, Messages, Types
  <2>2. Append(m_inputMessageQueue[s], Message("settings", r)) \in Seq(Messages)
    BY <2>1
  <2> QED BY <1>2, <2>2 DEF Configure, Values, Runs, Types, TypeOK
<1>3. CASE HandleSettings(s)
  <2> DEFINE r == Head(m_inputMessageQueue[s]).rate
  <2>1. /\ Unhandled(s) \in [Sets -> Seq(Messages)]
        /\ r \in Rates
    BY <1>3, HandledTyped DEF HandleSettings, Types, Messages
  <2>2. m_inputMessageQueue' \in [Sets -> Seq(Messages)]
    BY <1>3, <2>1, ToldTyped DEF HandleSettings
  <2>3. rate' \in [Sets -> Rates] /\ hardware' \in [Units -> Rates]
    <3>1. CASE ApplySettings(s, r, s \in running)
      BY <2>1, <3>1, RatesTyped DEF Types
    <3>2. CASE UNCHANGED <<rate, hardware>>
      BY <3>2 DEF Types, TypeOK
    <3> QED BY <1>3, <3>1, <3>2 DEF HandleSettings
  <2>4. misled' \subseteq Sets /\ Runs'
    BY <1>3, SuspendedTyped DEF HandleSettings, Types, TypeOK, Runs
  <2> QED BY <1>1, <2>2, <2>3, <2>4 DEF Values
<1>4. CASE HandleReport(s)
  <2> DEFINE report == Head(m_inputMessageQueue[s])
  <2>1. /\ Unhandled(s) \in [Sets -> Seq(Messages)]
        /\ report \in Messages
    BY <1>4, HandledTyped DEF HandleReport, Types
  <2>2. Believed(s, report) \in Rates
    <3>1. report.rate \in Rates /\ rate[s] \in Rates
      BY <2>1 DEF Messages, Types, TypeOK
    <3>2. s \in running => hardware[unit[s]] \in Rates
      BY DEF Types, TypeOK
    <3> QED BY <3>1, <3>2 DEF Believed
  <2>3. /\ rate' = [rate EXCEPT ![s] = Believed(s, report)]
        /\ m_inputMessageQueue' = Unhandled(s)
        /\ misled' \subseteq misled \cup {s}
        /\ UNCHANGED <<unit, running, threads, hardware>>
    BY <1>4 DEF HandleReport
  <2>4. Values'
    BY <2>1, <2>2, <2>3 DEF Types, TypeOK, Values
  <2> QED BY <1>1, <2>3, <2>4 DEF Runs, Types, TypeOK
<1> QED BY <1>1, <1>2, <1>3, <1>4

LEMMA TypesInit ==
  ASSUME Init
  PROVE  Types
  BY Constants DEF Init, Types, TypeOK, None

LEMMA TypesNext ==
  ASSUME Types, Inv, Inv', [Next]_vars
  PROVE  Types'
<1>1. CASE UNCHANGED vars
  BY <1>1 DEF Types, TypeOK, vars
<1>2. CASE Next
  <2>1. Devices' /\ Values' /\ Runs'
    BY <1>2, ChangeKeeps, OthersKeep, MessagesKeep DEF Next
  <2> QED BY <2>1 DEF Types, TypeOK, Devices, Values, Runs, Inv, Messages
<1> QED BY <1>1, <1>2

THEOREM TypeCorrect == Spec => []TypeOK
<1>1. Init => Types
  BY TypesInit
<1>2. Types /\ Inv /\ Inv' /\ [Next]_vars => Types'
  BY TypesNext
<1>3. Types => TypeOK
  BY DEF Types
<1> QED BY <1>1, <1>2, <1>3, Suspensions, PTL DEF Spec
-----------------------------------------------------------------------------
(* Lists that have nobody twice. *)
Once(list) == \A i, j \in DOMAIN list : list[i] = list[j] => i = j

(* A list that has each once has one less when one is taken off, and no    *)
(* more.                                                                   *)
LEMMA RemovedOnce ==
  ASSUME NEW S, NEW list \in Seq(S), Once(list), NEW e \in ToSet(list)
  PROVE  /\ RemoveFirst(list, e) \in Seq(S) /\ Once(RemoveFirst(list, e))
         /\ ToSet(RemoveFirst(list, e)) = ToSet(list) \ {e}
<1>1. PICK i \in 1..Len(list) : list[i] = e
  BY DEF ToSet
<1>2. \A j \in 1..Len(list) : list[j] = e => j = i
  BY <1>1 DEF Once
<1>3. SelectInSeq(list, LAMBDA v : v = e) = i
  <2>1. {j \in 1..Len(list) : list[j] = e} = {i}
    BY <1>1, <1>2
  <2>2. Min({i}) = i
    BY DEF Min
  <2> QED BY <2>1, <2>2 DEF SelectInSeq
<1> DEFINE front == SubSeq(list, 1, i - 1)
           back  == SubSeq(list, i + 1, Len(list))
           rest  == front \o back
<1>4. RemoveFirst(list, e) = rest
  <2>1. RemoveFirst(list, e) = RemoveAt(list, SelectInSeq(list, LAMBDA v : v = e))
    BY <1>1 DEF RemoveFirst
  <2> QED BY <2>1, <1>3 DEF RemoveAt
<1>5. /\ front \in Seq(S) /\ Len(front) = i - 1
      /\ \A j \in 1..(i - 1) : front[j] = list[j]
  BY SubSeqProperties
<1>6. /\ back \in Seq(S) /\ Len(back) = Len(list) - i
      /\ \A j \in 1..(Len(list) - i) : back[j] = list[i + j]
  <2>1. i + 1 \in 1..(Len(list) + 1) /\ Len(list) \in 0..Len(list)
    OBVIOUS
  <2> QED BY <2>1, SubSeqProperties
<1> HIDE DEF front, back
<1>7. /\ rest \in Seq(S) /\ Len(rest) = Len(list) - 1
      /\ \A j \in 1..(Len(list) - 1) : rest[j] = IF j < i THEN list[j] ELSE list[j + 1]
  <2>1. /\ rest \in Seq(S) /\ Len(rest) = Len(list) - 1
        /\ \A j \in 1..(Len(list) - 1) :
             rest[j] = IF j <= i - 1 THEN front[j] ELSE back[j - (i - 1)]
    <3>1. /\ rest \in Seq(S) /\ Len(rest) = Len(front) + Len(back)
          /\ \A j \in 1..(Len(front) + Len(back)) :
               rest[j] = IF j <= Len(front) THEN front[j] ELSE back[j - Len(front)]
      BY <1>5, <1>6, ConcatProperties
    <3>2. Len(front) + Len(back) = Len(list) - 1
      BY <1>5, <1>6
    <3> QED BY <3>1, <3>2, <1>5
  <2>2. ASSUME NEW j \in 1..(Len(list) - 1), ~(j < i)
        PROVE  rest[j] = list[j + 1]
    <3>1. j - (i - 1) \in 1..(Len(list) - i) /\ i + (j - (i - 1)) = j + 1
      BY <2>2
    <3> QED BY <2>1, <2>2, <3>1, <1>6
  <2> QED BY <2>1, <2>2, <1>5
<1> HIDE DEF rest
<1>8. DOMAIN rest = 1..(Len(list) - 1) /\ DOMAIN list = 1..Len(list)
  BY <1>7
<1>9. Once(rest)
  BY <1>7, <1>8 DEF Once
<1>10. ToSet(rest) = ToSet(list) \ {e}
  <2>1. ASSUME NEW x \in ToSet(rest) PROVE x \in ToSet(list) \ {e}
    <3>1. PICK j \in 1..(Len(list) - 1) : x = rest[j]
      BY <2>1, <1>8 DEF ToSet
    <3>2. PICK k \in 1..Len(list) : x = list[k] /\ k # i
      BY <3>1, <1>7
    <3> QED BY <3>2, <1>2, <1>8 DEF ToSet
  <2>2. ASSUME NEW x \in ToSet(list) \ {e} PROVE x \in ToSet(rest)
    <3>1. PICK k \in 1..Len(list) : x = list[k] /\ k # i
      BY <2>2, <1>1, <1>8 DEF ToSet
    <3>2. CASE k < i
      <4>1. k \in 1..(Len(list) - 1) /\ rest[k] = x
        BY <3>1, <3>2, <1>7
      <4> QED BY <4>1, <1>8 DEF ToSet
    <3>3. CASE k > i
      <4>1. k - 1 \in 1..(Len(list) - 1) /\ rest[k - 1] = x
        BY <3>1, <3>3, <1>7
      <4> QED BY <4>1, <1>8 DEF ToSet
    <3> QED BY <3>1, <3>2, <3>3
  <2> QED BY <2>1, <2>2
<1> QED BY <1>4, <1>7, <1>9, <1>10

(* One that was not in a list is in it once when it is put at its end.     *)
LEMMA AppendedOnce ==
  ASSUME NEW S, NEW list \in Seq(S), Once(list), NEW e \in S, e \notin ToSet(list)
  PROVE  /\ Append(list, e) \in Seq(S) /\ Once(Append(list, e))
         /\ ToSet(Append(list, e)) = ToSet(list) \cup {e}
<1> DEFINE new == Append(list, e)
<1>1. /\ new \in Seq(S) /\ DOMAIN new = 1..(Len(list) + 1)
      /\ \A j \in 1..Len(list) : new[j] = list[j]
      /\ new[Len(list) + 1] = e
  BY AppendProperties
<1>2. DOMAIN list = 1..Len(list)
  OBVIOUS
<1> HIDE DEF new
<1>3. \A j \in 1..Len(list) : list[j] # e
  BY <1>2 DEF ToSet
<1>4. Once(new)
  BY <1>1, <1>2, <1>3 DEF Once
<1>5. ToSet(new) = ToSet(list) \cup {e}
  <2>1. ASSUME NEW j \in 1..(Len(list) + 1) PROVE new[j] \in ToSet(list) \cup {e}
    BY <1>1, <1>2 DEF ToSet
  <2>2. ASSUME NEW j \in 1..Len(list) PROVE list[j] \in ToSet(new)
    BY <1>1 DEF ToSet
  <2>3. e \in ToSet(new)
    BY <1>1 DEF ToSet
  <2> QED BY <2>1, <2>2, <2>3, <1>1, <1>2 DEF ToSet
<1> QED BY <1>1, <1>4, <1>5 DEF new

(* Device sets in their order: each is there, and once.  Their places are  *)
(* the numbers from one to their number, as they are that many and all     *)
(* different.                                                              *)
LEMMA InOrderOnce ==
  ASSUME NEW sets \in SUBSET Sets
  PROVE  /\ InOrder(sets) \in Seq(sets) /\ Once(InOrder(sets))
         /\ ToSet(InOrder(sets)) = sets
<1> DEFINE c        == Cardinality(sets)
           UpTo(x)  == {t \in sets : t <= x}
           place    == [x \in sets |-> Cardinality(UpTo(x))]
<1>1. /\ sets \subseteq Nat /\ IsFiniteSet(sets) /\ c \in Nat
      /\ \A x \in sets : UpTo(x) \in SUBSET sets /\ IsFiniteSet(UpTo(x))
  <2>1. IsFiniteSet(Sets)
    BY SetsAssumption, FS_Interval DEF Sets
  <2>2. IsFiniteSet(sets) /\ \A x \in sets : IsFiniteSet(UpTo(x))
    BY <2>1, FS_Subset
  <2> QED BY <2>2, FS_CardinalityType DEF Sets
<1>2. ASSUME NEW x \in sets PROVE Cardinality(UpTo(x)) \in 1..c
  <2>1. x \in UpTo(x)
    BY <1>1
  <2>2. Cardinality(UpTo(x)) \in Nat /\ Cardinality(UpTo(x)) # 0
    BY <1>1, <2>1, FS_CardinalityType, FS_EmptySet
  <2>3. Cardinality(UpTo(x)) <= c
    BY <1>1, FS_Subset
  <2> QED BY <1>1, <2>2, <2>3
<1>3. ASSUME NEW x \in sets, NEW y \in sets,
             Cardinality(UpTo(x)) = Cardinality(UpTo(y))
      PROVE  ~(x < y)
  <2> SUFFICES ASSUME x < y PROVE FALSE
    OBVIOUS
  <2>0. x \in Nat /\ y \in Nat
    BY <1>1
  <2>1. UpTo(x) \in SUBSET UpTo(y) /\ y \in UpTo(y) /\ y \notin UpTo(x)
    <3>1. \A t \in sets : t \in Nat /\ (t <= x => t <= y)
      BY <1>1, <2>0
    <3>2. y <= y /\ ~(y <= x)
      BY <2>0
    <3> QED BY <3>1, <3>2
  <2> QED BY <1>1, <1>3, <2>1, FS_Subset
<1>4. \A x, y \in sets : Cardinality(UpTo(x)) = Cardinality(UpTo(y)) => x = y
  BY <1>1, <1>3
<1>5. \A i \in 1..c : \E x \in sets : Cardinality(UpTo(x)) = i
  <2>1. place \in [sets -> 1..c]
    BY <1>2
  <2>2. \A x, y \in sets : place[x] = place[y] => x = y
    BY <1>4
  <2>3. place \in Injection(sets, 1..c)
    BY <2>1, <2>2, Fun_IsInj
  <2>4. IsFiniteSet(1..c) /\ Cardinality(1..c) = c
    BY <1>1, FS_Interval
  <2>5. place \in Surjection(sets, 1..c)
    BY <2>3, <2>4, FS_Injection
  <2>6. \A i \in 1..c : \E x \in sets : place[x] = i
    BY <2>1, <2>5 DEF Surjection
  <2> QED BY <2>6
<1> DEFINE list == InOrder(sets)
<1>6. /\ DOMAIN list = 1..c
      /\ \A i \in 1..c : list[i] \in sets /\ Cardinality(UpTo(list[i])) = i
  BY <1>5 DEF InOrder
<1>7. list = [i \in 1..c |-> list[i]]
  BY DEF InOrder
<1> HIDE DEF list, c, UpTo
<1>8. list \in Seq(sets)
  <2>1. list \in [1..c -> sets]
    BY <1>6, <1>7
  <2> QED BY <1>1, <2>1, SeqDef
<1>9. Once(list)
  BY <1>6 DEF Once
<1>10. ToSet(list) = sets
  <2>1. ASSUME NEW x \in sets PROVE x \in ToSet(list)
    <3>1. list[Cardinality(UpTo(x))] = x
      BY <1>2, <1>4, <1>6
    <3> QED BY <1>2, <1>6, <3>1 DEF ToSet
  <2> QED BY <2>1, <1>6 DEF ToSet
<1> QED BY <1>8, <1>9, <1>10 DEF list

(* There is a first of a kind in a list that has some: the natural numbers *)
(* are well ordered.                                                       *)
LEMMA FirstExists ==
  ASSUME NEW S, NEW list \in Seq(S), NEW kind, ToSet(list) \cap kind # {}
  PROVE  FirstOf(list, kind) # {} /\ FirstOf(list, kind) \subseteq ToSet(list)
<1> DEFINE places == {n \in DOMAIN list : list[n] \in kind}
<1>1. places \subseteq Nat /\ places # {}
  BY DEF ToSet
<1>2. PICK n \in places : \A m \in places : ~(<<m, n>> \in OpToRel(<, Nat))
  BY <1>1, NatLessThanWellFounded, WFMin
<1>3. \A m \in places : ~(m < n)
  BY <1>1, <1>2 DEF OpToRel
<1>4. \A m \in 1..(n - 1) : list[m] \notin kind
  BY <1>3
<1> QED BY <1>4 DEF FirstOf, ToSet

(* The numbers from 1 to n are n.                                          *)
LEMMA UpToLength ==
  ASSUME NEW n \in Nat
  PROVE  IsFiniteSet(1..n) /\ Cardinality(1..n) = n
  BY FS_Interval

(* A list that has each once is as long as their number.                   *)
LEMMA OnceLength ==
  ASSUME NEW S, NEW list \in Seq(S), Once(list)
  PROVE  Cardinality(ToSet(list)) = Len(list)
<1>1. Len(list) \in Nat /\ DOMAIN list = 1..Len(list) /\ list = [i \in 1..Len(list) |-> list[i]]
  OBVIOUS
<1>2. list \in [1..Len(list) -> ToSet(list)]
  BY <1>1 DEF ToSet
<1>3. list \in Bijection(1..Len(list), ToSet(list))
  <2>1. \A i, j \in 1..Len(list) : list[i] = list[j] => i = j
    BY <1>1 DEF Once
  <2>2. \A e \in ToSet(list) : \E i \in 1..Len(list) : list[i] = e
    BY <1>1 DEF ToSet
  <2> QED BY <1>2, <2>1, <2>2, Fun_IsBij
<1>4. IsFiniteSet(1..Len(list)) /\ Cardinality(1..Len(list)) = Len(list)
  BY <1>1, UpToLength
<1> QED BY <1>3, <1>4, FS_Bijection DEF ExistsBijection
-----------------------------------------------------------------------------
(* The device sets on the same hardware as s.                              *)
Same(s) == SameDevice(s, unit[s])

(* What holds of the lists, also of the files: those of one kind that are  *)
(* there when a set comes to the file are its buddies, those that begin    *)
(* with it have none.                                                      *)
ListsOnce == /\ buddies \in [Sets -> Seq(Sets)]
             /\ \A s \in Sets : Once(buddies[s])

ListsSame == \A s \in Sets : /\ Buddies(s) \subseteq Same(s)
                             /\ unit[s] = File \/ Buddies(s) = Same(s)

ListsBothWays == \A s, t \in Sets : t \in Buddies(s) <=> s \in Buddies(t)

Lists == ListsOnce /\ ListsSame /\ ListsBothWays

(* Who leaves is in no list.                                               *)
LEMMA LeftLists ==
  ASSUME Lists, NEW s \in Sets, NEW t \in Sets, t # s
  PROVE  /\ Left(s)[t] \in Seq(Sets) /\ Once(Left(s)[t])
         /\ ToSet(Left(s)[t]) = Buddies(t) \ {s}
<1>1. /\ buddies[t] \in Seq(Sets) /\ Once(buddies[t])
      /\ ToSet(buddies[t]) = Buddies(t)
      /\ s \in Buddies(t) <=> t \in Buddies(s)
  <2>1. s \in Buddies(t) <=> t \in Buddies(s)
    BY DEF Lists, ListsBothWays
  <2> QED BY <2>1 DEF Lists, ListsOnce, Buddies
<1>2. CASE t \in Buddies(s)
  <2>1. Left(s)[t] = RemoveFirst(buddies[t], s)
    BY <1>2 DEF Left
  <2> QED BY <1>1, <1>2, <2>1, RemovedOnce
<1>3. CASE t \notin Buddies(s)
  <2>1. Left(s)[t] = buddies[t]
    BY <1>3 DEF Left
  <2> QED BY <1>1, <1>3, <2>1
<1> QED BY <1>2, <1>3

(* A set that changes its device leaves the lists of its old buddies, and  *)
(* is in those of its new ones, and they in its own.                       *)
LEMMA ListsAfter ==
  ASSUME Lists, unit \in [Sets -> Units \cup {File}],
         NEW s \in Sets, NEW v \in Units \cup {File}, Change(s, v)
  PROVE  Lists'
<1> DEFINE found == SameDevice(s, v)
<1>1. /\ unit' = [unit EXCEPT ![s] = v]
      /\ buddies' = Listed(s, found)
  BY DEF Change
<1>2. /\ Same(s)' = found /\ found \in SUBSET Sets /\ s \notin found
      /\ \A t \in Sets \ {s} :
           /\ Same(t)' = IF t \in found THEN (Same(t) \ {s}) \cup {s} ELSE Same(t) \ {s}
           /\ unit'[t] = unit[t]
  BY <1>1 DEF Same, SameDevice
<1> HIDE DEF found
<1>3. buddies'[s] = InOrder(found)
  BY <1>1 DEF Listed
<1>4. /\ buddies'[s] \in Seq(Sets) /\ Once(buddies'[s])
      /\ Buddies(s)' = found
  <2>1. /\ InOrder(found) \in Seq(found) /\ Once(InOrder(found))
        /\ ToSet(InOrder(found)) = found
    BY <1>2, InOrderOnce
  <2> QED BY <1>2, <1>3, <2>1, SeqMonotonic DEF Buddies
<1>5. ASSUME NEW t \in Sets, t # s
      PROVE  /\ buddies'[t] \in Seq(Sets) /\ Once(buddies'[t])
             /\ Buddies(t)' = IF t \in found THEN (Buddies(t) \ {s}) \cup {s}
                                            ELSE Buddies(t) \ {s}
  <2>1. /\ Left(s)[t] \in Seq(Sets) /\ Once(Left(s)[t])
        /\ ToSet(Left(s)[t]) = Buddies(t) \ {s}
    BY <1>5, LeftLists
  <2>2. CASE t \in found
    <3>1. buddies'[t] = Append(Left(s)[t], s)
      BY <1>1, <1>5, <2>2 DEF Listed
    <3>2. s \notin ToSet(Left(s)[t])
      BY <2>1
    <3>3. /\ buddies'[t] \in Seq(Sets) /\ Once(buddies'[t])
          /\ ToSet(buddies'[t]) = ToSet(Left(s)[t]) \cup {s}
      BY <2>1, <3>1, <3>2, AppendedOnce
    <3> QED BY <2>1, <2>2, <3>3 DEF Buddies
  <2>3. CASE t \notin found
    <3>1. buddies'[t] = Left(s)[t]
      BY <1>1, <1>5, <2>3 DEF Listed
    <3> QED BY <2>1, <2>3, <3>1 DEF Buddies
  <2> QED BY <2>2, <2>3
<1>6. buddies' \in [Sets -> Seq(Sets)]
  <2>1. buddies' = [t \in Sets |-> buddies'[t]]
    BY <1>1 DEF Listed
  <2> QED BY <1>4, <1>5, <2>1
<1>7. ASSUME NEW t \in Sets
      PROVE  /\ Once(buddies'[t]) /\ Buddies(t)' \subseteq Same(t)'
             /\ unit'[t] = File \/ Buddies(t)' = Same(t)'
  <2>1. CASE t = s
    BY <1>2, <1>4, <2>1
  <2>2. CASE t # s
    BY <1>2, <1>5, <2>2 DEF Lists, ListsSame
  <2> QED BY <2>1, <2>2
<1>8. \A t, w \in Sets : w \in Buddies(t)' <=> t \in Buddies(w)'
  <2>1. \A t \in Sets : t \in Buddies(s)' <=> s \in Buddies(t)'
    BY <1>2, <1>4, <1>5
  <2>2. \A t, w \in Sets \ {s} : w \in Buddies(t)' <=> t \in Buddies(w)'
    BY <1>5 DEF Lists, ListsBothWays
  <2> QED BY <2>1, <2>2
<1> QED BY <1>6, <1>7, <1>8 DEF Lists, ListsOnce, ListsSame, ListsBothWays

(* So the lists of a unit have its other devices, and each once.           *)
LEMMA ListsMutual ==
  ASSUME Lists
  PROVE  BuddiesMutual
<1> SUFFICES ASSUME NEW u \in Units, NEW s \in Members(u)
             PROVE  /\ Buddies(s) = Members(u) \ {s}
                    /\ Len(buddies[s]) = Cardinality(Members(u)) - 1
  BY DEF BuddiesMutual
<1>1. s \in Sets /\ unit[s] = u /\ u # File
  BY Constants DEF Members
<1>2. Buddies(s) = Members(u) \ {s}
  BY <1>1 DEF Lists, ListsSame, Same, SameDevice, Members
<1>3. IsFiniteSet(Members(u)) /\ Cardinality(Members(u)) \in Nat
  <2>1. IsFiniteSet(Sets)
    BY SetsAssumption, FS_Interval DEF Sets
  <2>2. IsFiniteSet(Members(u))
    BY <2>1, FS_Subset DEF Members
  <2> QED BY <2>2, FS_CardinalityType
<1>4. Cardinality(Members(u) \ {s}) = Cardinality(Members(u)) - 1
  BY <1>3, FS_RemoveElement
<1> DEFINE list == buddies[s]
<1>5. list \in Seq(Sets) /\ Once(list) /\ ToSet(list) = Members(u) \ {s}
  BY <1>1, <1>2 DEF Lists, ListsOnce, Buddies
<1> HIDE DEF list
<1>6. Cardinality(ToSet(list)) = Len(list)
  BY <1>5, OnceLength
<1> QED BY <1>2, <1>4, <1>5, <1>6 DEF list

(* The parameters of each are of its own unit and those of its buddies;    *)
(* what is open is of some device; and what runs has it open.              *)
Handles ==
  /\ \A s \in Sets : params[s][2] = unit[s]
  /\ \A s, t \in Sets : unit[s] = unit[t] /\ unit[s] # File => params[s] = params[t]
  /\ \A h \in open : \E s \in Sets : params[s] = h
  /\ \A s \in running : params[s] \in open

(* A device that goes closes what it alone held, and one that comes takes  *)
(* what its buddies have.                                                  *)
LEMMA HandlesAfter ==
  ASSUME Types, Lists, Handles,
         NEW s \in Sets, NEW v \in Units \cup {File}, Change(s, v)
  PROVE  Handles'
<1> DEFINE found == SameDevice(s, v)
<1>1. /\ unit[s] # v
      /\ unit' = [unit EXCEPT ![s] = v]
      /\ OpenDevice(s, v, found)
      /\ running' = running \ {s}
  BY DEF Change
<1>2. /\ unit \in [Sets -> Units \cup {File}]
      /\ params \in [Sets -> (Sets \X Units) \cup {None}]
      /\ open \subseteq Sets \X Units
      /\ running \subseteq Sets /\ \A t \in running : unit[t] \in Units
      /\ None[2] = File
  BY DEF Types, TypeOK, None
<1>3. /\ v # File => \A t \in Sets \ {s} : unit[t] = v <=> t \in found
      /\ \A t \in Sets \ {s} : unit[t] = unit[s] /\ unit[s] # File <=> t \in Buddies(s) /\ unit[s] # File
      /\ found \subseteq {t \in Sets \ {s} : unit[t] = v}
  BY <1>2 DEF SameDevice, Lists, ListsSame, Same
<1>4. Closed(s) = {} \/ (Closed(s) = {params[s]} /\ Buddies(s) = {})
  BY DEF Closed, Buddies, ToSet
<1>5. ASSUME NEW t \in Sets, t # s, params[t] \in open
      PROVE  params[t] \notin Closed(s)
  <2>1. params[t] \in Sets \X Units
    BY <1>2, <1>5
  <2>2. unit[t] # File
    BY <1>5, <2>1, <1>2, Constants DEF Handles
  <2> QED BY <1>3, <1>4, <1>5, <2>2 DEF Handles
<1>6. ASSUME NEW h \in open, h \notin Closed(s)
      PROVE  \E t \in Sets \ {s} : params[t] = h
  <2>1. PICK w \in Sets : params[w] = h
    BY <1>6 DEF Handles
  <2>2. CASE w # s
    BY <2>1, <2>2
  <2>3. CASE w = s
    <3>1. h \in Sets \X Units /\ unit[s] # File
      BY <1>2, <2>1, <2>3, Constants DEF Handles
    <3>2. buddies[s] # << >>
      BY <1>6, <2>1, <2>3 DEF Closed
    <3>3. Buddies(s) # {}
      <4>1. buddies[s] \in Seq(Sets)
        BY DEF Lists, ListsOnce
      <4>2. 1 \in DOMAIN buddies[s]
        BY <3>2, <4>1
      <4> QED BY <4>2 DEF Buddies, ToSet
    <3>4. PICK b \in Buddies(s) : b \in Sets \ {s}
      BY <3>3 DEF Lists, ListsSame, Same, SameDevice
    <3> QED BY <1>3, <2>1, <2>3, <3>1, <3>4 DEF Handles
  <2> QED BY <2>2, <2>3
<1> HIDE DEF found
<1>7. /\ \A t \in Sets \ {s} : params'[t] = params[t] /\ unit'[t] = unit[t]
      /\ unit'[s] = v
      /\ open \ Closed(s) \subseteq open'
  BY <1>1, <1>2 DEF OpenDevice
<1>8. \A t \in running' : params'[t] \in open'
  BY <1>1, <1>2, <1>5, <1>7 DEF Handles
<1>9. CASE v = File
  <2>1. params'[s] = None /\ open' = open \ Closed(s)
    BY <1>1, <1>2, <1>9 DEF OpenDevice
  <2>2. \A h \in open' : \E t \in Sets : params'[t] = h
    BY <1>6, <1>7, <2>1
  <2>3. \A t \in Sets : params'[t][2] = unit'[t]
    BY <1>2, <1>7, <1>9, <2>1 DEF Handles
  <2>4. \A t, w \in Sets : unit'[t] = unit'[w] /\ unit'[t] # File => params'[t] = params'[w]
    BY <1>7, <1>9 DEF Handles
  <2> QED BY <1>8, <2>2, <2>3, <2>4 DEF Handles
<1>10. CASE v # File /\ found # {}
  <2>1. PICK first \in found : params'[s] = params[first]
    BY <1>1, <1>2, <1>10 DEF OpenDevice
  <2>2. open' = open \ Closed(s)
    BY <1>1, <1>10 DEF OpenDevice
  <2>3. first \in Sets \ {s} /\ unit[first] = v
    BY <1>3, <2>1
  <2>4. \A h \in open' : \E t \in Sets : params'[t] = h
    BY <1>6, <1>7, <2>2
  <2>5. \A t \in Sets : params'[t][2] = unit'[t]
    BY <1>7, <2>1, <2>3 DEF Handles
  <2>6. \A t \in Sets : unit'[t] = v => params'[t] = params[first]
    BY <1>7, <1>10, <2>1, <2>3 DEF Handles
  <2>7. \A t, w \in Sets : unit'[t] = unit'[w] /\ unit'[t] # File => params'[t] = params'[w]
    BY <1>7, <2>6 DEF Handles
  <2> QED BY <1>8, <2>4, <2>5, <2>7 DEF Handles
<1>11. CASE v # File /\ found = {}
  <2>1. /\ params'[s] = <<s, v>>
        /\ open' \subseteq (open \ Closed(s)) \cup {<<s, v>>}
    BY <1>1, <1>2, <1>11 DEF OpenDevice
  <2>2. \A h \in open' : \E t \in Sets : params'[t] = h
    BY <1>6, <1>7, <2>1
  <2>3. \A t \in Sets : params'[t][2] = unit'[t]
    BY <1>7, <2>1 DEF Handles
  <2>4. \A t \in Sets \ {s} : unit'[t] # v
    BY <1>3, <1>7, <1>11
  <2>5. \A t, w \in Sets : unit'[t] = unit'[w] /\ unit'[t] # File => params'[t] = params'[w]
    BY <1>7, <2>4 DEF Handles
  <2> QED BY <1>8, <2>2, <2>3, <2>5 DEF Handles
<1> QED BY <1>9, <1>10, <1>11

(* So all of a unit share one handle.                                      *)
LEMMA HandlesHold ==
  ASSUME Types, Handles
  PROVE  OneHandle
<1>1. /\ unit \in [Sets -> Units \cup {File}] /\ open \subseteq Sets \X Units
      /\ running \subseteq Sets
  BY DEF Types, TypeOK
<1>2. \A u \in Units : \A s, t \in Members(u) : params[s] = params[t]
  BY Constants DEF Handles, Members
<1>3. \A h \in open : \E s \in Members(h[2]) : params[s] = h
  BY DEF Handles, Members
<1> QED BY <1>1, <1>2, <1>3 DEF Handles, OneHandle

(* A leader that leaves buddies has an heir among them.                    *)
LEMMA HeirExists ==
  ASSUME Lists, NEW s \in Sets, leader[s], Buddies(s) # {}
  PROVE  Heirs(s) # {} /\ Heirs(s) \subseteq Buddies(s)
<1>1. buddies[s] \in Seq(Sets) /\ Buddies(s) = ToSet(buddies[s]) /\ Buddies(s) \subseteq Sets
  <2>1. Buddies(s) \subseteq Sets
    BY DEF Lists, ListsSame, Same, SameDevice
  <2> QED BY <2>1 DEF Lists, ListsOnce, Buddies
<1>2. CASE Buddies(s) \cap Sources # {}
  <2>1. Heirs(s) = FirstOf(buddies[s], Sources)
    BY <1>2 DEF Heirs
  <2> QED BY <1>1, <1>2, <2>1, FirstExists
<1>3. CASE Buddies(s) \cap Sources = {}
  <2>1. Heirs(s) = FirstOf(buddies[s], Sinks)
    BY <1>3 DEF Heirs
  <2>2. Buddies(s) \cap Sinks # {}
    BY <1>1, <1>3, Constants
  <2> QED BY <1>1, <2>1, <2>2, FirstExists
<1> QED BY <1>2, <1>3

(* So a unit in use keeps a leader, and one that was not gets its first.   *)
LEMMA LeaderAfter ==
  ASSUME Types, Lists, HasLeader,
         NEW s \in Sets, NEW v \in Units \cup {File}, Change(s, v)
  PROVE  HasLeader'
<1> DEFINE found == SameDevice(s, v)
<1>1. /\ unit[s] # v
      /\ unit' = [unit EXCEPT ![s] = v]
      /\ leader' = [t \in Sets |-> \/ leader[t] \/ t \in Heirs(s)
                                   \/ t = s /\ found = {}]
  BY DEF Change
<1> SUFFICES ASSUME NEW u \in Units, NEW w \in Members(u)'
             PROVE  \E t \in Members(u)' : leader'[t]
  BY DEF HasLeader
<1>2. /\ unit \in [Sets -> Units \cup {File}] /\ u # File
      /\ \A t \in Sets : t \in Members(u) <=> unit[t] = u
      /\ \A t \in Sets : t \in Members(u)' <=> unit'[t] = u
      /\ w \in Sets
  BY Constants DEF Types, TypeOK, Members
<1>3. CASE u = v /\ found = {}
  BY <1>1, <1>2, <1>3
<1>4. CASE u = v /\ found # {}
  <2>1. Members(u) # {}
    BY <1>2, <1>4 DEF SameDevice, Members
  <2>2. PICK r \in Members(u) : leader[r]
    BY <2>1 DEF HasLeader
  <2>3. r \in Sets /\ r # s
    BY <1>1, <1>4 DEF Members
  <2> QED BY <1>1, <1>2, <2>2, <2>3
<1>5. CASE u # v
  <2>1. w # s /\ w \in Members(u)
    BY <1>1, <1>2, <1>5
  <2>2. PICK r \in Members(u) : leader[r]
    BY <2>1 DEF HasLeader
  <2>3. r \in Sets
    BY DEF Members
  <2>4. CASE r # s
    BY <1>1, <1>2, <2>2, <2>3, <2>4
  <2>5. CASE r = s
    <3>1. w \in Buddies(s) /\ Buddies(s) \subseteq Members(u) \ {s}
      BY <1>2, <2>1, <2>5 DEF Lists, ListsSame, Same, SameDevice, Members
    <3>2. PICK h \in Heirs(s) : h \in Members(u) \ {s}
      BY <2>2, <2>5, <3>1, HeirExists
    <3>3. h \in Sets /\ h # s /\ unit[h] = u
      BY <3>2 DEF Members
    <3> QED BY <1>1, <1>2, <3>2, <3>3
  <2> QED BY <2>4, <2>5
<1> QED BY <1>3, <1>4, <1>5
-----------------------------------------------------------------------------
(* A report waits in a queue.                                              *)
Reported(queue) == \E n \in DOMAIN queue : queue[n].kind # "settings"

(* A device has the rate of the hardware, or will hear of it.              *)
Knows(t) == rate[t] = hardware[unit[t]] \/ Reported(m_inputMessageQueue[t])

Informed == \A t \in running \ misled : Knows(t)

(* Reports stay in a queue when a message is put at its end, ...           *)
LEMMA ReportedAppend ==
  ASSUME NEW queue \in Seq(Messages), NEW m \in Messages
  PROVE  /\ Reported(queue) => Reported(Append(queue, m))
         /\ m.kind # "settings" => Reported(Append(queue, m))
<1>1. /\ DOMAIN queue = 1..Len(queue)
      /\ DOMAIN Append(queue, m) = 1..(Len(queue) + 1)
      /\ \A n \in 1..Len(queue) : Append(queue, m)[n] = queue[n]
      /\ Append(queue, m)[Len(queue) + 1] = m
      /\ Len(queue) \in Nat
  BY AppendProperties
<1> QED BY <1>1 DEF Reported

(* ... and when a message that is none is taken off.                       *)
LEMMA ReportedTail ==
  ASSUME NEW queue \in Seq(Messages), queue # << >>, Head(queue).kind = "settings",
         Reported(queue)
  PROVE  Reported(Tail(queue))
<1>1. PICK n \in 1..Len(queue) : queue[n].kind # "settings"
  BY DEF Reported
<1>2. n # 1
  BY <1>1
<1>3. n - 1 \in DOMAIN Tail(queue) /\ Tail(queue)[n - 1] = queue[n]
  BY <1>2
<1> QED BY <1>1, <1>3 DEF Reported

(* Who is told has a report.                                               *)
LEMMA ToldReported ==
  ASSUME NEW queues \in [Sets -> Seq(Messages)], NEW s \in Sets, NEW to,
         NEW r \in Rates, NEW t \in Sets
  PROVE  /\ t \in to => Reported(Told(queues, s, to, r)[t])
         /\ Reported(queues[t]) => Reported(Told(queues, s, to, r)[t])
<1>1. Message(Report(s), r) \in Messages /\ Message(Report(s), r).kind # "settings"
  BY MessagesTyped DEF Message, Report
<1>2. Told(queues, s, to, r)[t] = IF t \in to THEN Append(queues[t], Message(Report(s), r))
                                              ELSE queues[t]
  BY DEF Told
<1>3. queues[t] \in Seq(Messages)
  OBVIOUS
<1> QED BY <1>1, <1>2, <1>3, ReportedAppend

(* A change of the rate of a unit leaves a device with what it knew, if    *)
(* all those of the unit are told.                                         *)
LEMMA HardwareTold ==
  ASSUME Types, NEW s \in Sets, NEW t \in Sets, Knows(t), NEW r \in Rates,
         NEW to, NEW queues \in [Sets -> Seq(Messages)], NEW u,
         m_inputMessageQueue' = Told(queues, s, to, r),
         Reported(m_inputMessageQueue[t]) => Reported(queues[t]),
         hardware' = [hardware EXCEPT ![u] = r],
         rate'[t] = rate[t], unit'[t] = unit[t], unit[t] \in Units,
         unit[t] = u => t \in to
  PROVE  Knows(t)'
<1>1. CASE t \in to \/ Reported(m_inputMessageQueue[t])
  BY <1>1, ToldReported DEF Knows
<1>2. CASE t \notin to /\ rate[t] = hardware[unit[t]]
  <2>1. hardware'[unit[t]] = hardware[unit[t]]
    BY <1>2 DEF Types, TypeOK
  <2> QED BY <1>2, <2>1 DEF Knows
<1> QED BY <1>1, <1>2 DEF Knows

(* The rate that the initialisation of a running device sets reaches the   *)
(* buddies it has by then.                                                 *)
LEMMA ChangeInforms ==
  ASSUME Types, Lists, Lists', Informed,
         NEW s \in Sets, NEW v \in Units \cup {File}, Change(s, v)
  PROVE  Informed'
<1> DEFINE found == SameDevice(s, v)
           i     == Initialised(s)
           to    == IF i = s THEN found ELSE ToSet(Listed(s, found)[i])
           of    == IF i = s THEN DefaultRate ELSE rate[i]
           on    == IF i = s THEN v ELSE unit[i]
           gone  == [m_inputMessageQueue EXCEPT ![s] = << >>]
<1>1. /\ unit' = [unit EXCEPT ![s] = v] /\ buddies' = Listed(s, found)
      /\ running' = running \ {s}
      /\ rate' = [rate EXCEPT ![s] = DefaultRate]
      /\ hardware' = IF i # s /\ i \in running THEN [hardware EXCEPT ![on] = of]
                                                ELSE hardware
      /\ m_inputMessageQueue' = IF on = File THEN gone ELSE Told(gone, i, to, of)
      /\ misled' = misled \ (IF i \in running THEN {s, i} ELSE {s})
  BY DEF Change
<1>2. /\ i \in Sets /\ of \in Rates
      /\ gone \in [Sets -> Seq(Messages)]
      /\ \A t \in Sets \ {s} : gone[t] = m_inputMessageQueue[t]
  BY LastSet, Constants DEF Types, TypeOK
<1>3. i # s => to = Buddies(i)' /\ of = rate[i] /\ on = unit[i]
  BY <1>1 DEF Buddies
<1>4. /\ unit \in [Sets -> Units \cup {File}] /\ rate \in [Sets -> Rates]
      /\ hardware \in [Units -> Rates] /\ running \subseteq Sets
      /\ \A t \in running : unit[t] \in Units
  BY DEF Types, TypeOK
<1> HIDE DEF found, i, to, of, on, gone
<1> SUFFICES ASSUME NEW t \in running' \ misled' PROVE Knows(t)'
  BY DEF Informed
<1>5. /\ t \in running /\ t \in Sets /\ t # s /\ unit'[t] = unit[t]
      /\ rate'[t] = rate[t] /\ unit[t] \in Units /\ unit[t] # File
      /\ t # i => Knows(t)
      /\ i \notin running => Knows(t)
  BY <1>1, <1>4, Constants DEF Informed
<1>6. CASE i # s /\ i \in running /\ t = i
  <2>1. hardware'[unit[t]] = rate[t]
    BY <1>1, <1>3, <1>4, <1>5, <1>6
  <2> QED BY <1>5, <2>1 DEF Knows
<1>7. CASE i # s /\ i \in running /\ t # i
  <2>1. /\ m_inputMessageQueue' = Told(gone, i, to, of)
        /\ hardware' = [hardware EXCEPT ![on] = of]
    BY <1>1, <1>3, <1>4, <1>7, Constants
  <2>2. unit[t] = on => t \in to
    <3>1. i \in Sets \ {s} /\ unit'[i] = unit[i]
      BY <1>1, <1>2, <1>4, <1>7
    <3> QED BY <1>2, <1>3, <1>5, <1>7, <3>1 DEF Lists, ListsSame, Same, SameDevice
  <2> QED BY <1>2, <1>5, <1>7, <2>1, <2>2, HardwareTold
<1>8. CASE ~(i # s /\ i \in running)
  <2>1. Knows(t) /\ hardware' = hardware
    BY <1>1, <1>5, <1>8
  <2>2. Reported(m_inputMessageQueue[t]) => Reported(m_inputMessageQueue'[t])
    BY <1>1, <1>2, <1>5, ToldReported
  <2> QED BY <1>5, <2>1, <2>2 DEF Knows
<1> QED BY <1>6, <1>7, <1>8

(* Those that run on the unit of a device are its buddies.                 *)
LEMMA BuddyOf ==
  ASSUME Types, Lists, NEW s \in Sets, NEW t \in running, t # s,
         unit[t] = unit[s]
  PROVE  t \in Buddies(s)
  BY Constants DEF Types, TypeOK, Lists, ListsSame, Same, SameDevice

(* A start sets the rate of the hardware, and tells all.                   *)
LEMMA OthersInform ==
  ASSUME Types, Lists, Informed, NEW s \in Sets,
         Stop(s) \/ Start(s) \/ EnableFails(s) \/ ThreadFails(s)
  PROVE  Informed'
<1> SUFFICES ASSUME NEW t \in running' \ misled' PROVE Knows(t)'
  BY DEF Informed
<1>1. CASE Stop(s) \/ EnableFails(s) \/ ThreadFails(s)
  BY <1>1 DEF Stop, EnableFails, ThreadFails, Informed, Knows
<1>2. CASE Start(s)
  <2>1. /\ running' = running \cup {s} /\ misled' = misled \ {s}
        /\ rate' = [rate EXCEPT ![s] = rate[s]]
        /\ hardware' = [hardware EXCEPT ![unit[s]] = rate[s]]
        /\ m_inputMessageQueue' = Told(m_inputMessageQueue, s, Buddies(s), rate[s])
        /\ UNCHANGED unit /\ unit[s] # File
    BY <1>2 DEF Start, ApplySettings
  <2>2. /\ unit[s] \in Units /\ rate[s] \in Rates /\ rate' = rate
        /\ running \subseteq Sets /\ \A w \in running : unit[w] \in Units
        /\ hardware \in [Units -> Rates]
        /\ m_inputMessageQueue \in [Sets -> Seq(Messages)]
    BY <2>1 DEF Types, TypeOK
  <2>3. CASE t = s
    BY <2>1, <2>2, <2>3 DEF Knows
  <2>4. CASE t # s
    <3>1. t \in running /\ t \in Sets /\ Knows(t) /\ unit[t] \in Units
      BY <2>1, <2>2, <2>4 DEF Informed
    <3>2. unit[t] = unit[s] => t \in Buddies(s)
      BY <2>4, <3>1, BuddyOf
    <3> QED BY <2>1, <2>2, <3>1, <3>2, HardwareTold
  <2> QED BY <2>3, <2>4
<1> QED BY <1>1, <1>2

(* So do settings, if the device runs; a report leaves the rate of the     *)
(* hardware, or a device that is misled.                                   *)
LEMMA MessagesInform ==
  ASSUME Types, Lists, Informed, NEW s \in Sets,
         (\E r \in Rates : Configure(s, r)) \/ HandleSettings(s) \/ HandleReport(s)
  PROVE  Informed'
<1> SUFFICES ASSUME NEW t \in running' \ misled' PROVE Knows(t)'
  BY DEF Informed
<1>0. /\ running \subseteq Sets /\ \A w \in running : unit[w] \in Units
      /\ hardware \in [Units -> Rates] /\ rate \in [Sets -> Rates]
      /\ m_inputMessageQueue \in [Sets -> Seq(Messages)]
  BY DEF Types, TypeOK
<1>1. ASSUME NEW r \in Rates, Configure(s, r) PROVE Knows(t)'
  <2>1. /\ m_inputMessageQueue' = [m_inputMessageQueue EXCEPT ![s] = Append(@, Message("settings", r))]
        /\ UNCHANGED <<unit, running, rate, hardware, misled>>
    BY <1>1 DEF Configure
  <2>2. Message("settings", r) \in Messages /\ t \in Sets /\ Knows(t)
    BY <1>0, <2>1 DEF Message, Messages, Informed
  <2>3. Reported(m_inputMessageQueue[t]) => Reported(m_inputMessageQueue'[t])
    BY <1>0, <2>1, <2>2, ReportedAppend
  <2> QED BY <2>1, <2>2, <2>3 DEF Knows
<1>2. CASE HandleSettings(s)
  <2> DEFINE r == Head(m_inputMessageQueue[s]).rate
  <2>1. /\ m_inputMessageQueue[s] # << >> /\ Head(m_inputMessageQueue[s]).kind = "settings"
        /\ UNCHANGED <<unit, running>>
    BY <1>2 DEF HandleSettings
  <2>2. /\ Unhandled(s) \in [Sets -> Seq(Messages)] /\ r \in Rates
    BY <1>0, <2>1, HandledTyped DEF Messages
  <2>3. ASSUME NEW w \in Sets, Reported(m_inputMessageQueue[w])
        PROVE  Reported(Unhandled(s)[w])
    <3>1. CASE w = s
      BY <1>0, <2>1, <2>3, <3>1, ReportedTail DEF Unhandled
    <3>2. CASE w # s
      BY <1>0, <2>3, <3>2 DEF Unhandled
    <3> QED BY <3>1, <3>2
  <2>4. t \in Sets /\ t \in running
    BY <1>0, <2>1
  <2>5. CASE /\ ApplySettings(s, r, s \in running)
             /\ m_inputMessageQueue' = Told(Unhandled(s), s, Buddies(s), r)
             /\ misled' = IF s \in running THEN misled \ {s} ELSE misled
    <3>1. CASE t = s
      BY <1>0, <2>1, <2>2, <2>4, <2>5, <3>1 DEF ApplySettings, Knows
    <3>2. CASE t # s
      <4>1. Knows(t) /\ rate'[t] = rate[t] /\ unit'[t] = unit[t] /\ unit[t] \in Units
        BY <1>0, <2>1, <2>4, <2>5, <3>2 DEF ApplySettings, Informed
      <4>2. CASE s \in running
        <5>1. hardware' = [hardware EXCEPT ![unit[s]] = r]
          BY <2>5, <4>2 DEF ApplySettings
        <5>2. unit[t] = unit[s] => t \in Buddies(s)
          BY <2>4, <3>2, BuddyOf
        <5> QED BY <2>2, <2>3, <2>4, <2>5, <4>1, <5>1, <5>2, HardwareTold
      <4>3. CASE s \notin running
        <5>1. hardware' = hardware
          BY <2>5, <4>3 DEF ApplySettings
        <5>2. Reported(m_inputMessageQueue[t]) => Reported(m_inputMessageQueue'[t])
          BY <2>2, <2>3, <2>4, <2>5, ToldReported
        <5> QED BY <4>1, <5>1, <5>2 DEF Knows
      <4> QED BY <4>2, <4>3
    <3> QED BY <3>1, <3>2
  <2>6. CASE /\ m_inputMessageQueue' = Unhandled(s)
             /\ UNCHANGED <<rate, hardware, misled>>
    <3>1. Knows(t)
      BY <2>1, <2>6 DEF Informed
    <3> QED BY <2>1, <2>3, <2>4, <2>6, <3>1 DEF Knows
  <2> QED BY <1>2, <2>5, <2>6 DEF HandleSettings
<1>3. CASE HandleReport(s)
  <2> DEFINE r == Believed(s, Head(m_inputMessageQueue[s]))
  <2>1. /\ rate' = [rate EXCEPT ![s] = r]
        /\ m_inputMessageQueue' = Unhandled(s)
        /\ misled' = IF r = hardware[unit[s]] THEN misled \ {s} ELSE misled \cup {s}
        /\ UNCHANGED <<unit, running, hardware>>
    BY <1>3 DEF HandleReport
  <2> HIDE DEF r
  <2>2. CASE t = s
    BY <1>0, <2>1, <2>2 DEF Knows
  <2>3. CASE t # s
    <3>1. Knows(t) /\ t \in Sets
      BY <1>0, <2>1, <2>3 DEF Informed
    <3> QED BY <1>0, <2>1, <2>3, <3>1 DEF Knows, Unhandled
  <2> QED BY <2>2, <2>3
<1> QED BY <1>1, <1>2, <1>3

(* The inductive invariant.                                                *)
AgreeInv == Lists /\ Handles /\ HasLeader /\ Informed

(* It holds of device sets that all begin with a file, ...                 *)
LEMMA AgreeInit ==
  ASSUME Init
  PROVE  AgreeInv
<1>1. Lists
  <2>1. << >> \in Seq(Sets) /\ Once(<< >>) /\ ToSet(<< >>) = {}
    BY DEF Once, ToSet
  <2> QED BY <2>1 DEF Init, Lists, ListsOnce, ListsSame, ListsBothWays, Buddies
<1>2. Handles
  BY DEF Init, Handles, None
<1>3. HasLeader
  BY Constants DEF Init, HasLeader, Members
<1>4. Informed
  BY DEF Init, Informed
<1> QED BY <1>1, <1>2, <1>3, <1>4 DEF AgreeInv

(* The lists, the handles and the leaders change with the devices only. *)
LEMMA AgreeKept ==
  ASSUME AgreeInv, UNCHANGED <<unit, buddies, leader, params, open>>,
         \A s \in running' : s \in running \/ params[s] \in open
  PROVE  (Lists /\ Handles /\ HasLeader)'
<1>1. Lists'
  BY DEF AgreeInv, Lists, ListsOnce, ListsSame, ListsBothWays, Buddies, Same, SameDevice
<1>2. Handles'
  BY DEF AgreeInv, Handles
<1>3. HasLeader'
  BY DEF AgreeInv, HasLeader, Members
<1> QED BY <1>1, <1>2, <1>3

(* ... and each step keeps it.                                             *)
LEMMA AgreeNext ==
  ASSUME AgreeInv, Types, [Next]_vars
  PROVE  AgreeInv'
<1>1. CASE UNCHANGED vars
  <2>1. (Lists /\ Handles /\ HasLeader)'
    BY <1>1, AgreeKept DEF vars
  <2>2. Informed'
    BY <1>1 DEF vars, AgreeInv, Informed, Knows
  <2> QED BY <2>1, <2>2 DEF AgreeInv
<1>2. ASSUME NEW s \in Sets, NEW v \in Units \cup {File}, Change(s, v)
      PROVE  AgreeInv'
  <2>1. Lists'
    BY <1>2, ListsAfter DEF AgreeInv, Types, TypeOK
  <2> QED BY <1>2, <2>1, HandlesAfter, LeaderAfter, ChangeInforms DEF AgreeInv
<1>3. ASSUME NEW s \in Sets,
             Stop(s) \/ Start(s) \/ EnableFails(s) \/ ThreadFails(s)
      PROVE  AgreeInv'
  <2>1. /\ UNCHANGED <<unit, buddies, leader, params, open>>
        /\ \A t \in running' : t \in running \/ params[t] \in open
    BY <1>3 DEF Stop, Start, EnableFails, ThreadFails
  <2> QED BY <1>3, <2>1, AgreeKept, OthersInform DEF AgreeInv
<1>4. ASSUME NEW s \in Sets,
             (\E r \in Rates : Configure(s, r)) \/ HandleSettings(s) \/ HandleReport(s)
      PROVE  AgreeInv'
  <2>1. UNCHANGED <<unit, buddies, leader, params, open, running>>
    BY <1>4 DEF Configure, HandleSettings, HandleReport
  <2> QED BY <1>4, <2>1, AgreeKept, MessagesInform DEF AgreeInv
<1> QED BY <1>1, <1>2, <1>3, <1>4 DEF Next

(* Types, lists, handles, leaders and reports are kept together.           *)
THEOREM AgreementKept == Spec => [](Types /\ AgreeInv)
<1>1. Init => Types /\ AgreeInv
  BY TypesInit, AgreeInit
<1>2. Types /\ AgreeInv /\ Inv /\ Inv' /\ [Next]_vars => (Types /\ AgreeInv)'
  BY TypesNext, AgreeNext
<1> QED BY <1>1, <1>2, Suspensions, PTL DEF Spec

(* BuddiesAgree: whatever the order in which devices come, leave, run and  *)
(* fail, those of a unit list each other once, share one open handle and   *)
(* have a leader.                                                          *)
THEOREM BuddiesAlwaysAgree == Spec => []BuddiesAgree
<1>1. Types /\ AgreeInv => BuddiesAgree
  BY ListsMutual, HandlesHold DEF AgreeInv, BuddiesAgree
<1> QED BY <1>1, AgreementKept, PTL

(* RateTold: a device that runs and has handled its messages has the rate  *)
(* of the hardware, unless its last report misled it.                      *)
THEOREM RateIsTold == Spec => []RateTold
<1>1. Types /\ AgreeInv => RateTold
  BY DEF AgreeInv, Informed, Knows, Reported, RateTold
<1> QED BY <1>1, AgreementKept, PTL
=============================================================================
