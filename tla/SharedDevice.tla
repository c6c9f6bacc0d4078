---------------------------- MODULE SharedDevice ----------------------------
(***************************************************************************)
(* Device sets whose device is a channel of the same hardware: "buddies",  *)
(* which keep lists of each other (sdrbase/device/devicesourceapi.cpp,     *)
(* devicesinkapi.cpp), share one handle of the hardware, stop each other's *)
(* streams for the time they change it, and tell each other its rate       *)
(* (plugins/samplesource/limesdrinput, plugins/samplesink/limesdroutput,   *)
(* whose hardware has one clock for all channels, stand for them).  Device *)
(* sets change their device in sdrgui/mainwindow.cpp.                      *)
(*                                                                         *)
(* All of it runs on the main thread or while that waits for an engine, so *)
(* an action is an operation.  What goes between the devices as messages   *)
(* comes later, in the order of each queue.  A device set that is removed  *)
(* goes through the same steps as one that goes to another device.         *)
(***************************************************************************)
EXTENDS Naturals, SequencesExt, FiniteSets

CONSTANTS
  NSets,        (* the device sets, numbered as in m_deviceUIs              *)
  Sources,      (* those that receive; the others transmit                  *)
  Units,        (* hardware with several channels each way                  *)
  File,         (* where a set begins: a file source or a file sink         *)
  Rates,        (* sample rates                                             *)
  DefaultRate,  (* of new settings                                          *)
  MaxMessages   (* bound: messages waiting for all the devices together     *)

Sets  == 1..NSets
Sinks == Sets \ Sources

ASSUME SetsAssumption == NSets \in Nat \ {0} /\ Sources \subseteq Sets
(* The initialisation of a sink device looks for it in the last device set. *)
ASSUME LastAssumption == Sinks # {} => NSets \in Sinks
ASSUME UnitsAssumption == File \notin Units
ASSUME RatesAssumption == DefaultRate \in Rates /\ MaxMessages \in Nat \ {0}

VARIABLES
  unit,     (* the hardware of each device set                              *)
  buddies,  (* m_sourceBuddies and m_sinkBuddies of each, in one list       *)
  leader,   (* m_isBuddyLeader                                              *)
  params,   (* m_deviceShared.m_deviceParams: who made the parameters       *)
  open,     (* the parameters that hold the hardware open                   *)
  running,  (* m_running, and m_channelAcquired                             *)
  threads,  (* those that run, and those with m_threadWasRunning            *)
  rate,     (* m_settings.m_devSampleRate                                   *)
  hardware, (* the rate of each unit                                        *)
  m_inputMessageQueue, (* of each device                                    *)
  silenced, (* history: whose threads a failure has ended                   *)
  misled    (* history: devices whose last report was not, or no longer,    *)
            (* of the rate of the hardware                                  *)

vars == <<unit, buddies, leader, params, open, running, threads, rate,
          hardware, m_inputMessageQueue, silenced, misled>>

None == <<0, File>>

Init ==
  /\ unit = [s \in Sets |-> File]       /\ buddies = [s \in Sets |-> << >>]
  /\ leader = [s \in Sets |-> s = 1]    /\ params = [s \in Sets |-> None]
  /\ open = {} /\ running = {} /\ threads = [running |-> {}, wasRunning |-> {}]
  /\ rate = [s \in Sets |-> DefaultRate]
  /\ hardware = [u \in Units |-> DefaultRate]
  /\ m_inputMessageQueue = [s \in Sets |-> << >>]
  /\ silenced = {} /\ misled = {}
-----------------------------------------------------------------------------
(* A faulty form of Suspended, for a mutant: the flag of a buddy that does  *)
(* not stream is left as it is.                                             *)
SuspendedWithoutReset(others) ==
  [running    |-> threads.running \ others,
   wasRunning |-> threads.wasRunning \cup (others \cap threads.running)]

(* suspendRxBuddies() and suspendTxBuddies(): their threads end, and a flag *)
(* says which of them ran.                                                  *)
Suspended(others) ==
  [running    |-> threads.running \ others,
   wasRunning |-> (threads.wasRunning \ others) \cup (others \cap threads.running)]

(* resumeTxBuddies() and resumeRxBuddies(), at the end of the same access   *)
(* to the hardware.                                                         *)
Resumed(others) ==
  LET suspended == Suspended(others)
  IN [suspended EXCEPT !.running = @ \cup (others \cap suspended.wasRunning)]

Without(s, t) == [running |-> t.running \ {s}, wasRunning |-> t.wasRunning \ {s}]

Buddies(s) == ToSet(buddies[s])

(* What a message says: a rate asked for by the GUI or a web request, or    *)
(* the MsgReportBuddyChange of a source ("rx") or of a sink ("tx").         *)
Message(k, r) == [kind |-> k, rate |-> r]

Report(s) == IF s \in Sources THEN "rx" ELSE "tx"

(* Room for a message to each of some devices, within the bound.            *)
Room(to) ==
  Cardinality(to) + Cardinality(UNION {{s} \X DOMAIN m_inputMessageQueue[s] : s \in Sets})
    <= MaxMessages

(* A faulty form of Told, for a mutant: sources tell sources only.          *)
ToldOwnKind(queues, s, to, r) ==
  [t \in Sets |-> IF t \in to /\ (s \in Sources => t \in Sources)
                    THEN Append(queues[t], Message(Report(s), r))
                    ELSE queues[t]]

(* "forward change to all buddies" *)
Told(queues, s, to, r) ==
  [t \in Sets |-> IF t \in to THEN Append(queues[t], Message(Report(s), r))
                              ELSE queues[t]]

(* applySettings(): the hardware gets the rate of a device that has its     *)
(* channel, and not that of one that has not.                               *)
ApplySettings(s, r, acquired) ==
  /\ rate' = [rate EXCEPT ![s] = r]
  /\ hardware' = IF acquired THEN [hardware EXCEPT ![unit[s]] = r] ELSE hardware
-----------------------------------------------------------------------------
(* The same hardware: the hardware id and the serial number. *)
SameDevice(s, v) ==
  {t \in Sets \ {s} : /\ unit[t] = v
                      /\ v = File => (t \in Sources <=> s \in Sources)}

(* The first of a list that is of a kind, if any. *)
FirstOf(list, kind) ==
  {list[i] : i \in {n \in DOMAIN list : /\ list[n] \in kind
                                        /\ \A m \in 1..(n - 1) : list[m] \notin kind}}

(* A faulty form of Heirs, for a mutant: a source looks at sources only.    *)
HeirsAmongSources(s) ==
  IF leader[s] THEN FirstOf(buddies[s], Sources) ELSE {}

(* clearBuddiesLists(): the first source, or else the first sink.           *)
Heirs(s) ==
  CASE ~leader[s]                                     -> {}
    [] leader[s] /\ Buddies(s) \cap Sources # {}      -> FirstOf(buddies[s], Sources)
    [] leader[s] /\ Buddies(s) \cap Sources = {}      -> FirstOf(buddies[s], Sinks)

(* Device sets in their order: the one at a place has as many up to it. *)
InOrder(sets) ==
  [i \in 1..Cardinality(sets) |->
    CHOOSE s \in sets : Cardinality({t \in sets : t <= s}) = i]

(* clearBuddiesLists(): each in the list of s takes s off its own, where it *)
(* is first.                                                                *)
Left(s) == [t \in Sets |-> IF t \in Buddies(s) THEN RemoveFirst(buddies[t], s)
                                               ELSE buddies[t]]

(* A faulty form of Listed, for a mutant: the new one lists the others, and *)
(* is listed by none.                                                       *)
ListedOneWay(s, found) == [Left(s) EXCEPT ![s] = InOrder(found)]

(* addSourceBuddy() and addSinkBuddy() of each one found, both ways.        *)
Listed(s, found) ==
  [t \in Sets |-> CASE t = s                   -> InOrder(found)
                    [] t # s /\ t \in found    -> Append(Left(s)[t], s)
                    [] t # s /\ t \notin found -> Left(s)[t]]

(* A faulty form of Closed, for a mutant: a source that has no source for   *)
(* a buddy closes the device.                                               *)
ClosedOwnKind(s) ==
  IF Buddies(s) \cap Sources = {} THEN {params[s]} ELSE {}

(* closeDevice(): "No buddies so effectively close the device".             *)
Closed(s) == IF buddies[s] = << >> THEN {params[s]} ELSE {}

(* openDevice(): the parameters of the first source, or else of the first   *)
(* sink, which are there; or new ones, of which opening may fail.           *)
OpenDevice(s, v, found) ==
  LET asked == IF found \cap Sources # {} THEN found \cap Sources ELSE found
  IN IF v = File
       THEN params' = [params EXCEPT ![s] = None] /\ open' = open \ Closed(s)
       ELSE IF found # {}
       THEN \E first \in asked :
              /\ \A t \in asked : first <= t
              /\ params' = [params EXCEPT ![s] = params[first]]
              /\ open' = open \ Closed(s)
       ELSE /\ params' = [params EXCEPT ![s] = <<s, v>>]
            /\ open' \in {open \ Closed(s), (open \ Closed(s)) \cup {<<s, v>>}}

(* init() of the new device, as sampleSourceChanged() calls it; what        *)
(* sampleSinkChanged() calls is the init() of the last device set.          *)
Initialised(s) == IF s \in Sources THEN s ELSE NSets

(* sampleSourceChanged(), sampleSinkChanged(): the acquisition is stopped,  *)
(* the old device is deleted and then taken off the lists, the new one is   *)
(* put on the lists and constructed, and one is initialised, which forwards *)
(* its settings to its buddies.                                             *)
Change(s, v) ==
  LET found == SameDevice(s, v)
      i     == Initialised(s)
      to    == IF i = s THEN found ELSE ToSet(Listed(s, found)[i])
      of    == IF i = s THEN DefaultRate ELSE rate[i]
      on    == IF i = s THEN v ELSE unit[i]
      gone  == [m_inputMessageQueue EXCEPT ![s] = << >>]
  IN /\ unit[s] # v
     /\ Room(to)
     /\ unit' = [unit EXCEPT ![s] = v]
     /\ buddies' = Listed(s, found)
     /\ leader' = [t \in Sets |-> \/ leader[t] \/ t \in Heirs(s)
                                  \/ t = s /\ found = {}]
     /\ OpenDevice(s, v, found)
     /\ running' = running \ {s}
     /\ threads' = Without(s, Resumed(Buddies(s) \cup found \cup to))
     /\ rate' = [rate EXCEPT ![s] = DefaultRate]
     /\ hardware' = IF i # s /\ i \in running THEN [hardware EXCEPT ![on] = of]
                                              ELSE hardware
     /\ m_inputMessageQueue' = IF on = File THEN gone ELSE Told(gone, i, to, of)
     /\ silenced' = silenced \ {s}
     /\ misled' = misled \ (IF i \in running THEN {s, i} ELSE {s})
-----------------------------------------------------------------------------
(* A faulty form of Stop, for a mutant: the buddies are not resumed.        *)
StopWithoutResume(s) ==
  /\ s \in running
  /\ running' = running \ {s}
  /\ threads' = [Suspended(Buddies(s)) EXCEPT !.running = @ \ {s}]
  /\ silenced' = silenced \ {s}
  /\ UNCHANGED <<unit, buddies, leader, params, open, rate, hardware,
                 m_inputMessageQueue, misled>>

(* stopAcquisition(), stopGeneration(): stop(), with the buddies suspended  *)
(* while the channel is released.                                           *)
Stop(s) ==
  /\ s \in running
  /\ running' = running \ {s}
  /\ threads' = [Resumed(Buddies(s)) EXCEPT !.running = @ \ {s}]
  /\ silenced' = silenced \ {s}
  /\ UNCHANGED <<unit, buddies, leader, params, open, rate, hardware,
                 m_inputMessageQueue, misled>>

(* startAcquisition(), startGeneration() of a device that does not run (one *)
(* that does is stopped before): it acquires its channel, applies its       *)
(* settings and starts its thread, ...                                      *)
Start(s) ==
  /\ unit[s] # File /\ s \notin running /\ params[s] \in open
  /\ Room(Buddies(s))
  /\ running' = running \cup {s}
  /\ threads' = [Resumed(Buddies(s)) EXCEPT !.running = @ \cup {s}]
  /\ ApplySettings(s, rate[s], TRUE)
  /\ m_inputMessageQueue' =
       Told(m_inputMessageQueue, s, Buddies(s), rate[s])
  /\ misled' = misled \ {s}
  /\ UNCHANGED <<unit, buddies, leader, params, open, silenced>>

(* ... or cannot enable the channel: acquireChannel() returns, and the      *)
(* buddies it has suspended are not resumed.                                *)
EnableFails(s) ==
  /\ unit[s] # File /\ s \notin running /\ params[s] \in open
  /\ threads' = Suspended(Buddies(s))
  /\ silenced' = silenced \cup (Buddies(s) \cap threads.running)
  /\ UNCHANGED <<unit, buddies, leader, params, open, running, rate, hardware,
                 m_inputMessageQueue, misled>>

(* A thread that cannot read or write ends by itself. *)
ThreadFails(s) ==
  /\ s \in threads.running
  /\ threads' = [threads EXCEPT !.running = @ \ {s}]
  /\ silenced' = silenced \cup {s}
  /\ UNCHANGED <<unit, buddies, leader, params, open, running, rate, hardware,
                 m_inputMessageQueue, misled>>
-----------------------------------------------------------------------------
Configure(s, r) ==
  /\ unit[s] # File /\ Room({s})
  /\ m_inputMessageQueue' =
       [m_inputMessageQueue EXCEPT ![s] = Append(@, Message("settings", r))]
  /\ UNCHANGED <<unit, buddies, leader, params, open, running, threads, rate,
                 hardware, silenced, misled>>

Unhandled(s) == [m_inputMessageQueue EXCEPT ![s] = Tail(@)]

(* handleMessage() of a MsgConfigureLimeSDR, which may force the settings   *)
(* on the device: what has not changed is otherwise left alone.  A change   *)
(* of clock is followed by a calibration, with the buddies suspended.       *)
HandleSettings(s) ==
  LET r == Head(m_inputMessageQueue[s]).rate
  IN /\ m_inputMessageQueue[s] # << >>
     /\ Head(m_inputMessageQueue[s]).kind = "settings"
     /\ \/ /\ Room(Buddies(s))
           /\ ApplySettings(s, r, s \in running)
           /\ threads' = Resumed(Buddies(s))
           /\ m_inputMessageQueue' = Told(Unhandled(s), s, Buddies(s), r)
           /\ misled' = IF s \in running THEN misled \ {s} ELSE misled
        \/ /\ r = rate[s]
           /\ m_inputMessageQueue' = Unhandled(s)
           /\ UNCHANGED <<rate, hardware, misled, threads>>
     /\ UNCHANGED <<unit, buddies, leader, params, open, running, silenced>>

(* handleMessage() of a MsgReportBuddyChange: a device believes one of its  *)
(* own kind, and asks the hardware for the rate if the other way has        *)
(* changed it.  Without a channel to ask, a sink believes that one too; a   *)
(* source leaves its rate as it is.                                         *)
Believed(s, report) ==
  CASE report.kind = Report(s)                         -> report.rate
    [] report.kind # Report(s) /\ s \in running        -> hardware[unit[s]]
    [] report.kind # Report(s) /\ s \in Sinks \ running -> report.rate
    [] OTHER                                           -> rate[s]

HandleReport(s) ==
  LET report == Head(m_inputMessageQueue[s])
      r == Believed(s, report)
  IN /\ m_inputMessageQueue[s] # << >> /\ report.kind # "settings"
     /\ rate' = [rate EXCEPT ![s] = r]
     /\ m_inputMessageQueue' = Unhandled(s)
     /\ misled' = IF r = hardware[unit[s]] THEN misled \ {s} ELSE misled \cup {s}
     /\ UNCHANGED <<unit, buddies, leader, params, open, running, threads,
                    hardware, silenced>>

Next == \E s \in Sets : \/ \E v \in Units \cup {File} : Change(s, v)
                        \/ Stop(s) \/ Start(s) \/ EnableFails(s) \/ ThreadFails(s)
                        \/ \E r \in Rates : Configure(s, r)
                        \/ HandleSettings(s) \/ HandleReport(s)

Spec == Init /\ [][Next]_vars
-----------------------------------------------------------------------------
Members(u) == {s \in Sets : unit[s] = u}

(* The types; and no thread runs of a device that does not, so that none is *)
(* started when another device ends its access to the hardware.             *)
TypeOK ==
  /\ unit \in [Sets -> Units \cup {File}]
  /\ leader \in [Sets -> BOOLEAN]
  /\ params \in [Sets -> (Sets \X Units) \cup {None}] /\ open \subseteq Sets \X Units
  /\ threads.running \subseteq running /\ running \subseteq Sets
  /\ threads.wasRunning \subseteq Sets
  /\ rate \in [Sets -> Rates] /\ hardware \in [Units -> Rates]
  /\ \A s \in Sets : m_inputMessageQueue[s] \in
       Seq([kind : {"settings", "rx", "tx"}, rate : Rates])
  /\ silenced \subseteq running /\ misled \subseteq Sets

(* The devices of a unit, and they only, are buddies of each other, and     *)
(* each is in the list of the other once: nobody is told of a change, or    *)
(* suspended, twice or not at all, and no list has a device that left.      *)
BuddiesMutual ==
  \A u \in Units : \A s \in Members(u) :
    /\ Buddies(s) = Members(u) \ {s}
    /\ Len(buddies[s]) = Cardinality(Members(u)) - 1

(* All the devices of a unit work with the same handle of it; no unit is    *)
(* open twice, or left open when its last device goes; none that runs has   *)
(* its handle closed by another that leaves.                                *)
OneHandle ==
  /\ \A u \in Units : \A s, t \in Members(u) : params[s] = params[t]
  /\ \A h \in open : \E s \in Members(h[2]) : params[s] = h
  /\ \A s \in running : params[s] \in open /\ params[s][2] = unit[s]

(* Each unit in use has a device that leads, whoever comes and goes: it is  *)
(* the one that asks the hardware for its state.                            *)
HasLeader == \A u \in Units : Members(u) # {} => \E s \in Members(u) : leader[s]

(* So whatever the order in which buddies come, leave and run, those of a   *)
(* unit know each other, share it, and have one that leads.                 *)
BuddiesAgree == BuddiesMutual /\ OneHandle /\ HasLeader

(* A device that runs, has handled its messages, and whose last report was  *)
(* not of a rate that the hardware did not get or no longer has, has the    *)
(* rate of the hardware: every change of it reaches every device.           *)
RateTold ==
  \A s \in running \ misled :
    m_inputMessageQueue[s] = << >> => rate[s] = hardware[unit[s]]

(* Suspensions end: a device that runs has its thread running, unless that  *)
(* failed or was suspended by a buddy that could not enable its channel.    *)
Streaming == running \ silenced \subseteq threads.running
=============================================================================
