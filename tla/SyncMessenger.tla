---------------------------- MODULE SyncMessenger ----------------------------
(***************************************************************************)
(* Synchronous commands to a DSP engine (sdrbase/util/syncmessenger.cpp    *)
(* and its use by the two device engines).  The caller is the main thread: *)
(*   - most commands go through sendWait(): the message, a local variable  *)
(*     of the caller, is stored, a queued signal asks the thread of the    *)
(*     engine to handle it, and the caller sleeps on a condition that it   *)
(*     polls every 100 ms;                                                 *)
(*   - stopAcquistion() and stopGeneration() store the message and run     *)
(*     handleSynchronousMessages() themselves, on the caller's thread.     *)
(* done() does not take the mutex, so nothing but the order of its three   *)
(* statements and the polling keeps the two threads together.  The mutex   *)
(* is taken by the caller alone; it is left out.                           *)
(***************************************************************************)
EXTENDS Naturals, Sequences

CONSTANT MaxCalls  (* bound: how many calls the caller makes *)

ASSUME CallsAssumption == MaxCalls \in Nat

VARIABLES
  m_message,   (* the message stored: the number of its call, 0 before any *)
  m_complete,  (* the atomic flag                                          *)
  m_result,    (* the result of the last message; that of message k is k   *)
  signals,     (* messageSent() queued for the engine's thread             *)
  pc,          (* where the "caller" and the "engine" are                  *)
  held,        (* the pointer each thread has in handleSynchronousMessages *)
  call,        (* the number of the last call that began                   *)
  executed,    (* history: the messages processed, in order                *)
  returned     (* history: the results returned, in order                  *)

messengerVars == <<m_message, m_complete, m_result, signals, pc, held,
                   call, executed, returned>>

Threads == {"caller", "engine"}

MessengerInit ==
  /\ m_message = 0 /\ m_complete = FALSE /\ m_result = 0
  /\ signals = 0
  /\ pc = [t \in Threads |-> "idle"]
  /\ held = [t \in Threads |-> 0]
  /\ call = 0 /\ executed = << >> /\ returned = << >>

Goto(t, where) == pc' = [pc EXCEPT ![t] = where]
-----------------------------------------------------------------------------
(* The main thread begins another call by storing its message; either way  *)
(* of calling starts so.                                                   *)
Begin(where) ==
  /\ pc["caller"] = "idle" /\ call < MaxCalls
  /\ call' = call + 1
  /\ m_message' = call + 1
  /\ Goto("caller", where)
  /\ UNCHANGED <<m_complete, m_result, signals, held, executed, returned>>

BeginSendWait == Begin("clear")
CallDirectly == Begin("get")

(* A faulty form of Clear, for a mutant: the flag of the call before stays. *)
KeepsFlag ==
  /\ pc["caller"] = "clear"
  /\ Goto("caller", "emit")
  /\ UNCHANGED <<m_message, m_complete, m_result, signals, held,
                 call, executed, returned>>

(* m_complete.store(0), before the signal that lets the engine set it. *)
Clear ==
  /\ pc["caller"] = "clear"
  /\ m_complete' = FALSE
  /\ Goto("caller", "emit")
  /\ UNCHANGED <<m_message, m_result, signals, held, call, executed, returned>>

(* emit messageSent(): the connection is queued. *)
Emit ==
  /\ pc["caller"] = "emit"
  /\ signals' = signals + 1
  /\ Goto("caller", "check")
  /\ UNCHANGED <<m_message, m_complete, m_result, held,
                 call, executed, returned>>

(* while (!m_complete.load()): the flag is read before the condition is     *)
(* waited for, and done() may run in between.                               *)
Check ==
  /\ pc["caller"] = "check"
  /\ Goto("caller", IF m_complete THEN "return" ELSE "sleep")
  /\ UNCHANGED <<m_message, m_complete, m_result, signals, held,
                 call, executed, returned>>

Sleep ==
  /\ pc["caller"] = "sleep"
  /\ Goto("caller", "asleep")
  /\ UNCHANGED <<m_message, m_complete, m_result, signals, held,
                 call, executed, returned>>

(* Faulty forms of Timeout, for mutants: the caller gives up the call; it   *)
(* signals again; there is no timeout.                                      *)
TimeoutReturns ==
  /\ pc["caller"] = "asleep"
  /\ Goto("caller", "return")
  /\ UNCHANGED <<m_message, m_complete, m_result, signals, held,
                 call, executed, returned>>

TimeoutResends ==
  /\ pc["caller"] = "asleep" /\ signals < 3
  /\ signals' = signals + 1
  /\ Goto("caller", "check")
  /\ UNCHANGED <<m_message, m_complete, m_result, held,
                 call, executed, returned>>

NoTimeout == FALSE

(* m_waitCondition.wait(&m_mutex, msPollTime) gives up after 100 ms. *)
Timeout ==
  /\ pc["caller"] = "asleep"
  /\ Goto("caller", "check")
  /\ UNCHANGED <<m_message, m_complete, m_result, signals, held,
                 call, executed, returned>>

(* The caller reads the result and its message goes out of scope. *)
Return ==
  /\ pc["caller"] = "return"
  /\ returned' = Append(returned, m_result)
  /\ Goto("caller", "idle")
  /\ UNCHANGED <<m_message, m_complete, m_result, signals, held,
                 call, executed>>
-----------------------------------------------------------------------------
(* The event loop of the engine delivers messageSent(). *)
TakeEvent ==
  /\ pc["engine"] = "idle" /\ signals > 0
  /\ signals' = signals - 1
  /\ Goto("engine", "get")
  /\ UNCHANGED <<m_message, m_complete, m_result, held,
                 call, executed, returned>>

(* handleSynchronousMessages(), on thread t: it gets the message ... *)
GetMessage(t) ==
  /\ pc[t] = "get"
  /\ held' = [held EXCEPT ![t] = m_message]
  /\ Goto(t, "process")
  /\ UNCHANGED <<m_message, m_complete, m_result, signals,
                 call, executed, returned>>

(* ... does what it says ... *)
Process(t) ==
  /\ pc[t] = "process"
  /\ executed' = Append(executed, held[t])
  /\ Goto(t, "result")
  /\ UNCHANGED <<m_message, m_complete, m_result, signals, held,
                 call, returned>>

(* ... and calls done(), which sets the result ... *)
SetResult(t) ==
  /\ pc[t] = "result"
  /\ m_result' = held[t]
  /\ Goto(t, "complete")
  /\ UNCHANGED <<m_message, m_complete, signals, held,
                 call, executed, returned>>

(* ... then the flag ... *)
SetComplete(t) ==
  /\ pc[t] = "complete"
  /\ m_complete' = TRUE
  /\ Goto(t, "wake")
  /\ UNCHANGED <<m_message, m_result, signals, held,
                 call, executed, returned>>

(* ... and wakes whoever is asleep at that moment. *)
WakeAll(t) ==
  /\ pc[t] = "wake"
  /\ pc' = [u \in Threads |->
              IF u = t THEN (IF t = "caller" THEN "return" ELSE "idle")
              ELSE IF pc[u] = "asleep" THEN "check" ELSE pc[u]]
  /\ UNCHANGED <<m_message, m_complete, m_result, signals, held,
                 call, executed, returned>>

Handle(t) == \/ GetMessage(t) \/ Process(t) \/ SetResult(t)
             \/ SetComplete(t) \/ WakeAll(t)

CallerThread == \/ Clear \/ Emit \/ Check \/ Sleep \/ Timeout \/ Return
                \/ Handle("caller")
EngineThread == TakeEvent \/ Handle("engine")

MessengerNext == BeginSendWait \/ CallDirectly \/ CallerThread \/ EngineThread

MessengerSpec == MessengerInit /\ [][MessengerNext]_messengerVars

(* Both threads are scheduled and the wait times out.  Nothing obliges the  *)
(* main thread to make another call.                                        *)
FairMessengerSpec ==
  MessengerSpec /\ WF_messengerVars(CallerThread) /\ WF_messengerVars(EngineThread)
-----------------------------------------------------------------------------
(* At most one signal is ever queued, and each thread is somewhere in the   *)
(* code it can run: the values syncmessenger.cpp can be in.                 *)
HandlerPlaces == {"get", "process", "result", "complete", "wake"}

MessengerTypeOK ==
  /\ m_message \in 0..MaxCalls /\ m_result \in 0..MaxCalls
  /\ m_complete \in BOOLEAN /\ signals \in 0..1
  /\ pc \in [Threads -> HandlerPlaces \cup
               {"idle", "clear", "emit", "check", "sleep", "asleep", "return"}]
  /\ pc["engine"] \in HandlerPlaces \cup {"idle"}
  /\ held \in [Threads -> 0..MaxCalls]
  /\ call \in 0..MaxCalls
  /\ executed \in Seq(0..MaxCalls) /\ returned \in Seq(0..MaxCalls)

(* The message is a local variable of the caller.  A thread goes through it *)
(* in handleSynchronousMessages() only while that very call is still        *)
(* running, although done() and the wait share no lock.                     *)
MessageAlive ==
  \A t \in Threads :
    pc[t] \in {"get", "process", "result"} =>
      /\ pc["caller"] # "idle" /\ m_message = call
      /\ pc[t] # "get" => held[t] = call

(* sendWait() returns: a wake-up that falls between the caller's last look  *)
(* at the flag and its going to sleep costs 100 ms, not the call.           *)
EveryCallReturns ==
  \A k \in 1..MaxCalls : (call = k) ~> (Len(returned) >= k)

(* Each message is processed once, within its call, which returns its own   *)
(* result: the messenger implements SyncCall.                               *)
Sync == INSTANCE SyncCall WITH begun <- call

ImplementsSyncCall == Sync!Spec
=============================================================================
