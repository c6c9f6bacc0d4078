---------------------------- MODULE UDPSinkFEC ----------------------------
(***************************************************************************)
(* The sending side of a stream of samples protected by forward error      *)
(* correction (plugins/samplesink/sdrdaemonsink/udpsinkfec.cpp).  A frame  *)
(* has N blocks, of which block 0 has meta data and the others samples,    *)
(* and a number of recovery blocks.  write() fills frames on the thread of *)
(* the sink engine, where the timer of the SDRdaemonSinkThread calls it,   *)
(* and pushes each one to the queue of a worker.  The queue is connected   *)
(* directly: whoever pushes a message handles what is in the queue, there  *)
(* and then, and the thread of the worker only sleeps.  A change of the    *)
(* remote address is pushed by the main thread, which also stops the sink: *)
(* stopGeneration() does not wait for the engine, that may be in write().  *)
(*                                                                         *)
(* A frame goes by its place in the sequence frames, which a datagram does *)
(* not have: it has the number of the frame, modulo Wrap.                  *)
(***************************************************************************)
EXTENDS SDRdaemonFrames, Sequences

CONSTANTS
  FECs,       (* the numbers of recovery blocks one can ask for             *)
  m_cm256Valid, (* is the code for error correction there?                  *)
  None,
  MaxFrames,  (* bound: frames in a behaviour                               *)
  MaxChanges  (* bound: changes of the settings, stops and starts           *)

ASSUME SinkAssumption ==
  /\ FECs \subseteq 0..(256 - N) /\ FECs # {}  \* the index of a block is a byte
  /\ m_cm256Valid \in BOOLEAN
  /\ MaxFrames \in Nat /\ MaxChanges \in Nat
ASSUME NoneAssumption == None \notin FECs /\ None \notin Nat \X Nat

Threads == {"engine", "main"}

VARIABLES
  frames,      (* history: of each frame its number, the recovery blocks in  *)
               (* its meta data, and those it has                            *)
  m_sdrDaemonSinkThread, (* of the sink: is there a thread, with its         *)
               (* UDPSinkFEC and worker?                                     *)
  m_frameCount,
  building,    (* the recovery blocks in the meta data of the frame that     *)
               (* write() is filling, None when it is at a block 0           *)
  m_nbBlocksFEC,
  m_inputMessageQueue, (* of the worker: frames to send, or an address       *)
  handling,    (* the threads that are in handleInputMessages()              *)
  sending,     (* the frame and the block each is about to send, or None     *)
  sent,        (* history: the frames of which the last block was sent       *)
  unsent,      (* history: those that could not be encoded, or that were     *)
               (* waiting or being sent when their worker was deleted        *)
  changes

threadVars == <<m_sdrDaemonSinkThread, m_inputMessageQueue, handling, sending>>
sinkVars == <<frames, m_frameCount, building, m_nbBlocksFEC, threadVars,
              sent, unsent, changes>>

Address == 0

SinkInit ==
  /\ frames = << >> /\ m_frameCount = 0 /\ building = None
  /\ m_nbBlocksFEC \in FECs
  /\ m_sdrDaemonSinkThread = FALSE
  /\ m_inputMessageQueue = << >> /\ handling = {}
  /\ sending = [t \in Threads |-> None]
  /\ sent = {} /\ unsent = {}
  /\ changes = 0

(* start(), on the engine while the main thread waits for it.               *)
Start ==
  /\ ~m_sdrDaemonSinkThread /\ handling = {}
  /\ m_sdrDaemonSinkThread' = TRUE
  /\ m_frameCount' = 0 /\ building' = None
  /\ UNCHANGED <<frames, m_nbBlocksFEC, m_inputMessageQueue, handling, sending,
                 sent, unsent, changes>>

(* The frames that wait for a thread to send them, or that it is sending.   *)
Pending ==
  {f \in 1..Len(frames) :
     \/ \E i \in DOMAIN m_inputMessageQueue : m_inputMessageQueue[i] = f
     \/ \E t \in Threads : sending[t] # None /\ sending[t][1] = f}

(* stop(), on the main thread: the worker goes, and what is in its queue.   *)
(* If the engine is in write() it goes on in memory that was given back:    *)
(* it completes the frame it is filling or leaves it, and sends the frame   *)
(* it is sending, unless this ends the program.                             *)
Stop ==
  /\ m_sdrDaemonSinkThread /\ "main" \notin handling /\ changes < MaxChanges
  /\ m_sdrDaemonSinkThread' = FALSE
  /\ unsent' = unsent \cup Pending
  /\ m_inputMessageQueue' = << >>
  /\ building' \in {building, None}
  /\ changes' = changes + 1
  /\ UNCHANGED <<frames, m_frameCount, m_nbBlocksFEC, handling, sending, sent>>

(* It may be started again.                                                 *)
Crash ==
  /\ ~m_sdrDaemonSinkThread /\ ("engine" \in handling \/ building # None)
  /\ building' = None
  /\ m_inputMessageQueue' = << >> /\ handling' = {}
  /\ sending' = [t \in Threads |-> None]
  /\ UNCHANGED <<frames, m_frameCount, m_nbBlocksFEC, m_sdrDaemonSinkThread,
                 sent, unsent, changes>>

(* write() puts meta data in block 0 before the samples of a frame, ...     *)
BeginFrame ==
  /\ m_sdrDaemonSinkThread /\ "engine" \notin handling
  /\ building = None /\ Len(frames) < MaxFrames
  /\ building' = m_nbBlocksFEC
  /\ UNCHANGED <<frames, m_frameCount, m_nbBlocksFEC, threadVars,
                 sent, unsent, changes>>

(* ... reads the number of recovery blocks again at its end (from memory    *)
(* that may hold any, if it was given back), ...                            *)
NbBlocksFEC == IF m_sdrDaemonSinkThread THEN {m_nbBlocksFEC} ELSE FECs

(* A faulty form of CompleteFrame, for a mutant: the queue is connected to  *)
(* the thread of the worker, which has no event loop.                       *)
CompleteFrameQueued ==
  /\ "engine" \notin handling /\ building # None
  /\ \E n \in NbBlocksFEC :
       frames' = Append(frames, [number |-> m_frameCount, meta |-> building,
                                 fec |-> n])
  /\ m_inputMessageQueue' = Append(m_inputMessageQueue, Len(frames'))
  /\ unsent' = IF m_sdrDaemonSinkThread THEN unsent
                                        ELSE unsent \cup {Len(frames')}
  /\ m_frameCount' = (m_frameCount + 1) % Wrap
  /\ building' = None
  /\ UNCHANGED <<m_nbBlocksFEC, m_sdrDaemonSinkThread, handling, sending, sent,
                 changes>>

(* ... and has the frame sent by pushTxFrame().                             *)
CompleteFrame ==
  /\ "engine" \notin handling /\ building # None
  /\ \E n \in NbBlocksFEC :
       frames' = Append(frames, [number |-> m_frameCount, meta |-> building,
                                 fec |-> n])
  /\ m_inputMessageQueue' = Append(m_inputMessageQueue, Len(frames'))
  /\ unsent' = IF m_sdrDaemonSinkThread THEN unsent
                                        ELSE unsent \cup {Len(frames')}
  /\ m_frameCount' = (m_frameCount + 1) % Wrap
  /\ building' = None
  /\ handling' = handling \cup {"engine"}
  /\ UNCHANGED <<m_nbBlocksFEC, m_sdrDaemonSinkThread, sending, sent, changes>>

(* applySettings() of the sink, on the main thread, calls these two when    *)
(* there is a thread; start() passes the settings to a new one.             *)
SetNbBlocksFEC(n) ==
  /\ "main" \notin handling /\ n # m_nbBlocksFEC /\ changes < MaxChanges
  /\ m_nbBlocksFEC' = n
  /\ changes' = changes + 1
  /\ UNCHANGED <<frames, m_frameCount, building, threadVars, sent, unsent>>

SetRemoteAddress ==
  /\ m_sdrDaemonSinkThread /\ "main" \notin handling /\ changes < MaxChanges
  /\ m_inputMessageQueue' = Append(m_inputMessageQueue, Address)
  /\ handling' = handling \cup {"main"}
  /\ changes' = changes + 1
  /\ UNCHANGED <<frames, m_frameCount, building, m_nbBlocksFEC,
                 m_sdrDaemonSinkThread, sending, sent, unsent>>

(* handleInputMessages(): while there is a message, pop it; a frame is      *)
(* sent before the next message is popped.                                  *)
Pop(t) ==
  /\ t \in handling /\ sending[t] = None
  /\ IF m_inputMessageQueue = << >>
       THEN /\ handling' = handling \ {t}
            /\ UNCHANGED <<m_inputMessageQueue, sending>>
       ELSE LET message == Head(m_inputMessageQueue)
            IN /\ m_inputMessageQueue' = Tail(m_inputMessageQueue)
               /\ sending' = IF message = Address THEN sending
                             ELSE [sending EXCEPT ![t] = <<message, 0>>]
               /\ UNCHANGED handling
  /\ UNCHANGED <<frames, m_frameCount, building, m_nbBlocksFEC,
                 m_sdrDaemonSinkThread, sent, unsent, changes>>

(* encodeAndTransmit(): without the code for error correction a frame has   *)
(* no recovery blocks.                                                      *)
Recovery(f) == IF m_cm256Valid THEN frames[f].fec ELSE 0

Blocks(f) == N + Recovery(f)

(* "encode failed. No transmission."                                        *)
EncodeFails(t) ==
  /\ sending[t] # None /\ sending[t][2] = 0 /\ Recovery(sending[t][1]) > 0
  /\ sending' = [sending EXCEPT ![t] = None]
  /\ unsent' = unsent \cup {sending[t][1]}
  /\ UNCHANGED <<frames, m_frameCount, building, m_nbBlocksFEC,
                 m_sdrDaemonSinkThread, m_inputMessageQueue, handling, sent,
                 changes>>

Datagram(t) ==
  [number |-> frames[sending[t][1]].number, block |-> sending[t][2],
   frame  |-> sending[t][1]]

(* The blocks of a frame are sent one after the other.                      *)
Transmit(t) ==
  /\ sending[t] # None
  /\ LET f == sending[t][1]
         b == sending[t][2]
         last == b + 1 = Blocks(f)
     IN /\ sending' = [sending EXCEPT ![t] = IF last THEN None ELSE <<f, b + 1>>]
        /\ sent' = IF last THEN sent \cup {f} ELSE sent
  /\ UNCHANGED <<frames, m_frameCount, building, m_nbBlocksFEC,
                 m_sdrDaemonSinkThread, m_inputMessageQueue, handling, unsent,
                 changes>>

(* All but the transmission, which is an action of the stream too.          *)
SinkStep ==
  \/ Start \/ Stop \/ Crash
  \/ BeginFrame \/ CompleteFrame \/ SetRemoteAddress
  \/ \E n \in FECs : SetNbBlocksFEC(n)
  \/ \E t \in Threads : Pop(t) \/ EncodeFails(t)

Ids == 1..MaxFrames

(* Each frame that is complete is sent, to its last block, by the thread    *)
(* that filled it or by the one that changes the address, before both have  *)
(* left handleInputMessages(): as either empties the queue, none is left    *)
(* there until a later frame comes.  It is not if it cannot be encoded, or  *)
(* if the sink is stopped before the end.                                   *)
EveryFrameSent == handling = {} => 1..Len(frames) \subseteq sent \cup unsent
=============================================================================
