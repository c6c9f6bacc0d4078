--------------------------- MODULE SampleSinkFifo ---------------------------
(***************************************************************************)
(* The ring buffer of the receive path (sdrbase/dsp/samplesinkfifo.cpp)    *)
(* between the thread of a device, which writes blocks of samples, and the *)
(* one thread that drains it:                                              *)
(*   - "engine": DSPDeviceSourceEngine::work() takes the two parts of the  *)
(*     readable region, feeds both to the sinks and then commits them;     *)
(*   - "threaded": ThreadedBasebandSampleSinkFifo::handleFifoData()        *)
(*     commits each part as soon as it has been fed.                       *)
(* Every method of the FIFO holds m_mutex from end to end, so a method is  *)
(* one step.  What the mutex does not cover is the region readBegin() has  *)
(* handed out: the reader goes through it with the mutex released, while   *)
(* the writer keeps writing.                                               *)
(***************************************************************************)
EXTENDS Naturals, Sequences

CONSTANTS Size,        (* m_size: the number of slots, fixed by create()    *)
          MaxBlock,    (* the longest block of samples written at once      *)
          MaxSamples,  (* bound: how many samples the device makes          *)
          Readers      (* the kinds of reader to consider                   *)

ASSUME SizeAssumption    == Size \in Nat /\ Size > 0
ASSUME BlockAssumption   == MaxBlock \in Nat /\ MaxSamples \in Nat
ASSUME ReadersAssumption == Readers \subseteq {"engine", "threaded"}

VARIABLES
  m_data,      (* the slots                                                *)
  m_fill,      (* how many slots hold samples not committed by the reader  *)
  m_head,      (* the slot of the oldest of them                           *)
  m_tail,      (* the slot the next sample is written to                   *)
  dataReady,   (* queued dataReady() signals the reader has not handled    *)
  kind,        (* which reader drains the FIFO                             *)
  pc,          (* where the reader is                                      *)
  want,        (* the count it passes to readBegin()                       *)
  part1,       (* the region readBegin() returned: a first run of slots ...*)
  part2,       (* ... and the run after the wrap, both [at, len]           *)
  interrupted, (* the loop was left with a message pending, not drained    *)
  produced,    (* history: samples made by the device (sample k is k)      *)
  accepted,    (* history: the samples written, in order                   *)
  fed          (* history: what the reader has read from the slots         *)

fifo   == <<m_data, m_fill, m_head, m_tail>>
reader == <<kind, pc, want, part1, part2, interrupted>>
vars   == <<fifo, dataReady, reader, produced, accepted, fed>>

Slots == 0..(Size - 1)
None  == [at |-> 0, len |-> 0]

AtMost(m, n) == IF m < n THEN m ELSE n

(* The n samples the device makes after the first p ones. *)
Block(p, n) == [i \in 1..n |-> p + i]

(* Indexes go around the ring: x %= m_size. *)
Wrap(x) == x % Size

(* How far slot s lies after slot t, going around the ring. *)
Ahead(s, t) == Wrap(s + Size - t)

(* What the slots of a part hold, in order. *)
Samples(part) == [i \in 1..part.len |-> m_data[part.at + i - 1]]
-----------------------------------------------------------------------------
Init ==
  /\ m_data = [s \in Slots |-> 0]
  /\ m_fill = 0 /\ m_head = 0 /\ m_tail = 0
  /\ dataReady = 0
  /\ kind \in Readers /\ pc = "waiting" /\ want = 0
  /\ part1 = None /\ part2 = None /\ interrupted = FALSE
  /\ produced = 0 /\ accepted = << >> /\ fed = << >>

(* Faulty: the whole block is taken, whether it fits or not. *)
KeptWhole(n) == n

(* The number of samples of a block of n that write() keeps. *)
Kept(n) == AtMost(n, Size - m_fill)

(* Faulty: dataReady() is emitted for what the FIFO held before the block. *)
WriteSignalsBefore(n) ==
  LET total == Kept(n)
      block == Block(produced, total)
  IN  /\ produced + n <= MaxSamples
      /\ m_data' = [s \in Slots |-> IF Ahead(s, m_tail) < total
                                      THEN block[Ahead(s, m_tail) + 1]
                                      ELSE m_data[s]]
      /\ m_tail' = Wrap(m_tail + total)
      /\ m_fill' = m_fill + total
      /\ dataReady' = IF m_fill > 0 THEN dataReady + 1 ELSE dataReady
      /\ produced' = produced + n
      /\ accepted' = accepted \o block
      /\ UNCHANGED <<m_head, reader, fed>>

(* write(): the samples that do not fit are dropped, the others are copied *)
(* from m_tail on, around the end; dataReady() is emitted before unlocking. *)
Write(n) ==
  LET total == Kept(n)
      block == Block(produced, total)
  IN  /\ produced + n <= MaxSamples
      /\ m_data' = [s \in Slots |-> IF Ahead(s, m_tail) < total
                                      THEN block[Ahead(s, m_tail) + 1]
                                      ELSE m_data[s]]
      /\ m_tail' = Wrap(m_tail + total)
      /\ m_fill' = m_fill + total
      /\ dataReady' = IF m_fill' > 0 THEN dataReady + 1 ELSE dataReady
      /\ produced' = produced + n
      /\ accepted' = accepted \o block
      /\ UNCHANGED <<m_head, reader, fed>>
-----------------------------------------------------------------------------
(* The event loop of the reader's thread delivers a dataReady() signal. *)
HandleData ==
  /\ pc = "waiting" /\ dataReady > 0
  /\ dataReady' = dataReady - 1
  /\ pc' = "loop" /\ interrupted' = FALSE
  /\ UNCHANGED <<fifo, kind, want, part1, part2, produced, accepted, fed>>

(* fill() > 0 lets the loop go on ... *)
EnterLoop ==
  /\ pc = "loop" /\ m_fill > 0
  /\ pc' = "asking"
  /\ UNCHANGED <<fifo, dataReady, kind, want, part1, part2, interrupted,
                 produced, accepted, fed>>

(* ... fill() = 0 ends it ... *)
LeaveLoop ==
  /\ pc = "loop" /\ m_fill = 0
  /\ pc' = "waiting"
  /\ UNCHANGED <<fifo, dataReady, kind, want, part1, part2, interrupted,
                 produced, accepted, fed>>

(* ... and so does a message in the queue of the engine or of the sink, or  *)
(* a second's worth of samples done, whatever is left in the FIFO.          *)
Interrupt ==
  /\ pc = "loop"
  /\ pc' = "waiting" /\ interrupted' = TRUE
  /\ UNCHANGED <<fifo, dataReady, kind, want, part1, part2,
                 produced, accepted, fed>>

(* The argument of readBegin() is another call of fill(). *)
AskFill ==
  /\ pc = "asking"
  /\ want' = m_fill /\ pc' = "begin"
  /\ UNCHANGED <<fifo, dataReady, kind, part1, part2, interrupted,
                 produced, accepted, fed>>

(* Faulty: the second part starts at m_head, not at the local copy of it    *)
(* that went around the end.                                                *)
ReadBeginNoWrap ==
  LET total == AtMost(want, m_fill)
      len1  == AtMost(total, Size - m_head)
  IN  /\ pc = "begin"
      /\ part1' = [at |-> m_head, len |-> len1]
      /\ part2' = [at |-> m_head, len |-> total - len1]
      /\ pc' = "feed1"
      /\ UNCHANGED <<fifo, dataReady, kind, want, interrupted,
                     produced, accepted, fed>>

(* readBegin(): the region from m_head on, cut in two where the ring ends. *)
(* Nothing is consumed.                                                    *)
ReadBegin ==
  LET total == AtMost(want, m_fill)
      len1  == AtMost(total, Size - m_head)
  IN  /\ pc = "begin"
      /\ part1' = [at |-> m_head, len |-> len1]
      /\ part2' = [at |-> Wrap(m_head + len1), len |-> total - len1]
      /\ pc' = "feed1"
      /\ UNCHANGED <<fifo, dataReady, kind, want, interrupted,
                     produced, accepted, fed>>

Feed1 ==
  /\ pc = "feed1"
  /\ fed' = fed \o Samples(part1)
  /\ pc' = IF kind = "engine" THEN "feed2" ELSE "commit1"
  /\ UNCHANGED <<fifo, dataReady, kind, want, part1, part2, interrupted,
                 produced, accepted>>

Feed2 ==
  /\ pc = "feed2"
  /\ fed' = fed \o Samples(part2)
  /\ pc' = "commit2"
  /\ UNCHANGED <<fifo, dataReady, kind, want, part1, part2, interrupted,
                 produced, accepted>>

(* Faulty: everything is released, including what came in meanwhile. *)
CommitAll(count) ==
  /\ m_head' = m_tail
  /\ m_fill' = 0
  /\ UNCHANGED <<m_data, m_tail>>

(* readCommit(): at most what the FIFO holds is released. *)
Commit(count) ==
  LET n == AtMost(count, m_fill)
  IN  /\ m_head' = Wrap(m_head + n)
      /\ m_fill' = m_fill - n
      /\ UNCHANGED <<m_data, m_tail>>

(* Faulty: both parts are committed before the second one has been fed. *)
Commit1Early ==
  /\ pc = "commit1"
  /\ Commit(part1.len + part2.len)
  /\ part1' = None /\ pc' = "feed2"
  /\ UNCHANGED <<dataReady, kind, want, part2, interrupted,
                 produced, accepted, fed>>

(* handleFifoData() commits the first part as soon as it has been fed. *)
Commit1 ==
  /\ pc = "commit1"
  /\ Commit(part1.len)
  /\ part1' = None /\ pc' = "feed2"
  /\ UNCHANGED <<dataReady, kind, want, part2, interrupted,
                 produced, accepted, fed>>

(* work() commits both parts at once, handleFifoData() what is left. *)
Commit2 ==
  /\ pc = "commit2"
  /\ Commit(part1.len + part2.len)
  /\ part1' = None /\ part2' = None /\ pc' = "loop"
  /\ UNCHANGED <<dataReady, kind, want, interrupted,
                 produced, accepted, fed>>

Drain == \/ HandleData \/ EnterLoop \/ LeaveLoop \/ AskFill \/ ReadBegin
         \/ Feed1 \/ Commit1 \/ Feed2 \/ Commit2

Next == (\E n \in 1..MaxBlock : Write(n)) \/ Interrupt \/ Drain

Spec == Init /\ [][Next]_vars

(* The reader's thread is scheduled.  Nothing obliges the device to write. *)
FairSpec == Spec /\ WF_vars(Drain)
-----------------------------------------------------------------------------
(* Each index lies in the ring, the fill level does not exceed it, and the  *)
(* parts the reader holds are runs of slots: the values samplesinkfifo.cpp  *)
(* can be in between two calls.                                             *)
Parts == [at : Slots, len : 0..Size]

TypeOK ==
  /\ m_data \in [Slots -> Nat]
  /\ m_fill \in 0..Size /\ m_head \in Slots /\ m_tail \in Slots
  /\ dataReady \in Nat
  /\ kind \in {"engine", "threaded"}
  /\ pc \in {"waiting", "loop", "asking", "begin",
             "feed1", "commit1", "feed2", "commit2"}
  /\ want \in 0..Size
  /\ part1 \in Parts /\ part2 \in Parts
  /\ interrupted \in BOOLEAN
  /\ produced \in Nat
  /\ accepted \in Seq(Nat) /\ fed \in Seq(Nat)

(* What the reader has read from the slots is what write() accepted, in the *)
(* same order, with nothing lost, repeated or torn by a write that ran      *)
(* while the reader held a region without the mutex.                        *)
DeliveredInOrder ==
  /\ Len(fed) <= Len(accepted)
  /\ \A k \in 1..Len(fed) : fed[k] = accepted[k]

(* The slots readBegin() handed out that the reader has still to go through.*)
Run(part) == part.at..(part.at + part.len - 1)
Held == CASE pc = "feed1" -> Run(part1) \cup Run(part2)
          [] pc \in {"commit1", "feed2"} -> Run(part2)
          [] OTHER -> {}

(* No step changes a slot the reader still has to go through: write()       *)
(* copies outside the region readBegin() handed out until it is committed.  *)
RegionStable == [][\A s \in Held : m_data'[s] = m_data[s]]_vars

(* A sample that was accepted is fed, unless the loop was left early with   *)
(* messages pending: write() emits dataReady() once the samples are in, so  *)
(* a reader that found the FIFO empty is woken again.                       *)
EventuallyFed ==
  \A k \in 1..MaxSamples :
    (Len(accepted) >= k) ~> (Len(fed) >= k \/ interrupted)

(* The ring with its reader implements the queue of SampleQueue: a drop     *)
(* happens only for want of room, and room comes back only after feeding.   *)
Queue == INSTANCE SampleQueue
           WITH Capacity <- Size, given <- Len(fed),
                released <- Len(accepted) - m_fill

ImplementsSampleQueue == Queue!Spec
=============================================================================
