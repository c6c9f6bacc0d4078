----------------------- MODULE SDRdaemonStream_proofs -----------------------
(***************************************************************************)
(* The proofs about a stream with forward error correction, for any number *)
(* of blocks, slots, recovery blocks and frames: TypeOK,                   *)
(* WholeWhenTogether, OneFramePerSlot and ReceivedKept of SDRdaemonStream, *)
(* and EveryFrameSent of UDPSinkFEC.                                       *)
(*                                                                         *)
(* The network keeps the order of the blocks of a frame, so those that     *)
(* come are in order in the descriptors of a slot.  The recovery blocks    *)
(* are then the last of them, and as many as originals are missing:        *)
(* counting them is what it takes to see that the loop of writeData() over *)
(* the last descriptors brings all of these back.  For that the blocks     *)
(* must be of one frame.  The invariant says when they are: a slot other   *)
(* than that of the frame head is voided by the first block that comes to  *)
(* it, and in that one the only frame is the current one, unless that has  *)
(* the number of the one before.                                           *)
(*                                                                         *)
(* Decoded with stale meta data, a frame may leave recovery blocks in the  *)
(* slots after its own: in a slot where this happened (spilled) samples    *)
(* may have become garbage, and nothing else changed.  The slot of the     *)
(* frame head is never one of these, as it was voided since.               *)
(***************************************************************************)
EXTENDS SDRdaemonStream, FunctionTheorems, FiniteSetTheorems,
        SequenceTheorems, TLAPS

(* A datagram, and the frame it is of.                                     *)
DatagramType == [number : 0..(Wrap - 1), block : Nat, frame : Ids]

(* A frame that was sent.                                                  *)
FrameType == [number : 0..(Wrap - 1), meta : FECs, fec : FECs]

(* What writeData() keeps of a slot.                                       *)
SlotType ==
  [count : Nat, blocks : Seq(DatagramType), metaRetrieved : BOOLEAN, decoded : BOOLEAN]

(* What a block of the buffer has in it.                                   *)
Values == {Zeros, Garbage} \cup Ids

(* The frames of which a slot has blocks, ...                              *)
Of(r) == {r.slot.blocks[i].frame : i \in DOMAIN r.slot.blocks}

(* ... and the numbers of these.                                           *)
Numbers(r) == {r.slot.blocks[i].block : i \in DOMAIN r.slot.blocks}

(* A slot has the descriptors of all it has counted, up to N, and samples  *)
(* of no other frame than those.                                           *)
Shape(r) ==
  /\ r \in [slot : SlotType, samples : [1..(N - 1) -> Values], zero : Values]
  /\ Len(r.slot.blocks) = IF r.slot.count < N THEN r.slot.count ELSE N
  /\ \A b \in 1..(N - 1) : r.samples[b] \in {Zeros, Garbage} \cup Of(r)
  /\ r.zero \in {Zeros, Garbage} \cup Of(r)

(* Until it is decoded it has the blocks received in their places, and     *)
(* zeros in the others.                                                    *)
Plain(r) ==
  /\ \A b \in 1..(N - 1) : IF b \in Numbers(r) THEN r.samples[b] \in Of(r)
                                               ELSE r.samples[b] = Zeros
  /\ IF 0 \in Numbers(r) THEN r.zero \in Of(r) ELSE r.zero = Zeros
  /\ r.slot.metaRetrieved <=> 0 \in Numbers(r)

(* The blocks of a frame come in their order.                              *)
Ascending(r) ==
  \A i, j \in DOMAIN r.slot.blocks :
    i < j /\ r.slot.blocks[i].frame = r.slot.blocks[j].frame
      => r.slot.blocks[i].block < r.slot.blocks[j].block

(* A slot, at any time.                                                    *)
Held(r) == Shape(r) /\ Ascending(r) /\ (r.slot.count < N => Plain(r))

(* A slot that is void.                                                    *)
Nothing == Block(EmptySlot, NoSamples, Zeros)

Places == 0..(Slots - 1)

(* What is in a slot.                                                      *)
At(s) == Block(m_decoderSlots[s], m_frames[s], m_blockZero[s])

(* Thread t is at frame f.                                                 *)
Sends(t, f) == sending[t] # None /\ sending[t][1] = f

(* The types of the sink, ...                                              *)
SinkTypes ==
  /\ frames \in Seq([number : 0..(Wrap - 1), meta : FECs, fec : FECs])
  /\ Len(frames) <= MaxFrames
  /\ m_frameCount \in 0..(Wrap - 1) /\ building \in FECs \cup {None}
  /\ building # None => Len(frames) < MaxFrames
  /\ m_nbBlocksFEC \in FECs
  /\ m_inputMessageQueue \in Seq(0..Len(frames))
  /\ handling \subseteq Threads
  /\ sending \in [Threads -> {None} \cup (Ids \X Nat)]
  /\ m_sdrDaemonSinkThread \in BOOLEAN
  /\ sent \subseteq 1..Len(frames) /\ unsent \subseteq 1..Len(frames)

(* ... and of the buffer.                                                  *)
BufferTypes ==
  /\ m_frameHead \in 0..(Wrap - 1)
  /\ m_currentMeta \in 0..MaxFrames
  /\ m_decoderSlots \in [Places -> SlotType]
  /\ m_frames \in [Places -> [1..(N - 1) -> Values]]
  /\ m_blockZero \in [Places -> Values]
  /\ overrun \in BOOLEAN

(* A frame is in the queue or is sent by one of the threads or has been    *)
(* sent, and never goes back.                                              *)
InTurn ==
  /\ begun \subseteq 1..Len(frames)
  /\ \A t \in Threads : sending[t] # None =>
       /\ sending[t][1] \in 1..Len(frames)
       /\ sending[t][2] < Blocks(sending[t][1])
  /\ \A t, u \in Threads :
       sending[t] # None /\ sending[u] # None /\ t # u => sending[t][1] # sending[u][1]
  /\ \A i \in DOMAIN m_inputMessageQueue :
       /\ m_inputMessageQueue[i] \notin begun
       /\ \A t \in Threads : ~ Sends(t, m_inputMessageQueue[i])
  /\ \A i, j \in DOMAIN m_inputMessageQueue :
       i < j /\ m_inputMessageQueue[i] # Address
         => m_inputMessageQueue[i] # m_inputMessageQueue[j]

(* Block b of frame f has been sent.                                       *)
Gone(f, b) ==
  /\ f \in begun /\ b \in Nat /\ b < Blocks(f)
  /\ \A t \in Threads : Sends(t, f) => b < sending[t][2]

(* So have all those of a slot.                                            *)
HasGone(r) ==
  \A i \in DOMAIN r.slot.blocks : Gone(r.slot.blocks[i].frame, r.slot.blocks[i].block)

(* Of each slot: what is there came, unless it was stored in again from    *)
(* another slot, which is never so of the one in use, ...                  *)
Arrived ==
  /\ m_frameHead % Slots \notin spilled
  /\ \A s \in Places :
       /\ Shape(At(s)) /\ Ascending(At(s)) /\ HasGone(At(s))
       /\ s \notin spilled => Held(At(s))

(* ... it has one frame, unless it has one that joined another, and        *)
(* garbage only if its meta data were stale or it was stored in again.     *)
Apart ==
  \A s \in Places : Of(At(s)) \cap joined = {} =>
    /\ \A f, g \in Of(At(s)) : f = g
    /\ \A b \in 1..(N - 1) : At(s).samples[b] = Garbage =>
         Of(At(s)) \subseteq stale \/ s \in spilled

(* Before the first datagram nothing is there.                             *)
Begun ==
  current = 0 => begun = {} /\ got = {} /\ \A s \in Places : At(s) = Nothing

(* The last datagram is in the slot of the frame head, alone if its frame  *)
(* has not joined another.                                                 *)
AtHead ==
  current # 0 =>
    /\ current \in begun /\ m_frameHead = frames[current].number
    /\ At(m_frameHead % Slots).slot.count <= N => current \in Of(At(m_frameHead % Slots))
    /\ current \notin joined => Of(At(m_frameHead % Slots)) \subseteq {current}

(* The slot of the frame head has the first of these blocks.               *)
First(r, blocks) ==
  /\ Numbers(r) \subseteq blocks
  /\ \A b \in blocks \ Numbers(r) :
       r.slot.count >= N /\ \A n \in Numbers(r) : n < b

(* The blocks that came of the current frame without another between are   *)
(* all that was counted in its slot.                                       *)
Got ==
  /\ IsFiniteSet(got) /\ \A b \in got : Gone(current, b)
  /\ current \notin {0} \cup split \cup joined =>
       /\ At(m_frameHead % Slots).slot.count = Cardinality(got)
       /\ First(At(m_frameHead % Slots), got)

(* A slot has what it takes to be whole.                                   *)
Decodable(r) == m_cm256_OK \/ Recoveries(r.slot.blocks) = {}

(* And it is whole when there are N.                                       *)
Complete ==
  /\ current \notin {0} \cup split \cup joined \cup stale
  /\ At(m_frameHead % Slots).slot.count >= N
  /\ Decodable(At(m_frameHead % Slots))
  => \A b \in 1..(N - 1) : At(m_frameHead % Slots).samples[b] = current

(* The inductive invariant.                                                *)
StreamInv ==
  /\ SinkTypes /\ BufferTypes /\ InTurn /\ Arrived /\ Apart
  /\ Begun /\ AtHead /\ Got /\ Complete
-----------------------------------------------------------------------------
(* What the assumptions on the constants come to.                          *)
LEMMA Constants ==
  /\ N \in Nat /\ N > 1 /\ Slots \in Nat \ {0} /\ Wrap \in Nat \ {0}
  /\ FECs \subseteq Nat /\ MaxFrames \in Nat
  /\ m_cm256Valid \in BOOLEAN /\ m_cm256_OK \in BOOLEAN
  /\ Zeros \notin Ids /\ Garbage \notin Ids /\ Garbage # Zeros
  /\ \A f \in Ids : f \in Nat /\ f > 0
  BY FramesAssumption, SlotsAssumption, LibraryAssumption, SinkAssumption
     DEF Zeros, Garbage, Ids

(* A void slot.                                                            *)
LEMMA NothingIs ==
  /\ Shape(Nothing) /\ Plain(Nothing) /\ Ascending(Nothing)
  /\ Of(Nothing) = {} /\ Numbers(Nothing) = {}
  /\ Nothing.slot.count = 0 /\ Nothing.slot.blocks = << >>
  <1>1. /\ Nothing = [slot |-> EmptySlot, samples |-> NoSamples, zero |-> Zeros]
        /\ Nothing.slot = EmptySlot /\ Nothing.samples = NoSamples /\ Nothing.zero = Zeros
    BY DEF Nothing, Block
  <1>2. EmptySlot \in SlotType /\ EmptySlot.blocks = << >> /\ EmptySlot.count = 0
        /\ EmptySlot.metaRetrieved = FALSE
    <2>1. << >> \in Seq(DatagramType)
      OBVIOUS
    <2> QED BY <2>1 DEF EmptySlot, SlotType
  <1>3. DOMAIN EmptySlot.blocks = {} /\ Len(EmptySlot.blocks) = 0
    BY <1>2
  <1>4. Of(Nothing) = {} /\ Numbers(Nothing) = {}
    BY <1>1, <1>3 DEF Of, Numbers
  <1>5. /\ NoSamples \in [1..(N - 1) -> Values]
        /\ \A b \in 1..(N - 1) : NoSamples[b] = Zeros
    BY DEF NoSamples, Values
  <1> QED BY <1>1, <1>2, <1>3, <1>4, <1>5, Constants DEF Shape, Plain, Ascending, Values

(* The fields of a slot with one of them changed: its count, ...           *)
LEMMA CountedIs ==
  ASSUME NEW x \in SlotType
  PROVE  /\ [x EXCEPT !.count = x.count + 1] \in SlotType
         /\ [x EXCEPT !.count = x.count + 1].blocks = x.blocks
         /\ [x EXCEPT !.count = x.count + 1].count = x.count + 1
         /\ [x EXCEPT !.count = x.count + 1].metaRetrieved = x.metaRetrieved
  BY DEF SlotType

(* ... its flags.                                                          *)
LEMMA SlotChanged ==
  ASSUME NEW x \in SlotType, NEW v \in BOOLEAN
  PROVE  /\ [x EXCEPT !.decoded = v] \in SlotType
         /\ [x EXCEPT !.decoded = v].blocks = x.blocks
         /\ [x EXCEPT !.decoded = v].count = x.count
         /\ [x EXCEPT !.decoded = v].metaRetrieved = x.metaRetrieved
         /\ [x EXCEPT !.metaRetrieved = v] \in SlotType
         /\ [x EXCEPT !.metaRetrieved = v].blocks = x.blocks
         /\ [x EXCEPT !.metaRetrieved = v].count = x.count
         /\ [x EXCEPT !.metaRetrieved = v].metaRetrieved = v
  <1>1. /\ [x EXCEPT !.decoded = v] \in SlotType
        /\ [x EXCEPT !.decoded = v].blocks = x.blocks
        /\ [x EXCEPT !.decoded = v].count = x.count
        /\ [x EXCEPT !.decoded = v].metaRetrieved = x.metaRetrieved
    BY DEF SlotType
  <1>2. /\ [x EXCEPT !.metaRetrieved = v] \in SlotType
        /\ [x EXCEPT !.metaRetrieved = v].blocks = x.blocks
        /\ [x EXCEPT !.metaRetrieved = v].count = x.count
        /\ [x EXCEPT !.metaRetrieved = v].metaRetrieved = v
    BY DEF SlotType
  <1> QED BY <1>1, <1>2

(* The blocks of a slot.                                                   *)
LEMMA BlocksAre ==
  ASSUME NEW r, Shape(r)
  PROVE  /\ \A i \in DOMAIN r.slot.blocks : r.slot.blocks[i] \in DatagramType
         /\ Of(r) \subseteq Ids /\ Numbers(r) \subseteq Nat
  <1> DEFINE list == r.slot.blocks
  <1>1. list \in Seq(DatagramType)
    BY DEF Shape, SlotType
  <1>2. \A i \in DOMAIN list : list[i] \in DatagramType
    <2> HIDE DEF list
    <2> QED BY <1>1
  <1>3. \A i \in DOMAIN list : list[i].frame \in Ids /\ list[i].block \in Nat
    BY <1>2 DEF DatagramType
  <1> QED BY <1>2, <1>3 DEF Of, Numbers

(* A datagram is stored and counted, before anything is decoded.           *)
Kept(d, r) == Counted(d, StoreBlock(d, r))

(* The frames and the numbers of descriptors with one more.                *)
LEMMA AppendedIs ==
  ASSUME NEW old \in Seq(DatagramType), NEW d \in DatagramType
  PROVE  LET list == Append(old, d)
         IN /\ {list[i].frame : i \in DOMAIN list} =
                 {old[i].frame : i \in DOMAIN old} \cup {d.frame}
            /\ {list[i].block : i \in DOMAIN list} =
                 {old[i].block : i \in DOMAIN old} \cup {d.block}
  <1> DEFINE list == Append(old, d)
             n    == Len(old)
  <1>1. /\ n \in Nat /\ DOMAIN list = 1..(n + 1) /\ DOMAIN old = 1..n
        /\ list[n + 1] = d /\ \A i \in 1..n : list[i] = old[i]
    BY AppendProperties
  <1> HIDE DEF list, n
  <1>2. 1..(n + 1) = (1..n) \cup {n + 1}
    BY <1>1
  <1>3. {list[i].frame : i \in (1..n) \cup {n + 1}} =
          {list[i].frame : i \in 1..n} \cup {list[n + 1].frame}
    OBVIOUS
  <1>4. {list[i].block : i \in (1..n) \cup {n + 1}} =
          {list[i].block : i \in 1..n} \cup {list[n + 1].block}
    OBVIOUS
  <1>5. {list[i].frame : i \in 1..n} = {old[i].frame : i \in 1..n}
    BY <1>1
  <1>6. {list[i].block : i \in 1..n} = {old[i].block : i \in 1..n}
    BY <1>1
  <1> QED BY <1>1, <1>2, <1>3, <1>4, <1>5, <1>6 DEF list

(* What that does to a slot with less than N blocks, ...                   *)
LEMMA StoredIs ==
  ASSUME NEW r, Shape(r), Plain(r), r.slot.count < N, NEW d \in DatagramType
  PROVE  /\ Shape(Kept(d, r)) /\ Plain(Kept(d, r))
         /\ Kept(d, r).slot.blocks = Append(r.slot.blocks, d)
         /\ Kept(d, r).slot.count = r.slot.count + 1
         /\ Of(Kept(d, r)) = Of(r) \cup {d.frame}
         /\ Numbers(Kept(d, r)) = Numbers(r) \cup {d.block}
         /\ \A b \in 1..(N - 1) :
              Kept(d, r).samples[b] = IF b = d.block THEN d.frame ELSE r.samples[b]
  <1> DEFINE old  == r.slot.blocks
             list == Append(old, d)
             meta == r.slot.metaRetrieved \/ d.block = 0
             s1   == [r.slot EXCEPT !.blocks = list, !.metaRetrieved = meta]
             slot == [s1 EXCEPT !.count = s1.count + 1]
             samples == [b \in 1..(N - 1) |-> IF b = d.block THEN d.frame ELSE r.samples[b]]
             zero == IF d.block = 0 THEN d.frame ELSE r.zero
             q    == Kept(d, r)
  <1>1. /\ r \in [slot : SlotType, samples : [1..(N - 1) -> Values], zero : Values]
        /\ r.slot \in SlotType /\ old \in Seq(DatagramType)
        /\ r.samples \in [1..(N - 1) -> Values] /\ r.zero \in Values
        /\ r.slot.count \in Nat /\ Len(old) = r.slot.count
        /\ N \in Nat /\ N > 1
        /\ d.block \in Nat /\ d.frame \in Ids
    BY Constants DEF Shape, SlotType, DatagramType
  <1>2. q = [slot |-> slot, samples |-> samples, zero |-> zero]
    <2> DEFINE entered == [r EXCEPT !.slot.blocks = Append(@, d),
                                    !.slot.metaRetrieved = @ \/ d.block = 0]
               mid  == [slot |-> s1, samples |-> samples, zero |-> zero]
    <2>1. entered = [r EXCEPT !.slot = s1]
      BY <1>1
    <2>2. StoreBlock(d, r) = IF d.block < N THEN Store(entered, d.block, d.frame)
                                            ELSE entered
      BY <1>1 DEF StoreBlock
    <2>3. [r EXCEPT !.slot = s1] = [slot |-> s1, samples |-> r.samples, zero |-> r.zero]
      <3> HIDE DEF s1
      <3> QED BY <1>1
    <2>4. d.block = 0 => samples = r.samples /\ zero = d.frame
      BY <1>1
    <2>5. d.block \in 1..(N - 1) =>
            samples = [r.samples EXCEPT ![d.block] = d.frame] /\ zero = r.zero
      BY <1>1
    <2>6. d.block >= N => samples = r.samples /\ zero = r.zero
      BY <1>1
    <2>8. StoreBlock(d, r) = mid
      <3>1. entered = [slot |-> s1, samples |-> r.samples, zero |-> r.zero]
        BY <2>1, <2>3
      <3> HIDE DEF entered, s1, samples, zero, slot
      <3>2. CASE d.block = 0
        <4>1. StoreBlock(d, r) = [entered EXCEPT !.zero = d.frame]
          BY <1>1, <2>2, <3>2 DEF Store
        <4> QED BY <2>4, <3>1, <3>2, <4>1
      <3>3. CASE d.block \in 1..(N - 1)
        <4>1. StoreBlock(d, r) = [entered EXCEPT !.samples[d.block] = d.frame]
          BY <1>1, <2>2, <3>3 DEF Store
        <4>2. [entered EXCEPT !.samples[d.block] = d.frame] =
                [slot |-> s1, samples |-> [r.samples EXCEPT ![d.block] = d.frame],
                 zero |-> r.zero]
          BY <3>1
        <4> QED BY <2>5, <3>3, <4>1, <4>2
      <3>4. CASE d.block >= N
        <4>1. StoreBlock(d, r) = entered
          BY <1>1, <2>2, <3>4
        <4> QED BY <2>6, <3>1, <3>4, <4>1
      <3> QED BY <1>1, <3>2, <3>3, <3>4
    <2> HIDE DEF s1, samples, zero, slot
    <2>9. q = [mid EXCEPT !.slot.count = @ + 1]
      BY <2>8 DEF Counted, Kept
    <2>10. [mid EXCEPT !.slot.count = @ + 1] =
             [slot |-> [s1 EXCEPT !.count = s1.count + 1], samples |-> samples, zero |-> zero]
      OBVIOUS
    <2> QED BY <2>9, <2>10 DEF slot
  <1>3. /\ list \in Seq(DatagramType) /\ Len(list) = Len(old) + 1
        /\ DOMAIN list = 1..(Len(old) + 1) /\ DOMAIN old = 1..Len(old)
        /\ list[Len(old) + 1] = d /\ \A i \in 1..Len(old) : list[i] = old[i]
    BY <1>1, AppendProperties
  <1> HIDE DEF list
  <1>4. /\ slot \in SlotType /\ slot.blocks = list /\ slot.count = r.slot.count + 1
        /\ slot.metaRetrieved = meta
    <2> HIDE DEF meta
    <2>1. meta \in BOOLEAN
      BY <1>1 DEF meta, SlotType
    <2>2. /\ s1.blocks = list /\ s1.count = r.slot.count /\ s1.metaRetrieved = meta
          /\ s1 \in SlotType
      BY <1>1, <1>3, <2>1 DEF SlotType
    <2> HIDE DEF s1
    <2> QED BY <1>1, <2>2, CountedIs DEF slot
  <1> HIDE DEF slot
  <1>5. /\ q.slot = slot /\ q.samples = samples /\ q.zero = zero
        /\ samples \in [1..(N - 1) -> Values] /\ zero \in Values
    BY <1>1, <1>2 DEF Values
  <1>6. q.slot.blocks = list
    BY <1>4, <1>5
  <1> HIDE DEF q, old
  <1>7. Of(q) = Of(r) \cup {d.frame} /\ Numbers(q) = Numbers(r) \cup {d.block}
    <2>1. /\ {list[i].frame : i \in DOMAIN list} =
               {old[i].frame : i \in DOMAIN old} \cup {d.frame}
          /\ {list[i].block : i \in DOMAIN list} =
               {old[i].block : i \in DOMAIN old} \cup {d.block}
      BY <1>1, AppendedIs DEF list
    <2>2. Of(q) = {list[i].frame : i \in DOMAIN list}
      BY <1>6 DEF Of
    <2>3. Numbers(q) = {list[i].block : i \in DOMAIN list}
      BY <1>6 DEF Numbers
    <2>4. Of(r) = {old[i].frame : i \in DOMAIN old}
      BY DEF Of, old
    <2>5. Numbers(r) = {old[i].block : i \in DOMAIN old}
      BY DEF Numbers, old
    <2> QED BY <2>1, <2>2, <2>3, <2>4, <2>5
  <1>8. \A b \in 1..(N - 1) :
          q.samples[b] = IF b = d.block THEN d.frame ELSE r.samples[b]
    BY <1>5
  <1>9. q \in [slot : SlotType, samples : [1..(N - 1) -> Values], zero : Values]
    <2> HIDE DEF slot, samples, zero
    <2> QED BY <1>2, <1>4, <1>5
  <1>10. Plain(q)
    BY <1>1, <1>4, <1>5, <1>6, <1>7, <1>8 DEF Plain, meta, zero
  <1>11. Shape(q)
    <2>1. Len(q.slot.blocks) = IF q.slot.count < N THEN q.slot.count ELSE N
      BY <1>1, <1>3, <1>4, <1>5
    <2>2. \A b \in 1..(N - 1) : q.samples[b] \in {Zeros, Garbage} \cup Of(q)
      BY <1>10 DEF Plain
    <2>3. q.zero \in {Zeros, Garbage} \cup Of(q)
      BY <1>10 DEF Plain
    <2> QED BY <1>9, <2>1, <2>2, <2>3 DEF Shape
  <1> QED BY <1>4, <1>5, <1>6, <1>7, <1>8, <1>10, <1>11 DEF q, list, old

(* ... and to one that has them: it only counts.                           *)
LEMMA OverfullIs ==
  ASSUME NEW r, Shape(r), r.slot.count >= N, NEW d
  PROVE  /\ Shape(Kept(d, r))
         /\ Kept(d, r).slot.blocks = r.slot.blocks
         /\ Kept(d, r).samples = r.samples /\ Kept(d, r).zero = r.zero
         /\ Kept(d, r).slot.count = r.slot.count + 1
         /\ Of(Kept(d, r)) = Of(r) /\ Numbers(Kept(d, r)) = Numbers(r)
  <1> DEFINE q == Kept(d, r)
  <1>1. /\ r \in [slot : SlotType, samples : [1..(N - 1) -> Values], zero : Values]
        /\ r.slot \in SlotType /\ r.slot.count \in Nat /\ N \in Nat
    BY Constants DEF Shape, SlotType
  <1>2. q = [r EXCEPT !.slot.count = @ + 1]
    BY DEF Counted, StoreBlock, Kept
  <1>3. q = [slot |-> [r.slot EXCEPT !.count = @ + 1], samples |-> r.samples, zero |-> r.zero]
    BY <1>1, <1>2
  <1>4. [r.slot EXCEPT !.count = @ + 1] \in SlotType
    BY <1>1 DEF SlotType
  <1>5. /\ q.slot.blocks = r.slot.blocks /\ q.slot.count = r.slot.count + 1
        /\ q.samples = r.samples /\ q.zero = r.zero
    BY <1>1, <1>3 DEF SlotType
  <1>6. q \in [slot : SlotType, samples : [1..(N - 1) -> Values], zero : Values]
    BY <1>1, <1>3, <1>4
  <1> HIDE DEF q
  <1>7. Of(q) = Of(r) /\ Numbers(q) = Numbers(r)
    BY <1>5 DEF Of, Numbers
  <1>8. Shape(q)
    BY <1>1, <1>5, <1>6, <1>7 DEF Shape
  <1> QED BY <1>5, <1>7, <1>8 DEF q
-----------------------------------------------------------------------------
(* The arithmetic of the recovery.  The descriptors of N blocks of one     *)
(* frame, that came in order, end with the recovery blocks; there are as   *)
(* many as originals missing; and so the loop over the last descriptors    *)
(* finds each original that cm256_decode() has restored.                   *)

(* A set of numbers up to n that has with each one all above it is the     *)
(* last of them.                                                           *)
LEMMA LastOnes ==
  ASSUME NEW n \in Nat, NEW S \in SUBSET (1..n),
         \A i \in S, j \in 1..n : i < j => j \in S
  PROVE  /\ IsFiniteSet(S) /\ Cardinality(S) \in 0..n
         /\ S = (n - Cardinality(S) + 1)..n
  <1>1. IsFiniteSet(1..n) /\ Cardinality(1..n) = n
    BY FS_Interval
  <1>2. IsFiniteSet(S) /\ Cardinality(S) <= n /\ Cardinality(S) \in Nat
    BY <1>1, FS_Subset, FS_CardinalityType
  <1> DEFINE k == Cardinality(S)
  <1>3. \A i \in S : i > n - k
    <2> SUFFICES ASSUME NEW i \in S PROVE i > n - k
      OBVIOUS
    <2>1. i \in Int /\ n \in Int /\ i >= 1 /\ i <= n
      OBVIOUS
    <2>2. (i..n) \in SUBSET S
      BY <2>1
    <2>3. Cardinality(i..n) = n - i + 1
      BY <2>1, FS_Interval
    <2>4. Cardinality(i..n) <= k
      BY <1>2, <2>2, FS_Subset
    <2> HIDE DEF k
    <2> QED BY <1>2, <2>1, <2>3, <2>4 DEF k
  <1>4. k \in Nat /\ k <= n
    BY <1>2
  <1> HIDE DEF k
  <1>5. S \in SUBSET ((n - k + 1)..n)
    BY <1>3, <1>4
  <1>6. IsFiniteSet((n - k + 1)..n) /\ Cardinality((n - k + 1)..n) = k
    <2>1. n - k + 1 \in Int /\ n \in Int
      BY <1>4
    <2>2. /\ IsFiniteSet((n - k + 1)..n)
          /\ Cardinality((n - k + 1)..n) = IF n - k + 1 > n THEN 0 ELSE n - (n - k + 1) + 1
      BY <2>1, FS_Interval
    <2> QED BY <1>4, <2>2
  <1>7. S = (n - k + 1)..n
    BY <1>5, <1>6, FS_Subset DEF k
  <1> QED BY <1>2, <1>4, <1>7 DEF k

(* N blocks of one frame, in order.                                        *)
Together(list) ==
  /\ list \in [1..N -> DatagramType]
  /\ \A i, j \in 1..N : i < j => list[i].block < list[j].block
  /\ \A i \in 1..N : list[i].frame = list[1].frame

(* The recovery blocks are the last, so all are looked at, ...             *)
LEMMA RecoveriesAreLast ==
  ASSUME NEW list, Together(list)
  PROVE  /\ IsFiniteSet(Recoveries(list)) /\ Cardinality(Recoveries(list)) \in 0..N
         /\ Recoveries(list) = (N - Cardinality(Recoveries(list)) + 1)..N
         /\ RestoredPlaces(list) = Recoveries(list)
  <1>1. N \in Nat /\ DOMAIN list = 1..N /\ \A i \in 1..N : list[i].block \in Nat
    BY Constants DEF Together, DatagramType
  <1>2. Recoveries(list) \in SUBSET (1..N)
    BY <1>1 DEF Recoveries
  <1>3. \A i \in Recoveries(list), j \in 1..N : i < j => j \in Recoveries(list)
    BY <1>1 DEF Recoveries, Together
  <1> DEFINE R == Recoveries(list)
             k == Cardinality(R)
  <1>4. /\ IsFiniteSet(R) /\ k \in 0..N /\ R = (N - k + 1)..N
    <2> HIDE DEF R
    <2> QED BY <1>1, <1>2, <1>3, LastOnes DEF R
  <1>5. RestoredPlaces(list) = {i \in R : i > N - k}
    BY DEF RestoredPlaces
  <1> HIDE DEF R, k
  <1>6. RestoredPlaces(list) = R
    BY <1>1, <1>4, <1>5
  <1> QED BY <1>4, <1>6 DEF R, k

(* ... they are as many as the originals missing, ...                      *)
LEMMA AsManyMissing ==
  ASSUME NEW list, Together(list)
  PROVE  /\ IsFiniteSet(Missing(list))
         /\ Cardinality(Missing(list)) = Cardinality(Recoveries(list))
         /\ Missing(list) \in SUBSET (0..(N - 1))
  <1>1. N \in Nat /\ DOMAIN list = 1..N /\ \A i \in 1..N : list[i].block \in Nat
    BY Constants DEF Together, DatagramType
  <1> DEFINE R == Recoveries(list)
             M == Missing(list)
             A == (1..N) \ R
             B == (0..(N - 1)) \ M
             f == [i \in A |-> list[i].block]
  <1>2. IsFiniteSet(R) /\ R \in SUBSET (1..N) /\ Cardinality(R) \in Nat
    BY <1>1, RecoveriesAreLast, FS_CardinalityType DEF Recoveries
  <1>3. M \in SUBSET (0..(N - 1))
    BY DEF Missing
  <1>4. B = {list[i].block : i \in 1..N} \cap (0..(N - 1))
    BY <1>1 DEF Missing
  <1>5. A = {i \in 1..N : list[i].block < N}
    BY <1>1 DEF Recoveries
  <1>6. f \in Bijection(A, B)
    <2> HIDE DEF A, B
    <2>1. f \in [A -> B]
      BY <1>1, <1>4, <1>5
    <2>2. \A i, j \in A : f[i] = f[j] => i = j
      <3>1. \A i, j \in 1..N : list[i].block = list[j].block => i = j
        BY <1>1 DEF Together
      <3> QED BY <1>5, <3>1
    <2>3. \A b \in B : \E i \in A : f[i] = b
      <3> SUFFICES ASSUME NEW b \in B PROVE \E i \in A : f[i] = b
        OBVIOUS
      <3>1. PICK i \in 1..N : list[i].block = b
        BY <1>4
      <3>2. b \in 0..(N - 1)
        BY <1>4
      <3>3. i \in A
        BY <1>1, <1>5, <3>1, <3>2
      <3>4. f[i] = b
        BY <3>1, <3>3
      <3> QED BY <3>3, <3>4
    <2> HIDE DEF f
    <2> QED BY <2>1, <2>2, <2>3, Fun_IsBij
  <1>7. IsFiniteSet(1..N) /\ Cardinality(1..N) = N
        /\ IsFiniteSet(0..(N - 1)) /\ Cardinality(0..(N - 1)) = N
    BY <1>1, FS_Interval, Constants
  <1>8. IsFiniteSet(A) /\ Cardinality(A) = N - Cardinality(R)
    <2> HIDE DEF R
    <2>1. (1..N) \cap R = R
      BY <1>2
    <2>2. /\ IsFiniteSet((1..N) \ R)
          /\ Cardinality((1..N) \ R) = Cardinality(1..N) - Cardinality((1..N) \cap R)
      BY <1>7, FS_Difference
    <2> QED BY <1>7, <2>1, <2>2
  <1>9. IsFiniteSet(M) /\ IsFiniteSet(B) /\ Cardinality(B) = N - Cardinality(M)
    <2> HIDE DEF M
    <2>1. (0..(N - 1)) \cap M = M
      BY <1>3
    <2>2. /\ IsFiniteSet((0..(N - 1)) \ M)
          /\ Cardinality((0..(N - 1)) \ M) =
               Cardinality(0..(N - 1)) - Cardinality((0..(N - 1)) \cap M)
      BY <1>7, FS_Difference
    <2>3. IsFiniteSet(M)
      BY <1>3, <1>7, FS_Subset
    <2> QED BY <1>7, <2>1, <2>2, <2>3
  <1>10. Cardinality(B) = Cardinality(A)
    <2> HIDE DEF A, B, f
    <2> QED BY <1>6, <1>8, FS_Bijection DEF ExistsBijection
  <1>11. Cardinality(M) \in Nat
    BY <1>9, FS_CardinalityType
  <1> HIDE DEF A, B, M, R, f
  <1>12. Cardinality(M) = Cardinality(R)
    BY <1>1, <1>2, <1>8, <1>9, <1>10, <1>11
  <1> QED BY <1>3, <1>9, <1>12 DEF M, R

(* ... so that all of these come back if all were repaired, ...            *)
LEMMA AllBroughtBack ==
  ASSUME NEW list, Together(list), NEW count, Repaired(list, count) = Recoveries(list)
  PROVE  BroughtBack(list, count) = Missing(list)
  <1> DEFINE R == Recoveries(list)
             M == Missing(list)
             k == Cardinality(R)
  <1>1. N \in Nat /\ k \in 0..N /\ R = (N - k + 1)..N /\ RestoredPlaces(list) = R
    BY RecoveriesAreLast, Constants
  <1>2. IsFiniteSet(M) /\ Cardinality(M) = k /\ M \in SUBSET (0..(N - 1))
    BY AsManyMissing
  <1>3. ASSUME NEW b \in M PROVE \E i \in R : Rank(b, M) = Rank(i, R)
    <2> HIDE DEF R, M, k
    <2> DEFINE upto == {m \in M : m <= b}
               p == Cardinality(upto)
               i == N - k + p
    <2>1. IsFiniteSet(upto) /\ p \in Nat /\ p <= k
      <3>1. upto \in SUBSET M
        OBVIOUS
      <3> QED BY <1>2, <3>1, FS_Subset, FS_CardinalityType
    <2>2. p >= 1
      <3>1. b \in upto
        BY <1>2
      <3>2. p # 0
        BY <2>1, <3>1, FS_EmptySet
      <3> HIDE DEF p
      <3> QED BY <2>1, <3>2
    <2>3. Rank(b, M) = p
      BY DEF Rank
    <2> HIDE DEF upto, p
    <2>4. i \in R
      BY <1>1, <2>1, <2>2
    <2>5. {m \in R : m <= i} = (N - k + 1)..i
      BY <1>1, <2>1, <2>2
    <2>6. Cardinality((N - k + 1)..i) = p
      <3>1. N - k + 1 \in Int /\ i \in Int
        BY <1>1, <2>1
      <3>2. Cardinality((N - k + 1)..i) = IF N - k + 1 > i THEN 0 ELSE i - (N - k + 1) + 1
        BY <3>1, FS_Interval
      <3> QED BY <1>1, <2>1, <2>2, <3>2
    <2>7. Rank(i, R) = p
      <3> HIDE DEF i
      <3> QED BY <2>5, <2>6 DEF Rank
    <2> QED BY <2>3, <2>4, <2>7
  <1>4. BroughtBack(list, count) = {b \in M : \E i \in R : Rank(b, M) = Rank(i, R)}
    <2>1. RestoredPlaces(list) \cap Repaired(list, count) = R
      BY <1>1
    <2> QED BY <2>1 DEF BroughtBack
  <1> HIDE DEF R, M
  <1> QED BY <1>3, <1>4 DEF M

(* ... as they are if there is but one to repair when one is told of.      *)
LEMMA AllRepaired ==
  ASSUME NEW list, Together(list), NEW count,
         count = 1 => \A i \in Recoveries(list) : list[i].block = N
  PROVE  Repaired(list, count) = Recoveries(list)
  <1>1. N \in Nat /\ DOMAIN list = 1..N /\ \A i \in 1..N : list[i].block \in Nat
    BY Constants DEF Together, DatagramType
  <1>2. Recoveries(list) \subseteq 1..N
    BY <1>1 DEF Recoveries
  <1>3. ASSUME count = 1, NEW i \in Recoveries(list), NEW j \in Recoveries(list)
        PROVE  i <= j
    <2>1. list[i].block = list[j].block /\ i \in 1..N /\ j \in 1..N
      BY <1>2, <1>3
    <2>2. ~ (j < i)
      BY <1>1, <2>1 DEF Together
    <2> QED BY <1>1, <2>1, <2>2
  <1> QED BY <1>3 DEF Repaired
-----------------------------------------------------------------------------
(* Decoding a slot.                                                        *)

(* What comes out is of a frame of the slot, or garbage.                   *)
LEMMA DecodedIs ==
  ASSUME NEW r, Shape(r), r.slot.count = N, NEW count
  PROVE  Decoded(r.slot.blocks, count) \in {Garbage} \cup Of(r)
  <1>1. 1 \in DOMAIN r.slot.blocks
    BY Constants DEF Shape, SlotType
  <1>2. r.slot.blocks[1].frame \in Of(r)
    BY <1>1 DEF Of
  <1> QED BY <1>2 DEF Decoded

(* Decode() leaves the descriptors and the blocks that were received,      *)
(* changes only those that were missing, and finds meta data only with a   *)
(* frame.                                                                  *)
LEMMA DecodeIs ==
  ASSUME NEW r, Shape(r), Plain(r), r.slot.count = N, NEW meta
  PROVE  LET q == Decode(r, meta)
             value == Decoded(r.slot.blocks, RecoveryCount(r, meta))
         IN /\ Shape(q) /\ q.slot.blocks = r.slot.blocks /\ q.slot.count = N
            /\ Of(q) = Of(r) /\ Numbers(q) = Numbers(r)
            /\ q.slot.metaRetrieved => q.zero \in Of(r)
            /\ \A b \in 1..(N - 1) : b \in Numbers(r) => q.samples[b] = r.samples[b]
            /\ \A b \in 1..(N - 1) : q.samples[b] # r.samples[b] =>
                 /\ q.samples[b] = value /\ b \in Missing(r.slot.blocks)
                 /\ Decoding(r, meta)
            /\ Decoding(r, meta) =>
                 \A b \in (1..(N - 1)) \cap
                          BroughtBack(r.slot.blocks, RecoveryCount(r, meta)) :
                   q.samples[b] = value
            /\ Recoveries(r.slot.blocks) = {} => q.samples = r.samples
  <1> DEFINE q      == Decode(r, meta)
             old    == r.slot.blocks
             count  == RecoveryCount(r, meta)
             value  == Decoded(old, count)
             back   == BroughtBack(old, count)
             ready  == [r EXCEPT !.slot.decoded = TRUE]
             does   == Decoding(r, meta)
  <1>1. /\ r \in [slot : SlotType, samples : [1..(N - 1) -> Values], zero : Values]
        /\ r.slot \in SlotType /\ old \in Seq(DatagramType)
        /\ r.samples \in [1..(N - 1) -> Values] /\ r.zero \in Values
        /\ r.slot.count \in Nat /\ N \in Nat /\ N > 1 /\ Len(old) = N
        /\ r.slot.metaRetrieved \in BOOLEAN
    BY Constants DEF Shape, SlotType
  <1>2. Of(r) \subseteq Ids
    BY BlocksAre
  <1>3. value \in {Garbage} \cup Of(r) /\ value \in Values
    BY <1>2, DecodedIs DEF Values
  <1>4. \A b \in back : b \notin Numbers(r) /\ b \in Missing(old)
    BY DEF BroughtBack, Missing, Numbers
  <1>5. /\ ready.slot = [r.slot EXCEPT !.decoded = TRUE]
        /\ ready.samples = r.samples /\ ready.zero = r.zero
        /\ ready = [slot |-> ready.slot, samples |-> r.samples, zero |-> r.zero]
    <2> DEFINE slot == [r.slot EXCEPT !.decoded = TRUE]
    <2>1. ready = [r EXCEPT !.slot = slot]
      OBVIOUS
    <2> HIDE DEF slot, ready
    <2>2. ready = [slot |-> slot, samples |-> r.samples, zero |-> r.zero]
      BY <1>1, <2>1
    <2> QED BY <2>2 DEF slot
  <1>6. /\ ready.slot \in SlotType /\ ready.slot.blocks = old
        /\ ready.slot.count = N /\ ready.slot.metaRetrieved = r.slot.metaRetrieved
    BY <1>1, <1>5, SlotChanged
  <1> HIDE DEF ready
  <1>7. q = IF does THEN Restore(ready, count) ELSE ready
    BY <1>5 DEF Decode, ready
  <1>8. CASE ~ does
    <2>1. q = ready
      BY <1>7, <1>8
    <2>2. Of(q) = Of(r) /\ Numbers(q) = Numbers(r)
      BY <1>6, <2>1 DEF Of, Numbers
    <2>3. Shape(q)
      <3>1. q \in [slot : SlotType, samples : [1..(N - 1) -> Values], zero : Values]
        BY <1>1, <1>5, <1>6, <2>1
      <3> QED BY <1>1, <1>5, <1>6, <2>1, <2>2, <3>1 DEF Shape
    <2>4. q.slot.metaRetrieved => q.zero \in Of(r)
      BY <1>5, <1>6, <2>1 DEF Plain
    <2>5. q.slot.blocks = old /\ q.slot.count = N /\ q.samples = r.samples
      BY <1>5, <1>6, <2>1
    <2> HIDE DEF q, value, count
    <2> QED BY <1>8, <2>2, <2>3, <2>4, <2>5 DEF q, value, count
  <1>9. CASE does
    <2> DEFINE slot    == [ready.slot EXCEPT !.metaRetrieved = @ \/ Recovered(value, back)]
               samples == [b \in 1..(N - 1) |-> IF b \in back THEN value ELSE r.samples[b]]
               zero    == IF 0 \in back THEN value ELSE r.zero
    <2>1. q = [slot |-> slot, samples |-> samples, zero |-> zero]
      BY <1>5, <1>6, <1>7, <1>9 DEF Restore, Restored
    <2>2. Recovered(value, back) \in BOOLEAN
      BY DEF Recovered
    <2>3. /\ slot \in SlotType /\ slot.blocks = old /\ slot.count = N
          /\ slot.metaRetrieved = (r.slot.metaRetrieved \/ Recovered(value, back))
      <3> DEFINE v == ready.slot.metaRetrieved \/ Recovered(value, back)
      <3>1. v \in BOOLEAN
        BY <1>1, <1>6, <2>2
      <3>2. slot = [ready.slot EXCEPT !.metaRetrieved = v]
        OBVIOUS
      <3> HIDE DEF v, slot
      <3>3. /\ slot \in SlotType /\ slot.blocks = ready.slot.blocks
            /\ slot.count = ready.slot.count /\ slot.metaRetrieved = v
        BY <1>6, <3>1, <3>2, SlotChanged
      <3> QED BY <1>6, <3>3 DEF v
    <2> HIDE DEF slot
    <2>4. samples \in [1..(N - 1) -> Values] /\ zero \in Values
      BY <1>1, <1>3
    <2>5. /\ q.slot = slot /\ q.samples = samples /\ q.zero = zero
          /\ q.slot.blocks = old /\ q.slot.count = N
      BY <2>1, <2>3
    <2>6. Of(q) = Of(r) /\ Numbers(q) = Numbers(r)
      BY <2>5 DEF Of, Numbers
    <2>7. q \in [slot : SlotType, samples : [1..(N - 1) -> Values], zero : Values]
      BY <2>1, <2>3, <2>4
    <2>8. \A b \in 1..(N - 1) : q.samples[b] = IF b \in back THEN value ELSE r.samples[b]
      BY <2>5
    <2>9. q.zero = IF 0 \in back THEN value ELSE r.zero
      BY <2>5
    <2>10. q.slot.metaRetrieved => q.zero \in Of(r)
      BY <1>3, <1>4, <2>3, <2>5, <2>9 DEF Plain, Recovered
    <2>12. Recoveries(old) # {}
      BY <1>9 DEF Decoding
    <2> HIDE DEF q, value, count, back
    <2>11. Shape(q)
      BY <1>1, <1>3, <2>5, <2>6, <2>7, <2>8, <2>9 DEF Shape
    <2> QED BY <1>4, <1>9, <2>5, <2>6, <2>8, <2>10, <2>11, <2>12 DEF q, value, count, back
  <1> QED BY <1>8, <1>9

(* The recovery blocks of the frame are those the decoder is told of,      *)
(* where it is told.                                                       *)
Meant(r, fec, meta) ==
  /\ fec \in Nat /\ \A b \in Numbers(r) : b < N + fec
  /\ Recoveries(r.slot.blocks) # {} /\ 0 \in Numbers(r) => meta[m_currentMeta] = fec

(* The N blocks of one frame in a slot are in order.                       *)
LEMMA TogetherIs ==
  ASSUME NEW r, Shape(r), Ascending(r), r.slot.count >= N, NEW f, Of(r) \subseteq {f}
  PROVE  /\ Together(r.slot.blocks) /\ DOMAIN r.slot.blocks = 1..N
         /\ \A i \in 1..N : /\ r.slot.blocks[i].frame = f
                            /\ r.slot.blocks[i].block \in Nat
                            /\ r.slot.blocks[i].block \in Numbers(r)
  <1> DEFINE list == r.slot.blocks
  <1>1. /\ N \in Nat /\ N > 1 /\ list \in Seq(DatagramType) /\ Len(list) = N
    BY Constants DEF Shape, SlotType
  <1>2. /\ DOMAIN list = 1..N /\ list \in [1..N -> DatagramType]
        /\ \A i \in 1..N : list[i].block \in Nat
    <2> HIDE DEF list
    <2>1. DOMAIN list = 1..N /\ list \in [1..N -> DatagramType]
      BY <1>1
    <2>2. \A i \in 1..N : list[i] \in DatagramType
      BY <2>1
    <2> QED BY <2>1, <2>2 DEF DatagramType
  <1>3. \A i \in 1..N : list[i].frame = f /\ list[i].block \in Numbers(r)
    BY <1>2 DEF Of, Numbers
  <1>4. \A i, j \in 1..N : i < j => list[i].block < list[j].block
    BY <1>2, <1>3 DEF Ascending
  <1> HIDE DEF list
  <1>5. Together(list)
    BY <1>1, <1>2, <1>3, <1>4 DEF Together
  <1> QED BY <1>2, <1>3, <1>5 DEF list

(* If there are other recovery blocks than the first one, and block 0 came, *)
(* the decoder is not told of just one; so it repairs all.                 *)
LEMMA MeantIsRepaired ==
  ASSUME NEW r, Shape(r), Plain(r), Ascending(r), r.slot.count = N,
         NEW f, Of(r) \subseteq {f}, NEW fec, NEW meta, Meant(r, fec, meta),
         Recoveries(r.slot.blocks) # {}
  PROVE  Repaired(r.slot.blocks, RecoveryCount(r, meta)) = Recoveries(r.slot.blocks)
  <1> DEFINE list   == r.slot.blocks
             count  == RecoveryCount(r, meta)
             R      == Recoveries(list)
  <1>1. /\ N \in Nat /\ Together(list) /\ DOMAIN list = 1..N
        /\ \A i \in 1..N : list[i].block \in Nat /\ list[i].block \in Numbers(r)
    BY TogetherIs, Constants
  <1>2. R \subseteq 1..N /\ \A i \in R : list[i].block >= N
    BY <1>1 DEF Recoveries
  <1>3. CASE 0 \in Numbers(r)
    <2>1. count = fec /\ fec \in Nat /\ \A i \in R : list[i].block < N + fec
      BY <1>1, <1>2, <1>3 DEF RecoveryCount, Plain, Meant
    <2> HIDE DEF list, count, R
    <2>2. ASSUME count = 1, NEW i \in R PROVE list[i].block = N
      <3>1. list[i].block \in Nat /\ list[i].block >= N /\ list[i].block < N + 1
        BY <1>1, <1>2, <2>1, <2>2
      <3> QED BY <1>1, <3>1
    <2> QED BY <1>1, <2>2, AllRepaired DEF R, list, count
  <1>4. CASE 0 \notin Numbers(r)
    <2>1. count = Cardinality(R)
      BY <1>4 DEF RecoveryCount, Plain
    <2>2. IsFiniteSet(R)
      BY <1>1, RecoveriesAreLast
    <2>3. count = 1 => \A i, j \in R : i = j
      <3> HIDE DEF R, count
      <3>1. count = 1 => \E x : R = {x}
        BY <2>1, <2>2, FS_Singleton
      <3> QED BY <3>1
    <2>4. \A i \in R : i <= i
      BY <1>1, <1>2
    <2> HIDE DEF count, list
    <2> QED BY <2>3, <2>4 DEF Repaired, list, count
  <1> QED BY <1>3, <1>4

(* A slot with N blocks of one frame is whole after Decode().              *)
LEMMA WholeDecoded ==
  ASSUME NEW r, Shape(r), Plain(r), Ascending(r), r.slot.count = N, Decodable(r),
         NEW f, Of(r) \subseteq {f}, NEW fec, NEW meta, Meant(r, fec, meta)
  PROVE  \A b \in 1..(N - 1) : Decode(r, meta).samples[b] = f
  <1> DEFINE q      == Decode(r, meta)
             list   == r.slot.blocks
             count  == RecoveryCount(r, meta)
             value  == Decoded(list, count)
             R      == Recoveries(list)
             M      == Missing(list)
  <1>1. /\ N \in Nat /\ N > 1 /\ DOMAIN list = 1..N
    BY TogetherIs, Constants
  <1>2. \A i \in 1..N : list[i].block \in Nat
    BY TogetherIs, Constants
  <1>3. \A i \in 1..N : list[i].frame = f /\ list[i].block \in Numbers(r)
    BY TogetherIs, Constants
  <1>4. Together(list)
    BY TogetherIs, Constants
  <1>5. /\ IsFiniteSet(R) /\ IsFiniteSet(M) /\ Cardinality(M) = Cardinality(R)
        /\ Cardinality(R) \in Nat
        /\ R # {} => BroughtBack(list, count) = M
    <2>1. R # {} => BroughtBack(list, count) = M
      BY <1>4, MeantIsRepaired, AllBroughtBack
    <2> HIDE DEF count
    <2> QED BY <1>4, <1>1, <2>1, RecoveriesAreLast, AsManyMissing
  <1>6. \A b \in 1..(N - 1) : b \notin M => b \in Numbers(r) /\ q.samples[b] = f
    <2> SUFFICES ASSUME NEW b \in 1..(N - 1), b \notin M
                 PROVE  b \in Numbers(r) /\ q.samples[b] = f
      OBVIOUS
    <2>1. b \in Numbers(r)
      BY <1>1 DEF Missing, Numbers
    <2>2. q.samples[b] = r.samples[b]
      BY <2>1, DecodeIs
    <2>3. r.samples[b] \in Of(r)
      BY <2>1 DEF Plain
    <2> HIDE DEF q
    <2> QED BY <2>1, <2>2, <2>3
  <1>7. CASE R = {}
    <2>1. M = {}
      <3> HIDE DEF M
      <3> QED BY <1>5, <1>7, FS_EmptySet
    <2> HIDE DEF q, M
    <2> QED BY <1>6, <2>1 DEF q
  <1>8. CASE R # {} /\ 0 \notin Numbers(r) /\ Cardinality(R) = 1
    <2>1. 0 \in M
      BY <1>1, <1>8 DEF Missing, Numbers
    <2>2. \A b \in 1..(N - 1) : b \notin M
      <3> HIDE DEF M
      <3> QED BY <1>5, <1>8, <2>1, FS_Singleton
    <2> HIDE DEF q, M
    <2> QED BY <1>6, <2>2 DEF q
  <1>9. CASE R # {} /\ (0 \in Numbers(r) \/ Cardinality(R) # 1)
    <2>1. /\ count >= 1
          /\ count > 1 \/ \A i \in R : list[i].block = N
      <3>1. CASE 0 \in Numbers(r)
        <4>1. count = fec
          BY <1>9, <3>1 DEF RecoveryCount, Plain, Meant
        <4>2. \A i \in R : list[i].block >= N /\ list[i].block \in Nat /\ list[i].block < N + fec
          BY <1>1, <1>2, <1>3 DEF Recoveries, Meant
        <4> HIDE DEF R, list, count
        <4> QED BY <1>1, <1>9, <4>1, <4>2 DEF Meant
      <3>2. CASE 0 \notin Numbers(r)
        <4>1. count = Cardinality(R)
          BY <3>2 DEF RecoveryCount, Plain
        <4>2. Cardinality(R) # 0
          <5> HIDE DEF R
          <5> QED BY <1>5, <1>9, FS_EmptySet
        <4> HIDE DEF count, R
        <4> QED BY <1>5, <1>9, <3>2, <4>1, <4>2
      <3> QED BY <3>1, <3>2
    <2>2. Decodes(list, count)
      <3> HIDE DEF count, list
      <3> QED BY <1>5, <2>1 DEF Decodes
    <2>3. value = f
      <3>1. \A i, j \in DOMAIN list : list[i].block = list[j].block => i = j
        <4> HIDE DEF list
        <4> QED BY <1>2, <1>4 DEF Together
      <3>2. /\ \A i \in DOMAIN list : list[i].frame = list[1].frame
            /\ list[1].frame = f
        BY <1>1, <1>2, <1>3
      <3> HIDE DEF list, count
      <3> QED BY <2>1, <3>1, <3>2 DEF Decoded
    <2>4. Decoding(r, meta)
      BY <1>9, <2>2 DEF Decoding, Decodable
    <2>5. \A b \in (1..(N - 1)) \cap BroughtBack(list, count) : q.samples[b] = value
      BY <2>4, DecodeIs
    <2> HIDE DEF q, M, value, list, count, R
    <2> QED BY <1>5, <1>6, <1>9, <2>3, <2>5 DEF q
  <1> QED BY <1>7, <1>8, <1>9

(* The slot after a datagram.                                              *)
Filled(d, r, meta) ==
  IF Kept(d, r).slot.count = N THEN Decode(Kept(d, r), meta) ELSE Kept(d, r)

(* The datagram is the next one of its frame.                              *)
Behind(r, d) ==
  \A i \in DOMAIN r.slot.blocks :
    r.slot.blocks[i].frame = d.frame => r.slot.blocks[i].block < d.block

(* What writeData() does to a slot, ...                                    *)
LEMMA FilledIs ==
  ASSUME NEW r, Held(r), NEW d \in DatagramType, Behind(r, d), NEW meta
  PROVE  LET a == Filled(d, r, meta)
         IN /\ Held(a)
            /\ a.slot.count = r.slot.count + 1
            /\ r.slot.count < N =>
                 /\ a.slot.blocks = Append(r.slot.blocks, d)
                 /\ Of(a) = Of(r) \cup {d.frame} /\ Numbers(a) = Numbers(r) \cup {d.block}
                 /\ \A b \in 1..(N - 1) : b \in Numbers(r) =>
                      a.samples[b] = IF b = d.block THEN d.frame ELSE r.samples[b]
            /\ r.slot.count >= N =>
                 /\ a.slot.blocks = r.slot.blocks /\ a.samples = r.samples
                 /\ Of(a) = Of(r) /\ Numbers(a) = Numbers(r)
            /\ a.slot.count = N /\ a.slot.metaRetrieved => a.zero \in Of(a)
  <1> DEFINE k == Kept(d, r)
             a == Filled(d, r, meta)
  <1>1. r.slot.count \in Nat /\ N \in Nat /\ N > 1
        /\ r.slot.blocks \in Seq(DatagramType)
    BY Constants DEF Shape, SlotType, Held
  <1>2. CASE r.slot.count >= N
    <2>1. a = k
      BY <1>1, <1>2, OverfullIs DEF Filled, Held
    <2>2. /\ Shape(k) /\ k.slot.blocks = r.slot.blocks
          /\ k.samples = r.samples /\ k.zero = r.zero
          /\ k.slot.count = r.slot.count + 1
          /\ Of(k) = Of(r) /\ Numbers(k) = Numbers(r)
      BY <1>2, OverfullIs DEF Held
    <2>3. Ascending(k)
      BY <2>2 DEF Ascending, Held
    <2> HIDE DEF a, k
    <2> QED BY <1>1, <1>2, <2>1, <2>2, <2>3 DEF a, Held
  <1>3. CASE r.slot.count < N
    <2>1. /\ Shape(k) /\ Plain(k)
          /\ k.slot.blocks = Append(r.slot.blocks, d)
          /\ k.slot.count = r.slot.count + 1
          /\ Of(k) = Of(r) \cup {d.frame}
          /\ Numbers(k) = Numbers(r) \cup {d.block}
          /\ \A b \in 1..(N - 1) :
               k.samples[b] = IF b = d.block THEN d.frame ELSE r.samples[b]
      BY <1>3, StoredIs DEF Held
    <2>2. Ascending(k)
      <3> DEFINE old == r.slot.blocks
                 list == Append(old, d)
      <3>1. /\ DOMAIN list = 1..(Len(old) + 1) /\ DOMAIN old = 1..Len(old)
            /\ Len(old) \in Nat
            /\ list[Len(old) + 1] = d /\ \A i \in 1..Len(old) : list[i] = old[i]
        BY <1>1, AppendProperties
      <3>2. ASSUME NEW i \in DOMAIN list, NEW j \in DOMAIN list, i < j,
                   list[i].frame = list[j].frame
            PROVE  list[i].block < list[j].block
        <4>1. i \in 1..Len(old) /\ list[i] = old[i]
          BY <3>1, <3>2
        <4>2. CASE j = Len(old) + 1
          BY <3>1, <3>2, <4>1, <4>2 DEF Behind
        <4>3. CASE j \in 1..Len(old)
          BY <3>1, <3>2, <4>1, <4>3 DEF Ascending, Held
        <4> HIDE DEF list, old
        <4> QED BY <3>1, <4>2, <4>3
      <3> HIDE DEF list, k
      <3> QED BY <2>1, <3>2 DEF Ascending, list
    <2>3. CASE k.slot.count # N
      <3>1. a = k
        BY <2>3 DEF Filled
      <3>2. a.slot.count # N
        BY <2>3, <3>1
      <3> HIDE DEF a, k
      <3> QED BY <1>1, <1>3, <2>1, <2>2, <3>1, <3>2 DEF a, Held
    <2>4. CASE k.slot.count = N
      <3>1. a = Decode(k, meta)
        BY <2>4 DEF Filled
      <3>2. /\ Shape(a) /\ a.slot.blocks = k.slot.blocks /\ a.slot.count = N
            /\ Of(a) = Of(k) /\ Numbers(a) = Numbers(k)
            /\ a.slot.metaRetrieved => a.zero \in Of(k)
            /\ \A b \in 1..(N - 1) : b \in Numbers(k) => a.samples[b] = k.samples[b]
        BY <2>1, <2>4, <3>1, DecodeIs
      <3>3. Ascending(a)
        BY <2>2, <3>2 DEF Ascending
      <3> HIDE DEF a, k
      <3> QED BY <1>1, <1>3, <2>1, <2>4, <3>2, <3>3 DEF a, Held
    <2> QED BY <2>3, <2>4
  <1> QED BY <1>1, <1>2, <1>3

(* ... when that completes the N blocks of a frame, ...                    *)
LEMMA FilledFrom ==
  ASSUME NEW r, Held(r), NEW d \in DatagramType, Behind(r, d), NEW meta,
         Filled(d, r, meta).slot.count = N
  PROVE  LET k == Kept(d, r)
             a == Filled(d, r, meta)
         IN /\ Shape(k) /\ Plain(k) /\ Ascending(k) /\ k.slot.count = N
            /\ a = Decode(k, meta)
            /\ k.slot.blocks = a.slot.blocks /\ Of(k) = Of(a) /\ Numbers(k) = Numbers(a)
  <1> DEFINE k == Kept(d, r)
             a == Filled(d, r, meta)
  <1> HIDE DEF k, a
  <1>1. /\ r.slot.count \in Nat /\ N \in Nat /\ a.slot.count = r.slot.count + 1
        /\ Ascending(a)
        /\ r.slot.count < N =>
             /\ a.slot.blocks = Append(r.slot.blocks, d)
             /\ Of(a) = Of(r) \cup {d.frame} /\ Numbers(a) = Numbers(r) \cup {d.block}
    <2>1. r.slot.count \in Nat /\ N \in Nat
      BY Constants DEF Shape, SlotType, Held
    <2> QED BY <2>1, FilledIs DEF a, Held
  <1>2. a.slot.count = N
    BY DEF a
  <1>3. Shape(r) /\ Plain(r) /\ r.slot.count < N
    BY <1>1, <1>2 DEF Held
  <1>4. /\ Shape(k) /\ Plain(k) /\ k.slot.blocks = Append(r.slot.blocks, d)
        /\ k.slot.count = r.slot.count + 1
        /\ Of(k) = Of(r) \cup {d.frame} /\ Numbers(k) = Numbers(r) \cup {d.block}
    BY <1>3, StoredIs DEF k
  <1>5. k.slot.count = N
    BY <1>1, <1>2, <1>4
  <1>6. a = Decode(k, meta)
    BY <1>5 DEF Filled, a, k
  <1>7. /\ k.slot.blocks = a.slot.blocks /\ Of(k) = Of(a) /\ Numbers(k) = Numbers(a)
    BY <1>1, <1>3, <1>4
  <1>8. Ascending(k)
    BY <1>1, <1>7 DEF Ascending
  <1> QED BY <1>4, <1>5, <1>6, <1>7, <1>8 DEF k, a

(* ... when that makes it whole, ...                                       *)
LEMMA FilledWhole ==
  ASSUME NEW r, Held(r), NEW d \in DatagramType, Behind(r, d), NEW meta, NEW fec,
         Filled(d, r, meta).slot.count = N,
         Decodable(Filled(d, r, meta)),
         Of(Filled(d, r, meta)) \subseteq {d.frame},
         Meant(Filled(d, r, meta), fec, meta)
  PROVE  \A b \in 1..(N - 1) : Filled(d, r, meta).samples[b] = d.frame
  <1> DEFINE k == Kept(d, r)
             a == Filled(d, r, meta)
  <1>1. /\ Shape(k) /\ Plain(k) /\ Ascending(k) /\ k.slot.count = N /\ a = Decode(k, meta)
        /\ k.slot.blocks = a.slot.blocks /\ Of(k) = Of(a) /\ Numbers(k) = Numbers(a)
    BY FilledFrom
  <1>2. Decodable(a) /\ Of(a) \subseteq {d.frame} /\ Meant(a, fec, meta)
    OBVIOUS
  <1> HIDE DEF k, a
  <1>3. Meant(k, fec, meta) /\ Decodable(k) /\ Of(k) \subseteq {d.frame}
    BY <1>1, <1>2 DEF Meant, Decodable
  <1>4. \A b \in 1..(N - 1) : Decode(k, meta).samples[b] = d.frame
    BY <1>1, <1>3, WholeDecoded
  <1> QED BY <1>1, <1>4 DEF a

(* ... and when it does not store anything elsewhere.                      *)
Astray(d, r, meta) ==
  IF Kept(d, r).slot.count = N THEN Stray(Kept(d, r), meta) ELSE {}

LEMMA FilledHere ==
  ASSUME NEW r, Held(r), NEW d \in DatagramType, Behind(r, d), NEW meta, NEW fec,
         Filled(d, r, meta).slot.count = N,
         Of(Filled(d, r, meta)) \subseteq {d.frame},
         Meant(Filled(d, r, meta), fec, meta)
  PROVE  Astray(d, r, meta) = {}
  <1> DEFINE k == Kept(d, r)
             a == Filled(d, r, meta)
  <1>1. /\ Shape(k) /\ Plain(k) /\ Ascending(k) /\ k.slot.count = N
        /\ k.slot.blocks = a.slot.blocks /\ Of(k) = Of(a) /\ Numbers(k) = Numbers(a)
    BY FilledFrom
  <1>2. Of(a) \subseteq {d.frame} /\ Meant(a, fec, meta)
    OBVIOUS
  <1>3. Astray(d, r, meta) = IF k.slot.count = N THEN Stray(k, meta) ELSE {}
    BY DEF Astray
  <1> HIDE DEF k, a
  <1>4. Meant(k, fec, meta) /\ Of(k) \subseteq {d.frame}
    BY <1>1, <1>2 DEF Meant
  <1>5. ASSUME Recoveries(k.slot.blocks) # {}
        PROVE  Beyond(k.slot.blocks, RecoveryCount(k, meta)) = {}
    <2>1. Repaired(k.slot.blocks, RecoveryCount(k, meta)) = Recoveries(k.slot.blocks)
      BY <1>1, <1>4, <1>5, MeantIsRepaired
    <2> QED BY <2>1 DEF Beyond, RestoredPlaces
  <1>6. Stray(k, meta) = {}
    BY <1>5 DEF Stray, Decoding
  <1> QED BY <1>3, <1>6

(* Without the code there are just the blocks that came.                   *)
LEMMA FilledPlain ==
  ASSUME NEW r, Held(r), NEW d \in DatagramType, Behind(r, d), NEW meta,
         Filled(d, r, meta).slot.count = N, ~ m_cm256_OK
  PROVE  \A b \in 1..(N - 1) :
           Filled(d, r, meta).samples[b] \in {Zeros} \cup Of(Filled(d, r, meta))
  <1> DEFINE k == Kept(d, r)
             a == Filled(d, r, meta)
  <1>1. /\ Shape(k) /\ Plain(k) /\ k.slot.count = N /\ a = Decode(k, meta)
        /\ Of(k) = Of(a)
    BY FilledFrom
  <1> HIDE DEF k, a
  <1>2. \A b \in 1..(N - 1) : a.samples[b] = k.samples[b]
    BY <1>1, DecodeIs DEF Decoding
  <1> QED BY <1>1, <1>2 DEF Plain, a
-----------------------------------------------------------------------------
(* The sink.                                                               *)

(* What was sent stays so, and what a thread is sending it goes on with.   *)
Onwards ==
  /\ Len(frames) \in Nat /\ Len(frames') \in Nat /\ Len(frames) <= Len(frames')
  /\ \A f \in 1..Len(frames) : frames'[f] = frames[f]
  /\ \A f \in begun, u \in Threads : sending'[u] # None /\ sending'[u][1] = f =>
       Sends(u, f) /\ sending[u][2] <= sending'[u][2]

(* The types of what it has.                                               *)
LEMMA SinkIs ==
  ASSUME SinkTypes, InTurn
  PROVE  /\ Len(frames) \in Nat /\ DOMAIN frames = 1..Len(frames)
         /\ \A f \in 1..Len(frames) : frames[f] \in FrameType /\ f \in Ids
         /\ \A f \in 1..Len(frames) : Blocks(f) \in Nat /\ Blocks(f) >= N
         /\ \A t \in Threads : sending[t] # None =>
              /\ sending[t] \in Ids \X Nat /\ sending[t][1] \in 1..Len(frames)
              /\ sending[t][2] \in Nat /\ sending[t][2] < Blocks(sending[t][1])
  <1>1. /\ Len(frames) \in Nat /\ DOMAIN frames = 1..Len(frames) /\ Len(frames) <= MaxFrames
        /\ \A f \in 1..Len(frames) : frames[f] \in FrameType
    <2>1. frames \in Seq(FrameType) /\ Len(frames) <= MaxFrames
      BY DEF SinkTypes, FrameType
    <2> QED BY <2>1
  <1>2. \A f \in 1..Len(frames) : frames[f].fec \in Nat /\ f \in Ids
    <2>1. \A f \in 1..Len(frames) : frames[f].fec \in FECs
      BY <1>1 DEF FrameType
    <2>2. \A n \in FECs : n \in Nat
      BY Constants
    <2>3. MaxFrames \in Nat
      BY Constants
    <2>4. \A f \in 1..Len(frames) : f \in Ids
      BY <1>1, <2>3 DEF Ids
    <2> QED BY <2>1, <2>2, <2>4
  <1>3. \A f \in 1..Len(frames) : Blocks(f) \in Nat /\ Blocks(f) >= N
    BY <1>2, Constants DEF Blocks, Recovery
  <1>4. \A t \in Threads : sending[t] # None => sending[t] \in Ids \X Nat
    BY DEF SinkTypes
  <1> QED BY <1>1, <1>2, <1>3, <1>4 DEF InTurn

(* A block is sent: the next one is the same frame's, or the frame is      *)
(* done.                                                                   *)
LEMMA TransmitKeeps ==
  ASSUME SinkTypes, InTurn, NEW t \in Threads, Transmit(t),
         begun' \subseteq begun \cup {sending[t][1]}
  PROVE  SinkTypes' /\ InTurn' /\ Onwards
  <1> DEFINE f == sending[t][1]
             b == sending[t][2]
  <1>1. /\ sending[t] # None
        /\ UNCHANGED <<frames, m_frameCount, building, m_nbBlocksFEC,
                       m_sdrDaemonSinkThread, m_inputMessageQueue, handling, unsent>>
        /\ sending' = [sending EXCEPT ![t] = IF b + 1 = Blocks(f) THEN None
                                                                  ELSE <<f, b + 1>>]
        /\ sent' \subseteq sent \cup {f}
    BY DEF Transmit
  <1>2. /\ Len(frames) \in Nat /\ f \in 1..Len(frames) /\ f \in Ids
        /\ b \in Nat /\ Blocks(f) \in Nat /\ b < Blocks(f)
        /\ \A g \in 1..Len(frames) : Blocks(g)' = Blocks(g)
    BY <1>1, SinkIs DEF Blocks, Recovery
  <1>3. sending \in [Threads -> {None} \cup (Ids \X Nat)]
    BY DEF SinkTypes
  <1>4. /\ sending' \in [Threads -> {None} \cup (Ids \X Nat)]
        /\ \A u \in Threads : u # t => sending'[u] = sending[u]
        /\ sending'[t] = IF b + 1 = Blocks(f) THEN None ELSE <<f, b + 1>>
    BY <1>1, <1>2, <1>3
  <1>5. SinkTypes'
    BY <1>1, <1>2, <1>4 DEF SinkTypes
  <1> HIDE DEF f, b
  <1>6. sending'[t] # None => sending'[t][1] = f /\ sending'[t][2] = b + 1
                              /\ b + 1 < Blocks(f)
    BY <1>2, <1>4
  <1>7. \A u \in Threads : sending'[u] # None =>
          sending[u] # None /\ sending'[u][1] = sending[u][1]
            /\ (sending'[u] = sending[u] \/ u = t)
    BY <1>1, <1>4, <1>6 DEF f
  <1>8. InTurn'
    <2>1. begun' \subseteq 1..Len(frames)
      BY <1>2 DEF InTurn, f
    <2>2. ASSUME NEW u \in Threads, sending'[u] # None
          PROVE  sending'[u][1] \in 1..Len(frames) /\ sending'[u][2] < Blocks(sending'[u][1])
      <3>1. CASE u = t
        BY <1>2, <1>6, <2>2, <3>1
      <3>2. CASE u # t
        BY <1>4, <2>2, <3>2 DEF InTurn
      <3> QED BY <3>1, <3>2
    <2>3. \A u, w \in Threads : sending'[u] # None /\ sending'[w] # None /\ u # w
            => sending'[u][1] # sending'[w][1]
      BY <1>7 DEF InTurn
    <2>4. \A i \in DOMAIN m_inputMessageQueue :
            /\ m_inputMessageQueue[i] \notin begun'
            /\ \A u \in Threads : ~ (sending'[u] # None /\ sending'[u][1] = m_inputMessageQueue[i])
      <3>1. \A i \in DOMAIN m_inputMessageQueue :
              m_inputMessageQueue[i] \notin begun /\ m_inputMessageQueue[i] # f
        BY <1>1 DEF InTurn, Sends, f
      <3>2. begun' \subseteq begun \cup {f}
        BY DEF f
      <3>3. \A i \in DOMAIN m_inputMessageQueue : \A u \in Threads :
              ~ (sending'[u] # None /\ sending'[u][1] = m_inputMessageQueue[i])
        BY <1>7 DEF InTurn, Sends
      <3> QED BY <3>1, <3>2, <3>3
    <2>5. \A g \in 1..Len(frames) : Blocks(g)' = Blocks(g)
      BY <1>2
    <2>6. \A u \in Threads : sending'[u] # None =>
            /\ sending'[u][1] \in 1..Len(frames')
            /\ sending'[u][2] < N + (IF m_cm256Valid THEN frames'[sending'[u][1]].fec ELSE 0)
      BY <1>1, <2>2 DEF Blocks, Recovery
    <2> QED BY <1>1, <2>1, <2>3, <2>4, <2>6 DEF InTurn, Sends, Blocks, Recovery
  <1>9. Onwards
    <2>1. ASSUME NEW u \in Threads, sending'[u] # None
          PROVE  /\ sending[u] # None /\ sending[u][1] = sending'[u][1]
                 /\ sending[u][2] <= sending'[u][2]
      <3>1. CASE u = t
        BY <1>1, <1>2, <1>6, <2>1, <3>1 DEF f, b
      <3>2. CASE u # t
        <4>1. sending[u] # None /\ sending[u] = sending'[u]
          BY <1>4, <2>1, <3>2
        <4>2. sending[u][2] \in Nat
          BY <4>1, SinkIs
        <4> QED BY <4>1, <4>2
      <3> QED BY <3>1, <3>2
    <2> QED BY <1>1, <1>2, <2>1 DEF Onwards, Sends
  <1> QED BY <1>5, <1>8, <1>9

(* The other steps of the sink: a new frame is behind all in the queue,    *)
(* and what is popped was never sent.                                      *)
LEMMA SinkStepKeeps ==
  ASSUME SinkTypes, InTurn, SinkStep, begun' = begun
  PROVE  SinkTypes' /\ InTurn' /\ Onwards
  <1> DEFINE queue == m_inputMessageQueue
  <1>1. /\ Len(frames) \in Nat /\ Len(frames) <= MaxFrames /\ frames \in Seq(FrameType)
        /\ \A f \in 1..Len(frames) : Blocks(f) \in Nat
        /\ m_frameCount \in 0..(Wrap - 1) /\ building \in FECs \cup {None}
        /\ building # None => Len(frames) < MaxFrames
        /\ m_nbBlocksFEC \in FECs /\ queue \in Seq(0..Len(frames))
        /\ handling \subseteq Threads
        /\ sending \in [Threads -> {None} \cup (Ids \X Nat)]
        /\ m_sdrDaemonSinkThread \in BOOLEAN
        /\ sent \subseteq 1..Len(frames) /\ unsent \subseteq 1..Len(frames)
        /\ N \in Nat /\ Wrap \in Nat \ {0} /\ MaxFrames \in Nat
    BY SinkIs, Constants DEF SinkTypes, FrameType
  <1>2. ASSUME UNCHANGED <<frames, m_inputMessageQueue, sending>>
        PROVE  InTurn' /\ Onwards
    <2>1. InTurn'
      BY <1>2 DEF InTurn, Sends, Blocks, Recovery
    <2>2. \A u \in Threads : sending[u] # None => sending[u][2] \in Nat
      BY SinkIs
    <2> QED BY <1>1, <1>2, <2>1, <2>2 DEF Onwards, Sends
  <1>3. ASSUME frames' = frames, UNCHANGED sending, m_inputMessageQueue' = Append(queue, Address)
        PROVE  InTurn' /\ Onwards /\ queue' \in Seq(0..Len(frames))
    <2> DEFINE next == Append(queue, Address)
    <2>1. /\ next \in Seq(0..Len(frames)) /\ DOMAIN next = 1..(Len(queue) + 1)
          /\ DOMAIN queue = 1..Len(queue) /\ Len(queue) \in Nat
          /\ next[Len(queue) + 1] = Address /\ \A i \in 1..Len(queue) : next[i] = queue[i]
      BY <1>1, AppendProperties DEF Address
    <2>2. Address \notin 1..Len(frames)
      BY DEF Address
    <2> HIDE DEF next, queue
    <2>3. \A i \in DOMAIN next :
            next[i] \notin begun /\ \A t \in Threads : ~ Sends(t, next[i])
      BY <2>1, <2>2 DEF InTurn, Sends, queue
    <2>4. \A i, j \in DOMAIN next : i < j /\ next[i] # Address => next[i] # next[j]
      BY <2>1 DEF InTurn, queue
    <2>5. InTurn'
      BY <1>3, <2>3, <2>4 DEF InTurn, Sends, Blocks, Recovery, queue, next
    <2>6. \A u \in Threads : sending[u] # None => sending[u][2] \in Nat
      BY SinkIs
    <2>7. Onwards
      BY <1>1, <1>3, <2>6 DEF Onwards, Sends
    <2> QED BY <1>3, <2>1, <2>5, <2>7 DEF queue, next
  <1>10. ASSUME frames' = frames,
                m_inputMessageQueue' \in {queue, << >>},
                \A u \in Threads : sending'[u] \in {sending[u], None}
         PROVE  InTurn' /\ Onwards /\ m_inputMessageQueue' \in Seq(0..Len(frames))
    <2>1. /\ m_inputMessageQueue' \in Seq(0..Len(frames))
          /\ m_inputMessageQueue' # << >> => m_inputMessageQueue' = queue
          /\ DOMAIN << >> = {}
      <3>1. << >> \in Seq(0..Len(frames)) /\ DOMAIN << >> = {}
        OBVIOUS
      <3>2. queue \in Seq(0..Len(frames))
        BY <1>1
      <3> HIDE DEF queue
      <3> QED BY <1>10, <3>1, <3>2
    <2>2. \A u \in Threads : sending'[u] # None => sending'[u] = sending[u]
      BY <1>10
    <2> HIDE DEF queue
    <2>3. InTurn'
      <3>1. \A u \in Threads : sending'[u] # None =>
              /\ sending'[u][1] \in 1..Len(frames')
              /\ sending'[u][2] < N + (IF m_cm256Valid THEN frames'[sending'[u][1]].fec ELSE 0)
        BY <1>10, <2>2 DEF InTurn, Blocks, Recovery
      <3>2. \A u, w \in Threads : sending'[u] # None /\ sending'[w] # None /\ u # w
              => sending'[u][1] # sending'[w][1]
        BY <2>2 DEF InTurn
      <3>3. CASE m_inputMessageQueue' = << >>
        BY <1>10, <2>1, <3>1, <3>2, <3>3 DEF InTurn, Blocks, Recovery
      <3>4. CASE m_inputMessageQueue' = m_inputMessageQueue
        <4>1. \A i \in DOMAIN m_inputMessageQueue : \A u \in Threads :
                ~ (sending'[u] # None /\ sending'[u][1] = m_inputMessageQueue[i])
          BY <2>2 DEF InTurn, Sends
        <4> QED BY <1>10, <3>1, <3>2, <3>4, <4>1 DEF InTurn, Blocks, Recovery, Sends
      <3> QED BY <2>1, <3>3, <3>4 DEF queue
    <2>4. \A u \in Threads : sending[u] # None => sending[u][2] \in Nat
      BY SinkIs
    <2>5. Onwards
      BY <1>1, <1>10, <2>2, <2>4 DEF Onwards, Sends
    <2> QED BY <2>1, <2>3, <2>5
  <1>4. CASE BeginFrame
    <2>1. SinkTypes'
      BY <1>1, <1>4 DEF BeginFrame, SinkTypes, threadVars
    <2> QED BY <1>2, <1>4, <2>1 DEF BeginFrame, threadVars
  <1>11. CASE Start
    <2>1. SinkTypes'
      BY <1>1, <1>11 DEF Start, SinkTypes
    <2> QED BY <1>2, <1>11, <2>1 DEF Start
  <1>5. CASE CompleteFrame
    <2>0. PICK n \in NbBlocksFEC :
            frames' = Append(frames, [number |-> m_frameCount, meta |-> building, fec |-> n])
      BY <1>5 DEF CompleteFrame
    <2> DEFINE frame == [number |-> m_frameCount, meta |-> building, fec |-> n]
               list  == Append(frames, frame)
               next  == Append(queue, Len(frames) + 1)
    <2>1. frame \in FrameType /\ building # None
      <3>1. n \in FECs
        BY <1>1 DEF NbBlocksFEC
      <3> QED BY <1>1, <1>5, <3>1 DEF CompleteFrame, FrameType
    <2>2. /\ list \in Seq(FrameType) /\ Len(list) = Len(frames) + 1
          /\ \A i \in 1..Len(frames) : list[i] = frames[i]
      BY <1>1, <2>1, AppendProperties
    <2>3. /\ DOMAIN next = 1..(Len(queue) + 1)
          /\ DOMAIN queue = 1..Len(queue) /\ Len(queue) \in Nat
          /\ next[Len(queue) + 1] = Len(frames) + 1
          /\ \A i \in 1..Len(queue) : next[i] = queue[i] /\ queue[i] \in 0..Len(frames)
          /\ Len(next) = Len(queue) + 1
      BY <1>1, AppendProperties
    <2>4. /\ frames' = list /\ m_inputMessageQueue' = next /\ sending' = sending
          /\ m_frameCount' = (m_frameCount + 1) % Wrap /\ building' = None
          /\ handling' = handling \cup {"engine"}
          /\ UNCHANGED <<m_nbBlocksFEC, m_sdrDaemonSinkThread, sent>>
          /\ unsent' \subseteq unsent \cup {Len(frames) + 1}
      BY <1>5, <2>0, <2>2 DEF CompleteFrame
    <2> HIDE DEF frame, list, next, queue
    <2>5. next \in Seq(0..(Len(frames) + 1))
      <3>1. next \in [1..Len(next) -> 0..(Len(frames) + 1)]
        <4>1. next = [i \in 1..Len(next) |-> next[i]]
          BY <1>1, <2>3 DEF next
        <4>2. ASSUME NEW i \in 1..Len(next) PROVE next[i] \in 0..(Len(frames) + 1)
          <5>1. CASE i = Len(queue) + 1
            BY <1>1, <2>3, <5>1
          <5>2. CASE i # Len(queue) + 1
            <6>1. i \in 1..Len(queue)
              BY <2>3, <5>2
            <6>2. next[i] = queue[i] /\ queue[i] \in 0..Len(frames)
              BY <2>3, <6>1
            <6> QED BY <1>1, <6>2
          <5> QED BY <5>1, <5>2
        <4> QED BY <4>1, <4>2
      <3> QED BY <2>3, <3>1, SeqDef
    <2>6. SinkTypes'
      <3>1. m_frameCount' \in 0..(Wrap - 1)
        BY <1>1, <2>4
      <3>2. Len(frames') = Len(frames) + 1 /\ Len(frames') <= MaxFrames
        BY <1>1, <2>1, <2>2, <2>4
      <3>3. frames' \in Seq(FrameType) /\ m_inputMessageQueue' \in Seq(0..Len(frames'))
        BY <2>2, <2>4, <2>5
      <3>4. handling' \subseteq Threads
        BY <1>1, <2>4 DEF Threads
      <3>5. building' = None /\ m_nbBlocksFEC' \in FECs
            /\ sending' \in [Threads -> {None} \cup (Ids \X Nat)]
        BY <1>1, <2>4
      <3>6. sent' \subseteq 1..Len(frames') /\ unsent' \subseteq 1..Len(frames')
            /\ m_sdrDaemonSinkThread' \in BOOLEAN
        BY <1>1, <2>4, <3>2
      <3> QED BY <3>1, <3>2, <3>3, <3>4, <3>5, <3>6 DEF SinkTypes, FrameType
    <2>7. Len(frames) + 1 \notin begun /\ \A t \in Threads : ~ Sends(t, Len(frames) + 1)
      BY <1>1 DEF InTurn, Sends
    <2>8. \A i \in DOMAIN next :
            next[i] \notin begun /\ \A t \in Threads : ~ Sends(t, next[i])
      BY <2>3, <2>7 DEF InTurn, queue
    <2>9. \A i, j \in DOMAIN next : i < j /\ next[i] # Address => next[i] # next[j]
      <3> SUFFICES ASSUME NEW i \in DOMAIN next, NEW j \in DOMAIN next, i < j, next[i] # Address
                   PROVE  next[i] # next[j]
        OBVIOUS
      <3>1. CASE j = Len(queue) + 1
        BY <1>1, <2>3, <3>1
      <3>2. CASE j \in 1..Len(queue)
        BY <2>3, <3>2 DEF InTurn, queue
      <3> QED BY <2>3, <3>1, <3>2
    <2>10. \A f \in 1..Len(frames) : list[f] = frames[f] /\ f \in 1..Len(list)
      BY <1>1, <2>2
    <2>11. InTurn'
      <3>1. begun' \subseteq 1..Len(frames')
        BY <2>4, <2>10 DEF InTurn
      <3>2. \A t \in Threads : sending'[t] # None =>
              /\ sending'[t][1] \in 1..Len(frames')
              /\ sending'[t][2] < N + (IF m_cm256Valid THEN frames'[sending'[t][1]].fec ELSE 0)
        BY <2>4, <2>10 DEF InTurn, Blocks, Recovery
      <3> QED BY <2>4, <2>8, <2>9, <3>1, <3>2 DEF InTurn, Sends, Blocks, Recovery
    <2>12. \A u \in Threads : sending[u] # None => sending[u][2] \in Nat
      BY SinkIs
    <2>13. Onwards
      BY <1>1, <2>2, <2>4, <2>12 DEF Onwards, Sends
    <2> QED BY <2>6, <2>11, <2>13
  <1>6. CASE SetRemoteAddress
    <2>1. /\ UNCHANGED <<frames, m_frameCount, building, m_nbBlocksFEC, sending,
                         m_sdrDaemonSinkThread, sent, unsent>>
          /\ m_inputMessageQueue' = Append(queue, Address)
          /\ handling' = handling \cup {"main"}
      BY <1>6 DEF SetRemoteAddress
    <2>2. InTurn' /\ Onwards /\ queue' \in Seq(0..Len(frames))
      BY <1>3, <2>1
    <2>3. handling' \subseteq Threads
      BY <1>1, <2>1 DEF Threads
    <2>4. SinkTypes'
      BY <1>1, <2>1, <2>2, <2>3 DEF SinkTypes, FrameType
    <2> QED BY <2>2, <2>4
  <1>7. CASE Stop
    <2>1. /\ UNCHANGED <<frames, m_frameCount, m_nbBlocksFEC, handling, sending, sent>>
          /\ m_inputMessageQueue' = << >> /\ m_sdrDaemonSinkThread' = FALSE
          /\ building' \in {building, None} /\ unsent' = unsent \cup Pending
      BY <1>7 DEF Stop
    <2>2. Pending \subseteq 1..Len(frames)
      BY DEF Pending
    <2>3. InTurn' /\ Onwards /\ m_inputMessageQueue' \in Seq(0..Len(frames))
      BY <1>10, <2>1
    <2>4. building' \in FECs \cup {None} /\ (building' # None => Len(frames) < MaxFrames)
      BY <1>1, <2>1
    <2>5. SinkTypes'
      BY <1>1, <2>1, <2>2, <2>3, <2>4 DEF SinkTypes, FrameType
    <2> QED BY <2>3, <2>5
  <1>12. CASE Crash
    <2>1. /\ UNCHANGED <<frames, m_frameCount, m_nbBlocksFEC, m_sdrDaemonSinkThread,
                         sent, unsent>>
          /\ m_inputMessageQueue' = << >> /\ building' = None /\ handling' = {}
          /\ sending' = [t \in Threads |-> None]
      BY <1>12 DEF Crash
    <2>2. InTurn' /\ Onwards /\ m_inputMessageQueue' \in Seq(0..Len(frames))
      BY <1>10, <2>1
    <2>3. SinkTypes'
      BY <1>1, <2>1, <2>2 DEF SinkTypes, FrameType
    <2> QED BY <2>2, <2>3
  <1>13. ASSUME NEW t \in Threads, EncodeFails(t)
         PROVE  SinkTypes' /\ InTurn' /\ Onwards
    <2>1. /\ UNCHANGED <<frames, m_frameCount, building, m_nbBlocksFEC,
                         m_sdrDaemonSinkThread, m_inputMessageQueue, handling, sent>>
          /\ sending' = [sending EXCEPT ![t] = None] /\ sending[t] # None
          /\ unsent' = unsent \cup {sending[t][1]}
      BY <1>13 DEF EncodeFails
    <2>2. sending' \in [Threads -> {None} \cup (Ids \X Nat)]
          /\ \A u \in Threads : sending'[u] \in {sending[u], None}
      BY <1>1, <2>1
    <2>3. InTurn' /\ Onwards /\ m_inputMessageQueue' \in Seq(0..Len(frames))
      BY <1>10, <2>1, <2>2
    <2>4. sending[t][1] \in 1..Len(frames)
      BY <2>1 DEF InTurn
    <2>5. SinkTypes'
      BY <1>1, <2>1, <2>2, <2>3, <2>4 DEF SinkTypes, FrameType
    <2> QED BY <2>3, <2>5
  <1>8. ASSUME NEW n \in FECs, SetNbBlocksFEC(n)
        PROVE  SinkTypes' /\ InTurn' /\ Onwards
    <2>1. SinkTypes'
      BY <1>1, <1>8 DEF SetNbBlocksFEC, SinkTypes, threadVars
    <2> QED BY <1>2, <1>8, <2>1 DEF SetNbBlocksFEC, threadVars
  <1>9. ASSUME NEW t \in Threads, Pop(t)
        PROVE  SinkTypes' /\ InTurn' /\ Onwards
    <2>1. CASE queue = << >>
      <3>1. SinkTypes'
        BY <1>1, <1>9, <2>1 DEF Pop, SinkTypes
      <3> QED BY <1>2, <1>9, <2>1, <3>1 DEF Pop
    <2>2. CASE queue # << >>
      <3> DEFINE message == Head(queue)
                 next    == Tail(queue)
      <3>1. /\ UNCHANGED <<frames, m_frameCount, building, m_nbBlocksFEC, handling,
                           m_sdrDaemonSinkThread, sent, unsent>>
            /\ m_inputMessageQueue' = next /\ sending[t] = None
            /\ sending' = IF message = Address THEN sending
                          ELSE [sending EXCEPT ![t] = <<message, 0>>]
        BY <1>9, <2>2 DEF Pop
      <3>2. /\ message \in 0..Len(frames) /\ next \in Seq(0..Len(frames))
            /\ Len(next) = Len(queue) - 1 /\ Len(queue) \in Nat /\ Len(queue) >= 1
            /\ message = queue[1]
            /\ DOMAIN next = 1..(Len(queue) - 1) /\ DOMAIN queue = 1..Len(queue)
            /\ \A i \in 1..(Len(queue) - 1) : next[i] = queue[i + 1]
        BY <1>1, <2>2, HeadTailProperties, EmptySeq
      <3> HIDE DEF message, next, queue
      <3>3. \A i \in DOMAIN next : i + 1 \in DOMAIN queue /\ next[i] = queue[i + 1]
        BY <3>2
      <3>4. /\ message \notin begun /\ \A u \in Threads : ~ Sends(u, message)
            /\ \A i \in DOMAIN next :
                 next[i] \notin begun /\ \A u \in Threads : ~ Sends(u, next[i])
        BY <3>2, <3>3 DEF InTurn, queue
      <3>5. \A i, j \in DOMAIN next : i < j /\ next[i] # Address => next[i] # next[j]
        <4>1. \A i, j \in DOMAIN next : i < j => i + 1 < j + 1
          BY <3>2
        <4> QED BY <3>3, <4>1 DEF InTurn, queue
      <3>6. message # Address => \A i \in DOMAIN next : next[i] # message
        <4>1. \A i \in DOMAIN next : 1 < i + 1 /\ 1 \in DOMAIN queue
          BY <3>2
        <4> QED BY <3>2, <3>3, <4>1 DEF InTurn, queue
      <3>7. message # Address => message \in Ids /\ message \in 1..Len(frames)
        BY <1>1, <3>2 DEF Address, Ids
      <3>8. sending' \in [Threads -> {None} \cup (Ids \X Nat)]
        BY <1>1, <3>1, <3>7
      <3>9. SinkTypes'
        BY <1>1, <3>1, <3>2, <3>8 DEF SinkTypes, FrameType
      <3>10. \A u \in Threads : sending'[u] # None =>
               \/ sending'[u] = sending[u]
               \/ /\ u = t /\ message # Address
                  /\ sending'[u][1] = message /\ sending'[u][2] = 0
        BY <1>1, <3>1
      <3>11. InTurn'
        <4>1. \A u \in Threads : sending'[u] # None =>
                /\ sending'[u][1] \in 1..Len(frames)
                /\ sending'[u][2] < Blocks(sending'[u][1])
          <5>1. \A f \in 1..Len(frames) : 0 < Blocks(f)
            BY SinkIs, Constants
          <5> QED BY <3>7, <3>10, <5>1 DEF InTurn
        <4>2. \A u, w \in Threads : sending'[u] # None /\ sending'[w] # None /\ u # w
                => sending'[u][1] # sending'[w][1]
          BY <3>4, <3>10 DEF InTurn, Sends
        <4>3. \A i \in DOMAIN next : \A u \in Threads :
                ~ (sending'[u] # None /\ sending'[u][1] = next[i])
          BY <3>4, <3>6, <3>10 DEF Sends
        <4>4. \A u \in Threads : sending'[u] # None =>
                sending'[u][2] < N + (IF m_cm256Valid THEN frames'[sending'[u][1]].fec ELSE 0)
          BY <3>1, <4>1 DEF Blocks, Recovery
        <4>5. begun' \subseteq 1..Len(frames)
          BY DEF InTurn
        <4> QED BY <3>1, <3>4, <3>5, <4>1, <4>2, <4>3, <4>4, <4>5 DEF InTurn, Sends, Blocks, Recovery
      <3>12. \A u \in Threads : sending[u] # None => sending[u][2] \in Nat
        BY SinkIs
      <3>13. Onwards
        BY <1>1, <3>1, <3>4, <3>10, <3>12 DEF Onwards, Sends
      <3> QED BY <3>9, <3>11, <3>13
    <2> QED BY <2>1, <2>2
  <1> QED BY <1>4, <1>5, <1>6, <1>7, <1>8, <1>9, <1>11, <1>12, <1>13 DEF SinkStep

(* So what has gone has gone.                                              *)
LEMMA GoneKept ==
  ASSUME SinkTypes, InTurn, SinkTypes', Onwards, begun \subseteq begun'
  PROVE  \A f, b : Gone(f, b) => Gone(f, b)'
  <1> SUFFICES ASSUME NEW f, NEW b, Gone(f, b) PROVE Gone(f, b)'
    OBVIOUS
  <1>1. f \in begun /\ b \in Nat /\ b < Blocks(f) /\ f \in 1..Len(frames)
    BY DEF Gone, InTurn
  <1>2. frames'[f] = frames[f]
    BY <1>1 DEF Onwards
  <1>3. Blocks(f)' = Blocks(f)
    BY <1>2 DEF Blocks, Recovery
  <1>4. ASSUME NEW u \in Threads, sending'[u] # None, sending'[u][1] = f
        PROVE  b < sending'[u][2]
    <2>1. Sends(u, f) /\ sending[u][2] <= sending'[u][2]
      BY <1>1, <1>4 DEF Onwards
    <2>2. b < sending[u][2]
      BY <1>4, <2>1 DEF Gone
    <2>3. sending[u][2] \in Nat
      BY <2>1, SinkIs DEF Sends
    <2>4. sending'[u] \in Ids \X Nat
      BY <1>4 DEF SinkTypes
    <2>5. sending'[u][2] \in Nat
      BY <2>4
    <2> QED BY <1>1, <2>1, <2>2, <2>3, <2>5
  <1> QED BY <1>1, <1>3, <1>4 DEF Gone, Sends

(* The steps that are nothing to the source: its invariant stays.          *)
LEMMA BufferKeeps ==
  ASSUME StreamInv, SinkTypes', InTurn', Onwards, UNCHANGED <<bufferVars, historyVars>>
  PROVE  StreamInv'
  <1>1. /\ UNCHANGED <<current, got, begun, split, joined, stale, spilled,
                       m_frameHead, m_currentMeta>>
        /\ UNCHANGED <<m_decoderSlots, m_frames, m_blockZero, overrun>>
        /\ \A s : At(s)' = At(s)
    BY DEF bufferVars, historyVars, At
  <1>2. \A f, b : Gone(f, b) => Gone(f, b)'
    BY <1>1, GoneKept DEF StreamInv
  <1>3. BufferTypes'
    BY <1>1 DEF StreamInv, BufferTypes
  <1>4. Arrived'
    <2>1. \A r : HasGone(r) => HasGone(r)'
      BY <1>2 DEF HasGone
    <2>2. ASSUME NEW s \in Places PROVE HasGone(At(s))'
      <3>1. HasGone(At(s)) /\ At(s)' = At(s)
        BY <1>1 DEF StreamInv, Arrived
      <3> QED BY <2>1, <3>1 DEF HasGone
    <2>3. \A s \in Places : /\ Shape(At(s)') /\ Ascending(At(s)')
                            /\ s \notin spilled' => Held(At(s)')
      BY <1>1 DEF StreamInv, Arrived
    <2>4. (m_frameHead % Slots)' \notin spilled'
      BY <1>1 DEF StreamInv, Arrived
    <2> QED BY <2>2, <2>3, <2>4 DEF Arrived
  <1>5. Apart' /\ Begun'
    BY <1>1 DEF StreamInv, Apart, Begun
  <1>6. AtHead'
    <2>1. current # 0 => frames'[current] = frames[current]
      BY DEF StreamInv, AtHead, InTurn, Onwards
    <2> QED BY <1>1, <2>1 DEF StreamInv, AtHead
  <1>7. Got'
    BY <1>1, <1>2 DEF StreamInv, Got
  <1>8. Complete'
    BY <1>1 DEF StreamInv, Complete
  <1> QED BY <1>3, <1>4, <1>5, <1>6, <1>7, <1>8 DEF StreamInv
-----------------------------------------------------------------------------
(* The source: a datagram is received.                                     *)

(* Its slot, ...                                                           *)
Home(d) == d.number % Slots

(* ... what the slot is when it is stored, ...                             *)
Before(d) == FrameBreak(d, At(Home(d)))

(* ... and what it is then.                                                *)
After(d) == Filled(d, Before(d), Meta)

(* The datagram is of a frame that was sent, ...                           *)
LEMMA DatagramIs ==
  ASSUME SinkTypes, InTurn, NEW t \in Threads, sending[t] # None,
         NEW d, d = Datagram(t)
  PROVE  /\ d \in DatagramType /\ d.frame \in 1..Len(frames)
         /\ d.number = frames[d.frame].number /\ d.block = sending[t][2]
         /\ d.block < Blocks(d.frame) /\ Sends(t, d.frame) /\ d.frame = sending[t][1]
         /\ Home(d) \in Places
  <1> DEFINE f == sending[t][1]
             b == sending[t][2]
  <1>1. /\ f \in 1..Len(frames) /\ f \in Ids /\ b \in Nat /\ b < Blocks(f)
        /\ frames[f] \in FrameType
    BY SinkIs
  <1>2. frames[f].number \in 0..(Wrap - 1)
    BY <1>1 DEF FrameType
  <1>3. d = [number |-> frames[f].number, block |-> b, frame |-> f]
    BY DEF Datagram
  <1> HIDE DEF f, b
  <1>4. d \in DatagramType
    BY <1>1, <1>2, <1>3 DEF DatagramType
  <1>5. Home(d) \in Places
    BY <1>2, <1>3, Constants DEF Home, Places
  <1>6. Sends(t, f)
    BY DEF Sends, f
  <1> QED BY <1>1, <1>3, <1>4, <1>5, <1>6 DEF f, b

(* ... it is for the slot of the frame head, or for a void one, ...        *)
LEMMA BeforeIs ==
  ASSUME StreamInv, NEW t \in Threads, sending[t] # None,
         NEW d, d = Datagram(t)
  PROVE  LET r == Before(d)
         IN /\ Held(r) /\ HasGone(r) /\ Behind(r, d)
            /\ d.number = m_frameHead => r = At(m_frameHead % Slots)
            /\ d.number # m_frameHead \/ current = 0 => r = Nothing
  <1> DEFINE r == Before(d)
  <1>1. Home(d) \in Places /\ Sends(t, d.frame) /\ d.block = sending[t][2]
    BY DatagramIs DEF StreamInv
  <1>2. d.number = m_frameHead => r = At(m_frameHead % Slots)
    BY DEF Before, FrameBreak, Home
  <1>3. d.number # m_frameHead => r = Nothing
    BY DEF Before, FrameBreak, Nothing
  <1>4. current = 0 => At(Home(d)) = Nothing
    BY <1>1 DEF StreamInv, Begun
  <1>5. current = 0 => r = Nothing
    BY <1>3, <1>4 DEF Before, FrameBreak
  <1>6. r = Nothing \/ r = At(Home(d))
    BY <1>3 DEF Before, FrameBreak
  <1>7. Held(Nothing) /\ HasGone(Nothing)
    BY NothingIs DEF Held, HasGone
  <1>8. Held(r) /\ HasGone(r)
    <2>1. CASE d.number = m_frameHead
      <3>1. Home(d) \notin spilled
        BY <2>1 DEF StreamInv, Arrived, Home
      <3> QED BY <1>1, <1>6, <1>7, <3>1 DEF StreamInv, Arrived
    <2>2. CASE d.number # m_frameHead
      BY <1>3, <1>7, <2>2
    <2> QED BY <2>1, <2>2
  <1>9. Behind(r, d)
    <2> SUFFICES ASSUME NEW i \in DOMAIN r.slot.blocks, r.slot.blocks[i].frame = d.frame
                 PROVE  r.slot.blocks[i].block < d.block
      BY DEF Behind
    <2>1. Gone(d.frame, r.slot.blocks[i].block)
      BY <1>8 DEF HasGone
    <2> HIDE DEF r
    <2> QED BY <1>1, <2>1 DEF Gone
  <1> HIDE DEF r
  <1> QED BY <1>2, <1>3, <1>5, <1>8, <1>9 DEF r

(* ... and is put there, ...                                               *)
LEMMA AfterIs ==
  ASSUME StreamInv, NEW t \in Threads, sending[t] # None,
         NEW d, d = Datagram(t)
  PROVE  LET r == Before(d)
             a == After(d)
         IN /\ Held(a) /\ a.slot.count = r.slot.count + 1
            /\ r.slot.count \in Nat
            /\ r.slot.count < N =>
                 /\ a.slot.blocks = Append(r.slot.blocks, d)
                 /\ Of(a) = Of(r) \cup {d.frame} /\ Numbers(a) = Numbers(r) \cup {d.block}
                 /\ \A b \in 1..(N - 1) : b \in Numbers(r) =>
                      a.samples[b] = IF b = d.block THEN d.frame ELSE r.samples[b]
            /\ r.slot.count >= N =>
                 /\ a.slot.blocks = r.slot.blocks /\ a.samples = r.samples
                 /\ Of(a) = Of(r) /\ Numbers(a) = Numbers(r)
            /\ a.slot.count = N /\ a.slot.metaRetrieved => a.zero \in Of(a)
  <1>1. Held(Before(d)) /\ Behind(Before(d), d)
    BY BeforeIs
  <1>2. d \in DatagramType
    BY DatagramIs DEF StreamInv
  <1>3. Before(d).slot.count \in Nat
    BY <1>1 DEF Held, Shape, SlotType
  <1> DEFINE r == Before(d)
  <1> HIDE DEF r
  <1>4. Held(r) /\ Behind(r, d) /\ r.slot.count \in Nat
    BY <1>1, <1>3 DEF r
  <1>5. After(d) = Filled(d, r, Meta)
    BY DEF After, r
  <1> DEFINE a == Filled(d, r, Meta)
  <1>6. /\ Held(a)
        /\ a.slot.count = r.slot.count + 1
        /\ r.slot.count < N =>
             /\ a.slot.blocks = Append(r.slot.blocks, d)
             /\ Of(a) = Of(r) \cup {d.frame} /\ Numbers(a) = Numbers(r) \cup {d.block}
             /\ \A b \in 1..(N - 1) : b \in Numbers(r) =>
                  a.samples[b] = IF b = d.block THEN d.frame ELSE r.samples[b]
        /\ r.slot.count >= N =>
             /\ a.slot.blocks = r.slot.blocks /\ a.samples = r.samples
             /\ Of(a) = Of(r) /\ Numbers(a) = Numbers(r)
        /\ a.slot.count = N /\ a.slot.metaRetrieved => a.zero \in Of(a)
    BY <1>2, <1>4, FilledIs
  <1> HIDE DEF a
  <1> QED BY <1>4, <1>5, <1>6 DEF r, a

(* ... and nothing elsewhere but what goes astray.                         *)
Spoilt(q, r) ==
  /\ q.slot = r.slot /\ q.zero = r.zero /\ q.samples \in [1..(N - 1) -> Values]
  /\ \A b \in 1..(N - 1) : q.samples[b] \in {r.samples[b], Garbage}

LEMMA BufferWritten ==
  ASSUME StreamInv, NEW t \in Threads, sending[t] # None,
         NEW d, d = Datagram(t), WriteData(d, Meta)
  PROVE  /\ At(Home(d))' = After(d) /\ m_frameHead' = d.number
         /\ \A z \in Places : z # Home(d) =>
              /\ Spoilt(At(z)', At(z))
              /\ m_frames'[z] = m_frames[z] => At(z)' = At(z)
              /\ Astray(d, Before(d), Meta) = {} => m_frames'[z] = m_frames[z]
         /\ m_decoderSlots'[Home(d)] = After(d).slot
         /\ BufferTypes'
  <1> DEFINE s == Home(d)
             k == Kept(d, Before(d))
             a == After(d)
             stray == Astray(d, Before(d), Meta)
  <1>1. d \in DatagramType /\ s \in Places
    BY DatagramIs DEF StreamInv
  <1>2. /\ m_decoderSlots \in [Places -> SlotType]
        /\ m_frames \in [Places -> [1..(N - 1) -> Values]]
        /\ m_blockZero \in [Places -> Values]
        /\ m_currentMeta \in 0..MaxFrames
    BY DEF StreamInv, BufferTypes
  <1>3. /\ Held(a)
        /\ a.slot.count = N /\ a.slot.metaRetrieved => a.zero \in Of(a)
    BY AfterIs
  <1>4. /\ a \in [slot : SlotType, samples : [1..(N - 1) -> Values], zero : Values]
        /\ Of(a) \subseteq Ids
    <2>1. Shape(a)
      BY <1>3 DEF Held
    <2> HIDE DEF a
    <2> QED BY <2>1, BlocksAre DEF Shape
  <1>5. a = IF k.slot.count = N THEN Decode(k, Meta) ELSE k
    BY DEF After, Filled
  <1>6. /\ m_frameHead' = d.number
        /\ m_decoderSlots' = [m_decoderSlots EXCEPT ![s] = a.slot]
        /\ m_frames' = Written(s, a.samples, stray)
        /\ m_blockZero' = [m_blockZero EXCEPT ![s] = a.zero]
        /\ m_currentMeta' = IF k.slot.count = N /\ a.slot.metaRetrieved THEN a.zero
                                                                         ELSE m_currentMeta
        /\ overrun' \in BOOLEAN
    <2> HIDE DEF a
    <2> QED BY <1>5 DEF WriteData, Before, At, Kept, Home, Astray
  <1>7. k.slot.count = N => a.slot.count = N
    <2>1. /\ Held(Before(d)) /\ Before(d).slot.count \in Nat
          /\ a.slot.count = Before(d).slot.count + 1
      BY AfterIs, BeforeIs
    <2>2. k.slot.count = Before(d).slot.count + 1
      BY <1>1, <2>1, StoredIs, OverfullIs, Constants DEF Held
    <2> HIDE DEF k, a
    <2> QED BY <2>1, <2>2
  <1> HIDE DEF a, k, s, stray
  <1>8. Ids = 1..MaxFrames /\ MaxFrames \in Nat
    BY Constants DEF Ids
  <1>9. m_currentMeta' \in 0..MaxFrames
    <2>1. CASE k.slot.count = N /\ a.slot.metaRetrieved
      BY <1>3, <1>4, <1>6, <1>7, <1>8, <2>1
    <2>2. CASE ~ (k.slot.count = N /\ a.slot.metaRetrieved)
      BY <1>2, <1>6, <2>2
    <2> QED BY <2>1, <2>2
  <1>10. d.number \in 0..(Wrap - 1)
    BY <1>1 DEF DatagramType
  <1>11. a.slot \in SlotType /\ a.samples \in [1..(N - 1) -> Values] /\ a.zero \in Values
    BY <1>4
  <1>12. /\ m_frames' \in [Places -> [1..(N - 1) -> Values]]
         /\ m_frames'[s] = a.samples
         /\ \A z \in Places : z # s =>
              \A b \in 1..(N - 1) :
                m_frames'[z][b] = IF \E x \in stray : Place(s, x) = <<z, b>>
                                    THEN Garbage ELSE m_frames[z][b]
    <2>1. \A z \in Places, b \in 1..(N - 1) : m_frames[z][b] \in Values
      BY <1>2
    <2>2. Garbage \in Values
      BY DEF Values
    <2> QED BY <1>1, <1>6, <1>11, <2>1, <2>2 DEF Written, Places
  <1>13. BufferTypes'
    BY <1>1, <1>2, <1>6, <1>9, <1>10, <1>11, <1>12 DEF BufferTypes
  <1>14. /\ m_decoderSlots'[s] = a.slot /\ m_blockZero'[s] = a.zero
         /\ \A z \in Places : z # s =>
              m_decoderSlots'[z] = m_decoderSlots[z] /\ m_blockZero'[z] = m_blockZero[z]
    BY <1>1, <1>2, <1>6
  <1>15. [slot |-> a.slot, samples |-> a.samples, zero |-> a.zero] = a
    BY <1>4
  <1>16. At(s)' = a
    <2>1. s' = s
      BY DEF s, Home
    <2> QED BY <1>12, <1>14, <1>15, <2>1 DEF At, Block
  <1>17. ASSUME NEW z \in Places, z # s
         PROVE  /\ Spoilt(At(z)', At(z))
                /\ m_frames'[z] = m_frames[z] => At(z)' = At(z)
                /\ stray = {} => m_frames'[z] = m_frames[z]
    <2>1. /\ At(z)'.slot = At(z).slot /\ At(z)'.zero = At(z).zero
          /\ At(z)'.samples = m_frames'[z] /\ At(z).samples = m_frames[z]
      BY <1>14, <1>17 DEF At, Block
    <2>2. m_frames'[z] \in [1..(N - 1) -> Values] /\ m_frames[z] \in [1..(N - 1) -> Values]
      BY <1>2, <1>12
    <2>3. \A b \in 1..(N - 1) : m_frames'[z][b] \in {m_frames[z][b], Garbage}
      BY <1>12, <1>17
    <2>4. stray = {} => \A b \in 1..(N - 1) : m_frames'[z][b] = m_frames[z][b]
      BY <1>12, <1>17
    <2>5. m_frames'[z] = m_frames[z] => At(z)' = At(z)
      BY <1>14, <1>17 DEF At, Block
    <2>6. Spoilt(At(z)', At(z))
      BY <2>1, <2>2, <2>3 DEF Spoilt
    <2>7. stray = {} => m_frames'[z] = m_frames[z]
      <3>1. /\ m_frames'[z] = [b \in 1..(N - 1) |-> m_frames'[z][b]]
            /\ m_frames[z] = [b \in 1..(N - 1) |-> m_frames[z][b]]
        BY <2>2
      <3>2. ASSUME stray = {}
            PROVE  [b \in 1..(N - 1) |-> m_frames'[z][b]] = [b \in 1..(N - 1) |-> m_frames[z][b]]
        BY <2>4, <3>2
      <3> QED BY <3>1, <3>2
    <2> QED BY <2>5, <2>6, <2>7
  <1> QED BY <1>6, <1>13, <1>14, <1>16, <1>17 DEF a, s, stray

(* A slot that is spoilt has what it had but for its samples.              *)
LEMMA SpoiltIs ==
  ASSUME NEW r, Shape(r), Ascending(r), NEW q, Spoilt(q, r),
         q = [slot |-> q.slot, samples |-> q.samples, zero |-> q.zero]
  PROVE  Shape(q) /\ Ascending(q) /\ Of(q) = Of(r)
  <1>1. /\ r \in [slot : SlotType, samples : [1..(N - 1) -> Values], zero : Values]
        /\ r.slot \in SlotType /\ r.zero \in Values
    BY DEF Shape
  <1>2. /\ q.slot = r.slot /\ q.zero = r.zero /\ q.samples \in [1..(N - 1) -> Values]
        /\ \A b \in 1..(N - 1) : q.samples[b] \in {r.samples[b], Garbage}
    BY DEF Spoilt
  <1>3. q \in [slot : SlotType, samples : [1..(N - 1) -> Values], zero : Values]
    BY <1>1, <1>2
  <1>4. Of(q) = Of(r) /\ Ascending(q)
    BY <1>2 DEF Of, Ascending
  <1>5. Shape(q)
    BY <1>2, <1>3, <1>4 DEF Shape
  <1> QED BY <1>4, <1>5

(* What the step does to the histories and the sink.                       *)
LEMMA ReceivedIs ==
  ASSUME StreamInv, NEW t \in Threads, Received(t), NEW d, d = Datagram(t)
  PROVE  /\ sending[t] # None /\ WriteData(d, Meta)
         /\ current' = d.frame /\ begun' = begun \cup {d.frame}
         /\ got' = {d.block} \cup IF d.frame = current THEN got ELSE {}
         /\ split' = IF d.frame # current /\ d.frame \in begun
                       THEN split \cup {d.frame} ELSE split
         /\ joined' = IF d.frame # current /\ current # 0 /\ d.number = m_frameHead
                        THEN joined \cup {d.frame} ELSE joined
         /\ spilled' = (IF d.number = m_frameHead THEN spilled ELSE spilled \ {Home(d)})
                         \cup {z \in Places : z # Home(d) /\ m_frames'[z] # m_frames[z]}
         /\ SinkTypes' /\ InTurn' /\ Onwards
  <1>1. /\ sending[t] # None /\ Transmit(t) /\ WriteData(d, Meta) /\ Record(d)
    BY DEF Received, Transmit
  <1>2. /\ current' = d.frame /\ begun' = begun \cup {d.frame}
        /\ got' = {d.block} \cup IF d.frame = current THEN got ELSE {}
        /\ split' = IF d.frame # current /\ d.frame \in begun
                      THEN split \cup {d.frame} ELSE split
        /\ joined' = IF d.frame # current /\ current # 0 /\ d.number = m_frameHead
                       THEN joined \cup {d.frame} ELSE joined
        /\ spilled' = (IF d.number = m_frameHead THEN spilled ELSE spilled \ {Home(d)})
                        \cup {z \in Places : z # Home(d) /\ m_frames'[z] # m_frames[z]}
    BY <1>1 DEF Record, Home, Places
  <1>3. d.frame = sending[t][1]
    BY <1>1, DatagramIs DEF StreamInv
  <1>4. SinkTypes' /\ InTurn' /\ Onwards
    BY <1>1, <1>2, <1>3, TransmitKeeps DEF StreamInv
  <1> QED BY <1>1, <1>2, <1>4

(* If the frame has not joined another, it is alone in its slot.           *)
LEMMA OneFrame ==
  ASSUME StreamInv, NEW t \in Threads, Received(t), NEW d, d = Datagram(t)
  PROVE  /\ After(d).slot.count <= N => d.frame \in Of(After(d))
         /\ d.frame \notin joined' =>
              Of(Before(d)) \subseteq {d.frame} /\ Of(After(d)) \subseteq {d.frame}
  <1> DEFINE r == Before(d)
             a == After(d)
  <1>1. /\ sending[t] # None
        /\ joined' = IF d.frame # current /\ current # 0 /\ d.number = m_frameHead
                       THEN joined \cup {d.frame} ELSE joined
    BY ReceivedIs
  <1>2. /\ a.slot.count = r.slot.count + 1 /\ r.slot.count \in Nat /\ N \in Nat
        /\ r.slot.count < N => Of(a) = Of(r) \cup {d.frame}
        /\ r.slot.count >= N => Of(a) = Of(r)
    BY <1>1, AfterIs, Constants
  <1>3. /\ d.number = m_frameHead => r = At(m_frameHead % Slots)
        /\ d.number # m_frameHead \/ current = 0 => r = Nothing
    BY <1>1, BeforeIs
  <1> HIDE DEF r, a
  <1>4. ASSUME d.frame \notin joined' PROVE Of(r) \subseteq {d.frame}
    <2>1. CASE r = Nothing
      BY <2>1, NothingIs
    <2>2. CASE r # Nothing
      <3>1. d.number = m_frameHead /\ current # 0 /\ r = At(m_frameHead % Slots)
        BY <1>3, <2>2
      <3>2. d.frame = current /\ current \notin joined
        BY <1>1, <1>4, <3>1
      <3> QED BY <3>1, <3>2 DEF StreamInv, AtHead
    <2> QED BY <2>1, <2>2
  <1> QED BY <1>2, <1>4 DEF r, a

(* The decoder is told the right number of recovery blocks, unless the     *)
(* meta data were stale.                                                   *)
LEMMA MeantUnlessStale ==
  ASSUME StreamInv, NEW t \in Threads, Received(t), NEW d, d = Datagram(t),
         After(d).slot.count = N, Of(After(d)) \subseteq {d.frame}, d.frame \notin stale'
  PROVE  Meant(After(d), frames[d.frame].fec, Meta)
  <1> DEFINE r == Before(d)
             a == After(d)
             f == d.frame
             fec == frames[f].fec
  <1>1. /\ sending[t] # None /\ WriteData(d, Meta) /\ Record(d)
    BY DEF Received, Transmit
  <1>2. /\ d \in DatagramType /\ f \in 1..Len(frames) /\ d.block \in Nat
        /\ d.block < Blocks(f) /\ Home(d) \in Places
    BY <1>1, DatagramIs DEF StreamInv, DatagramType
  <1>3. fec \in Nat /\ Blocks(f) \in Nat /\ Blocks(f) <= N + fec
    <2>1. frames[f] \in FrameType
      BY <1>2, SinkIs DEF StreamInv
    <2>2. fec \in FECs
      BY <2>1 DEF FrameType
    <2>3. fec \in Nat /\ N \in Nat
      BY <2>2, Constants
    <2>4. Blocks(f) = N + (IF m_cm256Valid THEN fec ELSE 0)
      BY DEF Blocks, Recovery
    <2> HIDE DEF fec
    <2> QED BY <2>3, <2>4
  <1>4. Held(r) /\ HasGone(r) /\ Behind(r, d)
    BY <1>1, BeforeIs
  <1>5. /\ Held(a) /\ a.slot.count = r.slot.count + 1 /\ r.slot.count \in Nat
        /\ r.slot.count < N => Of(a) = Of(r) \cup {f} /\ Numbers(a) = Numbers(r) \cup {d.block}
    BY <1>1, AfterIs
  <1>6. m_decoderSlots'[Home(d)] = a.slot
    BY <1>1, BufferWritten
  <1>7. a.slot.count = N /\ Of(a) \subseteq {f}
    OBVIOUS
  <1>8. a = Filled(d, r, Meta)
    BY DEF After
  <1>9. f \notin stale'
    OBVIOUS
  <1> HIDE DEF r, a, fec
  <1>10. \A b \in Numbers(a) : b < N + fec
    <2>1. r.slot.count < N
      BY <1>5, <1>7, Constants
    <2>2. Of(r) \subseteq {f}
      BY <1>5, <1>7, <2>1
    <2>3. \A b \in Numbers(r) : b \in Nat /\ b < Blocks(f)
      BY <1>4, <2>2 DEF HasGone, Gone, Numbers, Of
    <2>4. \A b \in Numbers(a) : b \in Nat /\ b < Blocks(f)
      BY <1>2, <1>5, <2>1, <2>3
    <2> QED BY <1>3, <2>4, Constants
  <1>11. Recoveries(a.slot.blocks) # {} /\ 0 \in Numbers(a) => Meta[m_currentMeta] = fec
    <2>1. DOMAIN a.slot.blocks = 1..N
      BY <1>5, <1>7, Constants DEF Held, Shape, SlotType
    <2>2. ~ (/\ a.slot.count = N
             /\ \E i \in 1..N : a.slot.blocks[i].block >= N
             /\ \E j \in 1..N : a.slot.blocks[j].block = 0
             /\ Meta[m_currentMeta] # fec)
      BY <1>1, <1>6, <1>9 DEF Record, Home, fec
    <2> QED BY <1>7, <2>1, <2>2 DEF Recoveries, Numbers
  <1>12. Meant(a, fec, Meta)
    BY <1>3, <1>10, <1>11 DEF Meant
  <1> QED BY <1>12 DEF a, fec

(* It is decoded right then, if it can be, and stored just in its slot.    *)
LEMMA WholeUnlessStale ==
  ASSUME StreamInv, NEW t \in Threads, Received(t), NEW d, d = Datagram(t),
         After(d).slot.count = N, Of(After(d)) \subseteq {d.frame}, d.frame \notin stale'
  PROVE  /\ Decodable(After(d)) => \A b \in 1..(N - 1) : After(d).samples[b] = d.frame
         /\ Astray(d, Before(d), Meta) = {}
  <1> DEFINE r == Before(d)
             a == After(d)
             fec == frames[d.frame].fec
  <1>1. sending[t] # None
    BY DEF Received, Transmit
  <1>2. d \in DatagramType
    BY <1>1, DatagramIs DEF StreamInv
  <1>3. Held(r) /\ Behind(r, d)
    BY <1>1, BeforeIs
  <1>4. Meant(a, fec, Meta)
    BY MeantUnlessStale
  <1>5. a = Filled(d, r, Meta)
    BY DEF After
  <1>6. a.slot.count = N /\ Of(a) \subseteq {d.frame}
    OBVIOUS
  <1> HIDE DEF r, a, fec
  <1>7. Decodable(a) => \A b \in 1..(N - 1) : a.samples[b] = d.frame
    BY <1>2, <1>3, <1>4, <1>5, <1>6, FilledWhole
  <1>8. Astray(d, r, Meta) = {}
    BY <1>2, <1>3, <1>4, <1>5, <1>6, FilledHere
  <1> QED BY <1>7, <1>8 DEF r, a

(* The parts of the invariant: the block has been sent, ...                *)
LEMMA ReceivedGone ==
  ASSUME StreamInv, NEW t \in Threads, Received(t), NEW d, d = Datagram(t)
  PROVE  /\ \A f, b : Gone(f, b) => Gone(f, b)'
         /\ Gone(d.frame, d.block)'
  <1>1. /\ sending[t] # None /\ begun' = begun \cup {d.frame} /\ Transmit(t)
        /\ SinkTypes' /\ InTurn' /\ Onwards
    BY ReceivedIs DEF Received
  <1>2. \A f, b : Gone(f, b) => Gone(f, b)'
    BY <1>1, GoneKept DEF StreamInv
  <1>3. /\ d.frame \in 1..Len(frames) /\ d.block = sending[t][2] /\ d.frame = sending[t][1]
        /\ d.block < Blocks(d.frame) /\ d \in DatagramType
    BY <1>1, DatagramIs DEF StreamInv
  <1>4. d.block \in Nat /\ frames' = frames
    BY <1>1, <1>3 DEF DatagramType, Transmit
  <1>5. ASSUME NEW u \in Threads, sending'[u] # None, sending'[u][1] = d.frame
        PROVE  d.block < sending'[u][2]
    <2>1. /\ sending' = [sending EXCEPT ![t] = IF d.block + 1 = Blocks(d.frame) THEN None
                                                          ELSE <<d.frame, d.block + 1>>]
          /\ t \in DOMAIN sending /\ u \in DOMAIN sending
      BY <1>1, <1>3 DEF Transmit, StreamInv, SinkTypes
    <2>2. CASE u = t
      <3>1. sending'[u] = <<d.frame, d.block + 1>>
        BY <1>5, <2>1, <2>2
      <3> QED BY <1>4, <3>1
    <2>3. CASE u # t
      <3>1. sending[u] # None /\ sending[u][1] = sending[t][1]
        BY <1>3, <1>5, <2>1, <2>3
      <3> QED BY <1>1, <2>3, <3>1 DEF StreamInv, InTurn
    <2> QED BY <2>2, <2>3
  <1>6. Gone(d.frame, d.block)'
    BY <1>1, <1>3, <1>4, <1>5 DEF Gone, Sends, Blocks, Recovery
  <1> QED BY <1>2, <1>6

(* ... the slots have what has, ...                                        *)
LEMMA ReceivedArrived ==
  ASSUME StreamInv, NEW t \in Threads, Received(t), NEW d, d = Datagram(t)
  PROVE  Arrived'
  <1> DEFINE r == Before(d)
             a == After(d)
             s == Home(d)
  <1>1. sending[t] # None /\ WriteData(d, Meta)
    BY ReceivedIs
  <1>2. /\ \A f, b : Gone(f, b) => Gone(f, b)'
        /\ Gone(d.frame, d.block)'
    BY ReceivedGone
  <1>3. /\ At(s)' = a /\ m_frameHead' = d.number
        /\ \A z \in Places : z # s =>
             Spoilt(At(z)', At(z)) /\ (m_frames'[z] = m_frames[z] => At(z)' = At(z))
    BY <1>1, BufferWritten
  <1>9. /\ spilled' = (IF d.number = m_frameHead THEN spilled ELSE spilled \ {s})
                        \cup {z \in Places : z # s /\ m_frames'[z] # m_frames[z]}
        /\ s = d.number % Slots
    BY ReceivedIs DEF Home
  <1>10. s \notin spilled'
    BY <1>9 DEF StreamInv, Arrived
  <1>4. /\ Held(a) /\ r.slot.count \in Nat
        /\ r.slot.count < N => a.slot.blocks = Append(r.slot.blocks, d)
        /\ r.slot.count >= N => a.slot.blocks = r.slot.blocks
    BY <1>1, AfterIs
  <1>5. Held(r) /\ HasGone(r)
    BY <1>1, BeforeIs
  <1> HIDE DEF r, a, s
  <1>6. \A q : HasGone(q) => HasGone(q)'
    BY <1>2 DEF HasGone
  <1>7. ASSUME NEW q, q = a PROVE HasGone(q)'
    <2>1. CASE r.slot.count >= N
      <3>1. HasGone(q)
        BY <1>4, <1>5, <1>7, <2>1 DEF HasGone
      <3> QED BY <1>6, <3>1
    <2>2. CASE r.slot.count < N
      <3> DEFINE old  == r.slot.blocks
                 list == Append(old, d)
      <3>1. old \in Seq(DatagramType) /\ d \in DatagramType
        BY <1>1, <1>5, DatagramIs DEF StreamInv, Held, Shape, SlotType
      <3>2. /\ DOMAIN list = 1..(Len(old) + 1) /\ DOMAIN old = 1..Len(old)
            /\ Len(old) \in Nat
            /\ list[Len(old) + 1] = d /\ \A i \in 1..Len(old) : list[i] = old[i]
        BY <3>1, AppendProperties
      <3>3. q.slot.blocks = list
        BY <1>4, <1>7, <2>2
      <3>4. \A i \in DOMAIN old : Gone(old[i].frame, old[i].block)
        BY <1>5 DEF HasGone
      <3> HIDE DEF old, list
      <3>5. ASSUME NEW i \in DOMAIN q.slot.blocks
            PROVE  Gone(q.slot.blocks[i].frame, q.slot.blocks[i].block)'
        <4>1. CASE i = Len(old) + 1
          <5>1. q.slot.blocks[i].frame = d.frame /\ q.slot.blocks[i].block = d.block
            BY <3>2, <3>3, <4>1
          <5> QED BY <1>2, <5>1
        <4>2. CASE i \in 1..Len(old)
          <5>1. Gone(q.slot.blocks[i].frame, q.slot.blocks[i].block)
            BY <3>2, <3>3, <3>4, <4>2
          <5> QED BY <1>2, <5>1
        <4> QED BY <3>2, <3>3, <4>1, <4>2
      <3> QED BY <3>5 DEF HasGone
    <2> QED BY <1>4, <2>1, <2>2, Constants
  <1>8. ASSUME NEW z \in Places
        PROVE  /\ Shape(At(z))' /\ Ascending(At(z))' /\ HasGone(At(z))'
               /\ z \notin spilled' => Held(At(z))'
    <2>1. CASE z = s
      <3>1. At(z)' = a
        BY <1>3, <2>1
      <3>2. PICK q : q = a
        OBVIOUS
      <3> QED BY <1>4, <1>7, <3>1, <3>2 DEF Held
    <2>2. CASE z # s
      <3>1. /\ Shape(At(z)) /\ Ascending(At(z)) /\ HasGone(At(z))
            /\ z \notin spilled => Held(At(z))
        BY DEF StreamInv, Arrived
      <3>2. PICK q : q = At(z)'
        OBVIOUS
      <3>3. q = [slot |-> q.slot, samples |-> q.samples, zero |-> q.zero]
        BY <3>2 DEF At, Block
      <3>4. Spoilt(q, At(z))
        BY <1>3, <2>2, <3>2
      <3>5. Shape(q) /\ Ascending(q)
        BY <3>1, <3>3, <3>4, SpoiltIs
      <3>6. HasGone(q)
        BY <3>1, <3>4 DEF HasGone, Spoilt
      <3>7. HasGone(q)'
        BY <1>6, <3>6
      <3>8. ASSUME z \notin spilled' PROVE Held(At(z)')
        <4>1. z \notin spilled /\ m_frames'[z] = m_frames[z]
          BY <1>9, <2>2, <3>8
        <4> QED BY <1>3, <2>2, <3>1, <4>1
      <3> QED BY <3>2, <3>5, <3>7, <3>8
    <2> QED BY <2>1, <2>2
  <1> QED BY <1>3, <1>8, <1>9, <1>10 DEF Arrived

(* ... each of one frame, ...                                              *)
LEMMA ReceivedApart ==
  ASSUME StreamInv, NEW t \in Threads, Received(t), NEW d, d = Datagram(t)
  PROVE  Apart'
  <1> DEFINE r == Before(d)
             a == After(d)
             s == Home(d)
  <1>1. /\ sending[t] # None /\ WriteData(d, Meta)
        /\ joined \subseteq joined' /\ stale \subseteq stale'
    BY ReceivedIs DEF Received, Record
  <1>2. /\ At(s)' = a
        /\ \A z \in Places : z # s =>
             Spoilt(At(z)', At(z)) /\ (m_frames'[z] = m_frames[z] => At(z)' = At(z))
    BY <1>1, BufferWritten
  <1>3. /\ Held(a) /\ r.slot.count \in Nat /\ a.slot.count = r.slot.count + 1
        /\ r.slot.count >= N => a.samples = r.samples /\ Of(a) = Of(r)
    BY <1>1, AfterIs
  <1>4. /\ a.slot.count <= N => d.frame \in Of(a)
        /\ d.frame \notin joined' => Of(a) \subseteq {d.frame}
    BY OneFrame
  <1>5. /\ d.number = m_frameHead => r = At(s) /\ s \notin spilled
        /\ d.number # m_frameHead => r = Nothing
    BY DEF Before, FrameBreak, Nothing, StreamInv, Arrived, Home
  <1>6. /\ a.slot.count = N /\ Of(a) \subseteq {d.frame} /\ d.frame \notin stale' =>
             (Decodable(a) => \A b \in 1..(N - 1) : a.samples[b] = d.frame)
        /\ a.slot.count = N /\ ~ m_cm256_OK =>
             \A b \in 1..(N - 1) : a.samples[b] \in {Zeros} \cup Of(a)
    <2>1. d \in DatagramType /\ Held(r) /\ Behind(r, d)
      BY <1>1, DatagramIs, BeforeIs DEF StreamInv
    <2>2. a = Filled(d, r, Meta)
      BY DEF After
    <2>3. a.slot.count = N /\ Of(a) \subseteq {d.frame} /\ d.frame \notin stale' =>
             (Decodable(a) => \A b \in 1..(N - 1) : a.samples[b] = d.frame)
      BY WholeUnlessStale
    <2> HIDE DEF r, a
    <2> QED BY <2>1, <2>2, <2>3, FilledPlain
  <1>7. N \in Nat /\ N > 1 /\ d.frame \in Ids /\ s \in Places
    BY <1>1, DatagramIs, Constants DEF StreamInv, DatagramType
  <1>10. /\ spilled' = (IF d.number = m_frameHead THEN spilled ELSE spilled \ {s})
                         \cup {z \in Places : z # s /\ m_frames'[z] # m_frames[z]}
    BY ReceivedIs
  <1> HIDE DEF r, a, s
  <1>8. ASSUME Of(a) \cap joined' = {}
        PROVE  /\ \A f, g \in Of(a) : f = g
               /\ \A b \in 1..(N - 1) : a.samples[b] = Garbage => Of(a) \subseteq stale'
    <2>1. CASE r.slot.count >= N
      <3>1. r = At(s) /\ s \notin spilled
        BY <1>5, <1>7, <2>1, NothingIs
      <3>2. Of(At(s)) \cap joined = {}
        BY <1>1, <1>3, <1>8, <2>1, <3>1
      <3>3. /\ \A f, g \in Of(At(s)) : f = g
            /\ \A b \in 1..(N - 1) : At(s).samples[b] = Garbage => Of(At(s)) \subseteq stale
        BY <1>7, <3>1, <3>2 DEF StreamInv, Apart
      <3> QED BY <1>1, <1>3, <2>1, <3>1, <3>3
    <2>2. CASE r.slot.count < N
      <3>1. a.slot.count <= N
        BY <1>3, <1>7, <2>2
      <3>2. Of(a) \subseteq {d.frame} /\ d.frame \notin joined'
        BY <1>4, <1>8, <3>1
      <3>5. Garbage \notin Of(a) /\ Garbage # Zeros
        BY <1>7, <3>2, Constants
      <3>3. CASE a.slot.count < N
        <4>1. \A b \in 1..(N - 1) : a.samples[b] \in Of(a) \/ a.samples[b] = Zeros
          BY <1>3, <3>3 DEF Held, Plain
        <4> QED BY <3>2, <3>5, <4>1
      <3>4. CASE a.slot.count = N
        <4>1. CASE Decodable(a)
          BY <1>6, <1>7, <3>2, <3>4, <4>1, Constants
        <4>2. CASE ~ Decodable(a)
          <5>1. \A b \in 1..(N - 1) : a.samples[b] \in {Zeros} \cup Of(a)
            BY <1>6, <3>4, <4>2 DEF Decodable
          <5> QED BY <3>2, <3>5, <5>1
        <4> QED BY <4>1, <4>2
      <3> QED BY <1>3, <1>7, <3>1, <3>3, <3>4
    <2> QED BY <1>3, <1>7, <2>1, <2>2
  <1>9. ASSUME NEW z \in Places, Of(At(z)') \cap joined' = {}
        PROVE  /\ \A f, g \in Of(At(z)') : f = g
               /\ \A b \in 1..(N - 1) : At(z)'.samples[b] = Garbage =>
                    Of(At(z)') \subseteq stale' \/ z \in spilled'
    <2>1. CASE z = s
      BY <1>2, <1>8, <1>9, <2>1
    <2>2. CASE z # s
      <3>1. Of(At(z)') = Of(At(z))
        BY <1>2, <2>2 DEF Spoilt, Of
      <3>2. Of(At(z)) \cap joined = {}
        BY <1>1, <1>9, <3>1
      <3>3. /\ \A f, g \in Of(At(z)) : f = g
            /\ \A b \in 1..(N - 1) : At(z).samples[b] = Garbage =>
                 Of(At(z)) \subseteq stale \/ z \in spilled
        BY <3>2 DEF StreamInv, Apart
      <3>4. z \in spilled => z \in spilled'
        BY <1>10, <2>2
      <3>5. z \notin spilled' => At(z)' = At(z)
        BY <1>2, <1>10, <2>2
      <3> QED BY <1>1, <3>1, <3>3, <3>4, <3>5
    <2> QED BY <2>1, <2>2
  <1> QED BY <1>9 DEF Apart

(* ... the current one is at the head, ...                                 *)
LEMMA ReceivedAtHead ==
  ASSUME StreamInv, NEW t \in Threads, Received(t), NEW d, d = Datagram(t)
  PROVE  AtHead' /\ Begun'
  <1> DEFINE a == After(d)
  <1>1. /\ sending[t] # None /\ WriteData(d, Meta)
        /\ current' = d.frame /\ begun' = begun \cup {d.frame}
    BY ReceivedIs
  <1>2. At(Home(d))' = a /\ m_frameHead' = d.number
    BY <1>1, BufferWritten
  <1>3. /\ a.slot.count <= N => d.frame \in Of(a)
        /\ d.frame \notin joined' => Of(a) \subseteq {d.frame}
    BY OneFrame
  <1>4. /\ d.frame \in Ids /\ d.number = frames[d.frame].number /\ frames' = frames
    BY <1>1, DatagramIs DEF StreamInv, DatagramType, Received, Transmit
  <1>5. At(m_frameHead % Slots)' = a
    BY <1>2 DEF Home, At
  <1> HIDE DEF a
  <1>6. current' # 0 => current' \in begun' /\ m_frameHead' = frames'[current'].number
    BY <1>1, <1>2, <1>4
  <1>7. AtHead'
    BY <1>1, <1>3, <1>5, <1>6 DEF AtHead
  <1>8. Begun'
    BY <1>1, <1>4, Constants DEF Begun
  <1> QED BY <1>7, <1>8

(* ... its blocks are counted ...                                          *)
LEMMA ReceivedGot ==
  ASSUME StreamInv, NEW t \in Threads, Received(t), NEW d, d = Datagram(t)
  PROVE  Got'
  <1> DEFINE r == Before(d)
             a == After(d)
             f == d.frame
  <1>1. /\ sending[t] # None /\ WriteData(d, Meta)
        /\ current' = f /\ begun' = begun \cup {f}
        /\ got' = {d.block} \cup IF f = current THEN got ELSE {}
        /\ split' = IF f # current /\ f \in begun THEN split \cup {f} ELSE split
        /\ joined' = IF f # current /\ current # 0 /\ d.number = m_frameHead
                       THEN joined \cup {f} ELSE joined
    BY ReceivedIs
  <1>2. At(m_frameHead % Slots)' = a
    BY <1>1, BufferWritten DEF Home, At
  <1>3. /\ r.slot.count \in Nat /\ a.slot.count = r.slot.count + 1
        /\ r.slot.count < N => Numbers(a) = Numbers(r) \cup {d.block}
        /\ r.slot.count >= N => Numbers(a) = Numbers(r)
        /\ N \in Nat /\ N > 1
    BY <1>1, AfterIs, Constants
  <1>10. Behind(r, d)
    BY <1>1, BeforeIs
  <1>11. f \notin joined' => Of(r) \subseteq {f}
    BY OneFrame
  <1>4. /\ d.number = m_frameHead => r = At(m_frameHead % Slots)
        /\ d.number # m_frameHead \/ current = 0 => r = Nothing
    BY <1>1, BeforeIs
  <1>5. /\ Sends(t, f) /\ d.block = sending[t][2] /\ d.number = frames[f].number
        /\ f \in Ids /\ f # 0
    BY <1>1, DatagramIs, Constants DEF StreamInv, DatagramType
  <1>6. /\ \A g, b : Gone(g, b) => Gone(g, b)'
        /\ Gone(f, d.block)'
    BY ReceivedGone
  <1> HIDE DEF r, a, f
  <1>7. IsFiniteSet(got) /\ IsFiniteSet(got')
    <2>1. IsFiniteSet(got)
      BY DEF StreamInv, Got
    <2>2. IsFiniteSet(got \cup {d.block}) /\ IsFiniteSet({d.block})
      BY <2>1, FS_AddElement, FS_Singleton
    <2>3. got' = got \cup {d.block} \/ got' = {d.block}
      BY <1>1
    <2> QED BY <2>1, <2>2, <2>3
  <1>8. \A b \in got' : Gone(current, b)'
    <2>1. \A b \in got' : Gone(f, b)'
      BY <1>1, <1>6 DEF StreamInv, Got
    <2> QED BY <1>1, <2>1
  <1>9. ASSUME f \notin split', f \notin joined'
        PROVE  a.slot.count = Cardinality(got') /\ First(a, got')
    <2>1. CASE f = current
      <3>1. d.number = m_frameHead
        BY <1>5, <2>1 DEF StreamInv, AtHead
      <3>2. f \notin split /\ f \notin joined
        BY <1>1, <1>9, <2>1
      <3>3. r.slot.count = Cardinality(got) /\ First(r, got)
        BY <1>4, <1>5, <2>1, <3>1, <3>2 DEF StreamInv, Got
      <3>4. d.block \notin got
        <4>1. Gone(f, d.block) => d.block < d.block /\ d.block \in Nat
          BY <1>5 DEF Gone
        <4>2. d.block \in got => Gone(f, d.block)
          BY <2>1 DEF StreamInv, Got
        <4> QED BY <4>1, <4>2
      <3>5. got' = got \cup {d.block}
        BY <1>1, <2>1
      <3>6. Cardinality(got') = Cardinality(got) + 1
        BY <1>7, <3>4, <3>5, FS_AddElement
      <3>7. \A n \in Numbers(r) : n < d.block
        BY <1>9, <1>10, <1>11 DEF Behind, Numbers, Of, f
      <3>8. First(a, got')
        <4>1. CASE r.slot.count < N
          <5>1. got \subseteq Numbers(r)
            BY <1>3, <3>3, <4>1 DEF First
          <5>2. Numbers(a) = got'
            BY <1>3, <3>3, <3>5, <4>1, <5>1 DEF First
          <5> QED BY <5>2 DEF First
        <4>2. CASE r.slot.count >= N
          <5>1. a.slot.count >= N /\ Numbers(a) = Numbers(r)
            BY <1>3, <4>2
          <5> QED BY <3>3, <3>5, <3>7, <5>1 DEF First
        <4> QED BY <1>3, <4>1, <4>2
      <3> QED BY <1>3, <3>3, <3>6, <3>8
    <2>2. CASE f # current
      <3>1. r = Nothing
        BY <1>1, <1>4, <1>9, <2>2
      <3>2. got' = {d.block}
        BY <1>1, <2>2
      <3>3. Cardinality(got') = 1
        BY <3>2, FS_Singleton
      <3>4. Numbers(a) = got' /\ a.slot.count = 1
        BY <1>3, <3>1, <3>2, NothingIs
      <3> QED BY <3>3, <3>4 DEF First
    <2> QED BY <2>1, <2>2
  <1> QED BY <1>1, <1>2, <1>7, <1>8, <1>9 DEF Got

(* ... and it is whole when it can be.                                     *)
LEMMA ReceivedComplete ==
  ASSUME StreamInv, NEW t \in Threads, Received(t), NEW d, d = Datagram(t)
  PROVE  Complete'
  <1> DEFINE r == Before(d)
             a == After(d)
             f == d.frame
  <1>1. /\ sending[t] # None /\ WriteData(d, Meta)
        /\ current' = f
        /\ split' = IF f # current /\ f \in begun THEN split \cup {f} ELSE split
        /\ joined' = IF f # current /\ current # 0 /\ d.number = m_frameHead
                       THEN joined \cup {f} ELSE joined
        /\ stale \subseteq stale'
    BY ReceivedIs DEF Received, Record
  <1>2. At(m_frameHead % Slots)' = a
    BY <1>1, BufferWritten DEF Home, At
  <1>3. /\ r.slot.count \in Nat /\ a.slot.count = r.slot.count + 1
        /\ r.slot.count >= N => a.samples = r.samples /\ a.slot.blocks = r.slot.blocks
    BY <1>1, AfterIs
  <1>4. /\ d.number = m_frameHead => r = At(m_frameHead % Slots)
        /\ d.number # m_frameHead \/ current = 0 => r = Nothing
    BY <1>1, BeforeIs
  <1>5. f \notin joined' => Of(a) \subseteq {f}
    BY OneFrame
  <1>6. a.slot.count = N /\ Of(a) \subseteq {f} /\ f \notin stale' /\ Decodable(a) =>
          \A b \in 1..(N - 1) : a.samples[b] = f
    BY WholeUnlessStale
  <1> HIDE DEF r, a, f
  <1>7. ASSUME f \notin split', f \notin joined', f \notin stale', a.slot.count >= N,
               Decodable(a)
        PROVE  \A b \in 1..(N - 1) : a.samples[b] = f
    <2>1. CASE r.slot.count < N
      <3>1. a.slot.count = N
        BY <1>3, <1>7, <2>1, Constants
      <3> QED BY <1>5, <1>6, <1>7, <3>1
    <2>2. CASE r.slot.count >= N
      <3>1. r # Nothing
        BY <2>2, NothingIs, Constants
      <3>2. d.number = m_frameHead /\ current # 0 /\ r = At(m_frameHead % Slots)
        BY <1>4, <3>1
      <3>3. f = current /\ f \notin split /\ f \notin joined /\ f \notin stale
        BY <1>1, <1>7, <3>2
      <3>4. Decodable(r)
        BY <1>3, <1>7, <2>2 DEF Decodable
      <3> QED BY <1>3, <2>2, <3>2, <3>3, <3>4 DEF StreamInv, Complete
    <2> QED BY <1>3, <2>1, <2>2, Constants
  <1> QED BY <1>1, <1>2, <1>7 DEF Complete

(* All of it.                                                              *)
LEMMA ReceivedKeeps ==
  ASSUME StreamInv, NEW t \in Threads, Received(t) PROVE StreamInv'
  <1>1. PICK d : d = Datagram(t)
    OBVIOUS
  <1>2. sending[t] # None /\ WriteData(d, Meta) /\ SinkTypes' /\ InTurn'
    BY <1>1, ReceivedIs
  <1>3. BufferTypes'
    BY <1>1, <1>2, BufferWritten
  <1> QED BY <1>1, <1>2, <1>3, ReceivedArrived, ReceivedApart, ReceivedAtHead, ReceivedGot,
             ReceivedComplete DEF StreamInv

(* At first nothing was sent.                                              *)
LEMMA InitHolds ==
  Init => StreamInv
  <1> SUFFICES ASSUME Init PROVE StreamInv
    OBVIOUS
  <1>1. /\ SinkInit /\ BufferInit /\ current = 0 /\ got = {} /\ begun = {}
        /\ split = {} /\ joined = {} /\ stale = {} /\ spilled = {}
    BY DEF Init
  <1>2. frames = << >> /\ m_inputMessageQueue = << >> /\ Len(frames) = 0
        /\ DOMAIN m_inputMessageQueue = {}
    BY <1>1 DEF SinkInit
  <1>3. SinkTypes
    <2>1. << >> \in Seq(FrameType) /\ << >> \in Seq(0..0)
      OBVIOUS
    <2>2. 0 \in 0..(Wrap - 1) /\ 0 <= MaxFrames
      BY Constants
    <2>3. frames \in Seq(FrameType) /\ m_inputMessageQueue \in Seq(0..Len(frames))
      BY <1>2, <2>1
    <2> QED BY <1>1, <1>2, <2>2, <2>3 DEF SinkInit, SinkTypes, FrameType
  <1>4. EmptySlot \in SlotType /\ NoSamples \in [1..(N - 1) -> Values] /\ Zeros \in Values
    <2>1. Nothing \in [slot : SlotType, samples : [1..(N - 1) -> Values], zero : Values]
      BY NothingIs DEF Shape
    <2>2. Nothing = [slot |-> EmptySlot, samples |-> NoSamples, zero |-> Zeros]
      BY DEF Nothing, Block
    <2> QED BY <2>1, <2>2
  <1>5. BufferTypes
    <2>1. m_frameHead \in 0..(Wrap - 1) /\ m_currentMeta \in 0..MaxFrames
      BY <1>1, Constants DEF BufferInit
    <2>2. /\ m_decoderSlots \in [Places -> SlotType]
          /\ m_frames \in [Places -> [1..(N - 1) -> Values]]
          /\ m_blockZero \in [Places -> Values]
          /\ overrun \in BOOLEAN
      BY <1>1, <1>4 DEF BufferInit, Places
    <2> QED BY <2>1, <2>2 DEF BufferTypes
  <1>6. InTurn
    <2>1. \A t \in Threads : sending[t] = None
      BY <1>1 DEF SinkInit
    <2> QED BY <1>1, <1>2, <2>1 DEF InTurn, Sends
  <1>7. \A s \in Places : At(s) = Nothing
    BY <1>1 DEF BufferInit, At, Nothing, Places
  <1>8. Held(Nothing) /\ HasGone(Nothing) /\ Of(Nothing) = {}
    BY NothingIs DEF Held, HasGone
  <1>9. Arrived /\ Apart
    BY <1>1, <1>7, <1>8 DEF Arrived, Apart, Held
  <1>10. Begun /\ AtHead /\ Complete
    BY <1>1, <1>7 DEF Begun, AtHead, Complete
  <1>11. Got
    BY <1>1, FS_EmptySet DEF Got
  <1> QED BY <1>3, <1>5, <1>6, <1>9, <1>10, <1>11 DEF StreamInv

(* Every step keeps the invariant.                                         *)
LEMMA StepHolds ==
  StreamInv /\ [Next]_vars => StreamInv'
  <1> SUFFICES ASSUME StreamInv, [Next]_vars PROVE StreamInv'
    OBVIOUS
  <1>1. CASE SinkStep /\ UNCHANGED <<bufferVars, historyVars>>
    <2>1. begun' = begun
      BY <1>1 DEF historyVars
    <2> QED BY <1>1, <2>1, SinkStepKeeps, BufferKeeps DEF StreamInv
  <1>2. ASSUME NEW t \in Threads, Lost(t) PROVE StreamInv'
    <2>1. Transmit(t) /\ UNCHANGED <<bufferVars, historyVars>>
      BY <1>2 DEF Lost
    <2>2. begun' \subseteq begun \cup {sending[t][1]}
      BY <2>1 DEF historyVars
    <2> QED BY <2>1, <2>2, TransmitKeeps, BufferKeeps DEF StreamInv
  <1>3. ASSUME NEW t \in Threads, Received(t) PROVE StreamInv'
    BY <1>3, ReceivedKeeps
  <1>4. CASE UNCHANGED vars
    <2>1. UNCHANGED <<sinkVars, bufferVars, historyVars>>
      BY <1>4 DEF vars
    <2>2. SinkTypes' /\ InTurn'
      BY <2>1 DEF StreamInv, SinkTypes, InTurn, Sends, Blocks, Recovery, sinkVars, threadVars,
                  historyVars
    <2>3. Onwards
      <3>1. \A u \in Threads : sending[u] # None => sending[u][2] \in Nat
        BY SinkIs DEF StreamInv
      <3>2. Len(frames) \in Nat
        BY SinkIs DEF StreamInv
      <3> QED BY <2>1, <3>1, <3>2 DEF Onwards, Sends, sinkVars, threadVars
    <2> QED BY <2>1, <2>2, <2>3, BufferKeeps
  <1> QED BY <1>1, <1>2, <1>3, <1>4 DEF Next

(* The inductive invariant holds.                                          *)
THEOREM Invariance == Spec => []StreamInv
  <1> QED BY InitHolds, StepHolds, PTL DEF Spec
-----------------------------------------------------------------------------
(* TypeOK: the queue of the sink and the slots, samples and meta data of   *)
(* the source (udpsinkfec.cpp, sdrdaemonsourcebuffer.cpp) keep their       *)
(* types; the meta data in force are always those of a frame, never        *)
(* garbage.                                                                *)
THEOREM TypeCorrect == Spec => []TypeOK
  <1>1. ASSUME StreamInv PROVE TypeOK
    <2>1. /\ m_inputMessageQueue \in Seq(0..Len(frames)) /\ Len(frames) \in Nat
          /\ Len(frames) <= MaxFrames /\ MaxFrames \in Nat
      BY <1>1, SinkIs, Constants DEF StreamInv, SinkTypes
    <2>2. m_inputMessageQueue \in Seq(0..MaxFrames)
      <3>1. (0..Len(frames)) \subseteq 0..MaxFrames
        BY <2>1
      <3> QED BY <2>1, <3>1
    <2>3. /\ m_blockZero \in [0..(Slots - 1) -> {Zeros, Garbage} \cup Ids]
          /\ m_frames \in [0..(Slots - 1) -> [1..(N - 1) -> {Zeros, Garbage} \cup Ids]]
          /\ m_frameHead \in 0..(Wrap - 1) /\ m_currentMeta \in 0..MaxFrames
          /\ overrun \in BOOLEAN
      BY <1>1 DEF StreamInv, BufferTypes, Values, Places
    <2>4. sent \subseteq Ids /\ unsent \subseteq Ids
      BY <1>1, <2>1 DEF StreamInv, SinkTypes, Ids
    <2> QED BY <1>1, <2>2, <2>3, <2>4 DEF TypeOK, StreamInv, SinkTypes
  <1> QED BY <1>1, Invariance, PTL

(* WholeWhenTogether: whatever N of the blocks of a frame writeData()      *)
(* gets, together and with current meta data, all its samples are then in  *)
(* the buffer, and stay there when more of its blocks come, for any N,     *)
(* number of slots and of recovery blocks; so are they if all its blocks   *)
(* with samples come, and there is no code for error correction.           *)
THEOREM WholeFrames == Spec => []WholeWhenTogether
  <1>1. ASSUME StreamInv PROVE WholeWhenTogether
    <2> SUFFICES ASSUME current \notin {0} \cup split \cup joined \cup stale,
                        Cardinality(got) >= N,
                        m_cm256_OK \/ 0..(N - 1) \subseteq got
                 PROVE  Whole(current)
      BY DEF WholeWhenTogether
    <2> DEFINE r == At(m_frameHead % Slots)
    <2>1. r.slot.count >= N /\ First(r, got)
      BY <1>1 DEF StreamInv, Got
    <2>2. Shape(r) /\ Ascending(r) /\ Of(r) \subseteq {current}
      <3>1. m_frameHead % Slots \in Places
        BY <1>1, Constants DEF StreamInv, BufferTypes, Places
      <3>2. Of(r) \subseteq {current}
        BY <1>1 DEF StreamInv, AtHead
      <3> HIDE DEF r
      <3> QED BY <1>1, <3>1, <3>2 DEF StreamInv, Arrived, r
    <2>3. Decodable(r)
      <3> DEFINE list == r.slot.blocks
      <3> SUFFICES ASSUME 0..(N - 1) \subseteq got PROVE Recoveries(list) = {}
        BY DEF Decodable
      <3> HIDE DEF r
      <3>1. /\ Together(list) /\ DOMAIN list = 1..N
            /\ \A i \in 1..N : list[i].block \in Nat /\ list[i].block \in Numbers(r)
        BY <2>1, <2>2, TogetherIs
      <3>2. CASE \E b \in 0..(N - 1) : b \notin Numbers(r)
        <4>1. PICK b \in 0..(N - 1) : b \notin Numbers(r)
          BY <3>2
        <4>2. \A n \in Numbers(r) : n < b
          BY <2>1, <4>1 DEF First
        <4>3. \A i \in 1..N : list[i].block < b /\ list[i].block \in Nat
          BY <3>1, <4>2
        <4> HIDE DEF list
        <4> QED BY <3>1, <4>1, <4>3, Constants DEF Recoveries
      <3>3. CASE 0..(N - 1) \subseteq Numbers(r)
        <4>1. Missing(list) = {}
          BY <3>3 DEF Missing, Numbers
        <4> HIDE DEF list
        <4>2. /\ IsFiniteSet(Recoveries(list))
              /\ Cardinality(Missing(list)) = Cardinality(Recoveries(list))
          BY <3>1, RecoveriesAreLast, AsManyMissing
        <4> QED BY <4>1, <4>2, FS_EmptySet
      <3> QED BY <3>2, <3>3
    <2>4. \A b \in 1..(N - 1) : r.samples[b] = current
      BY <1>1, <2>1, <2>3 DEF StreamInv, Complete
    <2>5. Slot(current) = m_frameHead % Slots
      BY <1>1 DEF StreamInv, AtHead, Slot
    <2> QED BY <2>4, <2>5 DEF Whole, At, Block
  <1> QED BY <1>1, Invariance, PTL

(* OneFramePerSlot: samples and meta data in a slot are of one frame,      *)
(* whatever is lost, changed or restarted, but for two frames of one       *)
(* number; and there is no garbage but with stale meta data, of the frame  *)
(* or of one whose recovery blocks went on into its slot.                  *)
THEOREM OneFrameEach == Spec => []OneFramePerSlot
  <1>1. ASSUME StreamInv PROVE OneFramePerSlot
    <2> SUFFICES ASSUME NEW s \in Places, FramesIn(s) \cap joined = {}
                 PROVE  /\ Cardinality((Contents(s) \cup {m_blockZero[s]}) \ {Zeros, Garbage}) <= 1
                        /\ Garbage \in Contents(s) => FramesIn(s) \subseteq stale \/ s \in spilled
      BY DEF OneFramePerSlot, Places
    <2> DEFINE held == (Contents(s) \cup {m_blockZero[s]}) \ {Zeros, Garbage}
    <2>1. /\ Of(At(s)) = FramesIn(s) /\ At(s).samples = m_frames[s]
          /\ At(s).zero = m_blockZero[s]
      BY DEF Of, At, Block, FramesIn
    <2>2. /\ \A f, g \in Of(At(s)) : f = g
          /\ \A b \in 1..(N - 1) : At(s).samples[b] = Garbage =>
               Of(At(s)) \subseteq stale \/ s \in spilled
      BY <1>1, <2>1 DEF StreamInv, Apart
    <2>3. /\ \A b \in 1..(N - 1) : At(s).samples[b] \in {Zeros, Garbage} \cup Of(At(s))
          /\ At(s).zero \in {Zeros, Garbage} \cup Of(At(s))
      BY <1>1 DEF StreamInv, Arrived, Shape
    <2>4. held \subseteq Of(At(s))
      BY <2>1, <2>3 DEF Contents
    <2>5. held = {} \/ \E f : held = {f}
      <3> HIDE DEF held
      <3> QED BY <2>2, <2>4
    <2>6. Cardinality(held) <= 1
      <3> HIDE DEF held
      <3>1. held = {} => Cardinality(held) = 0
        BY FS_EmptySet
      <3>2. ASSUME NEW f, held = {f} PROVE Cardinality(held) = 1
        BY <3>2, FS_Singleton
      <3> QED BY <2>5, <3>1, <3>2
    <2>7. Garbage \in Contents(s) => FramesIn(s) \subseteq stale \/ s \in spilled
      BY <2>1, <2>2 DEF Contents
    <2> QED BY <2>6, <2>7
  <1> QED BY <1>1, Invariance, PTL

(* What ReceivedKept asks of a step.                                       *)
Keeps ==
  \A s \in 0..(Slots - 1), b \in 1..(N - 1) :
    m_frames[s][b] > 0 /\ m_frames'[s][b] # m_frames[s][b]
      => \/ s = m_frameHead' % Slots /\ m_frameHead' # m_frameHead
         \/ current' \in joined'
         \/ s # m_frameHead' % Slots /\ current' \in stale'

(* A datagram of the frame in a slot changes no samples that are there, nor *)
(* any in another slot, unless it is decoded with stale meta data.         *)
LEMMA ReceivedKeepsSamples ==
  ASSUME StreamInv, NEW t \in Threads, Received(t) PROVE Keeps
  <1> SUFFICES ASSUME NEW s \in Places, NEW b \in 1..(N - 1),
                      m_frames[s][b] > 0, m_frames'[s][b] # m_frames[s][b],
                      current' \notin joined'
               PROVE  \/ s = m_frameHead' % Slots /\ m_frameHead' # m_frameHead
                      \/ s # m_frameHead' % Slots /\ current' \in stale'
    BY DEF Keeps, Places
  <1>1. PICK d : d = Datagram(t)
    OBVIOUS
  <1> DEFINE r == Before(d)
             a == After(d)
             f == d.frame
  <1>2. sending[t] # None /\ WriteData(d, Meta) /\ current' = f
    BY <1>1, ReceivedIs
  <1>3. /\ At(Home(d))' = a /\ m_frameHead' = d.number
        /\ \A z \in Places : z # Home(d) =>
             (Astray(d, r, Meta) = {} => m_frames'[z] = m_frames[z])
    BY <1>1, <1>2, BufferWritten
  <1>4. At(s).samples = m_frames[s] /\ At(s)'.samples = m_frames'[s]
    BY DEF At, Block
  <1>6. /\ d.number = m_frameHead => r = At(m_frameHead % Slots)
        /\ d.number # m_frameHead \/ current = 0 => r = Nothing
        /\ Held(r) /\ Behind(r, d)
    BY <1>1, <1>2, BeforeIs
  <1>7. Of(r) \subseteq {f} /\ Of(a) \subseteq {f}
    BY <1>1, <1>2, OneFrame
  <1>8. /\ r.slot.count \in Nat
        /\ r.slot.count < N => \A c \in 1..(N - 1) : c \in Numbers(r) =>
             a.samples[c] = IF c = d.block THEN f ELSE r.samples[c]
        /\ r.slot.count >= N => a.samples = r.samples
    BY <1>1, <1>2, AfterIs
  <1>10. a.slot.count = N /\ f \notin stale' => Astray(d, r, Meta) = {}
    BY <1>1, <1>7, WholeUnlessStale
  <1>11. Kept(d, r).slot.count = N => a.slot.count = N
    <2>1. a.slot.count = r.slot.count + 1
      BY <1>1, <1>2, AfterIs
    <2>2. d \in DatagramType
      BY <1>1, <1>2, DatagramIs DEF StreamInv
    <2> HIDE DEF r, a
    <2>3. Kept(d, r).slot.count = r.slot.count + 1
      BY <1>6, <1>8, <2>2, StoredIs, OverfullIs, Constants DEF Held
    <2> QED BY <2>1, <2>3
  <1> HIDE DEF r, a, f
  <1>12. CASE s # Home(d)
    <2>1. Astray(d, r, Meta) # {}
      BY <1>3, <1>12
    <2>2. a.slot.count = N
      BY <1>11, <2>1 DEF Astray
    <2> QED BY <1>2, <1>3, <1>10, <1>12, <2>1, <2>2 DEF Home
  <1>9. ASSUME d.number = m_frameHead, s = Home(d) PROVE FALSE
    <2>1. r = At(s)
      BY <1>6, <1>9 DEF Home
    <2>2. a.samples[b] # r.samples[b] /\ r.samples[b] > 0
      BY <1>3, <1>4, <1>9, <2>1
    <2>3. r.slot.count < N
      BY <1>8, <2>2, Constants
    <2>4. r.samples[b] # Zeros
      BY <2>2 DEF Zeros
    <2>5. b \in Numbers(r) /\ r.samples[b] \in Of(r)
      BY <1>6, <2>3, <2>4 DEF Held, Plain
    <2>6. r.samples[b] = f
      BY <1>7, <2>5
    <2> QED BY <1>8, <2>2, <2>3, <2>5, <2>6
  <1> QED BY <1>3, <1>9, <1>12 DEF Home

(* ReceivedKept: samples that are in the buffer stay until another frame   *)
(* takes the slot, but for two frames of one number, and for recovery      *)
(* blocks stored in a slot after their own, with stale meta data.          *)
THEOREM SamplesStay == Spec => ReceivedKept
  <1>1. ASSUME StreamInv, [Next]_vars PROVE [Keeps]_vars
    <2>1. (SinkStep /\ UNCHANGED <<bufferVars, historyVars>>) \/ (\E t \in Threads : Lost(t))
            => m_frames' = m_frames
      BY DEF Lost, bufferVars
    <2>2. m_frames' = m_frames => Keeps
      BY DEF Keeps
    <2> QED BY <1>1, <2>1, <2>2, ReceivedKeepsSamples DEF Next
  <1> QED BY <1>1, Invariance, PTL DEF Spec, ReceivedKept, Keeps
-----------------------------------------------------------------------------
(* Who sends is in handleInputMessages(), and so is someone while there is *)
(* a message in the queue.                                                 *)
Handled ==
  /\ \A t \in Threads : sending[t] # None => t \in handling
  /\ m_inputMessageQueue # << >> => handling # {}

(* A frame that is complete is sent, or given up, or still to be sent; and *)
(* what a worker that is gone had to send is given up.                     *)
Accounted ==
  /\ 1..Len(frames) \subseteq sent \cup unsent \cup Pending
  /\ ~m_sdrDaemonSinkThread => Pending \subseteq sent \cup unsent

(* The frames to be sent, by frames, queue and threads.                    *)
LEMMA PendingIs ==
  ASSUME NEW f
  PROVE  f \in Pending <=>
           /\ f \in 1..Len(frames)
           /\ \/ \E i \in DOMAIN m_inputMessageQueue : m_inputMessageQueue[i] = f
              \/ \E t \in Threads : Sends(t, f)
  BY DEF Pending, Sends

(* A block is sent: the frame stays with the thread, or it is sent.        *)
LEMMA TransmitAccounts ==
  ASSUME SinkTypes, InTurn, Handled, Accounted, NEW t \in Threads, Transmit(t)
  PROVE  Handled' /\ Accounted'
  <1> DEFINE f == sending[t][1]
             b == sending[t][2]
  <1>1. /\ sending[t] # None /\ sending \in [Threads -> {None} \cup (Ids \X Nat)]
        /\ UNCHANGED <<frames, m_sdrDaemonSinkThread, m_inputMessageQueue, handling,
                       unsent>>
        /\ sending' = [sending EXCEPT ![t] = IF b + 1 = Blocks(f) THEN None
                                                                  ELSE <<f, b + 1>>]
        /\ sent' = IF b + 1 = Blocks(f) THEN sent \cup {f} ELSE sent
    BY DEF Transmit, SinkTypes
  <1>2. /\ \A u \in Threads : u # t => sending'[u] = sending[u]
        /\ sending'[t] = IF b + 1 = Blocks(f) THEN None ELSE <<f, b + 1>>
    BY <1>1
  <1>3. Handled'
    BY <1>1, <1>2 DEF Handled
  <1>4. <<f, b + 1>>[1] = f
    OBVIOUS
  <1> HIDE DEF f, b
  <1>5. \A g : Sends(t, g) => g = f
    BY DEF Sends, f
  <1>6. ASSUME NEW g \in Pending PROVE g \in Pending' \/ g \in sent'
    <2>1. CASE \E i \in DOMAIN m_inputMessageQueue : m_inputMessageQueue[i] = g
      BY <1>1, <1>6, <2>1 DEF Pending
    <2>2. ASSUME NEW u \in Threads, Sends(u, g), u # t PROVE g \in Pending'
      BY <1>1, <1>2, <1>6, <2>2 DEF Pending, Sends
    <2>3. CASE Sends(t, g)
      <3>1. g = f
        BY <1>5, <2>3
      <3>2. CASE b + 1 = Blocks(f)
        BY <1>1, <3>1, <3>2
      <3>3. CASE b + 1 # Blocks(f)
        <4>1. f \in Nat /\ b + 1 \in Nat
          <5>1. f \in Ids /\ b \in Nat
            BY <1>1, SinkIs DEF f, b
          <5> QED BY <5>1, Constants
        <4>2. sending'[t] # None
          BY <1>2, <3>3, <4>1, NoneAssumption
        <4> QED BY <1>1, <1>2, <1>4, <1>6, <3>1, <3>3, <4>2 DEF Pending
      <3> QED BY <3>2, <3>3
    <2> QED BY <1>6, <2>1, <2>2, <2>3, PendingIs
  <1>7. ASSUME NEW g \in Pending' PROVE g \in Pending
    <2>1. g \in 1..Len(frames)
      BY <1>1, <1>7 DEF Pending
    <2>2. CASE \E i \in DOMAIN m_inputMessageQueue : m_inputMessageQueue[i] = g
      BY <2>1, <2>2 DEF Pending
    <2>3. ASSUME NEW u \in Threads, sending'[u] # None, sending'[u][1] = g
          PROVE  g \in Pending
      <3>1. sending[u] # None /\ sending[u][1] = g
        BY <1>1, <1>2, <1>4, <2>3 DEF f
      <3> QED BY <2>1, <3>1 DEF Pending
    <2> QED BY <1>1, <1>7, <2>2, <2>3 DEF Pending
  <1> QED BY <1>1, <1>3, <1>6, <1>7 DEF Accounted

(* The other steps of the sink.                                            *)
LEMMA SinkStepAccounts ==
  ASSUME SinkTypes, InTurn, Handled, Accounted, SinkStep
  PROVE  Handled' /\ Accounted'
  <1>0. /\ Len(frames) \in Nat /\ frames \in Seq(FrameType)
        /\ m_inputMessageQueue \in Seq(0..Len(frames)) /\ handling \subseteq Threads
        /\ sending \in [Threads -> {None} \cup (Ids \X Nat)]
        /\ m_sdrDaemonSinkThread \in BOOLEAN
    BY SinkIs DEF SinkTypes, FrameType
  <1>1. CASE Start
    BY <1>1 DEF Start, Handled, Accounted, Pending
  <1>2. CASE Stop
    <2>1. /\ UNCHANGED <<frames, handling, sending, sent>>
          /\ unsent' = unsent \cup Pending /\ m_inputMessageQueue' = << >>
      BY <1>2 DEF Stop
    <2>2. Handled'
      BY <2>1 DEF Handled
    <2>3. Pending' \subseteq Pending
      BY <2>1 DEF Pending
    <2> QED BY <2>1, <2>2, <2>3 DEF Accounted
  <1>3. CASE Crash
    <2>1. /\ ~m_sdrDaemonSinkThread /\ UNCHANGED <<frames, sent, unsent>>
          /\ m_inputMessageQueue' = << >> /\ handling' = {}
          /\ \A t \in Threads : sending'[t] = None
      BY <1>3 DEF Crash
    <2>2. Pending' = {}
      BY <2>1 DEF Pending
    <2> QED BY <2>1, <2>2 DEF Handled, Accounted
  <1>4. CASE BeginFrame
    BY <1>4 DEF BeginFrame, threadVars, Handled, Accounted, Pending
  <1>5. ASSUME NEW n \in FECs, SetNbBlocksFEC(n) PROVE Handled' /\ Accounted'
    BY <1>5 DEF SetNbBlocksFEC, threadVars, Handled, Accounted, Pending
  <1>6. CASE CompleteFrame
    <2> DEFINE f == Len(frames) + 1
    <2>1. /\ Len(frames') = f /\ m_inputMessageQueue' = Append(m_inputMessageQueue, f)
          /\ handling' = handling \cup {"engine"} /\ sending' = sending /\ sent' = sent
          /\ m_sdrDaemonSinkThread' = m_sdrDaemonSinkThread
          /\ unsent' = IF m_sdrDaemonSinkThread THEN unsent ELSE unsent \cup {f}
      <3>1. PICK n \in NbBlocksFEC : frames' = Append(frames,
              [number |-> m_frameCount, meta |-> building, fec |-> n])
        BY <1>6 DEF CompleteFrame
      <3>2. Len(frames') = f
        BY <1>0, <3>1
      <3> QED BY <1>6, <3>2 DEF CompleteFrame
    <2> DEFINE next == Append(m_inputMessageQueue, f)
    <2>2. /\ DOMAIN next = 1..(Len(m_inputMessageQueue) + 1)
          /\ DOMAIN m_inputMessageQueue = 1..Len(m_inputMessageQueue)
          /\ Len(m_inputMessageQueue) \in Nat
          /\ \A i \in DOMAIN m_inputMessageQueue : next[i] = m_inputMessageQueue[i]
          /\ next[Len(m_inputMessageQueue) + 1] = f
      BY <1>0
    <2> HIDE DEF next
    <2>3. Handled'
      BY <2>1 DEF Handled
    <2>4. 1..f = (1..Len(frames)) \cup {f} /\ f \in 1..f
      BY <1>0
    <2> HIDE DEF f
    <2>5. Pending \cup {f} \subseteq Pending'
      BY <2>1, <2>2, <2>4 DEF Pending, next
    <2>6. Pending' \subseteq Pending \cup {f}
      <3>1. ASSUME NEW g \in 1..Len(frames), NEW i \in DOMAIN next, next[i] = g, g # f
            PROVE  g \in Pending
        <4>1. i \in DOMAIN m_inputMessageQueue
          BY <2>2, <3>1
        <4> QED BY <2>2, <3>1, <4>1 DEF Pending
      <3> QED BY <2>1, <2>4, <3>1 DEF Pending, next
    <2> QED BY <2>1, <2>3, <2>4, <2>5, <2>6 DEF Accounted
  <1>7. CASE SetRemoteAddress
    <2> DEFINE next == Append(m_inputMessageQueue, Address)
    <2>1. /\ m_inputMessageQueue' = next /\ handling' = handling \cup {"main"}
          /\ m_sdrDaemonSinkThread
          /\ UNCHANGED <<frames, sending, sent, unsent, m_sdrDaemonSinkThread>>
      BY <1>7 DEF SetRemoteAddress
    <2>2. /\ DOMAIN next = 1..(Len(m_inputMessageQueue) + 1)
          /\ DOMAIN m_inputMessageQueue = 1..Len(m_inputMessageQueue)
          /\ Len(m_inputMessageQueue) \in Nat
          /\ \A i \in DOMAIN m_inputMessageQueue : next[i] = m_inputMessageQueue[i]
      BY <1>0 DEF Address
    <2> HIDE DEF next
    <2>3. Handled'
      BY <2>1 DEF Handled
    <2>4. Pending \subseteq Pending'
      BY <2>1, <2>2 DEF Pending
    <2> QED BY <2>1, <2>3, <2>4 DEF Accounted
  <1>8. ASSUME NEW t \in Threads, Pop(t) PROVE Handled' /\ Accounted'
    <2>0. /\ t \in handling /\ sending[t] = None
          /\ UNCHANGED <<frames, m_sdrDaemonSinkThread, sent, unsent>>
      BY <1>8 DEF Pop
    <2>1. CASE m_inputMessageQueue = << >>
      <3>1. handling' = handling \ {t} /\ UNCHANGED <<m_inputMessageQueue, sending>>
        BY <1>8, <2>1 DEF Pop
      <3> QED BY <2>0, <2>1, <3>1 DEF Handled, Accounted, Pending
    <2>2. CASE m_inputMessageQueue # << >>
      <3> DEFINE message == Head(m_inputMessageQueue)
                 rest    == Tail(m_inputMessageQueue)
      <3>1. /\ m_inputMessageQueue' = rest /\ handling' = handling
            /\ sending' = IF message = Address THEN sending
                          ELSE [sending EXCEPT ![t] = <<message, 0>>]
        BY <1>8, <2>2 DEF Pop
      <3>2. /\ message \in 0..Len(frames)
            /\ DOMAIN m_inputMessageQueue = 1..Len(m_inputMessageQueue)
            /\ DOMAIN rest = 1..(Len(m_inputMessageQueue) - 1)
            /\ Len(m_inputMessageQueue) \in Nat
            /\ \A i \in DOMAIN rest : rest[i] = m_inputMessageQueue[i + 1]
            /\ message = m_inputMessageQueue[1]
            /\ 1 \in DOMAIN m_inputMessageQueue
        BY <1>0, <2>2
      <3> HIDE DEF message, rest
      <3>3. \A i \in DOMAIN m_inputMessageQueue :
              \/ m_inputMessageQueue[i] = message
              \/ \E j \in DOMAIN rest : rest[j] = m_inputMessageQueue[i]
        <4> SUFFICES ASSUME NEW i \in DOMAIN m_inputMessageQueue, i # 1
                     PROVE  \E j \in DOMAIN rest : rest[j] = m_inputMessageQueue[i]
          BY <3>2
        <4>1. i - 1 \in DOMAIN rest /\ (i - 1) + 1 = i
          BY <3>2
        <4>2. rest[i - 1] = m_inputMessageQueue[i]
          BY <3>2, <4>1
        <4> QED BY <4>1, <4>2
      <3>4. \A j \in DOMAIN rest : \E i \in DOMAIN m_inputMessageQueue :
              m_inputMessageQueue[i] = rest[j]
        <4> SUFFICES ASSUME NEW j \in DOMAIN rest
                     PROVE  \E i \in DOMAIN m_inputMessageQueue :
                              m_inputMessageQueue[i] = rest[j]
          OBVIOUS
        <4>1. j + 1 \in DOMAIN m_inputMessageQueue
          BY <3>2
        <4> QED BY <3>2, <4>1
      <3>5. message # Address => message \in Nat /\ <<message, 0>>[1] = message
                                 /\ <<message, 0>> # None
        BY <1>0, <3>2, NoneAssumption
      <3>6. /\ \A u \in Threads : u # t => sending'[u] = sending[u]
            /\ sending'[t] = IF message = Address THEN None ELSE <<message, 0>>
        BY <1>0, <2>0, <3>1
      <3>7. Handled'
        BY <2>0, <3>1, <3>6 DEF Handled
      <3>8. Address \notin 1..Len(frames)
        BY DEF Address
      <3>9. ASSUME NEW g \in Pending PROVE g \in Pending'
        <4>1. CASE \E i \in DOMAIN m_inputMessageQueue : m_inputMessageQueue[i] = g
          BY <2>0, <3>1, <3>3, <3>5, <3>6, <3>8, <3>9, <4>1 DEF Pending
        <4>2. ASSUME NEW u \in Threads, Sends(u, g) PROVE g \in Pending'
          <5>1. u # t
            BY <2>0, <4>2 DEF Sends
          <5> QED BY <2>0, <3>6, <3>9, <4>2, <5>1 DEF Pending, Sends
        <4> QED BY <3>9, <4>1, <4>2, PendingIs
      <3>10. ASSUME NEW g \in Pending' PROVE g \in Pending
        <4>1. g \in 1..Len(frames)
          BY <2>0, <3>10 DEF Pending
        <4>2. CASE \E i \in DOMAIN rest : rest[i] = g
          BY <3>4, <4>1, <4>2 DEF Pending
        <4>3. ASSUME NEW u \in Threads, sending'[u] # None, sending'[u][1] = g
              PROVE  g \in Pending
          <5>1. CASE u = t
            <6>1. message = g
              BY <3>5, <3>6, <4>3, <5>1
            <6> QED BY <3>2, <4>1, <6>1 DEF Pending
          <5>2. CASE u # t
            BY <3>6, <4>1, <4>3, <5>2 DEF Pending
          <5> QED BY <5>1, <5>2
        <4> QED BY <3>1, <3>10, <4>2, <4>3 DEF Pending
      <3> QED BY <2>0, <3>7, <3>9, <3>10 DEF Accounted
    <2> QED BY <2>1, <2>2
  <1>9. ASSUME NEW t \in Threads, EncodeFails(t) PROVE Handled' /\ Accounted'
    <2>1. /\ UNCHANGED <<frames, m_sdrDaemonSinkThread, m_inputMessageQueue, handling, sent>>
          /\ sending' = [sending EXCEPT ![t] = None]
          /\ unsent' = unsent \cup {sending[t][1]}
      BY <1>9 DEF EncodeFails
    <2>2. /\ \A u \in Threads : u # t => sending'[u] = sending[u]
          /\ sending'[t] = None
      BY <1>0, <2>1
    <2>3. Handled'
      BY <2>1, <2>2 DEF Handled
    <2>4. Pending' \subseteq Pending
      BY <2>1, <2>2 DEF Pending
    <2>5. Pending \subseteq Pending' \cup {sending[t][1]}
      BY <2>1, <2>2 DEF Pending
    <2> QED BY <2>1, <2>3, <2>4, <2>5 DEF Accounted
  <1> QED BY <1>1, <1>2, <1>3, <1>4, <1>5, <1>6, <1>7, <1>8, <1>9 DEF SinkStep

(* EveryFrameSent: pushTxFrame() of a frame and of an address go through   *)
(* one queue on two threads, while the sink may stop at any time; when     *)
(* both are done no frame is left, for any number of frames.               *)
THEOREM AllSent == Spec => []EveryFrameSent
  <1>1. Init => Handled /\ Accounted
    <2> SUFFICES ASSUME Init PROVE Handled /\ Accounted
      OBVIOUS
    <2>1. /\ frames = << >> /\ m_inputMessageQueue = << >>
          /\ \A t \in Threads : sending[t] = None
      BY DEF Init, SinkInit
    <2>2. 1..Len(frames) = {}
      BY <2>1
    <2> QED BY <2>1, <2>2 DEF Handled, Accounted, Pending
  <1>2. StreamInv /\ Handled /\ Accounted /\ [Next]_vars => Handled' /\ Accounted'
    <2> SUFFICES ASSUME StreamInv, Handled, Accounted, [Next]_vars
                 PROVE  Handled' /\ Accounted'
      OBVIOUS
    <2>1. CASE SinkStep
      BY <2>1, SinkStepAccounts DEF StreamInv
    <2>2. ASSUME NEW t \in Threads, Transmit(t) PROVE Handled' /\ Accounted'
      BY <2>2, TransmitAccounts DEF StreamInv
    <2>3. CASE UNCHANGED vars
      BY <2>3 DEF vars, sinkVars, threadVars, Handled, Accounted, Pending
    <2> QED BY <2>1, <2>2, <2>3 DEF Next, Lost, Received
  <1>3. Handled /\ Accounted => EveryFrameSent
    <2> SUFFICES ASSUME Handled, Accounted, handling = {}
                 PROVE  1..Len(frames) \subseteq sent \cup unsent
      BY DEF EveryFrameSent
    <2>1. m_inputMessageQueue = << >> /\ \A t \in Threads : sending[t] = None
      BY DEF Handled
    <2>2. Pending = {}
      BY <2>1 DEF Pending
    <2> QED BY <2>2 DEF Accounted
  <1> QED BY Invariance, <1>1, <1>2, <1>3, PTL DEF Spec
=============================================================================
