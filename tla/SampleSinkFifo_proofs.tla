------------------------ MODULE SampleSinkFifo_proofs ------------------------
(***************************************************************************)
(* The ring buffer of the receive path is correct for every size, block    *)
(* length and number of samples.                                           *)
(*                                                                         *)
(* That the reader gets the accepted samples in order is not inductive: it *)
(* rests on where those samples are in the ring (Contents), on the indexes *)
(* agreeing with one another (Ring), on the region the reader holds being  *)
(* the oldest part of the ring (Region) and on how much of it has been fed *)
(* (Progress).                                                             *)
(***************************************************************************)
EXTENDS SampleSinkFifo, SequenceTheorems, TLAPS

(* The write index is m_fill slots after the read index. *)
Ring == m_tail = Wrap(m_head + m_fill)

(* The slots from m_head on hold the last m_fill samples accepted. *)
Contents ==
  /\ m_fill <= Len(accepted)
  /\ \A i \in 0..(m_fill - 1) :
       m_data[Wrap(m_head + i)] = accepted[Len(accepted) - m_fill + i + 1]

Reading == pc \in {"feed1", "commit1", "feed2", "commit2"}

(* The reader holds the oldest samples of the ring: a first part from      *)
(* m_head on and a second one that follows it around the end.              *)
Region ==
  IF Reading
    THEN /\ part1.len + part2.len <= m_fill
         /\ part1.len <= Size - m_head
         /\ part1.len > 0 => part1.at = m_head
         /\ part2.at = Wrap(m_head + part1.len)
         /\ part2.at + part2.len <= Size
         /\ kind = "engine" => pc # "commit1"
         /\ kind = "threaded" /\ pc \in {"feed2", "commit2"} => part1.len = 0
    ELSE part1 = None /\ part2 = None

(* Samples fed and not committed yet. *)
Uncommitted ==
  IF pc \in {"commit1", "feed2"} THEN part1.len
  ELSE IF pc = "commit2" THEN part1.len + part2.len
  ELSE 0

Progress == Len(fed) = Len(accepted) - m_fill + Uncommitted

Inv == TypeOK /\ Ring /\ Contents /\ Region /\ Progress /\ DeliveredInOrder
-----------------------------------------------------------------------------
(* Wrapping an index that is less than twice around the ring. *)
LEMMA WrapIs ==
  \A x \in 0..(Size + Size - 1) :
    /\ Wrap(x) = IF x < Size THEN x ELSE x - Size
    /\ Wrap(x) \in Slots
  BY SizeAssumption DEF Wrap, Slots

(* How far a slot lies ahead of another one. *)
LEMMA AheadIs ==
  \A s, t \in Slots :
    /\ Ahead(s, t) = IF s >= t THEN s - t ELSE s - t + Size
    /\ Ahead(s, t) \in Slots
  <1> SUFFICES ASSUME NEW s \in Slots, NEW t \in Slots
               PROVE  /\ Ahead(s, t) = IF s >= t THEN s - t ELSE s - t + Size
                      /\ Ahead(s, t) \in Slots
    OBVIOUS
  <1> DEFINE x == s + Size - t
  <1>1. x \in 0..(Size + Size - 1)
    BY SizeAssumption DEF Slots
  <1>2. Ahead(s, t) = IF x < Size THEN x ELSE x - Size
    BY <1>1, WrapIs DEF Ahead
  <1> QED BY <1>2, SizeAssumption DEF Slots

(* The indexes as numbers. *)
LEMMA Bounds ==
  ASSUME TypeOK
  PROVE  /\ m_fill \in 0..Size /\ m_head \in 0..(Size - 1)
         /\ m_tail \in 0..(Size - 1) /\ Size \in Nat /\ Size > 0
         /\ Slots = 0..(Size - 1)
  BY SizeAssumption DEF TypeOK, Slots

(* Appending n elements to a sequence. *)
LEMMA Appending ==
  ASSUME NEW s \in Seq(Nat), NEW n \in Nat, NEW f \in [1..n -> Nat]
  PROVE  /\ s \o f \in Seq(Nat)
         /\ Len(s \o f) = Len(s) + n
         /\ \A k \in 1..(Len(s) + n) :
              (s \o f)[k] = IF k <= Len(s) THEN s[k] ELSE f[k - Len(s)]
  <1>1. f \in Seq(Nat) /\ Len(f) = n
    OBVIOUS
  <1>2. /\ s \o f \in Seq(Nat)
        /\ Len(s \o f) = Len(s) + n
    BY <1>1
  <1>3. \A k \in 1..(Len(s) + n) :
          (s \o f)[k] = IF k <= Len(s) THEN s[k] ELSE f[k - Len(s)]
    BY <1>1, ConcatProperties
  <1> QED BY <1>2, <1>3

LEMMA InitInv == Init => Inv
  <1> SUFFICES ASSUME Init PROVE Inv
    OBVIOUS
  <1> USE SizeAssumption, ReadersAssumption DEF Init
  <1>1. TypeOK
    BY DEF TypeOK, Slots, Parts, None
  <1>2. Ring
    BY WrapIs DEF Ring
  <1>3. Contents /\ Region /\ Progress /\ DeliveredInOrder
    BY DEF Contents, Region, Reading, Progress, Uncommitted, DeliveredInOrder
  <1> QED BY <1>1, <1>2, <1>3 DEF Inv

(* write() keeps the ring and its contents in order. *)
LEMMA WriteInv ==
  ASSUME Inv, NEW n \in 1..MaxBlock, Write(n)
  PROVE  Inv'
  <1> DEFINE total == Kept(n)
             block == Block(produced, total)
  <1> USE SizeAssumption, BlockAssumption DEF Inv
  <1>0. /\ m_fill \in 0..Size /\ m_head \in 0..(Size - 1)
        /\ m_tail \in 0..(Size - 1) /\ Size \in Nat /\ Size > 0
        /\ Slots = 0..(Size - 1)
    BY Bounds
  <1>1. total \in 0..(Size - m_fill)
    BY DEF TypeOK, Kept, AtMost
  <1>2. block \in [1..total -> Nat]
    BY <1>1 DEF TypeOK, Block
  <1>3. /\ m_data' = [s \in Slots |-> IF Ahead(s, m_tail) < total
                                       THEN block[Ahead(s, m_tail) + 1]
                                       ELSE m_data[s]]
        /\ m_tail' = Wrap(m_tail + total)
        /\ m_fill' = m_fill + total
        /\ dataReady' = IF m_fill' > 0 THEN dataReady + 1 ELSE dataReady
        /\ produced' = produced + n
        /\ accepted' = accepted \o block
        /\ UNCHANGED <<m_head, reader, fed>>
    BY DEF Write
  <1> HIDE DEF total, block
  <1>4. /\ accepted' \in Seq(Nat)
        /\ Len(accepted') = Len(accepted) + total
        /\ \A k \in 1..(Len(accepted) + total) :
             accepted'[k] = IF k <= Len(accepted) THEN accepted[k]
                            ELSE block[k - Len(accepted)]
    <2>1. accepted \in Seq(Nat) /\ total \in Nat
      BY <1>1, <1>0 DEF TypeOK
    <2> QED BY <1>2, <1>3, <2>1, Appending
  <1>5. \A s \in Slots : Ahead(s, m_tail) \in 0..(Size - 1)
    BY <1>0, AheadIs
  <1>12. Len(accepted) \in Nat /\ m_fill <= Len(accepted)
    BY DEF TypeOK, Contents
  <1>6. TypeOK'
    <2>1. m_data' \in [Slots -> Nat]
      <3>1. ASSUME NEW s \in Slots, Ahead(s, m_tail) < total
            PROVE  block[Ahead(s, m_tail) + 1] \in Nat
        <4> DEFINE k == Ahead(s, m_tail) + 1
        <4>1. Ahead(s, m_tail) \in 0..(Size - 1)
          BY <1>5
        <4>2. k \in 1..total
          BY <1>1, <3>1, <4>1
        <4> HIDE DEF k
        <4>3. block[k] \in Nat
          BY <1>2, <4>2
        <4> QED BY <4>3 DEF k
      <3> QED BY <1>3, <3>1 DEF TypeOK
    <2>2. m_tail' \in Slots
      BY <1>1, <1>3, WrapIs DEF TypeOK, Slots
    <2> QED BY <1>1, <1>3, <1>4, <2>1, <2>2 DEF TypeOK, reader
  <1>7. Ring'
    <2>1. /\ m_head + m_fill \in 0..(Size + Size - 1)
          /\ m_head + m_fill + total \in 0..(Size + Size - 1)
      BY <1>1, <1>0
    <2>2. m_tail + total \in 0..(Size + Size - 1)
      BY <1>1, <1>0
    <2>3. Wrap(m_tail + total) = Wrap(m_head + m_fill + total)
      <3>1. m_tail = IF m_head + m_fill < Size THEN m_head + m_fill
                     ELSE m_head + m_fill - Size
        BY <1>0, <2>1, WrapIs DEF Ring
      <3>2. /\ Wrap(m_tail + total)
                 = IF m_tail + total < Size THEN m_tail + total
                   ELSE m_tail + total - Size
            /\ Wrap(m_head + m_fill + total)
                 = IF m_head + m_fill + total < Size
                   THEN m_head + m_fill + total
                   ELSE m_head + m_fill + total - Size
        BY <1>0, <1>1, <2>1, <2>2, WrapIs
      <3> QED BY <1>0, <1>1, <3>1, <3>2
    <2> QED BY <1>1, <1>3, <2>3, <1>0 DEF Ring
  <1>8. Contents'
    <2>1. m_fill' <= Len(accepted')
      BY <1>1, <1>3, <1>4, <1>0 DEF TypeOK, Contents
    <2>2. ASSUME NEW i \in 0..(m_fill' - 1)
          PROVE  m_data'[Wrap(m_head' + i)]
                   = accepted'[Len(accepted') - m_fill' + i + 1]
      <3> DEFINE s == Wrap(m_head + i)
      <3>1. /\ i \in 0..(Size - 1) /\ s \in Slots
            /\ s = IF m_head + i < Size THEN m_head + i ELSE m_head + i - Size
        <4>1. i \in 0..(Size - 1) /\ m_head + i \in 0..(Size + Size - 1)
          BY <1>1, <1>3, <1>0
        <4> QED BY <1>0, <4>1, WrapIs
      <3>4. m_tail = IF m_head + m_fill < Size THEN m_head + m_fill
                     ELSE m_head + m_fill - Size
        <4>1. m_head + m_fill \in 0..(Size + Size - 1)
          BY <1>0
        <4> QED BY <1>0, <4>1, WrapIs DEF Ring
      <3>5. Ahead(s, m_tail) = IF s >= m_tail THEN s - m_tail
                               ELSE s - m_tail + Size
        BY <3>1, AheadIs DEF TypeOK
      <3> HIDE DEF s
      <3>2. CASE i < m_fill
        <4>1. Ahead(s, m_tail) >= total
          BY <1>1, <3>1, <3>2, <3>4, <3>5, <1>0
        <4>2. m_data'[s] = m_data[s]
          <5>1. ~(Ahead(s, m_tail) < total)
            <6>1. Ahead(s, m_tail) \in 0..(Size - 1)
              BY <1>5, <3>1
            <6> QED BY <1>1, <4>1, <6>1
          <5> QED BY <1>3, <3>1, <5>1
        <4>3. accepted'[Len(accepted') - m_fill' + i + 1]
                = accepted[Len(accepted) - m_fill + i + 1]
          <5> DEFINE k == Len(accepted) - m_fill + i + 1
          <5>1. k \in 1..(Len(accepted) + total) /\ k <= Len(accepted)
            BY <1>0, <1>1, <1>12, <3>1, <3>2
          <5>2. Len(accepted') - m_fill' + i + 1 = k
            BY <1>0, <1>1, <1>3, <1>4, <1>12, <3>1
          <5> HIDE DEF k
          <5>3. accepted'[k] = accepted[k]
            BY <1>4, <5>1
          <5> QED BY <5>2, <5>3 DEF k
        <4>4. m_data[Wrap(m_head + i)] = accepted[Len(accepted) - m_fill + i + 1]
          <5>1. i \in 0..(m_fill - 1)
            BY <1>0, <3>1, <3>2
          <5> QED BY <5>1 DEF Contents
        <4> QED BY <1>3, <4>2, <4>3, <4>4 DEF s
      <3>3. CASE i >= m_fill
        <4>1. Ahead(s, m_tail) = i - m_fill
          BY <1>1, <3>1, <3>3, <3>4, <3>5, <1>0
        <4>2. i - m_fill < total
          BY <1>1, <1>3, <3>1, <3>3 DEF TypeOK
        <4>3. m_data'[s] = block[i - m_fill + 1]
          BY <1>3, <3>1, <4>1, <4>2
        <4>4. accepted'[Len(accepted') - m_fill' + i + 1]
                = block[i - m_fill + 1]
          <5> DEFINE k == Len(accepted) - m_fill + i + 1
          <5>1. /\ k \in 1..(Len(accepted) + total)
                /\ ~(k <= Len(accepted)) /\ k - Len(accepted) = i - m_fill + 1
            BY <1>0, <1>1, <1>12, <3>1, <3>3, <4>2
          <5>2. Len(accepted') - m_fill' + i + 1 = k
            BY <1>0, <1>1, <1>3, <1>4, <1>12, <3>1
          <5> HIDE DEF k
          <5> QED BY <1>4, <5>1, <5>2
        <4> QED BY <1>3, <4>3, <4>4 DEF s
      <3> QED BY <3>1, <3>2, <3>3 DEF TypeOK
    <2> QED BY <2>1, <2>2 DEF Contents
  <1>9. Region'
    BY <1>1, <1>3 DEF TypeOK, Region, Reading, Parts, reader
  <1>10. Progress'
    BY <1>1, <1>3, <1>4 DEF TypeOK, Progress, Uncommitted, Contents, reader
  <1>11. DeliveredInOrder'
    BY <1>1, <1>3, <1>4 DEF TypeOK, DeliveredInOrder
  <1> QED BY <1>6, <1>7, <1>8, <1>9, <1>10, <1>11

(* Steps of the reader's loop that touch neither the ring nor the samples. *)
LEMMA LoopInv ==
  ASSUME Inv, HandleData \/ EnterLoop \/ LeaveLoop \/ Interrupt \/ AskFill
  PROVE  Inv'
  <1> USE DEF Inv
  <1>1. /\ UNCHANGED <<fifo, kind, part1, part2, produced, accepted, fed>>
        /\ ~ Reading /\ ~ Reading'
        /\ pc' \in {"waiting", "loop", "asking", "begin"}
    BY DEF HandleData, EnterLoop, LeaveLoop, Interrupt, AskFill, Reading
  <1>2. dataReady' \in Nat /\ want' \in 0..Size /\ interrupted' \in BOOLEAN
    <2>1. CASE HandleData
      <3>1. dataReady \in Nat /\ dataReady > 0 /\ dataReady' = dataReady - 1
        BY <2>1 DEF HandleData, TypeOK
      <3>2. want' = want /\ interrupted' = FALSE
        BY <2>1 DEF HandleData
      <3>3. dataReady' \in Nat
        BY <3>1
      <3> QED BY <3>2, <3>3 DEF TypeOK
    <2>2. CASE AskFill
      BY <2>2 DEF AskFill, TypeOK
    <2>3. CASE EnterLoop \/ LeaveLoop \/ Interrupt
      BY <2>3 DEF EnterLoop, LeaveLoop, Interrupt, TypeOK
    <2> QED BY <2>1, <2>2, <2>3
  <1>3. TypeOK'
    BY <1>1, <1>2 DEF TypeOK, fifo
  <1>4. Ring' /\ Contents' /\ DeliveredInOrder'
    BY <1>1 DEF Ring, Contents, DeliveredInOrder, fifo
  <1>5. Region'
    BY <1>1 DEF Region, None
  <1>6. Progress'
    BY <1>1 DEF Progress, Uncommitted, Reading, fifo
  <1> QED BY <1>3, <1>4, <1>5, <1>6

(* readBegin() hands out the oldest samples of the ring. *)
LEMMA ReadBeginInv ==
  ASSUME Inv, ReadBegin
  PROVE  Inv'
  <1> DEFINE total == AtMost(want, m_fill)
             len1  == AtMost(total, Size - m_head)
  <1> USE DEF Inv
  <1>0. /\ m_fill \in 0..Size /\ m_head \in 0..(Size - 1)
        /\ Size \in Nat /\ Size > 0 /\ Slots = 0..(Size - 1)
        /\ want \in 0..Size
    BY Bounds DEF TypeOK
  <1>1. total \in 0..m_fill
    BY <1>0 DEF AtMost
  <1>2. /\ len1 \in 0..total /\ len1 <= Size - m_head
        /\ len1 = total \/ len1 = Size - m_head
    BY <1>0, <1>1 DEF AtMost
  <1>3. /\ part1' = [at |-> m_head, len |-> len1]
        /\ part2' = [at |-> Wrap(m_head + len1), len |-> total - len1]
        /\ pc = "begin" /\ pc' = "feed1"
        /\ UNCHANGED <<fifo, dataReady, kind, want, interrupted,
                       produced, accepted, fed>>
    BY DEF ReadBegin
  <1> HIDE DEF total, len1
  <1>4. /\ Wrap(m_head + len1) \in Slots
        /\ Wrap(m_head + len1) + (total - len1) <= Size
    <2>1. m_head + len1 \in 0..(Size + Size - 1)
      BY <1>0, <1>1, <1>2
    <2>2. /\ Wrap(m_head + len1) = IF m_head + len1 < Size THEN m_head + len1
                                   ELSE m_head + len1 - Size
          /\ Wrap(m_head + len1) \in Slots
      BY <1>0, <1>2, <2>1, WrapIs
    <2> QED BY <1>0, <1>1, <1>2, <2>2
  <1>5. TypeOK'
    <2>1. part1' \in Parts /\ part2' \in Parts
      BY <1>0, <1>1, <1>2, <1>3, <1>4 DEF Parts
    <2> QED BY <1>3, <2>1 DEF TypeOK, fifo
  <1>6. Ring' /\ Contents' /\ DeliveredInOrder'
    BY <1>3 DEF Ring, Contents, DeliveredInOrder, fifo
  <1>7. Region'
    BY <1>0, <1>1, <1>2, <1>3, <1>4 DEF Region, Reading, fifo
  <1>8. Progress'
    BY <1>3 DEF Progress, Uncommitted, fifo
  <1> QED BY <1>5, <1>6, <1>7, <1>8

(* Reading a part that starts off samples after the oldest one, when that   *)
(* many have been fed, gives the next accepted samples.                     *)
LEMMA Feeding ==
  ASSUME Inv, NEW part \in Parts, NEW off \in Nat,
         off + part.len <= m_fill, part.at + part.len <= Size,
         part.len > 0 => part.at = Wrap(m_head + off),
         Len(fed) = Len(accepted) - m_fill + off,
         fed' = fed \o Samples(part), UNCHANGED accepted
  PROVE  /\ fed' \in Seq(Nat) /\ Len(fed') = Len(fed) + part.len
         /\ DeliveredInOrder'
  <1> DEFINE at == part.at
             n == part.len
             read == Samples(part)
             nfed == Len(fed)
             nacc == Len(accepted)
  <1> USE DEF Inv
  <1>0. /\ m_fill \in 0..Size /\ m_head \in 0..(Size - 1)
        /\ Size \in Nat /\ Size > 0 /\ Slots = 0..(Size - 1)
    BY Bounds
  <1>1. /\ at \in 0..(Size - 1) /\ n \in 0..Size
        /\ off + n <= m_fill /\ at + n <= Size
        /\ n > 0 => at = Wrap(m_head + off)
    BY <1>0 DEF Parts
  <1>2. /\ nfed \in Nat /\ nacc \in Nat /\ m_fill <= nacc
        /\ nfed = nacc - m_fill + off
        /\ fed \in Seq(Nat) /\ m_data \in [Slots -> Nat]
    BY DEF TypeOK, Contents
  <1>3. read = [j \in 1..n |-> m_data[at + j - 1]]
    BY DEF Samples
  <1>4. fed' = fed \o read /\ Len(accepted') = nacc /\ accepted' = accepted
    OBVIOUS
  <1> HIDE DEF at, n, read
  <1>5. read \in [1..n -> Nat]
    <2>1. ASSUME NEW j \in 1..n PROVE m_data[at + j - 1] \in Nat
      <3>1. at + j - 1 \in Slots
        BY <1>0, <1>1
      <3> QED BY <1>2, <3>1
    <2> QED BY <1>3, <2>1
  <1>6. /\ fed' \in Seq(Nat) /\ Len(fed') = nfed + n
        /\ \A k \in 1..(nfed + n) :
             fed'[k] = IF k <= nfed THEN fed[k] ELSE read[k - nfed]
    <2>1. n \in Nat
      BY <1>0, <1>1
    <2>2. /\ fed \o read \in Seq(Nat) /\ Len(fed \o read) = Len(fed) + n
          /\ \A k \in 1..(Len(fed) + n) :
               (fed \o read)[k] = IF k <= Len(fed) THEN fed[k]
                                  ELSE read[k - Len(fed)]
      BY <1>2, <1>5, <2>1, Appending
    <2> QED BY <1>4, <2>2
  <1> HIDE DEF nfed, nacc
  <1>7. ASSUME NEW j \in 1..n
        PROVE  read[j] = accepted[nfed + j]
    <2> DEFINE i == off + j - 1
    <2>1. /\ i \in 0..(m_fill - 1) /\ m_head + off \in 0..(Size + Size - 1)
          /\ m_head + i \in 0..(Size + Size - 1) /\ n > 0
      BY <1>0, <1>1
    <2> DEFINE x == m_head + off
               y == m_head + i
    <2>2. x \in 0..(Size + Size - 1) /\ y \in 0..(Size + Size - 1)
      BY <2>1
    <2> HIDE DEF x, y
    <2>6. /\ Wrap(x) = IF x < Size THEN x ELSE x - Size
          /\ Wrap(y) = IF y < Size THEN y ELSE y - Size
      BY <2>2, WrapIs
    <2>7. at = Wrap(x) /\ x + j - 1 = y
      BY <1>0, <1>1, <2>1 DEF x, y
    <2>3. at + j - 1 = Wrap(m_head + i)
      <3>1. at + j - 1 = Wrap(y)
        BY <1>0, <1>1, <2>2, <2>6, <2>7
      <3> QED BY <3>1 DEF y
    <2>4. nacc - m_fill + i + 1 = nfed + j
      BY <1>0, <1>1, <1>2
    <2> HIDE DEF i
    <2>5. m_data[Wrap(m_head + i)] = accepted[nacc - m_fill + i + 1]
      BY <2>1 DEF Contents, nacc
    <2> QED BY <1>3, <2>3, <2>4, <2>5
  <1>8. ASSUME NEW k \in 1..(nfed + n)
        PROVE  fed'[k] = accepted[k]
    <2>1. CASE k <= nfed
      <3>1. k \in 1..nfed
        BY <1>2, <2>1
      <3>2. fed[k] = accepted[k]
        BY <3>1 DEF DeliveredInOrder, nfed
      <3> QED BY <1>6, <2>1, <3>2
    <2>2. CASE ~(k <= nfed)
      <3> DEFINE j == k - nfed
      <3>1. j \in 1..n /\ nfed + j = k
        BY <1>1, <1>2, <2>2
      <3>2. fed'[k] = read[j]
        BY <1>6, <2>2
      <3> HIDE DEF j
      <3> QED BY <1>7, <3>1, <3>2
    <2> QED BY <2>1, <2>2
  <1>9. nfed + n <= nacc
    BY <1>0, <1>1, <1>2
  <1>10. DeliveredInOrder'
    BY <1>4, <1>6, <1>8, <1>9 DEF DeliveredInOrder, nacc
  <1> QED BY <1>6, <1>10 DEF nfed, n

(* Committing the oldest samples leaves the others where they are. *)
LEMMA Committing ==
  ASSUME Inv, NEW count \in 0..Size, count <= m_fill,
         Commit(count), UNCHANGED accepted
  PROVE  /\ m_head' = Wrap(m_head + count) /\ m_head' \in Slots
         /\ m_fill' = m_fill - count /\ m_fill' \in 0..Size
         /\ UNCHANGED <<m_data, m_tail>>
         /\ Ring' /\ Contents'
  <1> USE DEF Inv
  <1>0. /\ m_fill \in 0..Size /\ m_head \in 0..(Size - 1)
        /\ Size \in Nat /\ Size > 0 /\ Slots = 0..(Size - 1)
        /\ Len(accepted) \in Nat /\ m_fill <= Len(accepted)
    BY Bounds DEF TypeOK, Contents
  <1>1. /\ m_head' = Wrap(m_head + count) /\ m_fill' = m_fill - count
        /\ UNCHANGED <<m_data, m_tail>>
    BY <1>0 DEF Commit, AtMost
  <1>2. m_head + count \in 0..(Size + Size - 1)
    BY <1>0
  <1>3. /\ m_head' = IF m_head + count < Size THEN m_head + count
                     ELSE m_head + count - Size
        /\ m_head' \in Slots
    BY <1>0, <1>1, <1>2, WrapIs
  <1>4. ASSUME NEW i \in Nat, i <= m_fill - count
        PROVE  Wrap(m_head' + i) = Wrap(m_head + (count + i))
    <2>1. /\ m_head' + i \in 0..(Size + Size - 1)
          /\ m_head + (count + i) \in 0..(Size + Size - 1)
      BY <1>0, <1>3, <1>4
    <2>2. /\ Wrap(m_head' + i) = IF m_head' + i < Size THEN m_head' + i
                                 ELSE m_head' + i - Size
          /\ Wrap(m_head + (count + i))
               = IF m_head + (count + i) < Size THEN m_head + (count + i)
                 ELSE m_head + (count + i) - Size
      BY <1>0, <1>3, <2>1, WrapIs
    <2> QED BY <1>0, <1>3, <1>4, <2>2
  <1>5. Ring'
    <2>1. m_fill - count \in Nat /\ count + (m_fill - count) = m_fill
      BY <1>0
    <2>2. Wrap(m_head' + (m_fill - count)) = Wrap(m_head + m_fill)
      BY <1>0, <1>4, <2>1
    <2> QED BY <1>1, <2>2 DEF Ring
  <1>6. Contents'
    <2>1. ASSUME NEW i \in 0..(m_fill' - 1)
          PROVE  m_data'[Wrap(m_head' + i)]
                   = accepted'[Len(accepted') - m_fill' + i + 1]
      <3> DEFINE j == count + i
      <3>1. /\ j \in 0..(m_fill - 1) /\ i \in Nat /\ i <= m_fill - count
            /\ Len(accepted) - m_fill' + i + 1 = Len(accepted) - m_fill + j + 1
        BY <1>0, <1>1
      <3>2. Wrap(m_head' + i) = Wrap(m_head + j)
        BY <1>4, <3>1
      <3> HIDE DEF j
      <3>3. m_data[Wrap(m_head + j)] = accepted[Len(accepted) - m_fill + j + 1]
        BY <3>1 DEF Contents
      <3> QED BY <1>1, <3>1, <3>2, <3>3
    <2>2. m_fill' <= Len(accepted')
      BY <1>0, <1>1
    <2> QED BY <2>1, <2>2 DEF Contents
  <1> QED BY <1>0, <1>1, <1>3, <1>5, <1>6

LEMMA Feed1Inv ==
  ASSUME Inv, Feed1
  PROVE  Inv'
  <1> USE DEF Inv
  <1>0. /\ m_fill \in 0..Size /\ m_head \in 0..(Size - 1)
        /\ Size \in Nat /\ Size > 0 /\ Slots = 0..(Size - 1)
        /\ part1 \in Parts /\ part1.at \in Slots /\ part1.len \in 0..Size
        /\ part2.len \in 0..Size
    BY Bounds DEF TypeOK, Parts
  <1>1. /\ pc = "feed1" /\ fed' = fed \o Samples(part1)
        /\ pc' = IF kind = "engine" THEN "feed2" ELSE "commit1"
        /\ UNCHANGED <<fifo, dataReady, kind, want, part1, part2, interrupted,
                       produced, accepted>>
    BY DEF Feed1
  <1>2. /\ part1.len + part2.len <= m_fill /\ part1.len <= Size - m_head
        /\ part1.len > 0 => part1.at = m_head
    BY <1>1 DEF Region, Reading
  <1>3. Len(fed) = Len(accepted) - m_fill + 0
    BY <1>0, <1>1 DEF Progress, Uncommitted, TypeOK
  <1>4. /\ fed' \in Seq(Nat) /\ Len(fed') = Len(fed) + part1.len
        /\ DeliveredInOrder'
    <2>1. m_head + 0 \in 0..(Size + Size - 1) /\ Wrap(m_head + 0) = m_head
      BY <1>0, WrapIs
    <2>2. /\ 0 + part1.len <= m_fill /\ 0 \in Nat
          /\ part1.len > 0 => part1.at = Wrap(m_head + 0)
      BY <1>0, <1>2, <2>1
    <2>3. part1.at + part1.len <= Size
      BY <1>0, <1>2
    <2>4. fed' = fed \o Samples(part1) /\ UNCHANGED accepted
      BY <1>1
    <2> HIDE DEF Inv
    <2> QED BY <1>0, <1>3, <2>2, <2>3, <2>4, Feeding
  <1>5. TypeOK'
    BY <1>1, <1>4 DEF TypeOK, fifo
  <1>6. Ring' /\ Contents'
    BY <1>1 DEF Ring, Contents, fifo
  <1>7. Region'
    BY <1>1 DEF Region, Reading, fifo, TypeOK
  <1>8. Progress'
    BY <1>0, <1>1, <1>3, <1>4 DEF Progress, Uncommitted, fifo
  <1> QED BY <1>4, <1>5, <1>6, <1>7, <1>8

LEMMA Feed2Inv ==
  ASSUME Inv, Feed2
  PROVE  Inv'
  <1> USE DEF Inv
  <1>0. /\ m_fill \in 0..Size /\ m_head \in 0..(Size - 1)
        /\ Size \in Nat /\ Size > 0 /\ Slots = 0..(Size - 1)
        /\ part2 \in Parts /\ part2.at \in Slots /\ part2.len \in 0..Size
        /\ part1.len \in 0..Size
    BY Bounds DEF TypeOK, Parts
  <1>1. /\ pc = "feed2" /\ fed' = fed \o Samples(part2) /\ pc' = "commit2"
        /\ UNCHANGED <<fifo, dataReady, kind, want, part1, part2, interrupted,
                       produced, accepted>>
    BY DEF Feed2
  <1>2. /\ part1.len + part2.len <= m_fill
        /\ part2.at = Wrap(m_head + part1.len)
        /\ part2.at + part2.len <= Size
    BY <1>1 DEF Region, Reading
  <1>3. Len(fed) = Len(accepted) - m_fill + part1.len
    BY <1>1 DEF Progress, Uncommitted
  <1>4. /\ fed' \in Seq(Nat) /\ Len(fed') = Len(fed) + part2.len
        /\ DeliveredInOrder'
    <2>1. part1.len \in Nat
      BY <1>0
    <2>2. fed' = fed \o Samples(part2) /\ UNCHANGED accepted
      BY <1>1
    <2> HIDE DEF Inv
    <2> QED BY <1>0, <1>2, <1>3, <2>1, <2>2, Feeding
  <1>5. TypeOK'
    BY <1>1, <1>4 DEF TypeOK, fifo
  <1>6. Ring' /\ Contents'
    BY <1>1 DEF Ring, Contents, fifo
  <1>7. Region'
    BY <1>1 DEF Region, Reading, fifo
  <1>8. Progress'
    <2>1. Len(accepted) \in Nat
      BY DEF TypeOK
    <2>2. Len(fed') = Len(accepted) - m_fill + (part1.len + part2.len)
      BY <1>0, <1>3, <1>4, <2>1
    <2> QED BY <1>1, <2>2 DEF Progress, Uncommitted, fifo
  <1> QED BY <1>4, <1>5, <1>6, <1>7, <1>8

LEMMA Commit1Inv ==
  ASSUME Inv, Commit1
  PROVE  Inv'
  <1> USE DEF Inv
  <1>0. /\ m_fill \in 0..Size /\ m_head \in 0..(Size - 1)
        /\ Size \in Nat /\ Size > 0 /\ Slots = 0..(Size - 1)
        /\ part2 \in Parts /\ part2.at \in Slots /\ part2.len \in 0..Size
        /\ part1.len \in 0..Size /\ Len(accepted) \in Nat
    BY Bounds DEF TypeOK, Parts
  <1>1. /\ pc = "commit1" /\ part1' = None /\ pc' = "feed2"
        /\ UNCHANGED <<dataReady, kind, want, part2, interrupted,
                       produced, accepted, fed>>
        /\ Commit(part1.len)
    BY DEF Commit1
  <1>2. /\ part1.len + part2.len <= m_fill
        /\ part2.at = Wrap(m_head + part1.len)
        /\ part2.at + part2.len <= Size /\ kind # "engine"
    BY <1>1 DEF Region, Reading
  <1>3. /\ m_head' = part2.at /\ m_head' \in Slots
        /\ m_fill' = m_fill - part1.len /\ m_fill' \in 0..Size
        /\ UNCHANGED <<m_data, m_tail>> /\ Ring' /\ Contents'
    <2>1. part1.len <= m_fill
      BY <1>0, <1>2
    <2> HIDE DEF Inv
    <2> QED BY <1>0, <1>1, <1>2, <2>1, Committing
  <1>4. part1'.at = 0 /\ part1'.len = 0 /\ None \in Parts
    BY <1>0, <1>1 DEF None, Parts
  <1>5. TypeOK'
    BY <1>1, <1>3, <1>4 DEF TypeOK
  <1>6. Region'
    <2>1. m_head' + 0 \in 0..(Size + Size - 1) /\ Wrap(m_head' + 0) = m_head'
      BY <1>0, <1>3, WrapIs
    <2>2. 0 + part2.len <= m_fill' /\ 0 <= Size - m_head'
      BY <1>0, <1>2, <1>3
    <2> QED BY <1>1, <1>2, <1>3, <1>4, <2>1, <2>2 DEF Region, Reading
  <1>7. Progress'
    <2>1. Len(fed) = Len(accepted) - m_fill + part1.len
      BY <1>1 DEF Progress, Uncommitted
    <2>2. Len(fed') = Len(accepted') - m_fill' + 0
      BY <1>0, <1>1, <1>3, <2>1
    <2> QED BY <1>1, <1>4, <2>2 DEF Progress, Uncommitted
  <1>8. DeliveredInOrder'
    BY <1>1 DEF DeliveredInOrder
  <1> QED BY <1>3, <1>5, <1>6, <1>7, <1>8

LEMMA Commit2Inv ==
  ASSUME Inv, Commit2
  PROVE  Inv'
  <1> USE DEF Inv
  <1>0. /\ m_fill \in 0..Size /\ m_head \in 0..(Size - 1)
        /\ Size \in Nat /\ Size > 0 /\ Slots = 0..(Size - 1)
        /\ part2.len \in 0..Size /\ part1.len \in 0..Size
        /\ Len(accepted) \in Nat
    BY Bounds DEF TypeOK, Parts
  <1>1. /\ pc = "commit2" /\ part1' = None /\ part2' = None /\ pc' = "loop"
        /\ UNCHANGED <<dataReady, kind, want, interrupted,
                       produced, accepted, fed>>
        /\ Commit(part1.len + part2.len)
    BY DEF Commit2
  <1>2. /\ part1.len + part2.len <= m_fill
        /\ part1.len + part2.len \in 0..Size
    <2>1. part1.len + part2.len <= m_fill
      BY <1>1 DEF Region, Reading
    <2> QED BY <1>0, <2>1
  <1>3. /\ m_head' \in Slots
        /\ m_fill' = m_fill - (part1.len + part2.len) /\ m_fill' \in 0..Size
        /\ UNCHANGED <<m_data, m_tail>> /\ Ring' /\ Contents'
    <2> HIDE DEF Inv
    <2> QED BY <1>1, <1>2, Committing
  <1>4. None \in Parts
    BY <1>0 DEF None, Parts
  <1>5. TypeOK'
    BY <1>1, <1>3, <1>4 DEF TypeOK
  <1>6. Region'
    BY <1>1 DEF Region, Reading
  <1>7. Progress'
    <2>1. Len(fed) = Len(accepted) - m_fill + (part1.len + part2.len)
      BY <1>1 DEF Progress, Uncommitted
    <2>2. Len(fed') = Len(accepted') - m_fill' + 0
      BY <1>0, <1>1, <1>3, <2>1
    <2> QED BY <1>1, <2>2 DEF Progress, Uncommitted
  <1>8. DeliveredInOrder'
    BY <1>1 DEF DeliveredInOrder
  <1> QED BY <1>3, <1>5, <1>6, <1>7, <1>8

LEMMA NextInv == Inv /\ [Next]_vars => Inv'
  <1> SUFFICES ASSUME Inv, [Next]_vars PROVE Inv'
    OBVIOUS
  <1>1. ASSUME NEW n \in 1..MaxBlock, Write(n) PROVE Inv'
    BY <1>1, WriteInv
  <1>2. CASE HandleData \/ EnterLoop \/ LeaveLoop \/ Interrupt \/ AskFill
    BY <1>2, LoopInv
  <1>3. CASE ReadBegin
    BY <1>3, ReadBeginInv
  <1>4. CASE Feed1
    BY <1>4, Feed1Inv
  <1>5. CASE Feed2
    BY <1>5, Feed2Inv
  <1>6. CASE Commit1
    BY <1>6, Commit1Inv
  <1>7. CASE Commit2
    BY <1>7, Commit2Inv
  <1>8. CASE UNCHANGED vars
    BY <1>8 DEF vars, fifo, reader, Inv, TypeOK, Ring, Contents, Region,
                Reading, Progress, Uncommitted, DeliveredInOrder
  <1> QED BY <1>1, <1>2, <1>3, <1>4, <1>5, <1>6, <1>7, <1>8 DEF Next, Drain
-----------------------------------------------------------------------------
(* The inductive invariant holds in every reachable state.                 *)
THEOREM Invariance == Spec => []Inv
  BY InitInv, NextInv, PTL DEF Spec

(* The indexes of samplesinkfifo.cpp stay in the ring and the fill level    *)
(* never exceeds its size, whatever the size and the lengths written.       *)
THEOREM TypeCorrect == Spec => []TypeOK
  <1>1. Inv => TypeOK
    BY DEF Inv
  <1> QED BY Invariance, <1>1, PTL

(* The sinks are fed the samples write() accepted, in order, each once and  *)
(* intact, by both kinds of reader.                                         *)
THEOREM InOrder == Spec => []DeliveredInOrder
  <1>1. Inv => DeliveredInOrder
    BY DEF Inv
  <1> QED BY Invariance, <1>1, PTL
-----------------------------------------------------------------------------
(* The arithmetic of the second part: its slot s is the one that lies       *)
(* m + (s - a) slots after the head h, going around a ring of z.            *)
LEMMA SlotOfPart ==
  ASSUME NEW z \in Nat, NEW h \in Nat, NEW f \in Nat,
         NEW m \in Nat, NEW n \in Nat, NEW a \in Nat, NEW s \in Int,
         h < z, f <= z, m + n <= f, m <= z - h, a + n <= z,
         a = (IF h + m < z THEN h + m ELSE h + m - z), a <= s, s < a + n
  PROVE  /\ m + (s - a) \in 0..(f - 1) /\ h + (m + (s - a)) \in 0..(z + z - 1)
         /\ s \in 0..(z - 1)
         /\ s = IF h + (m + (s - a)) < z THEN h + (m + (s - a))
                ELSE h + (m + (s - a)) - z
  OBVIOUS

(* A slot the reader holds is one of the m_fill oldest. *)
LEMMA HeldIsOld ==
  ASSUME Inv, NEW s \in Held
  PROVE  s \in Slots /\ \E i \in 0..(m_fill - 1) : s = Wrap(m_head + i)
  <1> USE DEF Inv
  <1>0. /\ m_fill \in 0..Size /\ m_head \in 0..(Size - 1)
        /\ Size \in Nat /\ Size > 0 /\ Slots = 0..(Size - 1)
        /\ part1.at \in 0..(Size - 1) /\ part1.len \in 0..Size
        /\ part2.at \in 0..(Size - 1) /\ part2.len \in 0..Size
    BY Bounds DEF TypeOK, Parts
  <1>1. /\ Reading
        /\ s \in Run(part2) \/ s \in Run(part1)
    BY DEF Held, Reading
  <1>2. /\ part1.len + part2.len <= m_fill /\ part1.len <= Size - m_head
        /\ part1.len > 0 => part1.at = m_head
        /\ part2.at = Wrap(m_head + part1.len)
        /\ part2.at + part2.len <= Size
    BY <1>1 DEF Region
  <1> DEFINE a == part2.at
             m == part1.len
             n == part2.len
  <1>3. /\ a \in 0..(Size - 1) /\ m \in 0..Size /\ n \in 0..Size
        /\ m + n <= m_fill /\ m <= Size - m_head
        /\ a = Wrap(m_head + m) /\ a + n <= Size
    BY <1>0, <1>2
  <1>4. CASE s \in Run(part1)
    <2>1. /\ s \in part1.at..(part1.at + part1.len - 1)
          /\ part1.len > 0
      BY <1>0, <1>4 DEF Run
    <2>2. s \in m_head..(m_head + m - 1)
      BY <1>2, <2>1
    <2> DEFINE i == s - m_head
    <2> HIDE DEF m, n
    <2>3. /\ i \in 0..(m_fill - 1) /\ s \in 0..(Size - 1)
          /\ s = m_head + i /\ s \in 0..(Size + Size - 1)
      BY <1>0, <1>3, <2>2
    <2>4. Wrap(s) = s
      BY <1>0, <2>3, WrapIs
    <2> HIDE DEF i
    <2> QED BY <1>0, <2>3, <2>4
  <1>5. CASE s \in Run(part2)
    <2>1. s \in a..(a + n - 1)
      BY <1>5 DEF Run
    <2> HIDE DEF a, m, n
    <2>2. m_head + m \in 0..(Size + Size - 1)
      BY <1>0, <1>3
    <2>3. a = IF m_head + m < Size THEN m_head + m ELSE m_head + m - Size
      BY <1>0, <1>3, <2>2, WrapIs
    <2> DEFINE i == m + (s - a)
    <2>4. /\ i \in 0..(m_fill - 1) /\ m_head + i \in 0..(Size + Size - 1)
          /\ s \in 0..(Size - 1)
          /\ s = IF m_head + i < Size THEN m_head + i ELSE m_head + i - Size
      <3>1. s \in Int /\ a <= s /\ s < a + n
        BY <1>3, <2>1
      <3>2. /\ Size \in Nat /\ m_head \in Nat /\ m_fill \in Nat
            /\ m \in Nat /\ n \in Nat /\ a \in Nat
            /\ m_head < Size /\ m_fill <= Size /\ m + n <= m_fill
            /\ m <= Size - m_head /\ a + n <= Size
        BY <1>0, <1>3
      <3> QED BY ONLY <2>3, <3>1, <3>2, SlotOfPart
    <2> HIDE DEF i
    <2>5. Wrap(m_head + i) = s
      BY <1>0, <2>4, WrapIs
    <2> QED BY <1>0, <2>4, <2>5
  <1> QED BY <1>1, <1>4, <1>5

(* write() copies into free slots only. *)
LEMMA WriteSparesOld ==
  ASSUME Inv, NEW n \in 1..MaxBlock, Write(n), NEW i \in 0..(m_fill - 1)
  PROVE  m_data'[Wrap(m_head + i)] = m_data[Wrap(m_head + i)]
  <1> DEFINE s == Wrap(m_head + i)
             total == Kept(n)
  <1> USE DEF Inv
  <1>0. /\ m_fill \in 0..Size /\ m_head \in 0..(Size - 1)
        /\ m_tail \in 0..(Size - 1) /\ Size \in Nat /\ Size > 0
        /\ Slots = 0..(Size - 1)
    BY Bounds
  <1>1. total \in Int /\ total <= Size - m_fill
    BY <1>0, BlockAssumption DEF Kept, AtMost
  <1>2. /\ m_head + i \in 0..(Size + Size - 1)
        /\ m_head + m_fill \in 0..(Size + Size - 1)
    BY <1>0
  <1>3. /\ s = IF m_head + i < Size THEN m_head + i ELSE m_head + i - Size
        /\ s \in 0..(Size - 1)
        /\ m_tail = IF m_head + m_fill < Size THEN m_head + m_fill
                    ELSE m_head + m_fill - Size
    BY <1>0, <1>2, WrapIs DEF Ring
  <1>4. Ahead(s, m_tail) = IF s >= m_tail THEN s - m_tail
                           ELSE s - m_tail + Size
    BY <1>0, <1>3, AheadIs
  <1>5. m_data' = [x \in Slots |-> IF Ahead(x, m_tail) < total
                                   THEN Block(produced, total)[Ahead(x, m_tail) + 1]
                                   ELSE m_data[x]]
    BY DEF Write
  <1> HIDE DEF s, total
  <1>6. ~(Ahead(s, m_tail) < total)
    BY <1>0, <1>1, <1>3, <1>4
  <1>7. m_data'[s] = m_data[s]
    BY <1>0, <1>3, <1>5, <1>6
  <1> QED BY <1>7 DEF s

(* The region readBegin() hands out without the mutex is left alone until   *)
(* the reader has gone through it.                                          *)
THEOREM RegionSafe == Spec => RegionStable
  <1> DEFINE Stable == \A s \in Held : m_data'[s] = m_data[s]
  <1>1. Inv /\ [Next]_vars => [Stable]_vars
    <2> SUFFICES ASSUME Inv, Next PROVE Stable
      OBVIOUS
    <2>1. ASSUME NEW n \in 1..MaxBlock, Write(n), NEW s \in Held
          PROVE  m_data'[s] = m_data[s]
      <3>1. PICK i \in 0..(m_fill - 1) : s = Wrap(m_head + i)
        BY HeldIsOld
      <3> QED BY <2>1, <3>1, WriteSparesOld
    <2>2. CASE Interrupt \/ Drain
      BY <2>2 DEF Interrupt, Drain, HandleData, EnterLoop, LeaveLoop, AskFill,
                  ReadBegin, Feed1, Feed2, Commit1, Commit2, Commit, fifo
    <2> QED BY <2>1, <2>2 DEF Next
  <1> QED BY Invariance, <1>1, PTL DEF Spec, RegionStable
-----------------------------------------------------------------------------
LEMMA QueueInit == Init => Queue!Init
  BY DEF Init, Queue!Init

LEMMA QueueStep == Inv /\ [Next]_vars => [Queue!Next]_(Queue!vars)
  <1> SUFFICES ASSUME Inv, [Next]_vars PROVE [Queue!Next]_(Queue!vars)
    OBVIOUS
  <1> USE DEF Inv
  <1>0. /\ m_fill \in 0..Size /\ Size \in Nat /\ Size > 0
        /\ part1.len \in 0..Size /\ part2.len \in 0..Size
        /\ Len(accepted) \in Nat /\ Len(fed) \in Nat
        /\ Len(fed) <= Len(accepted) /\ m_fill <= Len(accepted)
        /\ accepted \in Seq(Nat) /\ produced \in Nat
    BY Bounds DEF TypeOK, Parts, DeliveredInOrder, Contents
  <1>1. ASSUME NEW n \in 1..MaxBlock, Write(n) PROVE Queue!Put(n)
    <2> DEFINE total == Kept(n)
    <2>1. Queue!Fitting(n) = total /\ total \in 0..(Size - m_fill)
      BY <1>0, BlockAssumption DEF Queue!Fitting, Kept, AtMost
    <2>2. Queue!Block(produced, total) = Block(produced, total)
      BY DEF Block, Queue!Block
    <2>3. /\ produced + n <= MaxSamples /\ produced' = produced + n
          /\ accepted' = accepted \o Block(produced, total)
          /\ m_fill' = m_fill + total /\ fed' = fed
      BY <1>1 DEF Write
    <2> HIDE DEF total
    <2>4. Block(produced, total) \in [1..total -> Nat] /\ total \in Nat
      BY <1>0, <2>1 DEF Block
    <2>5. Len(accepted') = Len(accepted) + total
      BY <1>0, <2>3, <2>4, Appending
    <2>6. Len(accepted') - m_fill' = Len(accepted) - m_fill
      BY <1>0, <2>1, <2>3, <2>5
    <2> QED BY <2>1, <2>2, <2>3, <2>6 DEF Queue!Put
  <1>2. ASSUME UNCHANGED <<produced, accepted, fed, m_fill>>
        PROVE  UNCHANGED Queue!vars
    BY <1>2 DEF Queue!vars
  <1>3. CASE UNCHANGED vars \/ Interrupt \/ HandleData \/ EnterLoop
             \/ LeaveLoop \/ AskFill \/ ReadBegin
    <2>1. UNCHANGED <<produced, accepted, fed, m_fill>>
      BY <1>3 DEF vars, fifo, Interrupt, HandleData, EnterLoop, LeaveLoop,
                  AskFill, ReadBegin
    <2> QED BY <1>2, <2>1
  <1>4. CASE Feed1 \/ Feed2
    <2>1. UNCHANGED <<produced, accepted, m_fill>>
      BY <1>4 DEF Feed1, Feed2, fifo
    <2>2. Inv'
      BY <1>4, Feed1Inv, Feed2Inv
    <2>3. Len(fed') \in Nat /\ Len(fed') <= Len(accepted)
      BY <2>1, <2>2 DEF TypeOK, DeliveredInOrder
    <2>4. PICK part \in {part1, part2} : fed' = fed \o Samples(part)
      BY <1>4 DEF Feed1, Feed2
    <2>5. CASE Len(fed') = Len(fed)
      <3>1. UNCHANGED Queue!vars
        BY <2>1, <2>5 DEF Queue!vars
      <3> QED BY <3>1
    <2>6. CASE Len(fed') > Len(fed)
      <3>1. Len(fed') \in (Len(fed) + 1)..Len(accepted)
        BY <1>0, <2>3, <2>6
      <3>2. Queue!Give
        BY <2>1, <3>1 DEF Queue!Give
      <3> QED BY <3>2 DEF Queue!Next
    <2>7. Len(fed') >= Len(fed)
      <3>1. /\ Len(fed) = Len(accepted) - m_fill + Uncommitted
            /\ Len(fed') = Len(accepted) - m_fill + Uncommitted'
        BY <2>1, <2>2 DEF Progress
      <3>2. /\ Uncommitted \in Nat /\ Uncommitted' \in Nat
            /\ Uncommitted' >= Uncommitted
        BY <1>0, <1>4 DEF Feed1, Feed2, Uncommitted
      <3> QED BY <1>0, <3>1, <3>2
    <2> QED BY <1>0, <2>3, <2>5, <2>6, <2>7
  <1>5. ASSUME NEW count \in 0..Size, count <= Uncommitted, Commit(count),
               UNCHANGED <<produced, accepted, fed>>
        PROVE  [Queue!Next]_(Queue!vars)
    <2>1. Uncommitted \in Nat /\ Uncommitted <= m_fill
      BY <1>0 DEF Uncommitted, Region, Reading
    <2>2. m_fill' = m_fill - count
      BY <1>0, <1>5, <2>1 DEF Commit, AtMost
    <2>3. CASE count = 0
      <3>1. m_fill' = m_fill
        BY <1>0, <2>2, <2>3
      <3> QED BY <1>2, <1>5, <3>1
    <2>4. CASE count > 0
      <3>1. Len(fed) = Len(accepted) - m_fill + Uncommitted
        BY DEF Progress
      <3>2. Len(accepted) - m_fill'
              \in (Len(accepted) - m_fill + 1)..Len(fed)
        BY <1>0, <1>5, <2>1, <2>2, <2>4, <3>1
      <3>3. Queue!Release
        BY <1>5, <3>2 DEF Queue!Release
      <3> QED BY <3>3 DEF Queue!Next
    <2> QED BY <2>3, <2>4
  <1>6. CASE Commit1
    <2>1. /\ part1.len <= Uncommitted /\ Commit(part1.len)
          /\ UNCHANGED <<produced, accepted, fed>>
      BY <1>0, <1>6 DEF Commit1, Uncommitted
    <2> QED BY <1>0, <1>5, <2>1
  <1>7. CASE Commit2
    <2>1. /\ pc = "commit2" /\ Commit(part1.len + part2.len)
          /\ UNCHANGED <<produced, accepted, fed>>
      BY <1>7 DEF Commit2
    <2>2. /\ part1.len + part2.len \in 0..Size
          /\ part1.len + part2.len <= Uncommitted
      BY <1>0, <2>1 DEF Uncommitted, Region, Reading
    <2> QED BY <1>5, <2>1, <2>2
  <1> QED BY <1>1, <1>3, <1>4, <1>6, <1>7 DEF Next, Drain, Queue!Next

(* The ring of any size, with either reader, implements the bounded queue   *)
(* that drops what does not fit.                                            *)
THEOREM Implementation == Spec => ImplementsSampleQueue
  BY Invariance, QueueInit, QueueStep, PTL
     DEF Spec, ImplementsSampleQueue, Queue!Spec
=============================================================================
