----------------------- MODULE SDRdaemonSourceBuffer -----------------------
(***************************************************************************)
(* The receiving side of a stream with forward error correction: the       *)
(* buffer of the SDRdaemon source                                          *)
(* (plugins/samplesource/sdrdaemonsource/sdrdaemonsourcebuffer.cpp).  It   *)
(* has a slot for each of the last frames, by their number modulo Slots,   *)
(* and the samples of a slot are read directly where writeData() puts      *)
(* them.  All of it happens on one thread.                                 *)
(*                                                                         *)
(* The contents of a block is the frame it is of, Zeros once the slot has  *)
(* been voided, or Garbage: what the code for error correction makes of    *)
(* blocks it cannot decode, or a recovery block where samples belong.      *)
(***************************************************************************)
EXTENDS SDRdaemonFrames, Integers, Sequences, FiniteSets

CONSTANTS
  Slots,      (* nbDecoderSlots *)
  m_cm256_OK  (* is the code for error correction there? *)

ASSUME SlotsAssumption == Slots \in Nat \ {0} /\ Wrap % Slots = 0
ASSUME LibraryAssumption == m_cm256_OK \in BOOLEAN

VARIABLES
  m_frameHead,    (* the number of the frame the last datagram was of       *)
  m_decoderSlots, (* of each slot: m_blockCount, the descriptors of the     *)
                  (* blocks stored, whether it has its meta data            *)
  m_blockZero,    (* of each slot                                           *)
  m_frames,       (* the samples: blocks 1 .. N - 1 of each slot            *)
  m_currentMeta,  (* the frame the current meta data came with, 0 at first  *)
  overrun         (* has it written past m_frames?  The members after it,   *)
                  (* m_frameHead among them, are then whatever came there:  *)
                  (* nothing is known of the buffer from then on, and no    *)
                  (* datagram is modelled                                   *)

bufferVars == <<m_frameHead, m_decoderSlots, m_blockZero, m_frames,
                m_currentMeta, overrun>>

Zeros == 0
Garbage == -1

EmptySlot ==
  [count |-> 0, blocks |-> << >>, metaRetrieved |-> FALSE, decoded |-> FALSE]
NoSamples == [b \in 1..(N - 1) |-> Zeros]

BufferInit ==
  /\ m_frameHead = 0
  /\ m_decoderSlots = [s \in 0..(Slots - 1) |-> EmptySlot]
  /\ m_blockZero = [s \in 0..(Slots - 1) |-> Zeros]
  /\ m_frames = [s \in 0..(Slots - 1) |-> NoSamples]
  /\ m_currentMeta = 0
  /\ overrun = FALSE

Block(slot, samples, zero) == [slot |-> slot, samples |-> samples, zero |-> zero]

(* A faulty form of FrameBreak, for a mutant: the samples of the frame that *)
(* was in the slot are left there.                                          *)
FrameBreakKeeps(d, state) ==
  IF m_frameHead = d.number THEN state ELSE [state EXCEPT !.slot = EmptySlot]

(* "frame break => new frame starts": initDecodeSlot() voids the slot.  The *)
(* test of an initial state before it (m_frameHead == -1) never succeeds.   *)
FrameBreak(d, state) ==
  IF m_frameHead = d.number THEN state ELSE Block(EmptySlot, NoSamples, Zeros)

(* storeOriginalBlock() *)
Store(state, b, contents) ==
  IF b = 0 THEN [state EXCEPT !.zero = contents]
           ELSE [state EXCEPT !.samples[b] = contents]

(* "not enough blocks to decode -> store data": a block has its descriptor, *)
(* the contents of the blocks for recovery stays with it.                   *)
StoreBlock(d, state) ==
  LET entered == [state EXCEPT !.slot.blocks = Append(@, d),
                               !.slot.metaRetrieved = @ \/ d.block = 0]
  IN IF state.slot.count >= N THEN state
     ELSE IF d.block < N THEN Store(entered, d.block, d.frame) ELSE entered
-----------------------------------------------------------------------------
(* The CM256 code, as the program uses it: given N blocks it puts in place  *)
(* of each recovery block an original that is missing, in the order of      *)
(* their indexes, and gives the descriptor the index of the original.       *)
Recoveries(blocks) == {i \in DOMAIN blocks : blocks[i].block >= N}

Missing(blocks) == (0..(N - 1)) \ {blocks[i].block : i \in DOMAIN blocks}

(* It refuses to work without a number of recovery blocks, or when an       *)
(* original is there twice, ...                                             *)
Decodes(blocks, recoveryCount) ==
  /\ recoveryCount >= 1
  /\ Cardinality(Missing(blocks)) = Cardinality(Recoveries(blocks))

(* ... told that there is one, it repairs the first and looks at no other,  *)
(* ...                                                                      *)
Repaired(blocks, recoveryCount) ==
  {i \in Recoveries(blocks) :
     recoveryCount = 1 => \A j \in Recoveries(blocks) : i <= j}

(* ... and what it makes of blocks of several frames is not a frame; nor is *)
(* it when told that there is one recovery block, a parity of all, and      *)
(* given others.                                                            *)
Decoded(blocks, recoveryCount) ==
  LET distinct == \A i, j \in DOMAIN blocks :
                    blocks[i].block = blocks[j].block => i = j
      parity   == \/ recoveryCount > 1
                  \/ \A i \in Recoveries(blocks) : blocks[i].block = N
      same     == \A i \in DOMAIN blocks : blocks[i].frame = blocks[1].frame
  IN IF distinct /\ parity /\ same THEN blocks[1].frame ELSE Garbage

(* The recovery blocks the code is told of: those of the meta data of the   *)
(* frame decoded before, or as many as are there if block 0 is not.         *)
RecoveryCount(state, meta) ==
  IF state.slot.metaRetrieved THEN meta[m_currentMeta]
                              ELSE Cardinality(Recoveries(state.slot.blocks))

(* The place of n among numbers.                                            *)
Rank(n, numbers) == Cardinality({k \in numbers : k <= n})

(* A faulty form of RestoredPlaces, for a mutant: an off-by-one.            *)
RestoredPlacesLess(blocks) ==
  {i \in Recoveries(blocks) : i > N - Cardinality(Recoveries(blocks)) + 1}

(* "restore missing blocks" looks for them in the last descriptors, where   *)
(* they are when the blocks came in order.                                  *)
RestoredPlaces(blocks) ==
  {i \in Recoveries(blocks) : i > N - Cardinality(Recoveries(blocks))}

(* The originals found there, each in place of the recovery block of its    *)
(* rank ...                                                                 *)
BroughtBack(blocks, recoveryCount) ==
  {b \in Missing(blocks) :
     \E i \in RestoredPlaces(blocks) \cap Repaired(blocks, recoveryCount) :
       Rank(b, Missing(blocks)) = Rank(i, Recoveries(blocks))}

(* ... and the recovery blocks that were not repaired: they are stored by   *)
(* their own index, which is not one of an original.                        *)
Beyond(blocks, recoveryCount) ==
  {blocks[i].block :
     i \in RestoredPlaces(blocks) \ Repaired(blocks, recoveryCount)}

(* Where m_frames[s].m_blocks[b - 1] is: the slots follow one another.      *)
Place(s, b) == <<s + ((b - 1) \div (N - 1)), ((b - 1) % (N - 1)) + 1>>

(* A faulty form of Recovered, for a mutant: the CRC is not looked at.      *)
RecoveredUnchecked(value, back) == 0 \in back

(* A block 0 recovered is meta data if its CRC is right.                    *)
Recovered(value, back) == 0 \in back /\ value # Garbage

(* A faulty form of Restored, for a mutant: block i goes where block i + 1  *)
(* is.                                                                      *)
RestoredNext(state, back, value) ==
  [b \in 1..(N - 1) |-> IF b - 1 \in back THEN value ELSE state.samples[b]]

Restored(state, back, value) ==
  [b \in 1..(N - 1) |-> IF b \in back THEN value ELSE state.samples[b]]

Restore(state, recoveryCount) ==
  LET blocks == state.slot.blocks
      value  == Decoded(blocks, recoveryCount)
      back   == BroughtBack(blocks, recoveryCount)
  IN [slot    |-> [state.slot EXCEPT !.metaRetrieved =
                                       @ \/ Recovered(value, back)],
      samples |-> Restored(state, back, value),
      zero    |-> IF 0 \in back THEN value ELSE state.zero]

(* "recovery data used => need to decode FEC".                              *)
Decoding(state, meta) ==
  /\ m_cm256_OK /\ Recoveries(state.slot.blocks) # {}
  /\ Decodes(state.slot.blocks, RecoveryCount(state, meta))

(* "ready to decode": when the last block needed has come.                  *)
Decode(state, meta) ==
  LET ready == [state EXCEPT !.slot.decoded = TRUE]
  IN IF Decoding(state, meta) THEN Restore(ready, RecoveryCount(state, meta))
                              ELSE ready

Stray(state, meta) ==
  IF Decoding(state, meta) THEN Beyond(state.slot.blocks, RecoveryCount(state, meta))
                           ELSE {}

Counted(d, state) == [state EXCEPT !.slot.count = @ + 1]

(* The samples, once those of slot s are in, and the recovery blocks that   *)
(* went astray after them.                                                  *)
Written(s, samples, stray) ==
  [z \in 0..(Slots - 1) |->
     IF z = s THEN samples
     ELSE [b \in 1..(N - 1) |->
             IF \E r \in stray : Place(s, r) = <<z, b>> THEN Garbage
                                                        ELSE m_frames[z][b]]]

(* writeData(), given the number of recovery blocks in the meta data of     *)
(* each frame.                                                              *)
WriteData(d, meta) ==
  LET s      == d.number % Slots
      stored == Counted(d, StoreBlock(d, FrameBreak(d,
                  Block(m_decoderSlots[s], m_frames[s], m_blockZero[s]))))
      complete == stored.slot.count = N
      after  == IF complete THEN Decode(stored, meta) ELSE stored
      stray  == IF complete THEN Stray(stored, meta) ELSE {}
  IN /\ ~overrun
     /\ m_frameHead' = d.number
     /\ m_decoderSlots' = [m_decoderSlots EXCEPT ![s] = after.slot]
     /\ m_frames' = Written(s, after.samples, stray)
     /\ m_blockZero' = [m_blockZero EXCEPT ![s] = after.zero]
     /\ m_currentMeta' = IF complete /\ after.slot.metaRetrieved
                           THEN after.zero ELSE m_currentMeta
     /\ overrun' = \E r \in stray : Place(s, r)[1] >= Slots
=============================================================================
