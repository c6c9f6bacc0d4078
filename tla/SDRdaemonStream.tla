-------------------------- MODULE SDRdaemonStream --------------------------
(***************************************************************************)
(* A stream of samples from one SDRangel to another: a sink that sends     *)
(* frames (UDPSinkFEC), a network that loses datagrams, and a source that  *)
(* puts frames together (SDRdaemonSourceBuffer).  A datagram that is       *)
(* received is handled at once: while it is on its way nothing else can    *)
(* happen to the source, as the network keeps the order of those it does   *)
(* not lose.                                                               *)
(***************************************************************************)
EXTENDS UDPSinkFEC, SDRdaemonSourceBuffer

VARIABLES
  current, (* history: the frame of the last datagram received, 0 at first  *)
  got,     (* history: the blocks received of it, without another between   *)
  begun,   (* history: the frames of which datagrams were received          *)
  split,   (* history: frames with a datagram of another one between theirs *)
  joined,  (* history: frames whose number was that of the head, another    *)
           (* frame, when they came                                         *)
  stale,   (* history: frames decoded with a number of recovery blocks of   *)
           (* earlier meta data, which is not the one they were sent with   *)
  spilled  (* history: slots that recovery blocks of another slot were      *)
           (* stored in since they were voided                              *)

historyVars == <<current, got, begun, split, joined, stale, spilled>>
vars == <<sinkVars, bufferVars, historyVars>>

Init ==
  /\ SinkInit /\ BufferInit
  /\ current = 0
  /\ got = {} /\ begun = {}
  /\ split = {} /\ joined = {} /\ stale = {} /\ spilled = {}

(* The recovery blocks in the meta data of a frame; none, as the source     *)
(* sets them, before the first.                                             *)
Meta == [f \in 0..Len(frames) |-> IF f = 0 THEN 0 ELSE frames[f].meta]

(* What the histories say is not read by the system.                        *)
Record(d) ==
  LET f == d.frame
      s == d.number % Slots
  IN /\ current' = f
     /\ got' = {d.block} \cup IF f = current THEN got ELSE {}
     /\ begun' = begun \cup {f}
     /\ split' = IF f # current /\ f \in begun THEN split \cup {f} ELSE split
     /\ joined' = IF f # current /\ current # 0 /\ d.number = m_frameHead
                    THEN joined \cup {f} ELSE joined
     /\ stale' = IF /\ m_decoderSlots'[s].count = N
                     /\ \E i \in 1..N : m_decoderSlots'[s].blocks[i].block >= N
                     /\ \E j \in 1..N : m_decoderSlots'[s].blocks[j].block = 0
                     /\ Meta[m_currentMeta] # frames[f].fec
                   THEN stale \cup {f} ELSE stale
     /\ spilled' = (IF d.number = m_frameHead THEN spilled ELSE spilled \ {s})
                      \cup {z \in 0..(Slots - 1) :
                              z # s /\ m_frames'[z] # m_frames[z]}

Lost(t) ==
  /\ Transmit(t)
  /\ UNCHANGED <<bufferVars, historyVars>>

Received(t) ==
  /\ Transmit(t)
  /\ WriteData(Datagram(t), Meta)
  /\ Record(Datagram(t))

Next ==
  \/ SinkStep /\ UNCHANGED <<bufferVars, historyVars>>
  \/ \E t \in Threads : Lost(t) \/ Received(t)

Spec == Init /\ [][Next]_vars

-----------------------------------------------------------------------------
TypeOK ==
  /\ frames \in Seq([number : 0..(Wrap - 1), meta : FECs, fec : FECs])
  /\ Len(frames) <= MaxFrames
  /\ m_sdrDaemonSinkThread \in BOOLEAN
  /\ m_frameCount \in 0..(Wrap - 1) /\ building \in FECs \cup {None}
  /\ m_nbBlocksFEC \in FECs
  /\ m_inputMessageQueue \in Seq(0..MaxFrames)
  /\ handling \subseteq Threads
  /\ sending \in [Threads -> {None} \cup (Ids \X Nat)]
  /\ sent \subseteq Ids /\ unsent \subseteq Ids
  /\ m_frameHead \in 0..(Wrap - 1)
  /\ m_currentMeta \in 0..MaxFrames
  /\ m_blockZero \in [0..(Slots - 1) -> {Zeros, Garbage} \cup Ids]
  /\ m_frames \in [0..(Slots - 1) ->
                    [1..(N - 1) -> {Zeros, Garbage} \cup Ids]]
  /\ overrun \in BOOLEAN

Slot(f) == frames[f].number % Slots

Whole(f) == \A b \in 1..(N - 1) : m_frames[Slot(f)][b] = f

(* "If at least the number of data blocks is received per complete frame    *)
(* then all lost blocks in any position can be restored"                    *)
(* (sdrdaemonsource/readme.md): as soon as N blocks of a frame have come,   *)
(* and while no other comes, all its samples are in the buffer.             *)
EnoughBlocksRestore ==
  current # 0 /\ Cardinality(got) >= N => Whole(current)

(* It is so for the frames whose blocks came together, with current meta    *)
(* data that has the number of recovery blocks they were sent with; without *)
(* the code for error correction, if all the blocks with samples came.      *)
WholeWhenTogether ==
  /\ current \notin {0} \cup split \cup joined \cup stale
  /\ Cardinality(got) >= N
  /\ m_cm256_OK \/ 0..(N - 1) \subseteq got
  => Whole(current)

(* A slot never mixes two frames, their samples or their meta data,         *)
(* whatever is lost, when the sink stops and starts, and when two threads   *)
(* send: a frame that takes a slot voids it, unless it has the number of    *)
(* the frame before it.  Samples are not garbage unless the meta data were  *)
(* stale, or those of the frame of a slot before it.                        *)
FramesIn(s) == {m_decoderSlots[s].blocks[i].frame :
                  i \in DOMAIN m_decoderSlots[s].blocks}
Contents(s) == {m_frames[s][b] : b \in 1..(N - 1)}

OneFramePerSlot ==
  \A s \in 0..(Slots - 1) : FramesIn(s) \cap joined = {} =>
    /\ Cardinality((Contents(s) \cup {m_blockZero[s]}) \ {Zeros, Garbage}) <= 1
    /\ Garbage \in Contents(s) => FramesIn(s) \subseteq stale \/ s \in spilled

(* Samples that are in the buffer stay there until another frame takes the  *)
(* slot: neither a later datagram of the frame nor what error correction    *)
(* restores replaces them.  They are lost only when two frames of one       *)
(* number meet, and when a slot before is decoded with stale meta data.     *)
ReceivedKept ==
  [][\A s \in 0..(Slots - 1), b \in 1..(N - 1) :
       m_frames[s][b] > 0 /\ m_frames'[s][b] # m_frames[s][b]
         => \/ s = m_frameHead' % Slots /\ m_frameHead' # m_frameHead
            \/ current' \in joined'
            \/ s # m_frameHead' % Slots /\ current' \in stale']_vars
=============================================================================
