--------------------- MODULE AudioDeviceManager_proofs ---------------------
(***************************************************************************)
(* The registrations of AudioDeviceManager and the devices it keeps open,  *)
(* for any channels, devices and rates.  The inductive invariant says of   *)
(* each side that the FIFOs are where they are registered, that an open    *)
(* device has the rate told of it, and how often it is open; between the   *)
(* two halves of an operation a device is allowed to be open without FIFO. *)
(*                                                                         *)
(* A second invariant says of a demodulator which rate it will have when   *)
(* it has handled what is in its queue: that of the last rate told, or the *)
(* one it has, and that this is the rate of its output.                    *)
(***************************************************************************)
EXTENDS AudioDeviceManager, SequenceTheorems, TLAPS

Record ==
  [counts : BOOLEAN,
   fifos  : [Devices -> SUBSET Channels], made   : SUBSET Devices,
   opened : [Devices -> Nat],             failed : SUBSET Devices,
   format : [Devices -> Rates],           infos  : [Devices -> Rates \cup {None}],
   on     : [Channels -> Devices \cup {None}],
   owner  : SUBSET Channels,              told   : [Devices -> SUBSET Channels]]

(* Of the FIFOs of one side that are in use. *)
Registered(side, users) ==
  \A c \in Channels :
    /\ c \in users => side.on[c] \in Devices
    /\ c \notin users => side.on[c] = None
    /\ \A d \in Devices : c \in side.fifos[d] <=> side.on[c] = d

(* Of the devices: those of the set have no FIFO yet, but will.             *)
Opened(side, extra) ==
  \A d \in Devices :
    IF side.fifos[d] # {} \/ d \in extra
      THEN /\ d \in side.made /\ side.opened[d] \in 0..2
           /\ side.infos[d] \in Rates
           /\ d \notin side.failed => /\ side.opened[d] \in 1..2
                                     /\ side.infos[d] = side.format[d]
      ELSE side.opened[d] \in 0..1

Kept(side, users, extra) ==
  side \in Record /\ Registered(side, users) /\ Opened(side, extra)

(* What an operation does to the registrations and the lists of others than *)
(* the FIFO f, and, when f comes to d, of f itself.                         *)
OthersStay(side, next, f) ==
  \A c \in Channels \ {f} : next.on[c] = side.on[c]

ComesTo(next, f, d) == next.on[f] = d

ListedWith(side, next, f, d) ==
  /\ \A e \in Devices, c \in Channels \ {f} :
       c \in next.told[e] <=> c \in side.told[e]
  /\ f \in next.told[d]
  /\ \A e \in Devices \ {d} :
       f \in next.told[e] => f \in side.told[e] /\ e # side.on[f]

LEMMA Apart == None \notin Devices /\ None \notin Rates /\ DefaultRate \in Rates
               /\ \A r \in Rates : Supported(r) \in Rates
  BY DevicesAssumption, RatesAssumption

LEMMA SampleRateIs ==
  ASSUME NEW side \in Record, NEW d \in Devices
  PROVE  SampleRate(side, d) \in Rates
  BY Apart DEF SampleRate, Record

(* start() leaves the device open, with the rate it tells, or marked as one *)
(* that failed; whether it was open or not, it is counted at most twice.    *)
LEMMA StartIs ==
  ASSUME NEW side \in Record, NEW d \in Devices, NEW r \in Rates, NEW opens,
         side.opened[d] \in 0..1
  PROVE  LET next == Start(side, d, r, opens)
         IN /\ next \in Record
            /\ next.counts = side.counts /\ next.fifos = side.fifos
            /\ next.made = side.made /\ next.on = side.on
            /\ next.owner = side.owner /\ next.told = side.told
            /\ next.opened[d] \in 0..2 /\ next.infos[d] \in Rates
            /\ d \notin next.failed => /\ next.opened[d] \in 1..2
                                      /\ next.infos[d] = next.format[d]
            /\ side.opened[d] = 0 => next.opened[d] \in 0..1
            /\ \A e \in Devices \ {d} : /\ next.opened[e] = side.opened[e]
                                        /\ next.infos[e] = side.infos[e]
                                        /\ next.format[e] = side.format[e]
                                        /\ e \in next.failed <=> e \in side.failed
  <1> DEFINE next == Start(side, d, r, opens)
  <1>1. Supported(r) \in Rates /\ side.format[d] \in Rates
    BY Apart DEF Record
  <1>2. CASE next = FailedStart(side, d, r)
    <2>1. next = [side EXCEPT !.failed = @ \cup {d}, !.infos[d] = Supported(r)]
      BY <1>2 DEF FailedStart
    <2> HIDE DEF next
    <2>2. next \in Record
      BY <1>1, <2>1 DEF Record
    <2>3. /\ next.failed = side.failed \cup {d}
          /\ next.infos = [side.infos EXCEPT ![d] = Supported(r)]
          /\ next.opened = side.opened /\ next.format = side.format
          /\ next.counts = side.counts /\ next.fifos = side.fifos
          /\ next.made = side.made /\ next.on = side.on
          /\ next.owner = side.owner /\ next.told = side.told
      BY <2>1 DEF Record
    <2> QED BY <1>1, <2>2, <2>3 DEF Record, next
  <1>3. ASSUME NEW n \in 1..2, NEW format \in Rates,
               side.opened[d] = 0 => n = 1,
               next = [side EXCEPT !.opened[d] = n, !.failed = @ \ {d},
                                   !.format[d] = format, !.infos[d] = format]
        PROVE  next \in Record
               /\ next.opened = [side.opened EXCEPT ![d] = n]
               /\ next.failed = side.failed \ {d}
               /\ next.format = [side.format EXCEPT ![d] = format]
               /\ next.infos = [side.infos EXCEPT ![d] = format]
               /\ next.counts = side.counts /\ next.fifos = side.fifos
               /\ next.made = side.made /\ next.on = side.on
               /\ next.owner = side.owner /\ next.told = side.told
    <2>0. next = [side EXCEPT !.opened[d] = n, !.failed = @ \ {d},
                              !.format[d] = format, !.infos[d] = format]
      BY <1>3
    <2> HIDE DEF next
    <2>1. n \in Nat /\ side.failed \ {d} \in SUBSET Devices
      BY DEF Record
    <2>2. next \in Record
      BY <2>0, <2>1 DEF Record
    <2> QED BY <2>0, <2>2 DEF Record
  <1>4. CASE \E n \in 1..2, format \in Rates :
               /\ side.opened[d] = 0 => n = 1
               /\ next = [side EXCEPT !.opened[d] = n, !.failed = @ \ {d},
                                      !.format[d] = format, !.infos[d] = format]
    <2>1. PICK n \in 1..2, format \in Rates :
               /\ side.opened[d] = 0 => n = 1
               /\ next = [side EXCEPT !.opened[d] = n, !.failed = @ \ {d},
                                      !.format[d] = format, !.infos[d] = format]
      BY <1>4
    <2> HIDE DEF next
    <2>2. next \in Record
          /\ next.opened = [side.opened EXCEPT ![d] = n]
          /\ next.failed = side.failed \ {d}
          /\ next.format = [side.format EXCEPT ![d] = format]
          /\ next.infos = [side.infos EXCEPT ![d] = format]
          /\ next.counts = side.counts /\ next.fifos = side.fifos
          /\ next.made = side.made /\ next.on = side.on
          /\ next.owner = side.owner /\ next.told = side.told
      BY <1>3, <2>1
    <2> QED BY <2>1, <2>2 DEF Record, next
  <1>5. CASE side.counts /\ ~(side.opened[d] = 0 /\ ~opens)
    <2> DEFINE format == IF side.opened[d] = 0 THEN Supported(r) ELSE side.format[d]
               n == side.opened[d] + 1
    <2>1. next = [side EXCEPT !.opened[d] = n, !.failed = @ \ {d},
                              !.format[d] = format, !.infos[d] = format]
      BY <1>5 DEF Start, StartInput
    <2>2. format \in Rates /\ n \in 1..2 /\ (side.opened[d] = 0 => n = 1)
      BY <1>1
    <2> HIDE DEF format, n, next
    <2> QED BY <1>4, <2>1, <2>2
  <1>6. CASE ~side.counts /\ opens
    <2>1. next = [side EXCEPT !.opened[d] = 1, !.failed = @ \ {d},
                              !.format[d] = Supported(r), !.infos[d] = Supported(r)]
      BY <1>6 DEF Start, StartOutput
    <2> HIDE DEF next
    <2>2. 1 \in 1..2 /\ Supported(r) \in Rates
      BY <1>1
    <2> QED BY <1>4, <2>1, <2>2
  <1>7. CASE side.counts /\ side.opened[d] = 0 /\ ~opens
    BY <1>2, <1>7 DEF Start, StartInput
  <1>8. CASE ~side.counts /\ ~opens
    BY <1>2, <1>8 DEF Start, StartOutput
  <1> QED BY <1>5, <1>6, <1>7, <1>8

LEMMA StopIs ==
  ASSUME NEW side \in Record, NEW d \in Devices, side.opened[d] \in 0..2
  PROVE  LET next == Stop(side, d)
         IN /\ next \in Record
            /\ next.counts = side.counts /\ next.fifos = side.fifos
            /\ next.made = side.made /\ next.on = side.on
            /\ next.owner = side.owner /\ next.told = side.told
            /\ next.infos = side.infos /\ next.format = side.format
            /\ next.failed = side.failed
            /\ next.opened[d] \in 0..1
            /\ side.opened[d] \in 0..1 => next.opened[d] = 0
            /\ \A e \in Devices \ {d} : next.opened[e] = side.opened[e]
  <1> DEFINE next == Stop(side, d)
             n    == IF side.counts THEN IF side.opened[d] = 0 THEN 0
                                         ELSE side.opened[d] - 1
                     ELSE 0
  <1>1. next = [side EXCEPT !.opened[d] = n]
    BY DEF Stop, StopInput, StopOutput
  <1>2. n \in 0..1 /\ n \in Nat /\ (side.opened[d] \in 0..1 => n = 0)
    OBVIOUS
  <1> HIDE DEF next, n
  <1>3. next \in Record
    BY <1>1, <1>2 DEF Record
  <1>4. /\ next.opened = [side.opened EXCEPT ![d] = n]
        /\ next.counts = side.counts /\ next.fifos = side.fifos
        /\ next.made = side.made /\ next.on = side.on
        /\ next.owner = side.owner /\ next.told = side.told
        /\ next.infos = side.infos /\ next.format = side.format
        /\ next.failed = side.failed
    BY <1>1 DEF Record
  <1> QED BY <1>2, <1>3, <1>4 DEF Record, next

(* The device is made, and started for its first FIFO. *)
LEMMA PrepareIs ==
  ASSUME NEW side, NEW users, Kept(side, users, {}), NEW d \in Devices,
         NEW opens
  PROVE  LET next == Prepare(side, d, opens)
         IN /\ Kept(next, users, {d})
            /\ next.counts = side.counts /\ next.fifos = side.fifos
            /\ next.on = side.on
            /\ next.owner = side.owner /\ next.told = side.told
  <1> DEFINE with == [side EXCEPT !.made = @ \cup {d}]
             next == Prepare(side, d, opens)
  <1>1. side \in Record /\ Registered(side, users) /\ Opened(side, {})
    BY DEF Kept
  <1>2. /\ with \in Record /\ with.made = side.made \cup {d}
        /\ with.counts = side.counts /\ with.fifos = side.fifos
        /\ with.opened = side.opened /\ with.format = side.format
        /\ with.infos = side.infos /\ with.on = side.on
        /\ with.failed = side.failed
        /\ with.owner = side.owner /\ with.told = side.told
    BY <1>1 DEF Record
  <1>3. next = IF side.fifos[d] = {} THEN Start(with, d, SampleRate(side, d), opens)
                                     ELSE with
    BY DEF Prepare
  <1> HIDE DEF with, next
  <1>4. CASE side.fifos[d] = {}
    <2>1. SampleRate(side, d) \in Rates
      BY <1>1, SampleRateIs
    <2>2. with.opened[d] \in 0..1
      BY <1>1, <1>2, <1>4 DEF Opened
    <2>3. /\ next \in Record
          /\ next.counts = with.counts /\ next.fifos = with.fifos
          /\ next.made = with.made /\ next.on = with.on
          /\ next.owner = with.owner /\ next.told = with.told
          /\ next.opened[d] \in 0..2 /\ next.infos[d] \in Rates
          /\ d \notin next.failed => /\ next.opened[d] \in 1..2
                                    /\ next.infos[d] = next.format[d]
          /\ \A e \in Devices \ {d} : /\ next.opened[e] = with.opened[e]
                                      /\ next.infos[e] = with.infos[e]
                                      /\ next.format[e] = with.format[e]
                                      /\ e \in next.failed <=> e \in with.failed
      BY <1>2, <1>3, <1>4, <2>1, <2>2, StartIs
    <2>4. Registered(next, users)
      BY <1>1, <1>2, <2>3 DEF Registered
    <2>5. Opened(next, {d})
      BY <1>1, <1>2, <2>3 DEF Opened
    <2> QED BY <1>2, <2>3, <2>4, <2>5 DEF Kept, next
  <1>5. CASE side.fifos[d] # {}
    <2>1. next = with
      BY <1>3, <1>5
    <2>2. Registered(with, users)
      BY <1>1, <1>2 DEF Registered
    <2>3. Opened(with, {d})
      BY <1>1, <1>2, <1>5 DEF Opened
    <2> QED BY <1>2, <2>1, <2>2, <2>3 DEF Kept, next
  <1> QED BY <1>4, <1>5

(* A FIFO that is not registered comes on the device that was prepared. *)
LEMMA AttachIs ==
  ASSUME NEW side, NEW users, NEW f \in Channels, f \notin users,
         NEW d \in Devices, Kept(side, users, {d})
  PROVE  LET next == Attach(side, f, d)
         IN /\ Kept(next, users \cup {f}, {})
            /\ next.counts = side.counts
            /\ next.owner = side.owner /\ next.told = side.told
            /\ ComesTo(next, f, d) /\ OthersStay(side, next, f)
  <1> DEFINE next == Attach(side, f, d)
  <1>1. side \in Record /\ Registered(side, users) /\ Opened(side, {d})
    BY DEF Kept
  <1>2. next = [side EXCEPT !.fifos[d] = @ \cup {f}, !.on[f] = d]
    BY DEF Attach
  <1> HIDE DEF next
  <1>3. /\ next.fifos = [side.fifos EXCEPT ![d] = @ \cup {f}]
        /\ next.on = [side.on EXCEPT ![f] = d]
        /\ next.counts = side.counts /\ next.made = side.made
        /\ next.opened = side.opened /\ next.format = side.format
        /\ next.infos = side.infos /\ next.owner = side.owner
        /\ next.told = side.told /\ next.failed = side.failed
    BY <1>1, <1>2 DEF Record
  <1>4. next \in Record
    BY <1>1, <1>2 DEF Record
  <1>5. Registered(next, users \cup {f})
    <2>1. \A c \in Channels \ {f} : next.on[c] = side.on[c]
      BY <1>1, <1>3 DEF Record
    <2>2. next.on[f] = d
      BY <1>1, <1>3 DEF Record
    <2>3. \A e \in Devices \ {d} : next.fifos[e] = side.fifos[e]
      BY <1>1, <1>3 DEF Record
    <2>4. next.fifos[d] = side.fifos[d] \cup {f}
      BY <1>1, <1>3 DEF Record
    <2>5. \A e \in Devices : f \notin side.fifos[e]
      BY <1>1, Apart DEF Registered
    <2> QED BY <1>1, <2>1, <2>2, <2>3, <2>4, <2>5 DEF Registered
  <1>6. Opened(next, {})
    <2>1. \A e \in Devices \ {d} : next.fifos[e] = side.fifos[e]
      BY <1>1, <1>3 DEF Record
    <2>2. next.fifos[d] = side.fifos[d] \cup {f}
      BY <1>1, <1>3 DEF Record
    <2> QED BY <1>1, <1>3, <2>1, <2>2 DEF Opened
  <1>7. ComesTo(next, f, d) /\ OthersStay(side, next, f)
    BY <1>1, <1>3 DEF Record, ComesTo, OthersStay
  <1> QED BY <1>3, <1>4, <1>5, <1>6, <1>7 DEF Kept, next

(* removeAudioSink(), removeAudioSource(): the last FIFO closes the device, *)
(* but for the one that is prepared for another.                            *)
LEMMA DetachIs ==
  ASSUME NEW side, NEW users, NEW f \in users, users \subseteq Channels,
         NEW extra, Kept(side, users, extra), side.on[f] \notin extra
  PROVE  LET next == Detach(side, f)
         IN /\ Kept(next, users \ {f}, extra)
            /\ next.counts = side.counts /\ OthersStay(side, next, f)
  <1> DEFINE d    == side.on[f]
             left == [side EXCEPT !.fifos[d] = @ \ {f}, !.on[f] = None,
                                  !.told[d] = @ \ ({f} \cap side.owner),
                                  !.owner = @ \ {f}]
             next == Detach(side, f)
  <1>1. side \in Record /\ Registered(side, users) /\ Opened(side, extra)
    BY DEF Kept
  <1>2. d \in Devices /\ f \in Channels /\ d \notin extra
    BY <1>1 DEF Registered
  <1>3. next = IF left.fifos[d] = {} THEN Stop(left, d) ELSE left
    BY DEF Detach
  <1>4. left = [side EXCEPT !.fifos[d] = @ \ {f}, !.on[f] = None,
                            !.told[d] = @ \ ({f} \cap side.owner),
                            !.owner = @ \ {f}]
    OBVIOUS
  <1>0. d = side.on[f]
    OBVIOUS
  <1> HIDE DEF d, left, next
  <1>5. /\ left.fifos = [side.fifos EXCEPT ![d] = @ \ {f}]
        /\ left.on = [side.on EXCEPT ![f] = None]
        /\ left.told = [side.told EXCEPT ![d] = @ \ ({f} \cap side.owner)]
        /\ left.owner = side.owner \ {f}
        /\ left.counts = side.counts /\ left.made = side.made
        /\ left.opened = side.opened /\ left.format = side.format
        /\ left.infos = side.infos /\ left.failed = side.failed
    BY <1>1, <1>4 DEF Record
  <1>6. left \in Record
    BY <1>1, <1>2, <1>4 DEF Record
  <1>7. Registered(left, users \ {f})
    <2>1. \A c \in Channels \ {f} : left.on[c] = side.on[c]
      BY <1>1, <1>5 DEF Record
    <2>2. left.on[f] = None
      BY <1>1, <1>2, <1>5 DEF Record
    <2>3. \A e \in Devices \ {d} : left.fifos[e] = side.fifos[e]
      BY <1>1, <1>5 DEF Record
    <2>4. left.fifos[d] = side.fifos[d] \ {f}
      BY <1>1, <1>2, <1>5 DEF Record
    <2>5. \A e \in Devices : f \in side.fifos[e] <=> e = d
      BY <1>0, <1>1, <1>2 DEF Registered
    <2> QED BY <1>1, <2>1, <2>2, <2>3, <2>4, <2>5, Apart DEF Registered
  <1>11. \A c \in Channels \ {f} : left.on[c] = side.on[c]
    BY <1>1, <1>5 DEF Record
  <1>8. /\ \A e \in Devices \ {d} : left.fifos[e] = side.fifos[e]
        /\ side.fifos[d] # {}
    BY <1>0, <1>1, <1>2, <1>5 DEF Record, Registered
  <1>9. CASE left.fifos[d] = {}
    <2>1. left.opened[d] \in 0..2
      <3>1. side.opened[d] \in 0..2
        BY <1>1, <1>2, <1>8 DEF Opened
      <3> QED BY <1>5, <3>1
    <2>2. /\ next \in Record
          /\ next.counts = left.counts /\ next.fifos = left.fifos
          /\ next.made = left.made /\ next.on = left.on
          /\ next.owner = left.owner /\ next.told = left.told
          /\ next.infos = left.infos /\ next.format = left.format
          /\ next.failed = left.failed
          /\ next.opened[d] \in 0..1
          /\ \A e \in Devices \ {d} : next.opened[e] = left.opened[e]
      BY <1>2, <1>3, <1>6, <1>9, <2>1, StopIs
    <2>3. Registered(next, users \ {f})
      BY <1>7, <2>2 DEF Registered
    <2>4. Opened(next, extra)
      BY <1>1, <1>2, <1>5, <1>8, <1>9, <2>2 DEF Opened
    <2> QED BY <1>5, <1>11, <2>2, <2>3, <2>4 DEF OthersStay, Kept, next, d
  <1>10. CASE left.fifos[d] # {}
    <2>1. next = left
      BY <1>3, <1>10
    <2>2. Opened(left, extra)
      BY <1>1, <1>5, <1>8, <1>10 DEF Opened
    <2> QED BY <1>5, <1>6, <1>7, <1>11, <2>1, <2>2 DEF OthersStay, Kept, next, d
  <1> QED BY <1>9, <1>10

(* It takes the FIFO off the list of its device, if its queue is known. *)
LEMMA DetachTold ==
  ASSUME NEW side \in Record, NEW f \in Channels, side.on[f] \in Devices
  PROVE  /\ Detach(side, f).told \in [Devices -> SUBSET Channels]
         /\ \A e \in Devices, c \in Channels :
              c \in Detach(side, f).told[e] <=>
                c \in side.told[e] /\ ~(e = side.on[f] /\ c = f /\ f \in side.owner)
  <1> DEFINE d    == side.on[f]
             left == [side EXCEPT !.fifos[d] = @ \ {f}, !.on[f] = None,
                                  !.told[d] = @ \ ({f} \cap side.owner),
                                  !.owner = @ \ {f}]
  <1>1. \/ Detach(side, f) = Stop(left, d)
        \/ Detach(side, f) = left
    BY DEF Detach
  <1>2. left.told = [side.told EXCEPT ![d] = @ \ ({f} \cap side.owner)]
    BY DEF Record
  <1>3. Detach(side, f).told = left.told
    <2>1. left \in Record
      BY Apart DEF Record
    <2> HIDE DEF left, d
    <2>2. Stop(left, d).told = left.told
      BY <2>1 DEF Stop, StopInput, StopOutput, Record
    <2> QED BY <1>1, <2>2
  <1> HIDE DEF left
  <1> QED BY <1>2, <1>3 DEF Record

(* Setting a device up again, or unsetting it. *)
LEMMA ReopenedIs ==
  ASSUME NEW side, NEW users, Kept(side, users, {}), NEW d \in side.made,
         NEW r \in Rates, NEW opens
  PROVE  LET next == Reopened(side, d, r, opens)
         IN /\ Kept(next, users, {}) /\ next.told = side.told
            /\ next.on = side.on /\ next.counts = side.counts
            /\ next.infos[d] \in Rates
  <1> DEFINE mid  == Stop(side, d)
             next == Reopened(side, d, r, opens)
  <1>1. side \in Record /\ Registered(side, users) /\ Opened(side, {})
    BY DEF Kept
  <1>2. d \in Devices
    BY <1>1 DEF Record
  <1>3. side.opened[d] \in 0..2
    BY <1>1, <1>2 DEF Opened
  <1>4. /\ mid \in Record
        /\ mid.counts = side.counts /\ mid.fifos = side.fifos
        /\ mid.made = side.made /\ mid.on = side.on
        /\ mid.owner = side.owner /\ mid.told = side.told
        /\ mid.infos = side.infos /\ mid.format = side.format
        /\ mid.failed = side.failed
        /\ mid.opened[d] \in 0..1
        /\ side.opened[d] \in 0..1 => mid.opened[d] = 0
        /\ \A e \in Devices \ {d} : mid.opened[e] = side.opened[e]
    BY <1>1, <1>2, <1>3, StopIs
  <1>5. next = Start(mid, d, r, opens)
    BY DEF Reopened
  <1> HIDE DEF mid, next
  <1>6. /\ next \in Record
        /\ next.counts = mid.counts /\ next.fifos = mid.fifos
        /\ next.made = mid.made /\ next.on = mid.on
        /\ next.owner = mid.owner /\ next.told = mid.told
        /\ next.opened[d] \in 0..2 /\ next.infos[d] \in Rates
        /\ d \notin next.failed => /\ next.opened[d] \in 1..2
                                  /\ next.infos[d] = next.format[d]
        /\ mid.opened[d] = 0 => next.opened[d] \in 0..1
        /\ \A e \in Devices \ {d} : /\ next.opened[e] = mid.opened[e]
                                    /\ next.infos[e] = mid.infos[e]
                                    /\ next.format[e] = mid.format[e]
                                    /\ e \in next.failed <=> e \in mid.failed
    BY <1>2, <1>4, <1>5, StartIs
  <1>7. Registered(next, users)
    BY <1>1, <1>4, <1>6 DEF Registered
  <1>8. Opened(next, {})
    <2>1. side.fifos[d] = {} => next.opened[d] \in 0..1
      BY <1>1, <1>2, <1>4, <1>6 DEF Opened
    <2> QED BY <1>1, <1>2, <1>4, <1>6, <2>1 DEF Opened
  <1>9. next.infos[d] \in Rates
    BY <1>2, <1>6 DEF Record
  <1> QED BY <1>4, <1>6, <1>7, <1>8, <1>9 DEF Kept, next

(* Another rate for one that has no FIFO, or the rate it has. *)
LEMMA InfoIs ==
  ASSUME NEW side, NEW users, Kept(side, users, {}), NEW d \in Devices,
         NEW r \in Rates \cup {None},
         side.fifos[d] = {} \/ r = side.infos[d]
  PROVE  LET next == [side EXCEPT !.infos[d] = r]
         IN /\ Kept(next, users, {}) /\ next.told = side.told
            /\ next.on = side.on /\ next.counts = side.counts
  <1> DEFINE next == [side EXCEPT !.infos[d] = r]
  <1>0. next = [side EXCEPT !.infos[d] = r]
    OBVIOUS
  <1>1. side \in Record /\ Registered(side, users) /\ Opened(side, {})
    BY DEF Kept
  <1> HIDE DEF next
  <1>2. /\ next \in Record
        /\ next.infos = [side.infos EXCEPT ![d] = r]
        /\ next.counts = side.counts /\ next.fifos = side.fifos
        /\ next.made = side.made /\ next.on = side.on
        /\ next.opened = side.opened /\ next.format = side.format
        /\ next.told = side.told /\ next.failed = side.failed
    BY <1>0, <1>1 DEF Record
  <1>3. /\ next.infos[d] = r
        /\ \A e \in Devices \ {d} : next.infos[e] = side.infos[e]
    BY <1>1, <1>2 DEF Record
  <1>4. Registered(next, users)
    BY <1>1, <1>2 DEF Registered
  <1>5. Opened(next, {})
    BY <1>1, <1>2, <1>3 DEF Opened
  <1> QED BY <1>2, <1>4, <1>5 DEF Kept, next

(* The lists of whom to tell are nobody else's business. *)
LEMMA ListingIs ==
  ASSUME NEW side, NEW users, NEW extra, Kept(side, users, extra),
         NEW next \in Record,
         next.counts = side.counts, next.fifos = side.fifos,
         next.made = side.made, next.on = side.on, next.opened = side.opened,
         next.format = side.format, next.infos = side.infos,
         next.failed = side.failed
  PROVE  Kept(next, users, extra)
  <1>1. side \in Record /\ Registered(side, users) /\ Opened(side, extra)
    BY DEF Kept
  <1>2. Registered(next, users)
    BY <1>1 DEF Registered
  <1>3. Opened(next, extra)
    BY <1>1 DEF Opened
  <1> QED BY <1>2, <1>3 DEF Kept

(* addAudioSink() of a FIFO that is not on the output: it moves there, and  *)
(* so does its place on the lists.                                          *)
LEMMA AddSinkIs ==
  ASSUME NEW side, NEW users, users \subseteq Channels, Kept(side, users, {}),
         NEW f \in Channels, NEW d \in Devices, NEW opens,
         side.on[f] # d
  PROVE  LET next == AddAudioSink(side, f, d, opens)
         IN /\ Kept(next, users \cup {f}, {}) /\ next.counts = side.counts
            /\ ComesTo(next, f, d) /\ OthersStay(side, next, f)
            /\ ListedWith(side, next, f, d)
  <1> DEFINE ready == Prepare(side, d, opens)
             next  == AddAudioSink(side, f, d, opens)
  <1>0. side \in Record /\ Registered(side, users)
    BY DEF Kept
  <1>1. /\ Kept(ready, users, {d}) /\ ready.counts = side.counts
        /\ ready.fifos = side.fifos /\ ready.on = side.on
        /\ ready.owner = side.owner /\ ready.told = side.told
    BY PrepareIs
  <1>2. side.on[f] \in Devices \cup {None}
    BY <1>0 DEF Record
  <1> HIDE DEF ready
  <1>3. CASE side.on[f] = None
    <2> DEFINE x == Attach(ready, f, d)
               owner == x.owner \cup {f}
               told  == [x.told EXCEPT ![d] = @ \cup {f}]
    <2>1. f \notin users
      BY <1>0, <1>3, Apart DEF Registered
    <2>2. /\ Kept(x, users \cup {f}, {}) /\ x.counts = ready.counts
          /\ x.told = ready.told
          /\ ComesTo(x, f, d) /\ OthersStay(ready, x, f)
      BY <1>1, <2>1, AttachIs
    <2>3. next = [x EXCEPT !.owner = @ \cup {f}, !.told[d] = @ \cup {f}]
      BY <1>3 DEF AddAudioSink, ready
    <2> HIDE DEF next, x
    <2>4. x \in Record
      BY <2>2 DEF Kept
    <2>5. owner \in SUBSET Channels /\ told \in [Devices -> SUBSET Channels]
      BY <2>4 DEF Record
    <2>6. next = [x EXCEPT !.owner = owner, !.told = told]
      BY <2>3, <2>4 DEF Record
    <2> HIDE DEF owner, told
    <2>9. /\ next \in Record
          /\ next.counts = x.counts /\ next.fifos = x.fifos
          /\ next.made = x.made /\ next.on = x.on /\ next.opened = x.opened
          /\ next.format = x.format /\ next.infos = x.infos
          /\ next.failed = x.failed
          /\ next.told = told
      BY <2>4, <2>5, <2>6 DEF Record
    <2>7. Kept(next, users \cup {f}, {})
      BY <2>2, <2>9, ListingIs
    <2>8. told = [side.told EXCEPT ![d] = @ \cup {f}]
      BY <1>1, <2>2 DEF told
    <2> QED BY <1>0, <1>1, <1>3, <2>2, <2>7, <2>8, <2>9, Apart
      DEF Record, ComesTo, OthersStay, ListedWith, next
  <1>4. CASE side.on[f] \in Devices
    <2> DEFINE gone == RemoveAudioSink(ready, f)
               x    == Attach(gone, f, d)
               mid  == [x.told EXCEPT ![side.on[f]] = @ \ {f}]
               told == [mid EXCEPT ![d] = @ \cup {f}]
    <2>1. f \in users
      BY <1>0, <1>4, Apart DEF Registered
    <2>2. ready.on[f] \notin {d}
      BY <1>1
    <2>3. /\ Kept(gone, users \ {f}, {d}) /\ gone.counts = ready.counts
          /\ OthersStay(ready, gone, f)
          /\ gone.told \in [Devices -> SUBSET Channels]
          /\ \A e \in Devices, c \in Channels :
               c \in gone.told[e] <=>
                 c \in ready.told[e] /\ ~(e = ready.on[f] /\ c = f /\ f \in ready.owner)
      <3>1. gone = Detach(ready, f)
        BY DEF RemoveAudioSink
      <3> HIDE DEF gone
      <3>2. Kept(ready, users, {d})
        BY <1>1
      <3>3. /\ Kept(Detach(ready, f), users \ {f}, {d})
            /\ Detach(ready, f).counts = ready.counts
            /\ OthersStay(ready, Detach(ready, f), f)
        BY <2>1, <2>2, <3>2, DetachIs
      <3>4. ready \in Record /\ ready.on[f] \in Devices
        BY <1>1, <1>4 DEF Kept
      <3>5. /\ Detach(ready, f).told \in [Devices -> SUBSET Channels]
            /\ \A e \in Devices, c \in Channels :
                 c \in Detach(ready, f).told[e] <=>
                   /\ c \in ready.told[e]
                   /\ ~(e = ready.on[f] /\ c = f /\ f \in ready.owner)
        BY <3>4, DetachTold
      <3> QED BY <3>1, <3>3, <3>5
    <2> HIDE DEF gone
    <2>17. f \notin users \ {f} /\ Kept(gone, users \ {f}, {d})
      BY <2>3
    <2>4. /\ Kept(x, (users \ {f}) \cup {f}, {}) /\ x.counts = gone.counts
          /\ x.told = gone.told
          /\ ComesTo(x, f, d) /\ OthersStay(gone, x, f)
      BY <2>17, AttachIs
    <2>5. next = [x EXCEPT !.told[side.on[f]] = @ \ {f}, !.told[d] = @ \cup {f}]
      BY <1>4, Apart DEF AddAudioSink, ready, gone
    <2> HIDE DEF next, x
    <2>6. x \in Record
      BY <2>4 DEF Kept
    <2>7. told \in [Devices -> SUBSET Channels] /\ x.owner \in SUBSET Channels
      BY <2>6 DEF Record
    <2>8. next = [x EXCEPT !.told = told]
      BY <2>5, <2>6 DEF Record
    <2> HIDE DEF told
    <2>16. /\ next \in Record
           /\ next.counts = x.counts /\ next.fifos = x.fifos
           /\ next.made = x.made /\ next.on = x.on /\ next.opened = x.opened
           /\ next.format = x.format /\ next.infos = x.infos
           /\ next.failed = x.failed
           /\ next.told = told
      BY <2>6, <2>7, <2>8 DEF Record
    <2>9. Kept(next, (users \ {f}) \cup {f}, {})
      BY <2>4, <2>16, ListingIs
    <2>10. (users \ {f}) \cup {f} = users \cup {f}
      OBVIOUS
    <2>11. \A e \in Devices :
             told[e] = IF e = d THEN x.told[e] \cup {f}
                       ELSE IF e = side.on[f] THEN x.told[e] \ {f} ELSE x.told[e]
      BY <1>4, <2>6 DEF told, Record
    <2>12. \A e \in Devices, c \in Channels :
             c \in x.told[e] <=>
               c \in side.told[e] /\ ~(e = side.on[f] /\ c = f /\ f \in side.owner)
      BY <1>1, <2>3, <2>4
    <2>13. \A e \in Devices, c \in Channels \ {f} :
             c \in told[e] <=> c \in side.told[e]
      BY <2>11, <2>12
    <2>14. f \in told[d]
      BY <2>11
    <2>15. \A e \in Devices \ {d} :
             f \in told[e] => f \in side.told[e] /\ e # side.on[f]
      BY <2>11, <2>12
    <2>18. ComesTo(next, f, d) /\ OthersStay(side, next, f)
      BY <1>1, <2>3, <2>4, <2>16 DEF ComesTo, OthersStay
    <2>19. next.counts = side.counts
      BY <1>1, <2>3, <2>4, <2>16
    <2> QED BY <2>9, <2>10, <2>13, <2>14, <2>15, <2>16, <2>18, <2>19
      DEF ListedWith, next
  <1> QED BY <1>2, <1>3, <1>4

(* addAudioSource(), of a FIFO that is not on the input. *)
LEMMA AddSourceIs ==
  ASSUME NEW side, NEW users, users \subseteq Channels, Kept(side, users, {}),
         NEW f \in Channels, NEW d \in Devices, NEW opens,
         side.on[f] # d
  PROVE  LET next == AddAudioSource(side, f, d, opens)
         IN Kept(next, users \cup {f}, {}) /\ next.counts = side.counts
  <1> DEFINE ready == Prepare(side, d, opens)
             free  == IF side.on[f] \in {None, d} THEN ready
                                                  ELSE RemoveAudioSource(ready, f)
             x     == Attach(free, f, d)
             next  == AddAudioSource(side, f, d, opens)
             owner == x.owner \cup {f}
  <1>0. side \in Record /\ Registered(side, users)
    BY DEF Kept
  <1>1. /\ Kept(ready, users, {d}) /\ ready.counts = side.counts
        /\ ready.on = side.on
    BY PrepareIs
  <1>2. next = [x EXCEPT !.owner = @ \cup {f}]
    BY DEF AddAudioSource
  <1> HIDE DEF ready, next
  <1>3. Kept(free, users \ {f}, {d}) /\ free.counts = side.counts
    <2>1. CASE side.on[f] = None
      <3>1. users \ {f} = users
        BY <1>0, <2>1, Apart DEF Registered
      <3> QED BY <1>1, <2>1, <3>1
    <2>2. CASE side.on[f] # None
      <3>1. f \in users
        BY <1>0, <2>2 DEF Registered
      <3>2. ready.on[f] \notin {d}
        BY <1>1
      <3>3. Kept(ready, users, {d})
        BY <1>1
      <3>4. /\ Kept(Detach(ready, f), users \ {f}, {d})
            /\ Detach(ready, f).counts = ready.counts
        BY <3>1, <3>2, <3>3, DetachIs
      <3>5. free = Detach(ready, f)
        BY <1>1, <2>2 DEF RemoveAudioSource
      <3> QED BY <1>1, <3>4, <3>5
    <2> QED BY <2>1, <2>2
  <1> HIDE DEF free
  <1>4. /\ Kept(x, (users \ {f}) \cup {f}, {}) /\ x.counts = free.counts
    BY <1>3, AttachIs
  <1> HIDE DEF x
  <1>5. x \in Record
    BY <1>4 DEF Kept
  <1>6. owner \in SUBSET Channels /\ x.told \in [Devices -> SUBSET Channels]
    BY <1>5 DEF Record
  <1>7. next = [x EXCEPT !.owner = owner]
    BY <1>2, <1>5 DEF Record
  <1> HIDE DEF owner
  <1>10. /\ next \in Record
         /\ next.counts = x.counts /\ next.fifos = x.fifos
         /\ next.made = x.made /\ next.on = x.on /\ next.opened = x.opened
         /\ next.format = x.format /\ next.infos = x.infos
         /\ next.failed = x.failed
    BY <1>5, <1>6, <1>7 DEF Record
  <1>8. Kept(next, (users \ {f}) \cup {f}, {})
    BY <1>4, <1>10, ListingIs
  <1>9. (users \ {f}) \cup {f} = users \cup {f}
    OBVIOUS
  <1> QED BY <1>3, <1>4, <1>8, <1>9, <1>10 DEF next

-----------------------------------------------------------------------------
(* A demodulator that is deleted may be left on lists, as may a modulator;  *)
(* one that has not been deleted is on that of its output only.             *)
Listed ==
  \A c \in Demods \cap (alive \cup fresh), d \in Devices :
    c \in out.told[d] <=> out.on[c] = d

Types ==
  /\ alive \subseteq Channels /\ fresh \subseteq Channels /\ alive \cap fresh = {}
  /\ m_audioSampleRate \in [Channels -> Rates]
  /\ m_inputMessageQueue \in [Channels -> Seq(Messages)]
  /\ overtaken \subseteq Channels

Inv ==
  /\ Kept(out, alive \cap Demods, {}) /\ Kept(in, alive \cap Mods, {})
  /\ Listed /\ Types

LEMMA InitInv == Init => Inv
  <1> SUFFICES ASSUME Init PROVE Inv
    OBVIOUS
  <1>1. ASSUME NEW b \in BOOLEAN
        PROVE  Kept(Side(b), {}, {})
    <2>1. Side(b) \in Record
      BY Apart DEF Side, Record
    <2>2. Registered(Side(b), {})
      BY Apart DEF Side, Registered
    <2>3. Opened(Side(b), {})
      BY DEF Side, Opened
    <2> QED BY <2>1, <2>2, <2>3 DEF Kept
  <1>2. /\ alive = {} /\ fresh = Channels /\ out = Side(FALSE) /\ in = Side(TRUE)
    BY DEF Init
  <1>3. Listed
    <2>1. /\ out.told = [d \in Devices |-> {}]
          /\ out.on = [f \in Channels |-> None]
      BY <1>2 DEF Side
    <2> QED BY <1>2, <2>1, Apart DEF Listed, Channels
  <1>4. Types
    <2>1. \A S : << >> \in Seq(S)
      OBVIOUS
    <2> QED BY <2>1, Apart DEF Init, Types
  <1>5. Kept(out, {}, {}) /\ Kept(in, {}, {})
    BY <1>1, <1>2
  <1>6. alive \cap Demods = {} /\ alive \cap Mods = {}
    BY <1>2
  <1> QED BY <1>3, <1>4, <1>5, <1>6 DEF Inv

(* A channel comes to a device. *)
LEMMA AddInv ==
  ASSUME Inv, NEW c \in alive \cup fresh, NEW d \in Devices, NEW opens,
         Add(c, d, opens),
         out.on[c] # d, in.on[c] # d,
         alive' = alive \cup {c}, fresh' = fresh \ {c}
  PROVE  /\ Kept(out', alive' \cap Demods, {}) /\ Kept(in', alive' \cap Mods, {})
         /\ Listed' /\ m_audioSampleRate' \in [Channels -> Rates]
  <1>1. /\ c \in Channels /\ alive \subseteq Channels /\ fresh \subseteq Channels
        /\ alive \cap fresh = {} /\ m_audioSampleRate \in [Channels -> Rates]
        /\ Kept(out, alive \cap Demods, {}) /\ Kept(in, alive \cap Mods, {})
    BY DEF Inv, Types
  <1>2. out \in Record /\ Registered(out, alive \cap Demods)
    BY <1>1 DEF Kept
  <1>3. CASE c \in Demods
    <2>1. /\ out' = AddAudioSink(out, c, d, opens) /\ in' = in
          /\ m_audioSampleRate' = [m_audioSampleRate EXCEPT ![c] = SampleRate(out', d)]
      BY <1>3, ChannelsAssumption DEF Add
    <2>2. alive \cap Demods \subseteq Channels
      BY <1>1
    <2>3. /\ Kept(AddAudioSink(out, c, d, opens), (alive \cap Demods) \cup {c}, {})
          /\ ComesTo(AddAudioSink(out, c, d, opens), c, d)
          /\ OthersStay(out, AddAudioSink(out, c, d, opens), c)
          /\ ListedWith(out, AddAudioSink(out, c, d, opens), c, d)
      BY <1>1, <2>2, AddSinkIs
    <2>4. Kept(out', alive' \cap Demods, {})
      <3>1. (alive \cap Demods) \cup {c} = alive' \cap Demods
        BY <1>3
      <3> QED BY <2>1, <2>3, <3>1
    <2>5. Kept(in', alive' \cap Mods, {})
      <3>1. alive' \cap Mods = alive \cap Mods
        BY <1>3, ChannelsAssumption
      <3> QED BY <1>1, <2>1, <3>1
    <2>6. SampleRate(out', d) \in Rates
      BY <2>4, SampleRateIs DEF Kept
    <2>7. Listed'
      <3> SUFFICES ASSUME NEW b \in Demods \cap (alive' \cup fresh'), NEW e \in Devices
                   PROVE  b \in out'.told[e] <=> out'.on[b] = e
        BY DEF Listed
      <3>1. b \in Demods \cap (alive \cup fresh) /\ b \in Channels
        BY <1>1
      <3>2. b \in out.told[e] <=> out.on[b] = e
        BY <3>1 DEF Inv, Listed
      <3>3. Registered(out', alive' \cap Demods)
        BY <2>4 DEF Kept
      <3>4. CASE b = c
        <4>1. c \in alive' \cap Demods
          BY <1>3
        <4> QED BY <2>1, <2>3, <3>2, <3>4 DEF ComesTo, ListedWith
      <3>5. CASE b # c
        <4> QED BY <2>1, <2>3, <3>1, <3>2, <3>5 DEF OthersStay, ListedWith
      <3> QED BY <3>4, <3>5
    <2> QED BY <1>1, <2>1, <2>4, <2>5, <2>6, <2>7
  <1>4. CASE c \in Mods
    <2> DEFINE told == [out.told EXCEPT ![d] = @ \cup {c}]
    <2>0. c \notin Demods
      BY <1>4, ChannelsAssumption
    <2>1. /\ in' = AddAudioSource(in, c, d, opens)
          /\ out' = [out EXCEPT !.told[d] = @ \cup {c}]
          /\ m_audioSampleRate' = [m_audioSampleRate EXCEPT ![c] = SampleRate(in', d)]
      BY <2>0 DEF Add
    <2>2. alive \cap Mods \subseteq Channels
      BY <1>1
    <2>3. Kept(AddAudioSource(in, c, d, opens), (alive \cap Mods) \cup {c}, {})
      BY <1>1, <2>2, AddSourceIs
    <2>4. Kept(in', alive' \cap Mods, {})
      <3>1. (alive \cap Mods) \cup {c} = alive' \cap Mods
        BY <1>4
      <3> QED BY <2>1, <2>3, <3>1
    <2>5. SampleRate(in', d) \in Rates
      BY <2>4, SampleRateIs DEF Kept
    <2>6. alive' \cap Demods = alive \cap Demods
      BY <2>0
    <2>7. told \in [Devices -> SUBSET Channels]
      BY <1>1, <1>2 DEF Record
    <2>8. out' = [out EXCEPT !.told = told]
      BY <1>2, <2>1 DEF Record
    <2> HIDE DEF told
    <2>9. /\ out' \in Record
          /\ out'.counts = out.counts /\ out'.fifos = out.fifos
          /\ out'.made = out.made /\ out'.on = out.on /\ out'.opened = out.opened
          /\ out'.format = out.format /\ out'.infos = out.infos
          /\ out'.failed = out.failed
          /\ out'.told = told
      BY <1>2, <2>7, <2>8 DEF Record
    <2>10. Kept(out', alive \cap Demods, {})
      BY <1>1, <2>9, ListingIs
    <2>11. \A e \in Devices, b \in Demods : b \in told[e] <=> b \in out.told[e]
      BY <1>2, <2>0 DEF told, Record
    <2>12. Demods \cap (alive' \cup fresh') = Demods \cap (alive \cup fresh)
      BY <2>0
    <2>13. Listed'
      BY <2>9, <2>11, <2>12 DEF Inv, Listed
    <2> QED BY <1>1, <2>1, <2>4, <2>5, <2>6, <2>10, <2>13
  <1> QED BY <1>1, <1>3, <1>4 DEF Channels

LEMMA CreateInv ==
  ASSUME Inv, NEW c \in Channels, Create(c)
  PROVE  Inv'
  <1>1. /\ c \in fresh /\ c \notin alive /\ SystemDefault \in Devices
        /\ alive' = alive \cup {c} /\ fresh' = fresh \ {c}
        /\ \E opens \in BOOLEAN : Add(c, SystemDefault, opens) /\ UNCHANGED <<m_inputMessageQueue, overtaken>>
    BY DevicesAssumption DEF Create, Inv, Types
  <1>2. out.on[c] = None /\ in.on[c] = None
    BY <1>1 DEF Inv, Kept, Registered
  <1>3. /\ Kept(out', alive' \cap Demods, {}) /\ Kept(in', alive' \cap Mods, {})
        /\ Listed' /\ m_audioSampleRate' \in [Channels -> Rates]
    BY <1>1, <1>2, AddInv, Apart
  <1>4. Types'
    BY <1>1, <1>3 DEF Inv, Types
  <1> QED BY <1>3, <1>4 DEF Inv

LEMMA DestroyInv ==
  ASSUME Inv, NEW c \in Channels, Destroy(c)
  PROVE  Inv'
  <1>1. /\ c \in alive /\ alive' = alive \ {c} /\ alive \subseteq Channels
        /\ m_inputMessageQueue' = [m_inputMessageQueue EXCEPT ![c] = << >>]
        /\ overtaken' = overtaken \ {c}
        /\ UNCHANGED <<fresh, m_audioSampleRate>>
    BY DEF Destroy, Inv, Types
  <1>2. Types'
    <2>1. << >> \in Seq(Messages)
      OBVIOUS
    <2>2. m_inputMessageQueue' \in [Channels -> Seq(Messages)]
      BY <1>1, <2>1 DEF Inv, Types
    <2> QED BY <1>1, <2>2 DEF Inv, Types
  <1>3. CASE c \in Demods
    <2>1. out' = Detach(out, c) /\ in' = in
      BY <1>3 DEF Destroy, RemoveAudioSink
    <2>2. /\ c \in alive \cap Demods /\ alive \cap Demods \subseteq Channels
          /\ Kept(out, alive \cap Demods, {}) /\ out.on[c] \notin {}
      BY <1>1, <1>3 DEF Inv
    <2>3. /\ Kept(Detach(out, c), (alive \cap Demods) \ {c}, {})
          /\ OthersStay(out, Detach(out, c), c)
      BY <2>2, DetachIs
    <2>4. out \in Record /\ out.on[c] \in Devices
      BY <2>2 DEF Kept, Registered
    <2>5. \A e \in Devices, b \in Channels :
            b \in Detach(out, c).told[e] <=>
              b \in out.told[e] /\ ~(e = out.on[c] /\ b = c /\ c \in out.owner)
      BY <2>4, DetachTold
    <2>6. /\ (alive \cap Demods) \ {c} = alive' \cap Demods
          /\ alive' \cap Mods = alive \cap Mods
      BY <1>1, <1>3, ChannelsAssumption
    <2>7. Listed'
      <3> SUFFICES ASSUME NEW b \in Demods \cap (alive' \cup fresh'), NEW e \in Devices
                   PROVE  b \in out'.told[e] <=> out'.on[b] = e
        BY DEF Listed
      <3>1. b # c /\ b \in Demods \cap (alive \cup fresh) /\ b \in Channels
        BY <1>1 DEF Inv, Types
      <3>2. b \in out.told[e] <=> out.on[b] = e
        BY <3>1 DEF Inv, Listed
      <3> QED BY <2>1, <2>3, <2>5, <3>1, <3>2 DEF OthersStay
    <2> QED BY <1>2, <2>1, <2>3, <2>6, <2>7 DEF Inv
  <1>4. CASE c \in Mods
    <2>1. in' = Detach(in, c) /\ out' = out
      BY <1>4, ChannelsAssumption DEF Destroy, RemoveAudioSource
    <2>2. /\ c \in alive \cap Mods /\ alive \cap Mods \subseteq Channels
          /\ Kept(in, alive \cap Mods, {}) /\ in.on[c] \notin {}
      BY <1>1, <1>4 DEF Inv
    <2>3. Kept(Detach(in, c), (alive \cap Mods) \ {c}, {})
      BY <2>2, DetachIs
    <2>4. /\ (alive \cap Mods) \ {c} = alive' \cap Mods
          /\ alive' \cap Demods = alive \cap Demods
          /\ Demods \cap (alive' \cup fresh') = Demods \cap (alive \cup fresh)
      BY <1>1, <1>4, ChannelsAssumption
    <2>5. Listed'
      BY <2>1, <2>4 DEF Inv, Listed
    <2> QED BY <1>2, <2>1, <2>3, <2>4, <2>5 DEF Inv
  <1> QED BY <1>1, <1>3, <1>4 DEF Channels

(* The messages of the channels. *)
LEMMA MessageIs ==
  ASSUME Inv, NEW c \in Channels, m_inputMessageQueue[c] # << >>
  PROVE  /\ Head(m_inputMessageQueue[c]) \in Messages
         /\ Tail(m_inputMessageQueue[c]) \in Seq(Messages)
  BY DEF Inv, Types

LEMMA AskInv ==
  ASSUME Inv, NEW c \in Channels, NEW d \in Devices, AskForDevice(c, d)
  PROVE  Inv'
  <1>1. Message("device", d) \in Messages
    BY DEF Message, Messages
  <1>2. m_inputMessageQueue' \in [Channels -> Seq(Messages)]
    BY <1>1 DEF AskForDevice, Inv, Types
  <1>3. UNCHANGED <<out, in, alive, fresh, m_audioSampleRate, overtaken>>
    BY DEF AskForDevice
  <1> QED BY <1>2, <1>3 DEF Inv, Types, Listed

LEMMA TakeInv ==
  ASSUME Inv, NEW c \in Channels, ApplySettings(c) \/ ConfigureAudio(c)
  PROVE  Inv'
  <1> DEFINE head == Head(m_inputMessageQueue[c])
  <1>1. /\ c \in alive /\ m_inputMessageQueue[c] # << >>
        /\ m_inputMessageQueue' = [m_inputMessageQueue EXCEPT ![c] = Tail(@)]
        /\ UNCHANGED <<alive, fresh>>
    BY DEF ApplySettings, ConfigureAudio, Take
  <1>2. head \in Messages /\ Tail(m_inputMessageQueue[c]) \in Seq(Messages)
    BY <1>1, MessageIs
  <1>3. m_inputMessageQueue' \in [Channels -> Seq(Messages)]
    BY <1>1, <1>2 DEF Inv, Types
  <1> HIDE DEF head
  <1>4. CASE ConfigureAudio(c)
    <2>1. /\ m_audioSampleRate' = [m_audioSampleRate EXCEPT ![c] = head.value]
          /\ head.kind = "rate" /\ UNCHANGED <<out, in, overtaken>>
      BY <1>4 DEF ConfigureAudio, Take, head
    <2>2. head.value \in Rates
      BY <1>2, <2>1 DEF Messages
    <2>3. m_audioSampleRate' \in [Channels -> Rates]
      BY <2>1, <2>2 DEF Inv, Types
    <2> QED BY <1>1, <1>3, <2>1, <2>3 DEF Inv, Types, Listed
  <1>5. CASE ApplySettings(c)
    <2>1. /\ head.kind = "device"
          /\ \/ /\ UNCHANGED <<out, in, m_audioSampleRate, overtaken>>
             \/ /\ head.value \notin {out.on[c], in.on[c]}
                /\ \E opens \in BOOLEAN : Add(c, head.value, opens)
                /\ overtaken' \in {overtaken \ {c}, overtaken \cup {c}}
      BY <1>5 DEF ApplySettings, Take, head
    <2>2. head.value \in Devices
      BY <1>2, <2>1 DEF Messages
    <2>3. CASE UNCHANGED <<out, in, m_audioSampleRate, overtaken>>
      BY <1>1, <1>3, <2>3 DEF Inv, Types, Listed
    <2>4. CASE /\ head.value \notin {out.on[c], in.on[c]}
               /\ \E opens \in BOOLEAN : Add(c, head.value, opens)
               /\ overtaken' \in {overtaken \ {c}, overtaken \cup {c}}
      <3>1. alive' = alive \cup {c} /\ fresh' = fresh \ {c} /\ c \in alive \cup fresh
        BY <1>1 DEF Inv, Types
      <3>2. /\ Kept(out', alive' \cap Demods, {}) /\ Kept(in', alive' \cap Mods, {})
            /\ Listed' /\ m_audioSampleRate' \in [Channels -> Rates]
        BY <2>2, <2>4, <3>1, AddInv
      <3> QED BY <1>1, <1>3, <2>4, <3>2 DEF Inv, Types
    <2> QED BY <2>1, <2>3, <2>4
  <1> QED BY <1>4, <1>5

(* Telling the channels of a device its rate. *)
LEMMA TellIs ==
  ASSUME Inv, NEW channels, NEW r \in Rates, Tell(channels, r)
  PROVE  m_inputMessageQueue' \in [Channels -> Seq(Messages)]
  <1>1. Message("rate", r) \in Messages
    BY DEF Message, Messages
  <1>2. \A c \in Channels :
          Append(m_inputMessageQueue[c], Message("rate", r)) \in Seq(Messages)
    BY <1>1 DEF Inv, Types
  <1> QED BY <1>2 DEF Tell, Inv, Types

(* Setting devices up changes no registration and no list. *)
LEMMA SetIs ==
  ASSUME Inv, NEW side, NEW users, Kept(side, users, {}), NEW d \in Devices,
         NEW r \in Rates, NEW next, Set(side, next, d, r)
  PROVE  /\ Kept(next, users, {}) /\ next.told = side.told /\ next.on = side.on
         /\ m_inputMessageQueue' \in [Channels -> Seq(Messages)]
  <1>1. CASE d \in side.made /\ r # SampleRate(side, d)
    <2>1. PICK opens \in BOOLEAN : /\ next = Reopened(side, d, r, opens)
                                   /\ Tell(side.told[d], next.infos[d])
      BY <1>1 DEF Set
    <2>2. d \in side.made
      BY <1>1
    <2>3. /\ Kept(Reopened(side, d, r, opens), users, {})
          /\ Reopened(side, d, r, opens).told = side.told
          /\ Reopened(side, d, r, opens).on = side.on
          /\ Reopened(side, d, r, opens).infos[d] \in Rates
      BY <2>2, ReopenedIs
    <2>4. next.infos[d] \in Rates
      BY <2>1, <2>3
    <2>5. m_inputMessageQueue' \in [Channels -> Seq(Messages)]
      BY <2>1, <2>4, TellIs
    <2> QED BY <2>1, <2>3, <2>5
  <1>2. CASE ~(d \in side.made /\ r # SampleRate(side, d))
    <2>1. /\ next = [side EXCEPT !.infos[d] = r]
          /\ UNCHANGED m_inputMessageQueue
      BY <1>2 DEF Set
    <2>2. side.fifos[d] = {} \/ r = side.infos[d]
      <3>1. side \in Record /\ Opened(side, {})
        BY DEF Kept
      <3>2. ASSUME side.fifos[d] # {} PROVE r = side.infos[d]
        <4>1. d \in side.made /\ side.infos[d] \in Rates
          BY <3>1, <3>2 DEF Opened
        <4> QED BY <1>2, <4>1, Apart DEF SampleRate
      <3> QED BY <3>2
    <2>3. r \in Rates \cup {None}
      OBVIOUS
    <2>4. /\ Kept([side EXCEPT !.infos[d] = r], users, {})
          /\ [side EXCEPT !.infos[d] = r].told = side.told
          /\ [side EXCEPT !.infos[d] = r].on = side.on
      BY <2>2, <2>3, InfoIs
    <2> QED BY <2>1, <2>4 DEF Inv, Types
  <1> QED BY <1>1, <1>2

LEMMA UnsetIs ==
  ASSUME Inv, NEW side, NEW users, Kept(side, users, {}), NEW d \in Devices,
         NEW next, Unset(side, next, d)
  PROVE  /\ Kept(next, users, {}) /\ next.told = side.told /\ next.on = side.on
         /\ m_inputMessageQueue' \in [Channels -> Seq(Messages)]
  <1>1. CASE d \in side.made
    <2>1. PICK opens \in BOOLEAN :
          /\ next = Reopened(side, d, DefaultRate, opens)
          /\ \/ Tell(side.told[d], next.infos[d])
             \/ UNCHANGED m_inputMessageQueue
      BY <1>1 DEF Unset
    <2>2. DefaultRate \in Rates
      BY Apart
    <2>3. /\ Kept(Reopened(side, d, DefaultRate, opens), users, {})
          /\ Reopened(side, d, DefaultRate, opens).told = side.told
          /\ Reopened(side, d, DefaultRate, opens).on = side.on
          /\ Reopened(side, d, DefaultRate, opens).infos[d] \in Rates
      BY <1>1, <2>2, ReopenedIs
    <2>4. next.infos[d] \in Rates
      BY <2>1, <2>3
    <2>5. m_inputMessageQueue' \in [Channels -> Seq(Messages)]
      BY <2>1, <2>4, TellIs DEF Inv, Types
    <2> QED BY <2>1, <2>3, <2>5
  <1>2. CASE d \notin side.made
    <2>1. /\ next = [side EXCEPT !.infos[d] = None]
          /\ UNCHANGED m_inputMessageQueue
      BY <1>2 DEF Unset
    <2>2. side.fifos[d] = {}
      BY <1>2 DEF Kept, Opened
    <2>3. None \in Rates \cup {None}
      OBVIOUS
    <2>4. /\ Kept([side EXCEPT !.infos[d] = None], users, {})
          /\ [side EXCEPT !.infos[d] = None].told = side.told
          /\ [side EXCEPT !.infos[d] = None].on = side.on
      BY <2>2, <2>3, InfoIs
    <2> QED BY <2>1, <2>4 DEF Inv, Types
  <1> QED BY <1>1, <1>2

LEMMA DevicesInv ==
  ASSUME Inv, NEW d \in Devices,
         \/ UnsetOutputDeviceInfo(d) \/ UnsetInputDeviceInfo(d)
         \/ \E r \in Rates : SetOutputDeviceInfo(d, r) \/ SetInputDeviceInfo(d, r)
  PROVE  Inv'
  <1>1. Kept(out, alive \cap Demods, {}) /\ Kept(in, alive \cap Mods, {})
    BY DEF Inv
  <1>2. UNCHANGED <<alive, fresh, m_audioSampleRate, overtaken>>
    BY DEF UnsetOutputDeviceInfo, UnsetInputDeviceInfo, SetOutputDeviceInfo,
           SetInputDeviceInfo, Channelwise
  <1>3. ASSUME Kept(out', alive \cap Demods, {}), out'.told = out.told,
               out'.on = out.on, Kept(in', alive \cap Mods, {}),
               m_inputMessageQueue' \in [Channels -> Seq(Messages)]
        PROVE  Inv'
    BY <1>2, <1>3 DEF Inv, Types, Listed
  <1>4. CASE UnsetOutputDeviceInfo(d)
    <2>1. Unset(out, out', d) /\ in' = in
      BY <1>4 DEF UnsetOutputDeviceInfo
    <2>2. /\ Kept(out', alive \cap Demods, {}) /\ out'.told = out.told
          /\ out'.on = out.on
          /\ m_inputMessageQueue' \in [Channels -> Seq(Messages)]
      BY <1>1, <2>1, UnsetIs
    <2> QED BY <1>1, <1>3, <2>1, <2>2
  <1>5. CASE UnsetInputDeviceInfo(d)
    <2>1. Unset(in, in', d) /\ out' = out
      BY <1>5 DEF UnsetInputDeviceInfo
    <2>2. /\ Kept(in', alive \cap Mods, {})
          /\ m_inputMessageQueue' \in [Channels -> Seq(Messages)]
      BY <1>1, <2>1, UnsetIs
    <2> QED BY <1>1, <1>3, <2>1, <2>2
  <1>6. ASSUME NEW r \in Rates, SetOutputDeviceInfo(d, r) PROVE Inv'
    <2>1. Set(out, out', d, r) /\ in' = in
      BY <1>6 DEF SetOutputDeviceInfo
    <2>2. /\ Kept(out', alive \cap Demods, {}) /\ out'.told = out.told
          /\ out'.on = out.on
          /\ m_inputMessageQueue' \in [Channels -> Seq(Messages)]
      BY <1>1, <2>1, SetIs
    <2> QED BY <1>1, <1>3, <2>1, <2>2
  <1>7. ASSUME NEW r \in Rates, SetInputDeviceInfo(d, r) PROVE Inv'
    <2>1. Set(in, in', d, r) /\ out' = out
      BY <1>7 DEF SetInputDeviceInfo
    <2>2. /\ Kept(in', alive \cap Mods, {})
          /\ m_inputMessageQueue' \in [Channels -> Seq(Messages)]
      BY <1>1, <2>1, SetIs
    <2> QED BY <1>1, <1>3, <2>1, <2>2
  <1> QED BY <1>4, <1>5, <1>6, <1>7
-----------------------------------------------------------------------------
(* Every step keeps the invariant. *)
THEOREM Invariance == Spec => []Inv
  <1>1. Init => Inv
    BY InitInv
  <1>2. Inv /\ [Next]_vars => Inv'
    <2> SUFFICES ASSUME Inv, [Next]_vars PROVE Inv'
      OBVIOUS
    <2>1. CASE UNCHANGED vars
      BY <2>1 DEF vars, Inv, Types, Listed
    <2>2. ASSUME NEW c \in Channels,
                 \/ Create(c) \/ Destroy(c) \/ ApplySettings(c) \/ ConfigureAudio(c)
          PROVE  Inv'
      BY <2>2, CreateInv, DestroyInv, TakeInv
    <2>3. ASSUME NEW c \in Channels, NEW d \in Devices, AskForDevice(c, d)
          PROVE  Inv'
      BY <2>3, AskInv
    <2>4. ASSUME NEW d \in Devices,
                 \/ UnsetOutputDeviceInfo(d) \/ UnsetInputDeviceInfo(d)
                 \/ \E r \in Rates : \/ SetOutputDeviceInfo(d, r)
                                      \/ SetInputDeviceInfo(d, r)
          PROVE  Inv'
      BY <2>4, DevicesInv
    <2> QED BY <2>1, <2>2, <2>3, <2>4 DEF Next
  <1> QED BY <1>1, <1>2, PTL DEF Spec

(* The types of the state, and that no device is open more than twice.      *)
THEOREM TypeCorrect == Spec => []TypeOK
  <1>1. Inv => TypeOK
    <2> SUFFICES ASSUME Inv PROVE TypeOK
      OBVIOUS
    <2>1. ASSUME NEW side, NEW users, Kept(side, users, {})
          PROVE  side \in SideType
      <3>1. side \in Record /\ Opened(side, {})
        BY <2>1 DEF Kept
      <3>2. \A d \in Devices : side.opened[d] \in 0..2
        BY <3>1 DEF Opened
      <3>3. side.opened \in [Devices -> 0..2]
        BY <3>1, <3>2 DEF Record
      <3> QED BY <3>1, <3>3 DEF Record, SideType
    <2>2. out \in SideType /\ in \in SideType
      BY <2>1 DEF Inv
    <2> QED BY <2>2 DEF Inv, Types, TypeOK
  <1> QED BY <1>1, Invariance, PTL

(* However the channels come, go, and change devices, the audio thread of a *)
(* device finds exactly the FIFOs of the channels registered with it.       *)
THEOREM FifosAreWhereRegistered == Spec => []FifosWhereRegistered
  <1>1. Inv => FifosWhereRegistered
    BY Apart DEF Inv, Kept, Registered, FifosWhereRegistered
  <1> QED BY <1>1, Invariance, PTL

(* No sequence of starts, stops and changes of set-up leaves a device with  *)
(* a FIFO closed, or open at another rate than the one told of it, whose    *)
(* last start did not fail.                                                 *)
THEOREM DevicesAreOpen == Spec => []OpenAtItsRate
  <1>1. Inv => OpenAtItsRate
    <2> SUFFICES ASSUME Inv, NEW d \in Devices, NEW side \in {out, in},
                        side.fifos[d] # {}, d \notin side.failed
                 PROVE  side.opened[d] > 0 /\ side.infos[d] = side.format[d]
      BY DEF OpenAtItsRate
    <2>1. Opened(side, {})
      BY DEF Inv, Kept
    <2> QED BY <2>1 DEF Opened
  <1> QED BY <1>1, Invariance, PTL

(* A demodulator is told of the rate of its own output and of no other.     *)
THEOREM DemodsAreListed == Spec => []ListedWhereRegistered
  <1>1. Inv => ListedWhereRegistered
    BY DEF Inv, Listed, ListedWhereRegistered
  <1> QED BY <1>1, Invariance, PTL
-----------------------------------------------------------------------------
(* Who has the rate now and this queue will have r in the end: the last    *)
(* rate in the queue is r, or there is none there and r is the one he has. *)
Settles(queue, rate, r) ==
  \/ rate = r /\ \A i \in 1..Len(queue) : queue[i].kind # "rate"
  \/ \E i \in 1..Len(queue) :
       /\ queue[i].kind = "rate" /\ queue[i].value = r
       /\ \A j \in (i + 1)..Len(queue) : queue[j].kind # "rate"

(* Who is told a rate will have it, ...                                    *)
LEMMA SettlesTold ==
  ASSUME NEW queue \in Seq(Messages), NEW rate, NEW r \in Rates
  PROVE  Settles(Append(queue, Message("rate", r)), rate, r)
  <1> DEFINE m == Message("rate", r)  longer == Append(queue, m)
  <1>1. m \in Messages /\ m.kind = "rate" /\ m.value = r
    BY DEF Message, Messages
  <1> HIDE DEF m
  <1>2. /\ Len(longer) = Len(queue) + 1 /\ Len(queue) \in Nat
        /\ longer[Len(queue) + 1] = m
    BY <1>1, AppendProperties
  <1> HIDE DEF longer
  <1>3. Len(queue) + 1 \in 1..Len(longer)
    BY <1>2
  <1>4. (Len(queue) + 1 + 1)..Len(longer) = {}
    BY <1>2
  <1> QED BY <1>1, <1>2, <1>3, <1>4 DEF Settles, longer, m

(* ... whatever else comes after it, ...                                   *)
LEMMA SettlesMore ==
  ASSUME NEW queue \in Seq(Messages), NEW rate, NEW r, NEW m \in Messages,
         m.kind # "rate", Settles(queue, rate, r)
  PROVE  Settles(Append(queue, m), rate, r)
  <1> DEFINE longer == Append(queue, m)
  <1>1. /\ Len(longer) = Len(queue) + 1 /\ Len(queue) \in Nat
        /\ longer[Len(queue) + 1] = m
        /\ \A i \in 1..Len(queue) : longer[i] = queue[i]
    BY AppendProperties
  <1> HIDE DEF longer
  <1>2. CASE rate = r /\ \A i \in 1..Len(queue) : queue[i].kind # "rate"
    <2>1. \A i \in 1..Len(longer) : longer[i].kind # "rate"
      BY <1>1, <1>2
    <2> QED BY <1>2, <2>1 DEF Settles, longer
  <1>3. ASSUME NEW i \in 1..Len(queue), queue[i].kind = "rate", queue[i].value = r,
               \A j \in (i + 1)..Len(queue) : queue[j].kind # "rate"
        PROVE  Settles(longer, rate, r)
    <2>1. i \in 1..Len(longer) /\ longer[i] = queue[i]
      BY <1>1
    <2>2. \A j \in (i + 1)..Len(longer) : longer[j].kind # "rate"
      BY <1>1, <1>3
    <2> QED BY <1>3, <2>1, <2>2 DEF Settles
  <1> QED BY <1>2, <1>3 DEF Settles, longer

(* The first message and the others.                                       *)
LEMMA TailIs ==
  ASSUME NEW queue \in Seq(Messages), queue # << >>
  PROVE  /\ Len(queue) \in Nat \ {0} /\ Len(Tail(queue)) = Len(queue) - 1
         /\ \A i \in 1..Len(Tail(queue)) : Tail(queue)[i] = queue[i + 1]
         /\ Head(queue) = queue[1]
  BY HeadTailProperties, EmptySeq

(* ... and still when the message at the head of the queue is handled.     *)
LEMMA SettlesTaken ==
  ASSUME NEW queue \in Seq(Messages), queue # << >>, NEW rate, NEW r,
         Settles(queue, rate, r)
  PROVE  /\ Head(queue).kind # "rate" => Settles(Tail(queue), rate, r)
         /\ Head(queue).kind = "rate" => Settles(Tail(queue), Head(queue).value, r)
  <1> DEFINE rest == Tail(queue)
             now  == IF Head(queue).kind = "rate" THEN Head(queue).value ELSE rate
  <1>1. /\ Len(queue) \in Nat \ {0} /\ Len(rest) = Len(queue) - 1
        /\ \A i \in 1..Len(rest) : rest[i] = queue[i + 1]
        /\ Head(queue) = queue[1]
    BY TailIs
  <1> HIDE DEF rest
  <1>2. Settles(rest, now, r)
    <2>1. CASE rate = r /\ \A i \in 1..Len(queue) : queue[i].kind # "rate"
      <3>1. now = r
        BY <1>1, <2>1
      <3>2. \A i \in 1..Len(rest) : rest[i].kind # "rate"
        BY <1>1, <2>1
      <3> QED BY <3>1, <3>2 DEF Settles
    <2>2. ASSUME NEW i \in 1..Len(queue), queue[i].kind = "rate", queue[i].value = r,
                 \A j \in (i + 1)..Len(queue) : queue[j].kind # "rate"
          PROVE  Settles(rest, now, r)
      <3>1. CASE i = 1
        <4>1. now = r
          BY <1>1, <2>2, <3>1
        <4>2. \A k \in 1..Len(rest) : rest[k].kind # "rate"
          BY <1>1, <2>2, <3>1
        <4> QED BY <4>1, <4>2 DEF Settles
      <3>2. CASE i # 1
        <4>1. i - 1 \in 1..Len(rest) /\ rest[i - 1] = queue[i]
          BY <1>1, <3>2
        <4>2. \A j \in ((i - 1) + 1)..Len(rest) : rest[j].kind # "rate"
          BY <1>1, <2>2
        <4> QED BY <2>2, <4>1, <4>2 DEF Settles
      <3> QED BY <3>1, <3>2
    <2> QED BY <2>1, <2>2 DEF Settles
  <1> QED BY <1>2 DEF rest

(* So has who takes a rate with no other one waiting.                      *)
LEMMA SettlesMoved ==
  ASSUME NEW queue \in Seq(Messages), queue # << >>, NEW r,
         \A i \in 2..Len(queue) : queue[i].kind # "rate"
  PROVE  Settles(Tail(queue), r, r)
  <1> DEFINE rest == Tail(queue)
  <1>1. /\ Len(queue) \in Nat \ {0} /\ Len(rest) = Len(queue) - 1
        /\ \A i \in 1..Len(rest) : rest[i] = queue[i + 1]
    BY TailIs
  <1> HIDE DEF rest
  <1>2. \A i \in 1..Len(rest) : rest[i].kind # "rate"
    BY <1>1
  <1> QED BY <1>2 DEF Settles, rest

(* The devices that have FIFOs are open with the rates they had.           *)
KeepsInfos(side, next) ==
  \A e \in Devices : side.fifos[e] # {} => next.infos[e] = side.infos[e]

(* Only a device without FIFOs is started for one.                         *)
LEMMA PrepareInfos ==
  ASSUME NEW side, NEW users, Kept(side, users, {}), NEW d \in Devices,
         NEW opens
  PROVE  KeepsInfos(side, Prepare(side, d, opens))
  <1> DEFINE with == [side EXCEPT !.made = @ \cup {d}]
             next == Prepare(side, d, opens)
  <1>1. side \in Record /\ Opened(side, {})
    BY DEF Kept
  <1>2. with \in Record /\ with.opened = side.opened /\ with.infos = side.infos
    BY <1>1 DEF Record
  <1>3. next = IF side.fifos[d] = {} THEN Start(with, d, SampleRate(side, d), opens)
                                     ELSE with
    BY DEF Prepare
  <1> HIDE DEF with, next
  <1>4. CASE side.fifos[d] = {}
    <2>1. SampleRate(side, d) \in Rates /\ with.opened[d] \in 0..1
      BY <1>1, <1>2, <1>4, SampleRateIs DEF Opened
    <2>2. \A e \in Devices \ {d} : next.infos[e] = with.infos[e]
      BY <1>2, <1>3, <1>4, <2>1, StartIs
    <2> QED BY <1>2, <1>4, <2>2 DEF KeepsInfos, next
  <1>5. CASE side.fifos[d] # {}
    BY <1>2, <1>3, <1>5 DEF KeepsInfos, next
  <1> QED BY <1>4, <1>5

(* To close a device leaves the rate it was opened with, ...               *)
LEMMA DetachInfos ==
  ASSUME NEW side \in Record, NEW f \in Channels, side.on[f] \in Devices
  PROVE  Detach(side, f).infos = side.infos
  <1> DEFINE d    == side.on[f]
             left == [side EXCEPT !.fifos[d] = @ \ {f}, !.on[f] = None,
                                  !.told[d] = @ \ ({f} \cap side.owner),
                                  !.owner = @ \ {f}]
  <1>1. \/ Detach(side, f) = Stop(left, d)
        \/ Detach(side, f) = left
    BY DEF Detach
  <1>2. left.infos = side.infos
    BY DEF Record
  <1>3. left \in Record
    BY Apart DEF Record
  <1> HIDE DEF left, d
  <1>4. Stop(left, d).infos = left.infos
    BY <1>3 DEF Stop, StopInput, StopOutput, Record
  <1> QED BY <1>1, <1>2, <1>4

(* ... and so does a FIFO that comes.                                      *)
LEMMA AttachInfos ==
  ASSUME NEW side \in Record, NEW f, NEW d
  PROVE  /\ Attach(side, f, d).infos = side.infos
         /\ Attach(side, f, d).told = side.told
  BY DEF Attach, Record

(* So addAudioSink() changes the rate of nobody else.                      *)
LEMMA AddSinkInfos ==
  ASSUME NEW side, NEW users, users \subseteq Channels, Kept(side, users, {}),
         NEW f \in Channels, NEW d \in Devices, NEW opens,
         side.on[f] # d
  PROVE  KeepsInfos(side, AddAudioSink(side, f, d, opens))
  <1> DEFINE ready == Prepare(side, d, opens)
             next  == AddAudioSink(side, f, d, opens)
  <1>1. ready \in Record /\ ready.on = side.on /\ Kept(ready, users, {d})
    BY PrepareIs DEF Kept
  <1>2. KeepsInfos(side, ready)
    BY PrepareInfos
  <1>3. side.on[f] \in Devices \cup {None}
    BY DEF Kept, Record
  <1>4. next.infos = ready.infos
    <2> HIDE DEF ready
    <2>1. CASE side.on[f] = None
      <3> DEFINE x == Attach(ready, f, d)
      <3>1. next = [x EXCEPT !.owner = @ \cup {f}, !.told[d] = @ \cup {f}]
        BY <2>1 DEF AddAudioSink, ready
      <3>2. x.infos = ready.infos
        BY <1>1, AttachInfos
      <3> HIDE DEF x
      <3>3. next.infos = x.infos
        BY <3>1
      <3> QED BY <3>2, <3>3
    <2>2. CASE side.on[f] \in Devices
      <3> DEFINE gone == RemoveAudioSink(ready, f)
                 x    == Attach(gone, f, d)
      <3>1. next = [x EXCEPT !.told[side.on[f]] = @ \ {f}, !.told[d] = @ \cup {f}]
        BY <2>2, Apart DEF AddAudioSink, ready
      <3>2. gone.infos = ready.infos
        BY <1>1, <2>2, DetachInfos DEF RemoveAudioSink
      <3>3. gone \in Record
        <4>1. f \in users
          BY <2>2, Apart DEF Kept, Registered
        <4>2. ready.on[f] \notin {d}
          BY <1>1
        <4>3. Kept(Detach(ready, f), users \ {f}, {d})
          BY <1>1, <4>1, <4>2, DetachIs
        <4> QED BY <4>3 DEF RemoveAudioSink, Kept
      <3> HIDE DEF gone
      <3>4. x.infos = gone.infos
        BY <3>3, AttachInfos
      <3> HIDE DEF x
      <3>5. next.infos = x.infos
        BY <3>1
      <3> QED BY <3>2, <3>4, <3>5
    <2> QED BY <1>3, <2>1, <2>2
  <1> QED BY <1>2, <1>4 DEF KeepsInfos

(* addAudioSource() lists nobody with an input.                            *)
LEMMA AddSourceTold ==
  ASSUME NEW side, NEW users, users \subseteq Channels, Kept(side, users, {}),
         NEW f \in Channels, NEW d \in Devices, NEW opens, side.on[f] # d,
         \A e \in Devices : side.told[e] = {}
  PROVE  \A e \in Devices : AddAudioSource(side, f, d, opens).told[e] = {}
  <1> DEFINE ready == Prepare(side, d, opens)
             free  == IF side.on[f] \in {None, d} THEN ready
                                                  ELSE RemoveAudioSource(ready, f)
             x     == Attach(free, f, d)
             next  == AddAudioSource(side, f, d, opens)
  <1>1. /\ ready \in Record /\ ready.on = side.on /\ ready.told = side.told
        /\ Kept(ready, users, {d})
    BY PrepareIs DEF Kept
  <1>2. next = [x EXCEPT !.owner = @ \cup {f}]
    BY DEF AddAudioSource
  <1> HIDE DEF ready, next
  <1>3. free \in Record /\ \A e \in Devices : free.told[e] = {}
    <2>1. CASE side.on[f] = None
      BY <1>1, <2>1
    <2>2. CASE side.on[f] # None
      <3>1. f \in users /\ side.on[f] \in Devices
        BY <2>2 DEF Kept, Registered
      <3>2. ready.on[f] \notin {d}
        BY <1>1
      <3>3. Kept(Detach(ready, f), users \ {f}, {d})
        BY <1>1, <3>1, <3>2, DetachIs
      <3>4. /\ Detach(ready, f).told \in [Devices -> SUBSET Channels]
            /\ \A e \in Devices, c \in Channels :
                 c \in Detach(ready, f).told[e] => c \in ready.told[e]
        BY <1>1, <3>1, DetachTold
      <3>5. free = Detach(ready, f)
        BY <2>2 DEF RemoveAudioSource
      <3> HIDE DEF free
      <3> QED BY <1>1, <3>3, <3>4, <3>5 DEF Kept
    <2> QED BY <2>1, <2>2
  <1> HIDE DEF free
  <1>4. x.told = free.told
    BY <1>3, AttachInfos
  <1> HIDE DEF x
  <1>5. next.told = x.told
    BY <1>2
  <1> QED BY <1>3, <1>4, <1>5 DEF next
-----------------------------------------------------------------------------
(* Channels that are not there have no messages.                           *)
Quiet == \A c \in Channels \ alive : m_inputMessageQueue[c] = << >>

(* What is set up for an input is told to none.                            *)
InputsTellNobody == \A d \in Devices : in.told[d] = {}

(* A demodulator will have the rate of its output.                         *)
Settled(c) ==
  Settles(m_inputMessageQueue[c], m_audioSampleRate[c], out.infos[out.on[c]])

(* All those that are there will, unless an old rate has overtaken them.   *)
Heard == \A c \in (alive \cap Demods) \ overtaken : Settled(c)

(* With Inv, the inductive invariant.                                      *)
RateInv == Quiet /\ InputsTellNobody /\ Heard

(* What Inv says of the channels that are there.                           *)
LEMMA Facts ==
  ASSUME Inv
  PROVE  /\ alive \subseteq Channels /\ fresh \subseteq Channels
         /\ alive \cap fresh = {} /\ overtaken \subseteq Channels
         /\ m_audioSampleRate \in [Channels -> Rates]
         /\ m_inputMessageQueue \in [Channels -> Seq(Messages)]
         /\ Kept(out, alive \cap Demods, {}) /\ Kept(in, alive \cap Mods, {})
         /\ alive \cap Demods \subseteq Channels /\ alive \cap Mods \subseteq Channels
         /\ out \in Record /\ in \in Record
         /\ \A c \in alive \cap Demods :
              /\ out.on[c] \in Devices /\ out.fifos[out.on[c]] # {}
              /\ out.on[c] \in out.made
              /\ out.infos[out.on[c]] \in Rates
              /\ in.on[c] = None
              /\ \A d \in Devices : c \in out.told[d] <=> out.on[c] = d
         /\ \A c \in alive \cap Mods : out.on[c] = None
  <1>1. /\ alive \subseteq Channels /\ fresh \subseteq Channels
        /\ alive \cap fresh = {} /\ overtaken \subseteq Channels
        /\ m_audioSampleRate \in [Channels -> Rates]
        /\ m_inputMessageQueue \in [Channels -> Seq(Messages)]
    BY DEF Inv, Types
  <1>2. Kept(out, alive \cap Demods, {}) /\ Kept(in, alive \cap Mods, {})
    BY DEF Inv
  <1>3. /\ out \in Record /\ Registered(out, alive \cap Demods) /\ Opened(out, {})
        /\ in \in Record /\ Registered(in, alive \cap Mods)
    BY <1>2 DEF Kept
  <1>4. ASSUME NEW c \in alive \cap Demods
        PROVE  /\ out.on[c] \in Devices /\ out.fifos[out.on[c]] # {}
               /\ out.on[c] \in out.made
               /\ out.infos[out.on[c]] \in Rates
               /\ in.on[c] = None
               /\ \A d \in Devices : c \in out.told[d] <=> out.on[c] = d
    <2>1. out.on[c] \in Devices /\ c \in out.fifos[out.on[c]]
      BY <1>1, <1>3 DEF Registered
    <2>2. out.on[c] \in out.made /\ out.infos[out.on[c]] \in Rates
      BY <1>3, <2>1 DEF Opened
    <2>4. in.on[c] = None
      BY <1>1, <1>3, ChannelsAssumption DEF Registered
    <2>5. \A d \in Devices : c \in out.told[d] <=> out.on[c] = d
      BY DEF Inv, Listed
    <2> QED BY <2>1, <2>2, <2>4, <2>5
  <1>5. \A c \in alive \cap Mods : out.on[c] = None
    BY <1>1, <1>3, ChannelsAssumption DEF Registered
  <1> QED BY <1>1, <1>2, <1>3, <1>4, <1>5

(* Who is not concerned stays settled.                                     *)
LEMMA OthersSettled ==
  ASSUME Inv, NEW b \in alive \cap Demods, Settled(b),
         out'.on[b] = out.on[b], KeepsInfos(out, out'),
         m_inputMessageQueue'[b] = m_inputMessageQueue[b],
         m_audioSampleRate'[b] = m_audioSampleRate[b]
  PROVE  Settled(b)'
  <1>1. out'.infos[out'.on[b]] = out.infos[out.on[b]]
    BY Facts DEF KeepsInfos
  <1> QED BY <1>1 DEF Settled

(* A demodulator that comes to an output takes its rate, and leaves the    *)
(* others theirs.                                                          *)
LEMMA AddRates ==
  ASSUME Inv, NEW c \in alive \cup fresh, NEW d \in Devices, NEW opens,
         Add(c, d, opens),
         out.on[c] # d, in.on[c] # d, InputsTellNobody,
         Kept(out', (alive \cup {c}) \cap Demods, {})
  PROVE  /\ InputsTellNobody' /\ KeepsInfos(out, out')
         /\ \A b \in Channels \ {c} : /\ out'.on[b] = out.on[b]
                                      /\ m_audioSampleRate'[b] = m_audioSampleRate[b]
         /\ c \in Demods => m_audioSampleRate'[c] = out'.infos[out'.on[c]]
  <1>1. c \in Channels /\ alive \cap Demods \subseteq Channels
        /\ Kept(out, alive \cap Demods, {}) /\ out \in Record
        /\ alive \cap Mods \subseteq Channels
        /\ Kept(in, alive \cap Mods, {})
        /\ m_audioSampleRate \in [Channels -> Rates]
    BY Facts
  <1>2. CASE c \in Demods
    <2>1. /\ out' = AddAudioSink(out, c, d, opens) /\ in' = in
          /\ m_audioSampleRate' = [m_audioSampleRate EXCEPT ![c] = SampleRate(out', d)]
      BY <1>2, ChannelsAssumption DEF Add
    <2>2. /\ ComesTo(AddAudioSink(out, c, d, opens), c, d)
          /\ OthersStay(out, AddAudioSink(out, c, d, opens), c)
      BY <1>1, AddSinkIs
    <2>3. KeepsInfos(out, AddAudioSink(out, c, d, opens))
      BY <1>1, AddSinkInfos
    <2>4. out'.on[c] = d
      BY <2>1, <2>2 DEF ComesTo
    <2>5. Registered(out', (alive \cup {c}) \cap Demods) /\ Opened(out', {}) /\ out' \in Record
      BY DEF Kept
    <2>6. c \in out'.fifos[d]
      BY <1>1, <2>4, <2>5 DEF Registered
    <2>7. out'.infos[d] \in Rates
      BY <2>5, <2>6 DEF Opened
    <2>8. m_audioSampleRate'[c] = out'.infos[d]
      BY <1>1, <2>1, <2>7, Apart DEF SampleRate
    <2>9. \A b \in Channels \ {c} : /\ out'.on[b] = out.on[b]
                                    /\ m_audioSampleRate'[b] = m_audioSampleRate[b]
      BY <1>1, <2>1, <2>2 DEF OthersStay
    <2> QED BY <2>1, <2>3, <2>4, <2>8, <2>9 DEF InputsTellNobody
  <1>3. CASE c \in Mods
    <2>0. c \notin Demods
      BY <1>3, ChannelsAssumption
    <2>1. /\ in' = AddAudioSource(in, c, d, opens)
          /\ out' = [out EXCEPT !.told[d] = @ \cup {c}]
          /\ m_audioSampleRate' = [m_audioSampleRate EXCEPT ![c] = SampleRate(in', d)]
      BY <2>0 DEF Add
    <2>2. \A e \in Devices : AddAudioSource(in, c, d, opens).told[e] = {}
      BY <1>1, AddSourceTold DEF InputsTellNobody
    <2>3. out'.infos = out.infos /\ out'.on = out.on
      BY <1>1, <2>1 DEF Record
    <2> QED BY <1>1, <2>0, <2>1, <2>2, <2>3 DEF InputsTellNobody, KeepsInfos
  <1> QED BY <1>1, <1>2, <1>3 DEF Channels

(* The steps of the channels: they come, ...                               *)
LEMMA CreateRates ==
  ASSUME Inv, Inv', RateInv, NEW c \in Channels, Create(c)
  PROVE  RateInv'
  <1>1. /\ c \in fresh /\ c \notin alive /\ SystemDefault \in Devices
        /\ alive' = alive \cup {c} /\ \E opens \in BOOLEAN : Add(c, SystemDefault, opens)
        /\ UNCHANGED <<m_inputMessageQueue, overtaken>>
    BY Facts, DevicesAssumption DEF Create
  <1>2. out.on[c] # SystemDefault /\ in.on[c] # SystemDefault
    BY <1>1, Apart DEF Inv, Kept, Registered
  <1>3. /\ InputsTellNobody' /\ KeepsInfos(out, out')
        /\ \A b \in Channels \ {c} : /\ out'.on[b] = out.on[b]
                                     /\ m_audioSampleRate'[b] = m_audioSampleRate[b]
        /\ c \in Demods => m_audioSampleRate'[c] = out'.infos[out'.on[c]]
    <2>1. Kept(out', (alive \cup {c}) \cap Demods, {})
      BY <1>1 DEF Inv
    <2> QED BY <1>1, <1>2, <2>1, AddRates DEF RateInv
  <1>4. Quiet'
    BY <1>1 DEF RateInv, Quiet
  <1>5. ASSUME NEW b \in (alive' \cap Demods) \ overtaken' PROVE Settled(b)'
    <2>1. CASE b = c
      <3>1. m_inputMessageQueue'[c] = << >>
        BY <1>1 DEF RateInv, Quiet
      <3> QED BY <1>3, <1>5, <2>1, <3>1 DEF Settled, Settles
    <2>2. CASE b # c
      <3>1. b \in (alive \cap Demods) \ overtaken /\ b \in Channels
        BY <1>1, <1>5, <2>2, Facts
      <3>2. Settled(b)
        BY <3>1 DEF RateInv, Heard
      <3> QED BY <1>1, <1>3, <2>2, <3>1, <3>2, OthersSettled
    <2> QED BY <2>1, <2>2
  <1> QED BY <1>3, <1>4, <1>5 DEF RateInv, Heard

(* ... they go, ...                                                        *)
LEMMA DestroyRates ==
  ASSUME Inv, RateInv, NEW c \in Channels, Destroy(c)
  PROVE  RateInv'
  <1>1. /\ c \in alive /\ alive' = alive \ {c}
        /\ m_inputMessageQueue' = [m_inputMessageQueue EXCEPT ![c] = << >>]
        /\ overtaken' = overtaken \ {c}
        /\ UNCHANGED <<fresh, m_audioSampleRate>>
        /\ m_inputMessageQueue \in [Channels -> Seq(Messages)]
    BY Facts DEF Destroy
  <1>2. Quiet'
    BY <1>1 DEF RateInv, Quiet
  <1>3. /\ InputsTellNobody' /\ KeepsInfos(out, out')
        /\ \A b \in Channels \ {c} : out'.on[b] = out.on[b]
    <2>1. CASE c \in Demods
      <3>1. out' = Detach(out, c) /\ in' = in
        BY <2>1 DEF Destroy, RemoveAudioSink
      <3>2. /\ c \in alive \cap Demods /\ out \in Record /\ out.on[c] \in Devices
            /\ Kept(out, alive \cap Demods, {}) /\ alive \cap Demods \subseteq Channels
        BY <1>1, <2>1, Facts
      <3>3. OthersStay(out, Detach(out, c), c)
        BY <3>2, DetachIs
      <3>4. Detach(out, c).infos = out.infos
        BY <3>2, DetachInfos
      <3> QED BY <3>1, <3>3, <3>4 DEF RateInv, InputsTellNobody, KeepsInfos, OthersStay
    <2>2. CASE c \in Mods
      <3>1. in' = Detach(in, c) /\ out' = out
        BY <2>2, ChannelsAssumption DEF Destroy, RemoveAudioSource
      <3>2. in \in Record /\ in.on[c] \in Devices
        BY <1>1, <2>2, Facts DEF Kept, Registered
      <3>3. /\ Detach(in, c).told \in [Devices -> SUBSET Channels]
            /\ \A e \in Devices, b \in Channels :
                 b \in Detach(in, c).told[e] => b \in in.told[e]
        BY <3>2, DetachTold
      <3> QED BY <3>1, <3>3 DEF RateInv, InputsTellNobody, KeepsInfos
    <2> QED BY <2>1, <2>2 DEF Channels
  <1>5. ASSUME NEW b \in (alive' \cap Demods) \ overtaken' PROVE Settled(b)'
    <2>1. /\ b # c /\ b \in (alive \cap Demods) \ overtaken /\ b \in Channels
      BY <1>1, <1>5, Facts
    <2>2. Settled(b)
      BY <2>1 DEF RateInv, Heard
    <2> QED BY <1>1, <1>3, <2>1, <2>2, OthersSettled
  <1> QED BY <1>2, <1>3, <1>5 DEF RateInv, Heard

(* ... they are asked to move, ...                                         *)
LEMMA AskRates ==
  ASSUME Inv, RateInv, NEW c \in Channels, NEW d \in Devices, AskForDevice(c, d)
  PROVE  RateInv'
  <1>1. /\ c \in alive
        /\ m_inputMessageQueue' =
             [m_inputMessageQueue EXCEPT ![c] = Append(@, Message("device", d))]
        /\ UNCHANGED <<out, in, alive, fresh, m_audioSampleRate, overtaken>>
        /\ m_inputMessageQueue \in [Channels -> Seq(Messages)]
    BY Facts DEF AskForDevice
  <1>2. Message("device", d) \in Messages /\ Message("device", d).kind # "rate"
    BY DEF Message, Messages
  <1>3. Quiet' /\ InputsTellNobody'
    BY <1>1 DEF RateInv, Quiet, InputsTellNobody
  <1>4. ASSUME NEW b \in (alive' \cap Demods) \ overtaken' PROVE Settled(b)'
    <2>1. b \in Channels /\ Settled(b)
      BY <1>1, <1>4, Facts DEF RateInv, Heard
    <2>2. CASE b = c
      <3>1. m_inputMessageQueue'[c] = Append(m_inputMessageQueue[c], Message("device", d))
        BY <1>1
      <3>2. m_inputMessageQueue[c] \in Seq(Messages)
        BY <1>1
      <3> QED BY <1>1, <1>2, <2>1, <2>2, <3>1, <3>2, SettlesMore DEF Settled
    <2>3. CASE b # c
      BY <1>1, <2>1, <2>3 DEF Settled
    <2> QED BY <2>2, <2>3
  <1> QED BY <1>3, <1>4 DEF RateInv, Heard

(* ... they take a rate, ...                                               *)
LEMMA ConfigureRates ==
  ASSUME Inv, RateInv, NEW c \in Channels, ConfigureAudio(c)
  PROVE  RateInv'
  <1> DEFINE queue == m_inputMessageQueue[c]
  <1>1. /\ c \in alive /\ queue # << >> /\ Head(queue).kind = "rate"
        /\ m_inputMessageQueue' = [m_inputMessageQueue EXCEPT ![c] = Tail(@)]
        /\ m_audioSampleRate' = [m_audioSampleRate EXCEPT ![c] = Head(queue).value]
        /\ UNCHANGED <<alive, fresh, out, in, overtaken>>
        /\ m_inputMessageQueue \in [Channels -> Seq(Messages)]
        /\ m_audioSampleRate \in [Channels -> Rates]
    BY Facts DEF ConfigureAudio, Take
  <1>2. Quiet' /\ InputsTellNobody'
    BY <1>1 DEF RateInv, Quiet, InputsTellNobody
  <1>3. ASSUME NEW b \in (alive' \cap Demods) \ overtaken' PROVE Settled(b)'
    <2>1. b \in Channels /\ Settled(b)
      BY <1>1, <1>3, Facts DEF RateInv, Heard
    <2>2. CASE b = c
      <3>1. /\ m_inputMessageQueue'[c] = Tail(queue)
            /\ m_audioSampleRate'[c] = Head(queue).value
            /\ queue \in Seq(Messages)
        BY <1>1
      <3> QED BY <1>1, <2>1, <2>2, <3>1, SettlesTaken DEF Settled
    <2>3. CASE b # c
      BY <1>1, <2>1, <2>3 DEF Settled
    <2> QED BY <2>2, <2>3
  <1> QED BY <1>2, <1>3 DEF RateInv, Heard

(* ... and they move: with no rate waiting they settle on the new output.  *)
LEMMA ApplyRates ==
  ASSUME Inv, Inv', RateInv, NEW c \in Channels, ApplySettings(c)
  PROVE  RateInv'
  <1> DEFINE queue == m_inputMessageQueue[c]
             d     == Head(queue).value
  <1>1. /\ c \in alive /\ queue # << >> /\ Head(queue).kind = "device"
        /\ m_inputMessageQueue' = [m_inputMessageQueue EXCEPT ![c] = Tail(@)]
        /\ UNCHANGED <<alive, fresh>>
        /\ m_inputMessageQueue \in [Channels -> Seq(Messages)]
        /\ queue \in Seq(Messages)
        /\ Head(queue) \in Messages
    BY Facts, MessageIs DEF ApplySettings, Take
  <1>2. d \in Devices
    BY <1>1 DEF Messages
  <1>3. m_inputMessageQueue'[c] = Tail(queue)
    BY <1>1
  <1>4. Quiet'
    BY <1>1 DEF RateInv, Quiet
  <1>5. CASE d \in {out.on[c], in.on[c]}
    <2>1. UNCHANGED <<out, in, m_audioSampleRate, overtaken>>
      BY <1>5 DEF ApplySettings
    <2>2. ASSUME NEW b \in (alive' \cap Demods) \ overtaken' PROVE Settled(b)'
      <3>1. b \in Channels /\ Settled(b)
        BY <1>1, <2>1, <2>2, Facts DEF RateInv, Heard
      <3>2. CASE b = c
        <4>1. "device" # "rate"
          OBVIOUS
        <4> HIDE DEF queue
        <4>2. Settles(queue, m_audioSampleRate[c], out.infos[out.on[c]])
          BY <3>1, <3>2 DEF Settled, queue
        <4>3. Settles(Tail(queue), m_audioSampleRate[c], out.infos[out.on[c]])
          BY <1>1, <4>1, <4>2, SettlesTaken
        <4> QED BY <1>3, <2>1, <3>2, <4>3 DEF Settled
      <3>3. CASE b # c
        BY <1>1, <2>1, <3>1, <3>3 DEF Settled
      <3> QED BY <3>2, <3>3
    <2> QED BY <1>4, <2>1, <2>2 DEF RateInv, Heard, InputsTellNobody
  <1>6. CASE d \notin {out.on[c], in.on[c]}
    <2>1. /\ \E opens \in BOOLEAN : Add(c, d, opens)
          /\ overtaken' = IF RatesAfter(c) = {} THEN overtaken \ {c}
                                                ELSE overtaken \cup {c}
      BY <1>6 DEF ApplySettings
    <2>2. alive \cup {c} = alive
      BY <1>1
    <2>3. Kept(out', (alive \cup {c}) \cap Demods, {})
      BY <1>1, <2>2 DEF Inv
    <2> HIDE DEF d, queue
    <2>4. /\ InputsTellNobody' /\ KeepsInfos(out, out')
          /\ \A b \in Channels \ {c} : /\ out'.on[b] = out.on[b]
                                       /\ m_audioSampleRate'[b] = m_audioSampleRate[b]
          /\ c \in Demods => m_audioSampleRate'[c] = out'.infos[out'.on[c]]
      BY <1>1, <1>2, <1>6, <2>1, <2>3, AddRates DEF RateInv
    <2>5. ASSUME NEW b \in (alive' \cap Demods) \ overtaken' PROVE Settled(b)'
      <3>1. CASE b = c
        <4>1. RatesAfter(c) = {}
          BY <2>1, <2>5, <3>1
        <4>2. \A i \in 2..Len(queue) : queue[i].kind # "rate"
          BY <4>1 DEF RatesAfter, Waiting, queue
        <4>3. Settles(Tail(queue), out'.infos[out'.on[c]], out'.infos[out'.on[c]])
          BY <1>1, <4>2, SettlesMoved
        <4> QED BY <1>3, <2>4, <2>5, <3>1, <4>3 DEF Settled
      <3>2. CASE b # c
        <4>1. b \in (alive \cap Demods) \ overtaken /\ b \in Channels
          BY <1>1, <2>1, <2>5, <3>2, Facts
        <4>2. Settled(b)
          BY <4>1 DEF RateInv, Heard
        <4>3. m_inputMessageQueue'[b] = m_inputMessageQueue[b]
          BY <1>1, <3>2, <4>1
        <4> QED BY <2>4, <3>2, <4>1, <4>2, <4>3, OthersSettled
      <3> QED BY <3>1, <3>2
    <2> QED BY <1>4, <2>4, <2>5 DEF RateInv, Heard
  <1> QED BY <1>5, <1>6

(* A device that is set up again tells the rate it has.                    *)
LEMMA ReopenedInfos ==
  ASSUME NEW side, NEW users, Kept(side, users, {}), NEW d \in side.made,
         NEW r \in Rates, NEW opens
  PROVE  LET next == Reopened(side, d, r, opens)
         IN /\ d \in Devices /\ next.infos[d] \in Rates
            /\ next.on = side.on /\ next.told = side.told
            /\ \A e \in Devices \ {d} : next.infos[e] = side.infos[e]
  <1> DEFINE mid  == Stop(side, d)
             next == Reopened(side, d, r, opens)
  <1>1. side \in Record /\ Opened(side, {})
    BY DEF Kept
  <1>2. d \in Devices
    BY <1>1 DEF Record
  <1>3. side.opened[d] \in 0..2
    BY <1>1, <1>2 DEF Opened
  <1>4. /\ mid \in Record /\ mid.infos = side.infos /\ mid.on = side.on
        /\ mid.told = side.told /\ mid.opened[d] \in 0..1
    BY <1>1, <1>2, <1>3, StopIs
  <1>5. next = Start(mid, d, r, opens)
    BY DEF Reopened
  <1> HIDE DEF mid, next
  <1>6. /\ next \in Record /\ next.infos[d] \in Rates
        /\ next.on = mid.on /\ next.told = mid.told
        /\ \A e \in Devices \ {d} : next.infos[e] = mid.infos[e]
    BY <1>2, <1>4, <1>5, StartIs
  <1> QED BY <1>2, <1>4, <1>6 DEF next

(* The queues of those who are told.                                       *)
LEMMA TellQueues ==
  ASSUME Inv, NEW channels, NEW r \in Rates, Tell(channels, r)
  PROVE  \A c \in Channels :
           m_inputMessageQueue'[c] = IF c \in channels \cap alive
             THEN Append(m_inputMessageQueue[c], Message("rate", r))
             ELSE m_inputMessageQueue[c]
  BY DEF Tell

(* A change of the rate of an output that is told to those listed with it, *)
(* or that is none, leaves all settled: the demodulators on it are those   *)
(* listed.                                                                 *)
LEMMA OutputsSettle ==
  ASSUME Inv, RateInv, NEW d \in Devices, UNCHANGED Channelwise, out'.on = out.on,
         \A e \in Devices \ {d} : out'.infos[e] = out.infos[e],
         \/ /\ out'.infos[d] \in Rates
            /\ Tell(out.told[d], out'.infos[d])
         \/ /\ UNCHANGED m_inputMessageQueue
            /\ out.fifos[d] # {} => out'.infos[d] = out.infos[d]
  PROVE  Quiet' /\ Heard'
  <1>1. /\ UNCHANGED <<alive, fresh, m_audioSampleRate, overtaken>>
        /\ m_inputMessageQueue \in [Channels -> Seq(Messages)]
    BY Facts DEF Channelwise
  <1>2. CASE /\ UNCHANGED m_inputMessageQueue
             /\ out.fifos[d] # {} => out'.infos[d] = out.infos[d]
    <2>1. KeepsInfos(out, out')
      BY <1>2 DEF KeepsInfos
    <2>2. ASSUME NEW b \in (alive' \cap Demods) \ overtaken' PROVE Settled(b)'
      <3>1. b \in alive \cap Demods /\ Settled(b)
        BY <1>1, <2>2 DEF RateInv, Heard
      <3> QED BY <1>1, <1>2, <2>1, <3>1, OthersSettled
    <2> QED BY <1>1, <1>2, <2>2 DEF RateInv, Heard, Quiet
  <1>3. CASE out'.infos[d] \in Rates /\ Tell(out.told[d], out'.infos[d])
    <2>1. \A c \in Channels :
            m_inputMessageQueue'[c] = IF c \in out.told[d] \cap alive
              THEN Append(m_inputMessageQueue[c], Message("rate", out'.infos[d]))
              ELSE m_inputMessageQueue[c]
      BY <1>3, TellQueues
    <2>2. Quiet'
      BY <1>1, <2>1 DEF RateInv, Quiet
    <2>3. ASSUME NEW b \in (alive' \cap Demods) \ overtaken' PROVE Settled(b)'
      <3>1. b \in alive \cap Demods /\ Settled(b) /\ b \in Channels
        BY <1>1, <2>3, Facts DEF RateInv, Heard
      <3>2. b \in out.told[d] <=> out.on[b] = d
        BY <3>1, Facts
      <3>3. CASE out.on[b] = d
        <4>1. /\ m_inputMessageQueue'[b] =
                   Append(m_inputMessageQueue[b], Message("rate", out'.infos[d]))
              /\ m_inputMessageQueue[b] \in Seq(Messages)
          BY <1>1, <2>1, <3>1, <3>2, <3>3
        <4> QED BY <1>3, <3>3, <4>1, SettlesTold DEF Settled
      <3>4. CASE out.on[b] # d
        <4>1. m_inputMessageQueue'[b] = m_inputMessageQueue[b]
          BY <2>1, <3>1, <3>2, <3>4
        <4>2. out'.infos[out'.on[b]] = out.infos[out.on[b]]
          BY <3>1, <3>4, Facts
        <4> QED BY <1>1, <3>1, <4>1, <4>2 DEF Settled
      <3> QED BY <3>3, <3>4
    <2> QED BY <2>2, <2>3 DEF Heard
  <1> QED BY <1>2, <1>3

(* So does setting up an output, ...                                       *)
LEMMA OutputRates ==
  ASSUME Inv, RateInv, NEW d \in Devices, UNCHANGED in,
         UnsetOutputDeviceInfo(d) \/ \E r \in Rates : SetOutputDeviceInfo(d, r)
  PROVE  RateInv'
  <1>1. /\ Kept(out, alive \cap Demods, {}) /\ out \in Record /\ Opened(out, {})
        /\ DefaultRate \in Rates
    BY Facts, Apart DEF Kept
  <1>2. UNCHANGED Channelwise /\ InputsTellNobody'
    BY DEF UnsetOutputDeviceInfo, SetOutputDeviceInfo, RateInv, InputsTellNobody
  <1>3. ASSUME NEW r \in Rates, NEW opens, d \in out.made,
               out' = Reopened(out, d, r, opens),
               \/ Tell(out.told[d], out'.infos[d])
               \/ out'.infos[d] = out.infos[d] /\ UNCHANGED m_inputMessageQueue
        PROVE  Quiet' /\ Heard'
    <2>1. /\ out'.infos[d] \in Rates /\ out'.on = out.on
          /\ \A e \in Devices \ {d} : out'.infos[e] = out.infos[e]
      BY <1>1, <1>3, ReopenedInfos
    <2> QED BY <1>2, <1>3, <2>1, OutputsSettle
  <1>4. ASSUME NEW r, out' = [out EXCEPT !.infos[d] = r],
               out.fifos[d] # {} => r = out.infos[d],
               UNCHANGED m_inputMessageQueue
        PROVE  Quiet' /\ Heard'
    <2>1. /\ out'.on = out.on
          /\ \A e \in Devices \ {d} : out'.infos[e] = out.infos[e]
          /\ out.fifos[d] # {} => out'.infos[d] = out.infos[d]
      BY <1>1, <1>4 DEF Record
    <2> QED BY <1>2, <1>4, <2>1, OutputsSettle
  <1>5. CASE UnsetOutputDeviceInfo(d)
    <2>1. Unset(out, out', d)
      BY <1>5 DEF UnsetOutputDeviceInfo
    <2>2. d \notin out.made => out.fifos[d] = {}
      BY <1>1 DEF Opened
    <2> QED BY <1>1, <1>2, <1>3, <1>4, <2>1, <2>2 DEF Unset, RateInv
  <1>6. ASSUME NEW r \in Rates, SetOutputDeviceInfo(d, r) PROVE RateInv'
    <2>1. Set(out, out', d, r)
      BY <1>6 DEF SetOutputDeviceInfo
    <2>2. out.fifos[d] # {} => d \in out.made /\ SampleRate(out, d) = out.infos[d]
      BY <1>1, Apart DEF Opened, SampleRate
    <2> QED BY <1>2, <1>3, <1>4, <2>1, <2>2 DEF Set, RateInv
  <1> QED BY <1>5, <1>6

(* ... and an input, of whose rate nobody is told.                         *)
LEMMA TellingNobody ==
  ASSUME Inv, RateInv, NEW d \in Devices, NEW r, Tell(in.told[d], r)
  PROVE  m_inputMessageQueue' = m_inputMessageQueue
  <1>1. in.told[d] = {}
    BY DEF RateInv, InputsTellNobody
  <1>2. m_inputMessageQueue' = [c \in Channels |-> m_inputMessageQueue[c]]
    BY <1>1 DEF Tell
  <1> QED BY <1>2, Facts

(* Setting up an input is nothing to the demodulators.                     *)
LEMMA InputRates ==
  ASSUME Inv, RateInv, NEW d \in Devices, UNCHANGED out,
         UnsetInputDeviceInfo(d) \/ \E r \in Rates : SetInputDeviceInfo(d, r)
  PROVE  RateInv'
  <1>1. in \in Record /\ Kept(in, alive \cap Mods, {}) /\ DefaultRate \in Rates
    BY Facts, Apart
  <1>2. UNCHANGED <<alive, fresh, m_audioSampleRate, overtaken>>
    BY DEF UnsetInputDeviceInfo, SetInputDeviceInfo, Channelwise
  <1>3. ASSUME NEW r \in Rates, NEW opens, d \in in.made,
               in' = Reopened(in, d, r, opens),
               Tell(in.told[d], in'.infos[d]) \/ UNCHANGED m_inputMessageQueue
        PROVE  in'.told = in.told /\ UNCHANGED m_inputMessageQueue
    <2>1. in'.told = in.told
      BY <1>1, <1>3, ReopenedInfos
    <2> QED BY <1>3, <2>1, TellingNobody
  <1>4. ASSUME NEW r, in' = [in EXCEPT !.infos[d] = r] PROVE in'.told = in.told
    BY <1>1, <1>4 DEF Record
  <1>5. in'.told = in.told /\ UNCHANGED m_inputMessageQueue
    <2>1. CASE UnsetInputDeviceInfo(d)
      <3>1. Unset(in, in', d)
        BY <2>1 DEF UnsetInputDeviceInfo
      <3> QED BY <1>1, <1>3, <1>4, <3>1 DEF Unset
    <2>2. ASSUME NEW r \in Rates, SetInputDeviceInfo(d, r)
          PROVE  in'.told = in.told /\ UNCHANGED m_inputMessageQueue
      <3>1. Set(in, in', d, r)
        BY <2>2 DEF SetInputDeviceInfo
      <3> QED BY <1>3, <1>4, <3>1 DEF Set
    <2> QED BY <2>1, <2>2
  <1> QED BY <1>2, <1>5 DEF RateInv, Quiet, InputsTellNobody, Heard, Settled

(* RateSettled: in whatever order channels come, go and move and outputs   *)
(* are set up, a demodulator that has handled its messages works at the    *)
(* rate set for its output, unless a rate of the output it left            *)
(* came behind the message that moved it.                                  *)
THEOREM RatesSettle == Spec => []RateSettled
  <1>1. Init => Inv /\ RateInv
    <2>1. Init => RateInv
      BY DEF Init, Side, RateInv, Quiet, InputsTellNobody, Heard
    <2> QED BY <2>1, InitInv
  <1>2. Inv /\ RateInv /\ Inv' /\ [Next]_vars => RateInv'
    <2> SUFFICES ASSUME Inv, RateInv, Inv', [Next]_vars PROVE RateInv'
      OBVIOUS
    <2>1. CASE UNCHANGED vars
      BY <2>1 DEF vars, RateInv, Quiet, InputsTellNobody, Heard, Settled
    <2>2. ASSUME NEW c \in Channels,
                 \/ Create(c) \/ Destroy(c) \/ ApplySettings(c) \/ ConfigureAudio(c)
          PROVE  RateInv'
      BY <2>2, CreateRates, DestroyRates, ApplyRates, ConfigureRates
    <2>3. ASSUME NEW c \in Channels, NEW d \in Devices, AskForDevice(c, d)
          PROVE  RateInv'
      BY <2>3, AskRates
    <2>4. ASSUME NEW d \in Devices,
                 UnsetOutputDeviceInfo(d) \/ \E r \in Rates : SetOutputDeviceInfo(d, r)
          PROVE  RateInv'
      <3>1. UNCHANGED in
        BY <2>4 DEF UnsetOutputDeviceInfo, SetOutputDeviceInfo
      <3> QED BY <2>4, <3>1, OutputRates
    <2>5. ASSUME NEW d \in Devices,
                 UnsetInputDeviceInfo(d) \/ \E r \in Rates : SetInputDeviceInfo(d, r)
          PROVE  RateInv'
      <3>1. UNCHANGED out
        BY <2>5 DEF UnsetInputDeviceInfo, SetInputDeviceInfo
      <3> QED BY <2>5, <3>1, InputRates
    <2> QED BY <2>1, <2>2, <2>3, <2>4, <2>5 DEF Next
  <1>3. Inv /\ RateInv => RateSettled
    <2> SUFFICES ASSUME Inv, RateInv, NEW c \in (alive \cap Demods) \ overtaken,
                        m_inputMessageQueue[c] = << >>
                 PROVE  m_audioSampleRate[c] = out.infos[out.on[c]]
      BY DEF RateSettled
    <2>1. Settled(c)
      BY DEF RateInv, Heard
    <2> QED BY <2>1 DEF Settled, Settles
  <1> QED BY <1>1, <1>2, <1>3, Invariance, PTL DEF Spec
=============================================================================
