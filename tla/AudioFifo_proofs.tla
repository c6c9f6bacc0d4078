-------------------------- MODULE AudioFifo_proofs --------------------------
(***************************************************************************)
(* The ring of AudioFifo and the reasons its threads wait for, for FIFOs   *)
(* of any sizes and calls of any lengths.  The inductive invariant says of *)
(* a thread that is about to wait what WaitsForReason says of one that     *)
(* waits, and that while setSize() is at work nobody is about to wait for  *)
(* room without having missed that there is some.                          *)
(*                                                                         *)
(* And no sample is lost or heard twice that the writer was not told of:   *)
(* what has been taken and what the ring has are numbers in order, below   *)
(* that of the next to write, and those that are missing there are lost.   *)
(***************************************************************************)
EXTENDS AudioFifo, SequenceTheorems, TLAPS

Waiting(t) == pc[t] \in {"releasing", "asleep"}

Reasons ==
  /\ Waiting("writer") /\ ~missed["writer"] => m_fill = m_size /\ ~replacing
  /\ Waiting("reader") /\ ~missed["reader"] => m_fill = 0
  /\ replacing => m_fill = 0 /\ m_head = 0 /\ m_tail = 0

Inv == TypeOK /\ asked["writer"] <= produced /\ Reasons

(* The remainder by the size, of an index that goes around once at most. *)
LEMMA WrapIs ==
  ASSUME m_size \in Nat, m_size > 0
  PROVE  \A x \in 0..(m_size + m_size - 1) :
           /\ Wrap(x) = IF x < m_size THEN x ELSE x - m_size
           /\ Wrap(x) \in 0..(m_size - 1)
  BY DEF Wrap

LEMMA Bounds ==
  ASSUME TypeOK
  PROVE  /\ m_size \in Nat /\ m_size > 0 /\ m_fill \in 0..m_size
         /\ m_head \in 0..(m_size - 1) /\ m_tail \in 0..(m_size - 1)
         /\ m_tail = Wrap(m_head + m_fill)
         /\ m_fifo \in [0..(m_size - 1) -> 0..MaxSamples]
         /\ MaxSamples \in Nat /\ MaxBlock \in Nat
  <1>1. /\ m_size \in Nat /\ m_size > 0 /\ m_fill \in 0..m_size
        /\ m_head \in 0..(m_size - 1) /\ m_tail = Wrap(m_head + m_fill)
        /\ m_fifo \in [0..(m_size - 1) -> 0..MaxSamples]
    BY SizesAssumption DEF TypeOK, Slots
  <1>2. m_head + m_fill \in 0..(m_size + m_size - 1)
    BY <1>1
  <1>3. m_tail \in 0..(m_size - 1)
    BY <1>1, <1>2, WrapIs
  <1> QED BY <1>1, <1>3, BlocksAssumption

(* The heads and the tails of a ring that has got n samples less, ... *)
LEMMA HeadMoves ==
  ASSUME TypeOK, NEW n \in 0..m_fill
  PROVE  /\ Wrap(m_head + n) \in 0..(m_size - 1)
         /\ m_tail = Wrap(Wrap(m_head + n) + (m_fill - n))
  <1> DEFINE h == Wrap(m_head + n)
  <1>1. /\ m_size \in Nat /\ m_size > 0 /\ m_fill \in 0..m_size
        /\ m_head \in 0..(m_size - 1) /\ m_tail = Wrap(m_head + m_fill)
    BY Bounds
  <1>2. /\ m_head + n \in 0..(m_size + m_size - 1)
        /\ m_head + m_fill \in 0..(m_size + m_size - 1)
    BY <1>1
  <1>3. /\ h = (IF m_head + n < m_size THEN m_head + n ELSE m_head + n - m_size)
        /\ h \in 0..(m_size - 1)
    BY <1>1, <1>2, WrapIs
  <1>4. m_tail = IF m_head + m_fill < m_size THEN m_head + m_fill
                                             ELSE m_head + m_fill - m_size
    BY <1>1, <1>2, WrapIs
  <1> HIDE DEF h
  <1> DEFINE y == h + (m_fill - n)
  <1>5. y \in 0..(m_size + m_size - 1)
    BY <1>1, <1>3
  <1> HIDE DEF y
  <1>6. Wrap(y) = IF y < m_size THEN y ELSE y - m_size
    BY <1>1, <1>5, WrapIs
  <1>7. m_tail = Wrap(y)
    BY <1>1, <1>3, <1>4, <1>6 DEF y
  <1> QED BY <1>3, <1>7 DEF h, y

(* ... and of one that has got n samples more. *)
LEMMA TailMoves ==
  ASSUME TypeOK, NEW n \in 0..(m_size - m_fill)
  PROVE  Wrap(m_tail + n) = Wrap(m_head + (m_fill + n))
  <1>1. /\ m_size \in Nat /\ m_size > 0 /\ m_fill \in 0..m_size
        /\ m_head \in 0..(m_size - 1) /\ m_tail \in 0..(m_size - 1)
        /\ m_tail = Wrap(m_head + m_fill)
    BY Bounds
  <1>2. /\ m_head + m_fill \in 0..(m_size + m_size - 1)
        /\ m_head + (m_fill + n) \in 0..(m_size + m_size - 1)
        /\ m_tail + n \in 0..(m_size + m_size - 1)
    BY <1>1
  <1>3. m_tail = IF m_head + m_fill < m_size THEN m_head + m_fill
                                             ELSE m_head + m_fill - m_size
    BY <1>1, <1>2, WrapIs
  <1>4. Wrap(m_head + (m_fill + n)) = IF m_head + (m_fill + n) < m_size
                                        THEN m_head + (m_fill + n)
                                        ELSE m_head + (m_fill + n) - m_size
    BY <1>1, <1>2, WrapIs
  <1>5. Wrap(m_tail + n) = IF m_tail + n < m_size THEN m_tail + n
                                                  ELSE m_tail + n - m_size
    BY <1>1, <1>2, WrapIs
  <1> QED BY <1>1, <1>3, <1>4, <1>5

(* What the calls keep of their own, when one ends, ... *)
Calls ==
  /\ asked \in [Threads -> 0..MaxBlock] /\ remaining \in [Threads -> 0..MaxBlock]
  /\ \A t \in Threads : remaining[t] <= asked[t]
  /\ elapsed \in [Threads -> BOOLEAN] /\ lost \subseteq 0..MaxSamples
  /\ asked["writer"] <= produced

LEMMA EndsCalls ==
  ASSUME Inv, NEW t \in Threads, NEW left, NEW copied, Ends(t, left, copied),
         UNCHANGED produced
  PROVE  Calls'
  <1>1. /\ asked \in [Threads -> 0..MaxBlock]
        /\ remaining \in [Threads -> 0..MaxBlock]
        /\ \A u \in Threads : remaining[u] <= asked[u]
        /\ elapsed \in [Threads -> BOOLEAN] /\ lost \subseteq 0..MaxSamples
        /\ produced \in 0..MaxSamples /\ MaxBlock \in Nat /\ MaxSamples \in Nat
        /\ asked["writer"] <= produced
    BY BlocksAssumption DEF Inv, TypeOK
  <1>2. /\ remaining' = [remaining EXCEPT ![t] = 0]
        /\ asked' = [asked EXCEPT ![t] = 0]
        /\ elapsed' = [elapsed EXCEPT ![t] = FALSE]
    BY DEF Ends
  <1>3. /\ asked' \in [Threads -> 0..MaxBlock]
        /\ remaining' \in [Threads -> 0..MaxBlock]
        /\ \A u \in Threads : remaining'[u] <= asked'[u]
        /\ elapsed' \in [Threads -> BOOLEAN]
    BY <1>1, <1>2
  <1>4. lost' \subseteq 0..MaxSamples
    <2>1. 1..produced \subseteq 0..MaxSamples
      BY <1>1
    <2>2. lost' \subseteq lost \cup (1..produced)
      BY DEF Ends, Numbers
    <2> QED BY <1>1, <2>1, <2>2
  <1>5. asked'["writer"] <= produced'
    BY <1>1, <1>2 DEF Threads
  <1> QED BY <1>3, <1>4, <1>5 DEF Calls

(* ... and when it may go on. *)
LEMMA ContinuesCalls ==
  ASSUME Inv, NEW t \in Threads, NEW left \in 0..remaining[t], NEW copied,
         Continues(t, left, copied), UNCHANGED produced
  PROVE  Calls'
  <1>1. CASE left = 0 \/ elapsed[t]
    BY <1>1, EndsCalls DEF Continues
  <1>2. CASE ~(left = 0 \/ elapsed[t])
    <2>1. /\ remaining' = [remaining EXCEPT ![t] = left]
          /\ UNCHANGED <<asked, elapsed, lost, produced>>
      BY <1>2 DEF Continues
    <2>2. /\ remaining \in [Threads -> 0..MaxBlock] /\ MaxBlock \in Nat
          /\ \A u \in Threads : remaining[u] <= asked[u]
          /\ asked \in [Threads -> 0..MaxBlock]
      BY BlocksAssumption DEF Inv, TypeOK
    <2>3. /\ remaining' \in [Threads -> 0..MaxBlock]
          /\ \A u \in Threads : remaining'[u] <= asked'[u]
      BY <2>1, <2>2
    <2> QED BY <2>1, <2>2, <2>3 DEF Inv, TypeOK, Calls
  <1> QED BY <1>1, <1>2

(* The types that Calls does not say. *)
Ring ==
  /\ m_size \in Sizes /\ m_fifo \in [Slots(m_size) -> 0..MaxSamples]
  /\ m_fill \in 0..m_size /\ m_head \in Slots(m_size)
  /\ m_tail = Wrap(m_head + m_fill)

Rest ==
  /\ replacing \in BOOLEAN /\ missed \in [Threads -> BOOLEAN]
  /\ pc \in [Threads -> {"idle", "called", "releasing", "asleep", "woken"}]
  /\ produced \in 0..MaxSamples

LEMMA Parts == TypeOK /\ asked["writer"] <= produced <=> Ring /\ Rest /\ Calls
  BY DEF TypeOK, Ring, Rest, Calls

LEMMA InitInv == Init => Inv
  <1> SUFFICES ASSUME Init PROVE Inv
    OBVIOUS
  <1>1. m_size \in Sizes /\ m_size \in Nat /\ m_size > 0 /\ MaxBlock \in Nat
        /\ MaxSamples \in Nat
    BY SizesAssumption, BlocksAssumption DEF Init
  <1>2. Wrap(0) = 0
    BY <1>1, WrapIs
  <1>3. Ring
    BY <1>1, <1>2 DEF Init, Ring, Slots
  <1>4. Rest
    <2>1. replacing \in BOOLEAN /\ missed \in [Threads -> BOOLEAN]
      BY Zenon DEF Init
    <2>2. /\ pc \in [Threads -> {"idle", "called", "releasing", "asleep", "woken"}]
          /\ produced \in 0..MaxSamples
      BY <1>1 DEF Init
    <2> QED BY <2>1, <2>2 DEF Rest
  <1>5. Calls
    BY <1>1 DEF Init, Calls, Threads
  <1>6. Reasons
    BY DEF Init, Reasons, Waiting, Threads
  <1> QED BY <1>3, <1>4, <1>5, <1>6, Parts DEF Inv

(* The steps of the calls that leave the ring alone. *)
LEMMA CallInv ==
  ASSUME Inv, NEW t \in Threads, NEW n \in 1..MaxBlock, NEW none \in BOOLEAN,
         Call(t, n, none)
  PROVE  Inv'
  <1>1. /\ asked \in [Threads -> 0..MaxBlock] /\ MaxBlock \in Nat
        /\ remaining \in [Threads -> 0..MaxBlock]
        /\ \A u \in Threads : remaining[u] <= asked[u]
        /\ produced \in 0..MaxSamples /\ MaxSamples \in Nat
        /\ asked["writer"] <= produced
        /\ elapsed \in [Threads -> BOOLEAN] /\ lost \subseteq 0..MaxSamples
    BY BlocksAssumption DEF Inv, TypeOK
  <1>2. /\ asked' = [asked EXCEPT ![t] = n]
        /\ remaining' = [remaining EXCEPT ![t] = n]
        /\ elapsed' = [elapsed EXCEPT ![t] = none]
        /\ pc' = [pc EXCEPT ![t] = "called"]
        /\ UNCHANGED <<ring, replacing, lost, missed>>
    BY DEF Call
  <1>3. /\ produced' \in 0..MaxSamples
        /\ t = "writer" => produced' = produced + n
        /\ t # "writer" => produced' = produced
    BY <1>1 DEF Call
  <1>4. Calls'
    <2>1. /\ asked' \in [Threads -> 0..MaxBlock]
          /\ remaining' \in [Threads -> 0..MaxBlock]
          /\ \A u \in Threads : remaining'[u] <= asked'[u]
          /\ elapsed' \in [Threads -> BOOLEAN]
      BY <1>1, <1>2
    <2>2. CASE t = "writer"
      <3>1. asked'["writer"] = n /\ n \in Nat
        BY <1>1, <1>2, <2>2
      <3> QED BY <1>1, <1>2, <1>3, <2>1, <2>2, <3>1 DEF Calls
    <2>3. CASE t # "writer"
      <3>1. asked'["writer"] = asked["writer"]
        BY <1>1, <1>2, <2>3 DEF Threads
      <3> QED BY <1>1, <1>2, <1>3, <2>1, <2>3, <3>1 DEF Calls
    <2> QED BY <2>2, <2>3
  <1>5. Ring'
    BY <1>2 DEF Inv, TypeOK, Ring, ring, Slots, Wrap
  <1>6. Rest'
    BY <1>2, <1>3 DEF Inv, TypeOK, Rest
  <1>7. Reasons'
    BY <1>2 DEF Inv, TypeOK, Reasons, Waiting, ring, Threads
  <1>8. (Ring /\ Rest /\ Calls)' => (TypeOK /\ asked["writer"] <= produced)'
    BY DEF TypeOK, Ring, Rest, Calls
  <1> QED BY <1>4, <1>5, <1>6, <1>7, <1>8 DEF Inv

LEMMA EndInv ==
  ASSUME Inv, NEW t \in Threads, FindsNone(t) \/ Timeout(t)
  PROVE  Inv'
  <1>1. /\ pc' = [pc EXCEPT ![t] = "idle"]
        /\ UNCHANGED <<ring, replacing, produced>>
        /\ missed' = missed \/ missed' = [missed EXCEPT ![t] = FALSE]
    BY DEF FindsNone, Timeout
  <1>2. Calls'
    BY EndsCalls DEF FindsNone, Timeout
  <1>3. Ring'
    BY <1>1 DEF Inv, TypeOK, Ring, ring, Slots, Wrap
  <1>4. Rest'
    BY <1>1 DEF Inv, TypeOK, Rest
  <1>5. Reasons'
    BY <1>1 DEF Inv, TypeOK, Reasons, Waiting, ring, Threads
  <1>6. (Ring /\ Rest /\ Calls)' => (TypeOK /\ asked["writer"] <= produced)'
    BY DEF TypeOK, Ring, Rest, Calls
  <1> QED BY <1>2, <1>3, <1>4, <1>5, <1>6 DEF Inv

LEMMA WaitInv ==
  ASSUME Inv, NEW t \in Threads, TimePasses(t) \/ Wait(t)
  PROVE  Inv'
  <1>1. /\ UNCHANGED <<ring, replacing, asked, remaining, produced, lost, missed>>
        /\ elapsed' = elapsed \/ elapsed' = [elapsed EXCEPT ![t] = TRUE]
        /\ \/ pc' = pc
           \/ pc[t] = "releasing" /\ pc' = [pc EXCEPT ![t] = "asleep"]
    BY DEF TimePasses, Wait
  <1>2. Calls'
    BY <1>1 DEF Inv, TypeOK, Calls
  <1>3. Ring'
    BY <1>1 DEF Inv, TypeOK, Ring, ring, Slots, Wrap
  <1>4. Rest'
    BY <1>1 DEF Inv, TypeOK, Rest
  <1>5. Reasons'
    BY <1>1 DEF Inv, TypeOK, Reasons, Waiting, ring, Threads
  <1>6. (Ring /\ Rest /\ Calls)' => (TypeOK /\ asked["writer"] <= produced)'
    BY DEF TypeOK, Ring, Rest, Calls
  <1> QED BY <1>2, <1>3, <1>4, <1>5, <1>6 DEF Inv

(* wakeOne() of a thread, with the typing that it keeps. *)
LEMMA Waking ==
  ASSUME Inv, NEW t \in Threads, NEW where,
         where \in [Threads -> {"idle", "called", "releasing", "asleep", "woken"}],
         WakeOne(t, where)
  PROVE  /\ pc' \in [Threads -> {"idle", "called", "releasing", "asleep", "woken"}]
         /\ missed' \in [Threads -> BOOLEAN]
         /\ Waiting(t)' => missed'[t]
         /\ \A u \in Threads \ {t} : pc'[u] = where[u] /\ missed'[u] = missed[u]
  <1>1. missed \in [Threads -> BOOLEAN]
    BY DEF Inv, TypeOK
  <1>2. missed' = [missed EXCEPT ![t] = where[t] = "releasing"]
    BY DEF WakeOne
  <1>3. missed' \in [Threads -> BOOLEAN] /\ (missed'[t] <=> where[t] = "releasing")
    BY <1>1, <1>2, Zenon
  <1>4. \A u \in Threads \ {t} : missed'[u] = missed[u]
    BY <1>1, <1>2
  <1>5. /\ pc' \in [Threads -> {"idle", "called", "releasing", "asleep", "woken"}]
        /\ \A u \in Threads \ {t} : pc'[u] = where[u]
        /\ pc'[t] = IF where[t] = "asleep" THEN "woken" ELSE where[t]
    BY DEF WakeOne
  <1> QED BY <1>3, <1>4, <1>5 DEF Waiting

(* write() with m_mutex: whatever it stores, it goes on to wait only with   *)
(* the FIFO full, and does not leave a reader that waits without a signal.  *)
LEMMA WriteInv ==
  ASSUME Inv, Write
  PROVE  Inv'
  <1> DEFINE n    == Room(remaining["writer"])
             left == remaining["writer"] - n
             pcs  == {"idle", "called", "releasing", "asleep", "woken"}
  <1>1. /\ m_size \in Nat /\ m_size > 0 /\ m_fill \in 0..m_size
        /\ m_head \in 0..(m_size - 1) /\ m_tail \in 0..(m_size - 1)
        /\ m_fifo \in [0..(m_size - 1) -> 0..MaxSamples]
        /\ MaxSamples \in Nat /\ MaxBlock \in Nat
    BY Bounds DEF Inv
  <1>2. /\ remaining["writer"] \in 0..produced /\ produced \in 0..MaxSamples
        /\ pc \in [Threads -> pcs] /\ missed \in [Threads -> BOOLEAN]
    <2>1. /\ remaining["writer"] \in 0..MaxBlock /\ asked["writer"] \in 0..MaxBlock
          /\ remaining["writer"] <= asked["writer"] /\ asked["writer"] <= produced
          /\ produced \in 0..MaxSamples
      BY DEF Inv, TypeOK, Threads
    <2>2. remaining["writer"] \in 0..produced
      BY <1>1, <2>1
    <2> QED BY <2>1, <2>2 DEF Inv, TypeOK
  <1>3. /\ n \in 0..remaining["writer"] /\ n \in 0..(m_size - m_fill)
        /\ left \in 0..remaining["writer"]
        /\ left # 0 => n = m_size - m_fill
    BY <1>1, <1>2 DEF Room, AtMost
  <1>4. /\ m_fifo' = [s \in Slots(m_size) |->
                         LET i == Wrap(s + m_size - m_tail)
                         IN IF i < n THEN produced - remaining["writer"] + i + 1
                                     ELSE m_fifo[s]]
        /\ m_tail' = Wrap(m_tail + n) /\ m_fill' = m_fill + n
        /\ Continues("writer", left, buffer)
        /\ ~replacing /\ pc["writer"] \in {"called", "woken"}
        /\ UNCHANGED <<m_size, m_head, replacing, produced>>
    BY DEF Write
  <1>5. \/ Signals("writer", n) /\ WakeOne("reader", Afterwards("writer", left))
        \/ /\ ~Signals("writer", n)
           /\ pc' = Afterwards("writer", left) /\ UNCHANGED missed
    BY DEF Write
  <1> HIDE DEF n, left
  <1>6. Calls'
    BY <1>3, <1>4, ContinuesCalls DEF Threads
  <1>7. Ring'
    <2>1. m_fifo' \in [Slots(m_size) -> 0..MaxSamples]
      <3> SUFFICES ASSUME NEW s \in Slots(m_size)
                   PROVE  m_fifo'[s] \in 0..MaxSamples
        BY <1>4
      <3> DEFINE i == Wrap(s + m_size - m_tail)
      <3>1. m_fifo'[s] = IF i < n THEN produced - remaining["writer"] + i + 1
                                  ELSE m_fifo[s]
        BY <1>4
      <3>2. s \in 0..(m_size - 1) /\ m_fifo[s] \in 0..MaxSamples
        BY <1>1 DEF Slots
      <3>3. s + m_size - m_tail \in 0..(m_size + m_size - 1)
        BY <1>1, <3>2
      <3>4. i \in 0..(m_size - 1)
        BY <1>1, <3>3, WrapIs
      <3> HIDE DEF i
      <3>5. i < n => produced - remaining["writer"] + i + 1 \in 0..MaxSamples
        <4> DEFINE r == remaining["writer"]
        <4>1. r \in Nat /\ produced \in Nat /\ r <= produced /\ produced <= MaxSamples
          BY <1>1, <1>2
        <4>2. n \in Nat /\ n <= r /\ i \in Nat
          BY <1>1, <1>2, <1>3, <3>4
        <4> HIDE DEF r
        <4>3. i < n => produced - r + i + 1 \in 0..MaxSamples
          BY <1>1, <4>1, <4>2
        <4> QED BY <4>3 DEF r
      <3> QED BY <3>1, <3>2, <3>5
    <2>2. m_fill' \in 0..m_size
      BY <1>1, <1>3, <1>4
    <2>3. Wrap(m_tail + n) = Wrap(m_head + (m_fill + n))
      BY <1>3, TailMoves DEF Inv
    <2> QED BY <1>4, <2>1, <2>2, <2>3 DEF Inv, TypeOK, Ring, Wrap, Slots
  <1>8. /\ Afterwards("writer", left) \in [Threads -> pcs]
        /\ Afterwards("writer", left)["reader"] = pc["reader"]
        /\ Afterwards("writer", left)["writer"] =
             IF left = 0 \/ elapsed["writer"] THEN "idle" ELSE "releasing"
    BY <1>2 DEF Afterwards, Threads
  <1>9. m_fill' = m_size' \/ left = 0
    BY <1>1, <1>3, <1>4
  <1>10. Rest' /\ Reasons'
    <2>1. CASE Signals("writer", n) /\ WakeOne("reader", Afterwards("writer", left))
      <3>1. /\ pc' \in [Threads -> pcs] /\ missed' \in [Threads -> BOOLEAN]
            /\ Waiting("reader")' => missed'["reader"]
            /\ pc'["writer"] = Afterwards("writer", left)["writer"]
        BY <1>8, <2>1, Waking DEF Threads
      <3>2. Waiting("writer")' => m_fill' = m_size'
        BY <1>8, <1>9, <3>1 DEF Waiting
      <3> QED BY <1>2, <1>4, <3>1, <3>2 DEF Inv, TypeOK, Rest, Reasons
    <2>2. CASE /\ ~Signals("writer", n)
               /\ pc' = Afterwards("writer", left) /\ UNCHANGED missed
      <3>1. Waiting("writer")' => m_fill' = m_size'
        BY <1>8, <1>9, <2>2 DEF Waiting
      <3>2. m_fill' = m_fill
        BY <1>1, <1>3, <1>4, <2>2 DEF Signals
      <3>3. Waiting("reader")' /\ ~missed'["reader"] => m_fill' = 0
        BY <1>8, <2>2, <3>2 DEF Inv, Reasons, Waiting
      <3> QED BY <1>2, <1>4, <1>8, <2>2, <3>1, <3>3 DEF Rest, Reasons, Inv, TypeOK
    <2> QED BY <1>5, <2>1, <2>2
  <1>11. (Ring /\ Rest /\ Calls)' => (TypeOK /\ asked["writer"] <= produced)'
    BY DEF TypeOK, Ring, Rest, Calls
  <1> QED BY <1>6, <1>7, <1>10, <1>11 DEF Inv

(* read() with m_mutex, likewise. *)
LEMMA ReadInv ==
  ASSUME Inv, Read
  PROVE  Inv'
  <1> DEFINE n      == AtMost(remaining["reader"], m_fill)
             left   == remaining["reader"] - n
             copied == buffer \o [i \in 1..n |-> m_fifo[Wrap(m_head + i - 1)]]
             pcs    == {"idle", "called", "releasing", "asleep", "woken"}
  <1>1. /\ m_size \in Nat /\ m_size > 0 /\ m_fill \in 0..m_size
        /\ m_head \in 0..(m_size - 1) /\ m_tail \in 0..(m_size - 1)
        /\ MaxSamples \in Nat /\ MaxBlock \in Nat
    BY Bounds DEF Inv
  <1>2. /\ remaining["reader"] \in 0..MaxBlock
        /\ pc \in [Threads -> pcs] /\ missed \in [Threads -> BOOLEAN]
    BY DEF Inv, TypeOK, Threads
  <1>3. /\ n \in 0..remaining["reader"] /\ n \in 0..m_fill
        /\ left \in 0..remaining["reader"]
        /\ left # 0 => n = m_fill
    BY <1>1, <1>2 DEF AtMost
  <1>4. /\ m_head' = Wrap(m_head + n) /\ m_fill' = m_fill - n
        /\ Continues("reader", left, copied)
        /\ ~replacing /\ pc["reader"] \in {"called", "woken"}
        /\ UNCHANGED <<m_fifo, m_size, m_tail, replacing, produced>>
    BY DEF Read
  <1>5. \/ Signals("reader", n) /\ WakeOne("writer", Afterwards("reader", left))
        \/ /\ ~Signals("reader", n)
           /\ pc' = Afterwards("reader", left) /\ UNCHANGED missed
    BY DEF Read
  <1> HIDE DEF n, left, copied
  <1>6. Calls'
    BY <1>3, <1>4, ContinuesCalls DEF Threads
  <1>7. Ring'
    <2>1. m_fill' \in 0..m_size
      BY <1>1, <1>3, <1>4
    <2>2. /\ Wrap(m_head + n) \in 0..(m_size - 1)
          /\ m_tail = Wrap(Wrap(m_head + n) + (m_fill - n))
      BY <1>3, HeadMoves DEF Inv
    <2> QED BY <1>4, <2>1, <2>2 DEF Inv, TypeOK, Ring, Wrap, Slots
  <1>8. /\ Afterwards("reader", left) \in [Threads -> pcs]
        /\ Afterwards("reader", left)["writer"] = pc["writer"]
        /\ Afterwards("reader", left)["reader"] =
             IF left = 0 \/ elapsed["reader"] THEN "idle" ELSE "releasing"
    BY <1>2 DEF Afterwards, Threads
  <1>9. m_fill' = 0 \/ left = 0
    BY <1>1, <1>3, <1>4
  <1>10. Rest' /\ Reasons'
    <2>1. CASE Signals("reader", n) /\ WakeOne("writer", Afterwards("reader", left))
      <3>1. /\ pc' \in [Threads -> pcs] /\ missed' \in [Threads -> BOOLEAN]
            /\ Waiting("writer")' => missed'["writer"]
            /\ pc'["reader"] = Afterwards("reader", left)["reader"]
        BY <1>8, <2>1, Waking DEF Threads
      <3>2. Waiting("reader")' => m_fill' = 0
        BY <1>8, <1>9, <3>1 DEF Waiting
      <3> QED BY <1>2, <1>4, <3>1, <3>2 DEF Inv, TypeOK, Rest, Reasons
    <2>2. CASE /\ ~Signals("reader", n)
               /\ pc' = Afterwards("reader", left) /\ UNCHANGED missed
      <3>1. Waiting("reader")' => m_fill' = 0
        BY <1>8, <1>9, <2>2 DEF Waiting
      <3>2. m_fill' = m_fill
        BY <1>1, <1>3, <1>4, <2>2 DEF Signals
      <3>3. Waiting("writer")' /\ ~missed'["writer"] => m_fill' = m_size'
        BY <1>4, <1>8, <2>2, <3>2 DEF Inv, Reasons, Waiting
      <3> QED BY <1>2, <1>4, <1>8, <2>2, <3>1, <3>3 DEF Rest, Reasons, Inv, TypeOK
    <2> QED BY <1>5, <2>1, <2>2
  <1>11. (Ring /\ Rest /\ Calls)' => (TypeOK /\ asked["writer"] <= produced)'
    BY DEF TypeOK, Ring, Rest, Calls
  <1> QED BY <1>6, <1>7, <1>10, <1>11 DEF Inv

(* What the ring holds was written. *)
LEMMA HeldIs ==
  ASSUME Inv, NEW i \in 1..m_fill
  PROVE  Contents[i] \in 0..MaxSamples
  <1>1. /\ m_size \in Nat /\ m_size > 0 /\ m_fill \in 0..m_size
        /\ m_head \in 0..(m_size - 1)
        /\ m_fifo \in [0..(m_size - 1) -> 0..MaxSamples]
    BY Bounds DEF Inv
  <1> DEFINE x == m_head + i - 1
  <1>2. x \in 0..(m_size + m_size - 1)
    BY <1>1
  <1> HIDE DEF x
  <1>3. Wrap(x) \in 0..(m_size - 1)
    BY <1>1, <1>2, WrapIs
  <1> QED BY <1>1, <1>3 DEF x, Contents

(* The FIFO is emptied, in part or as a whole. *)
LEMMA EmptyInv ==
  ASSUME Inv, (\E n \in 1..m_fill : Drain(n)) \/ Clear \/ SetSize
  PROVE  Inv'
  <1>1. /\ m_size \in Nat /\ m_size > 0 /\ m_fill \in 0..m_size
        /\ m_head \in 0..(m_size - 1)
    BY Bounds DEF Inv
  <1>2. PICK n \in 0..m_fill :
          /\ m_fill' = m_fill - n
          /\ \/ m_head' = Wrap(m_head + n) /\ m_tail' = m_tail
             \/ m_head' = 0 /\ m_tail' = 0 /\ n = m_fill
    BY <1>1 DEF Drain, Clear, SetSize
  <1>3. /\ UNCHANGED <<m_fifo, m_size, asked, remaining, elapsed, produced>>
        /\ replacing' \in BOOLEAN /\ ~replacing
        /\ replacing' => m_fill' = 0 /\ m_head' = 0 /\ m_tail' = 0
    <2>1. UNCHANGED <<m_fifo, m_size, asked, remaining, elapsed, produced>>
      BY DEF Drain, Clear, SetSize
    <2>2. ~replacing /\ (replacing' = replacing \/ replacing' = TRUE)
      BY DEF Drain, Clear, SetSize
    <2>3. replacing' \in BOOLEAN
      BY <2>2, Zenon DEF Inv, TypeOK
    <2>4. replacing' => m_fill' = 0 /\ m_head' = 0 /\ m_tail' = 0
      BY <2>2 DEF Drain, Clear, SetSize
    <2> QED BY <2>1, <2>2, <2>3, <2>4
  <1>4. lost' \subseteq 0..MaxSamples
    <2>1. lost \subseteq 0..MaxSamples
      BY DEF Inv, TypeOK
    <2>2. \A k \in lost' \ lost : \E i \in 1..m_fill : k = Contents[i]
      BY <1>1 DEF Drain, Clear, SetSize, Held
    <2> QED BY <2>1, <2>2, HeldIs
  <1>5. Calls'
    BY <1>3, <1>4 DEF Inv, TypeOK, Calls
  <1>6. Ring'
    <2>1. m_fill' \in 0..m_size
      BY <1>1, <1>2
    <2>2. CASE m_head' = Wrap(m_head + n) /\ m_tail' = m_tail
      <3>1. /\ Wrap(m_head + n) \in 0..(m_size - 1)
            /\ m_tail = Wrap(Wrap(m_head + n) + (m_fill - n))
        BY HeadMoves DEF Inv
      <3> QED BY <1>2, <1>3, <2>1, <2>2, <3>1 DEF Inv, TypeOK, Ring, Wrap, Slots
    <2>3. CASE m_head' = 0 /\ m_tail' = 0 /\ n = m_fill
      <3>1. m_fill' = 0 /\ Wrap(0) = 0
        BY <1>1, <1>2, <2>3, WrapIs
      <3> QED BY <1>1, <1>3, <2>1, <2>3, <3>1 DEF Inv, TypeOK, Ring, Wrap, Slots
    <2> QED BY <1>2, <2>2, <2>3
  <1>7. Rest' /\ Reasons'
    <2>1. m_fill = 0 => m_fill' = 0
      <3>1. n \in Nat /\ n <= m_fill /\ m_fill' = m_fill - n /\ m_fill \in Nat
        BY <1>1, <1>2
      <3>2. m_fill = 0 => n = 0
        BY <3>1
      <3>3. ASSUME m_fill = 0 PROVE m_fill' = 0
        <4>1. n = 0 /\ m_fill' = 0 - 0
          BY <3>1, <3>2, <3>3
        <4> QED BY <4>1
      <3> QED BY <3>3
    <2>2. CASE WakeOne("writer", pc)
      <3>1. /\ pc' \in [Threads -> {"idle", "called", "releasing", "asleep", "woken"}]
            /\ missed' \in [Threads -> BOOLEAN]
            /\ Waiting("writer")' => missed'["writer"]
            /\ pc'["reader"] = pc["reader"] /\ missed'["reader"] = missed["reader"]
        BY <2>2, Waking DEF Inv, TypeOK, Threads
      <3> QED BY <1>3, <2>1, <3>1 DEF Inv, TypeOK, Rest, Reasons, Waiting
    <2>3. CASE SetSize
      <3>1. /\ pc' = pc
            /\ missed' = [missed EXCEPT !["writer"] = @ \/ Waiting("writer")]
        BY <2>3 DEF SetSize, Waiting
      <3>2. missed \in [Threads -> BOOLEAN]
        BY DEF Inv, TypeOK
      <3>3. missed' \in [Threads -> BOOLEAN]
        BY <3>1, <3>2, Zenon
      <3>4. /\ Waiting("writer") => missed'["writer"]
            /\ missed'["reader"] = missed["reader"]
        BY <3>1, <3>2 DEF Threads
      <3> QED BY <1>3, <2>1, <3>1, <3>3, <3>4 DEF Inv, TypeOK, Rest, Reasons, Waiting
    <2> QED BY <2>2, <2>3 DEF Drain, Clear
  <1>8. (Ring /\ Rest /\ Calls)' => (TypeOK /\ asked["writer"] <= produced)'
    BY DEF TypeOK, Ring, Rest, Calls
  <1> QED BY <1>5, <1>6, <1>7, <1>8 DEF Inv

LEMMA CreatedInv ==
  ASSUME Inv, NEW n \in Sizes, Created(n)
  PROVE  Inv'
  <1>1. /\ replacing /\ replacing' = FALSE /\ m_size' = n
        /\ m_fifo' = [s \in Slots(n) |-> 0]
        /\ UNCHANGED <<m_fill, m_head, m_tail, pc, asked, remaining, elapsed,
                       produced, lost, missed>>
    BY DEF Created
  <1>2. m_fill = 0 /\ m_head = 0 /\ m_tail = 0
    BY <1>1 DEF Inv, Reasons
  <1>3. n \in Nat /\ n > 0 /\ MaxSamples \in Nat
    BY SizesAssumption, BlocksAssumption
  <1>4. Calls'
    BY <1>1 DEF Inv, TypeOK, Calls
  <1>5. Ring'
    <2>1. m_fifo' \in [Slots(n) -> 0..MaxSamples]
      BY <1>1, <1>3
    <2>2. (m_head + m_fill) % n = 0
      BY <1>2, <1>3
    <2> QED BY <1>1, <1>2, <1>3, <2>1, <2>2 DEF Ring, Wrap, Slots
  <1>6. Rest'
    BY <1>1 DEF Inv, TypeOK, Rest
  <1>7. Reasons'
    BY <1>1, <1>2 DEF Inv, Reasons, Waiting
  <1>8. (Ring /\ Rest /\ Calls)' => (TypeOK /\ asked["writer"] <= produced)'
    BY DEF TypeOK, Ring, Rest, Calls
  <1> QED BY <1>4, <1>5, <1>6, <1>7, <1>8 DEF Inv

LEMMA NextInv == Inv /\ [Next]_vars => Inv'
  <1> SUFFICES ASSUME Inv, [Next]_vars PROVE Inv'
    OBVIOUS
  <1>1. ASSUME NEW t \in Threads, NEW n \in 1..MaxBlock, NEW none \in BOOLEAN,
               Call(t, n, none)
        PROVE  Inv'
    BY <1>1, CallInv
  <1>2. ASSUME NEW t \in Threads, FindsNone(t) \/ Timeout(t) PROVE Inv'
    BY <1>2, EndInv
  <1>3. ASSUME NEW t \in Threads, TimePasses(t) \/ Wait(t) PROVE Inv'
    BY <1>3, WaitInv
  <1>4. CASE Write
    BY <1>4, WriteInv
  <1>5. CASE Read
    BY <1>5, ReadInv
  <1>6. CASE (\E n \in 1..m_fill : Drain(n)) \/ Clear \/ SetSize
    BY <1>6, EmptyInv
  <1>7. ASSUME NEW n \in Sizes, Created(n) PROVE Inv'
    BY <1>7, CreatedInv
  <1>8. CASE UNCHANGED vars
    BY <1>8 DEF Inv, TypeOK, Reasons, Waiting, vars, ring, Wrap
  <1> QED BY <1>1, <1>2, <1>3, <1>4, <1>5, <1>6, <1>7, <1>8 DEF Next

THEOREM Invariance == Spec => []Inv
  <1> QED BY InitInv, NextInv, PTL DEF Spec

(* The ring, whatever the sizes it is given: never more samples than slots, *)
(* and indexes inside it that agree with their number.                      *)
THEOREM TypeCorrect == Spec => []TypeOK
  <1>1. Inv => TypeOK
    BY DEF Inv
  <1> QED BY <1>1, Invariance, PTL

(* No wake-up is missing but the two kinds that "missed" records: between   *)
(* the release of m_mutex and the wait, and that of setSize().              *)
THEOREM WaitsAreForReason == Spec => []WaitsForReason
  <1>1. Inv => WaitsForReason
    BY DEF Inv, Reasons, Waiting, WaitsForReason
  <1> QED BY <1>1, Invariance, PTL
-----------------------------------------------------------------------------
(* Numbers that ascend.                                                    *)
Ascends(list) == \A i, j \in 1..Len(list) : i < j => list[i] < list[j]

(* Those of a list.                                                        *)
Elements(list) == {list[i] : i \in 1..Len(list)}

(* The n numbers after m.                                                  *)
Span(m, n) == [i \in 1..n |-> m + i]

(* A list followed by another has what both have, and ascends if both do   *)
(* and the second has only greater numbers.                                *)
LEMMA Joined ==
  ASSUME NEW s \in Seq(Nat), NEW t \in Seq(Nat)
  PROVE  /\ s \o t \in Seq(Nat)
         /\ Elements(s \o t) = Elements(s) \cup Elements(t)
         /\ (/\ Ascends(s) /\ Ascends(t)
             /\ \A x \in Elements(s), y \in Elements(t) : x < y) => Ascends(s \o t)
<1> DEFINE both == s \o t  m == Len(s)  n == Len(t)
<1>1. /\ both \in Seq(Nat) /\ Len(both) = m + n
      /\ \A i \in 1..(m + n) : both[i] = IF i <= m THEN s[i] ELSE t[i - m]
      /\ m \in Nat /\ n \in Nat
  BY ConcatProperties
<1> HIDE DEF both, m, n
<1>2. /\ \A i \in 1..m : both[i] = s[i] /\ i \in 1..(m + n)
      /\ \A i \in 1..n : both[m + i] = t[i] /\ m + i \in 1..(m + n)
      /\ \A i \in 1..(m + n) : i \in 1..m \/ (i - m \in 1..n /\ both[i] = t[i - m])
  <2>1. ASSUME NEW i \in 1..m PROVE both[i] = s[i] /\ i \in 1..(m + n)
    <3>1. i \in 1..(m + n) /\ i <= m
      BY <1>1
    <3> QED BY <1>1, <3>1
  <2>2. ASSUME NEW i \in 1..n PROVE both[m + i] = t[i] /\ m + i \in 1..(m + n)
    <3>1. m + i \in 1..(m + n) /\ ~(m + i <= m) /\ (m + i) - m = i
      BY <1>1
    <3> QED BY <1>1, <3>1
  <2>3. ASSUME NEW i \in 1..(m + n), i \notin 1..m
        PROVE  i - m \in 1..n /\ both[i] = t[i - m]
    <3>1. ~(i <= m) /\ i - m \in 1..n
      BY <1>1, <2>3
    <3> QED BY <1>1, <3>1
  <2> QED BY <2>1, <2>2, <2>3
<1>4. Elements(both) = Elements(s) \cup Elements(t)
  <2>1. ASSUME NEW i \in 1..m PROVE s[i] \in Elements(both)
    BY <1>1, <1>2 DEF Elements
  <2>2. ASSUME NEW i \in 1..n PROVE t[i] \in Elements(both)
    <3>1. m + i \in 1..Len(both) /\ both[m + i] = t[i]
      BY <1>1, <1>2
    <3> QED BY <3>1 DEF Elements
  <2>3. ASSUME NEW i \in 1..(m + n) PROVE both[i] \in Elements(s) \cup Elements(t)
    <3>1. CASE i \in 1..m
      BY <1>2, <3>1 DEF Elements, m
    <3>2. CASE i - m \in 1..n /\ both[i] = t[i - m]
      BY <3>2 DEF Elements, n
    <3> QED BY <1>2, <3>1, <3>2
  <2> QED BY <2>1, <2>2, <2>3, <1>1 DEF Elements, m, n
<1>5. ASSUME Ascends(s), Ascends(t),
             \A x \in Elements(s), y \in Elements(t) : x < y
      PROVE  Ascends(both)
  <2> SUFFICES ASSUME NEW i \in 1..(m + n), NEW j \in 1..(m + n), i < j
               PROVE  both[i] < both[j]
    BY <1>1 DEF Ascends
  <2>1. CASE i <= m /\ j <= m
    <3>1. i \in 1..m /\ j \in 1..m
      BY <2>1, <1>1
    <3> QED BY <1>2, <1>5, <3>1 DEF Ascends, m
  <2>2. CASE i <= m /\ j > m
    <3>1. i \in 1..m /\ j - m \in 1..n /\ both[j] = t[j - m]
      BY <2>2, <1>1
    <3>2. s[i] \in Elements(s) /\ t[j - m] \in Elements(t)
      BY <3>1 DEF Elements, m, n
    <3> QED BY <1>2, <1>5, <3>1, <3>2
  <2>3. CASE i > m
    <3>1. /\ i - m \in 1..n /\ both[i] = t[i - m]
          /\ j - m \in 1..n /\ both[j] = t[j - m]
          /\ i - m < j - m
      BY <2>3, <1>1
    <3> QED BY <1>5, <3>1 DEF Ascends, n
  <2> QED BY <2>1, <2>2, <2>3, <1>1
<1> QED BY <1>1, <1>4, <1>5 DEF both

(* A span ascends and has its numbers.                                     *)
LEMMA SpanIs ==
  ASSUME NEW m \in Nat, NEW n \in Nat
  PROVE  /\ Span(m, n) \in Seq(Nat) /\ Len(Span(m, n)) = n
         /\ Ascends(Span(m, n)) /\ Elements(Span(m, n)) = (m + 1)..(m + n)
<1> DEFINE span == Span(m, n)
<1>1. span \in Seq(Nat) /\ Len(span) = n /\ \A i \in 1..n : span[i] = m + i
  BY DEF Span
<1> HIDE DEF span
<1>2. Ascends(span)
  BY <1>1 DEF Ascends
<1>3. ASSUME NEW k \in (m + 1)..(m + n) PROVE k \in Elements(span)
  <2>1. k - m \in 1..n /\ span[k - m] = k
    BY <1>1
  <2> QED BY <1>1, <2>1 DEF Elements
<1>4. Elements(span) \subseteq (m + 1)..(m + n)
  BY <1>1 DEF Elements
<1> QED BY <1>1, <1>2, <1>3, <1>4 DEF span

(* A list that ascends, cut in two: all the numbers of the first part are  *)
(* less than those of the second, and together they are those of the list. *)
LEMMA Split ==
  ASSUME NEW s \in Seq(Nat), NEW n \in 0..Len(s), Ascends(s)
  PROVE  LET front == SubSeq(s, 1, n)
             back  == SubSeq(s, n + 1, Len(s))
         IN /\ front \in Seq(Nat) /\ back \in Seq(Nat)
            /\ Len(front) = n /\ Len(back) = Len(s) - n
            /\ Ascends(front) /\ Ascends(back)
            /\ Elements(s) = Elements(front) \cup Elements(back)
            /\ \A x \in Elements(front), y \in Elements(back) : x < y
<1> DEFINE front == SubSeq(s, 1, n)
           back  == SubSeq(s, n + 1, Len(s))
           m     == Len(s)
<1>1. m \in Nat /\ n \in Nat /\ n <= m
  OBVIOUS
<1>2. /\ front \in Seq(Nat) /\ Len(front) = n
      /\ \A i \in 1..n : front[i] = s[i] /\ i \in 1..m
  BY <1>1, SubSeqProperties
<1>3. /\ back \in Seq(Nat) /\ Len(back) = m - n
      /\ \A i \in 1..(m - n) : back[i] = s[n + i] /\ n + i \in 1..m
  <2>1. /\ n + 1 \in Int /\ m \in Int /\ m - (n + 1) + 1 = m - n
        /\ \A i \in (n + 1)..m : s[i] \in Nat
    BY <1>1
  <2>2. /\ back \in Seq(Nat) /\ Len(back) = IF n + 1 <= m THEN m - (n + 1) + 1 ELSE 0
        /\ \A i \in 1..(m - (n + 1) + 1) : back[i] = s[n + 1 + i - 1]
    BY <2>1, SubSeqProperties
  <2> HIDE DEF m, back
  <2>3. ASSUME NEW i \in 1..(m - n) PROVE back[i] = s[n + i] /\ n + i \in 1..m
    <3>1. n + 1 + i - 1 = n + i /\ n + i \in 1..m
      BY <1>1
    <3> QED BY <2>1, <2>2, <3>1
  <2>4. Len(back) = m - n
    BY <1>1, <2>1, <2>2
  <2> QED BY <2>2, <2>3, <2>4
<1>4. \A i, j \in 1..m : i < j => s[i] < s[j]
  BY DEF Ascends
<1> HIDE DEF front, back, m
<1>5. Ascends(front) /\ Ascends(back)
  <2>1. Ascends(front)
    BY <1>1, <1>2, <1>4 DEF Ascends
  <2>2. ASSUME NEW i \in 1..(m - n), NEW j \in 1..(m - n), i < j
        PROVE  back[i] < back[j]
    <3>1. n + i \in 1..m /\ n + j \in 1..m /\ n + i < n + j
      BY <1>1, <2>2
    <3> QED BY <1>3, <1>4, <3>1
  <2> QED BY <1>3, <2>1, <2>2 DEF Ascends
<1>6. ASSUME NEW x \in Elements(front), NEW y \in Elements(back) PROVE x < y
  <2>1. PICK i \in 1..n : x = front[i]
    BY <1>2 DEF Elements
  <2>2. PICK j \in 1..(m - n) : y = back[j]
    BY <1>3 DEF Elements
  <2>3. i \in 1..m /\ n + j \in 1..m /\ i < n + j
    BY <1>1
  <2> QED BY <1>2, <1>3, <1>4, <2>1, <2>2, <2>3
<1>7. Elements(s) = Elements(front) \cup Elements(back)
  <2>1. ASSUME NEW i \in 1..m PROVE s[i] \in Elements(front) \cup Elements(back)
    <3>1. CASE i <= n
      BY <1>1, <1>2, <3>1 DEF Elements
    <3>2. CASE i > n
      <4>1. i - n \in 1..(m - n) /\ back[i - n] = s[n + (i - n)] /\ n + (i - n) = i
        BY <1>1, <1>3, <3>2
      <4> QED BY <1>3, <4>1 DEF Elements
    <3> QED BY <1>1, <3>1, <3>2
  <2>2. Elements(front) \subseteq Elements(s)
    BY <1>2 DEF Elements, m
  <2>3. Elements(back) \subseteq Elements(s)
    BY <1>3 DEF Elements, m
  <2> QED BY <2>1, <2>2, <2>3 DEF Elements, m
<1> QED BY <1>2, <1>3, <1>5, <1>6, <1>7 DEF front, back, m

(* T was taken from the ring, C is in it, W is the last number written and *)
(* P the last there is: T and C ascend, one after the other, up to W, and  *)
(* of all the numbers the writer is done with L has the others.            *)
Account(T, C, W, P, L) ==
  /\ T \in Seq(Nat) /\ C \in Seq(Nat) /\ Ascends(T) /\ Ascends(C)
  /\ \A x \in Elements(T), y \in Elements(C) : x < y
  /\ P \in Nat /\ W \in 0..P
  /\ Elements(T) \cup Elements(C) \subseteq 1..W
  /\ L \subseteq 1..P
  /\ \A k \in 1..P : k \in L <=> k \notin Elements(T) \cup Elements(C) /\ k <= W

(* A call brings more numbers to write.                                    *)
LEMMA AccountMore ==
  ASSUME NEW T, NEW C, NEW P, NEW L, Account(T, C, P, P, L), NEW n \in Nat
  PROVE  Account(T, C, P, P + n, L)
  BY DEF Account

(* A write that ends loses those it has not written.                       *)
LEMMA AccountEnds ==
  ASSUME NEW T, NEW C, NEW W, NEW P, NEW L, Account(T, C, W, P, L)
  PROVE  Account(T, C, P, P, L \cup ((W + 1)..P))
  BY DEF Account

(* Those that are written come after what the ring has.                    *)
LEMMA AccountWrites ==
  ASSUME NEW T, NEW C, NEW W, NEW P, NEW L, Account(T, C, W, P, L),
         NEW n \in 0..(P - W)
  PROVE  Account(T, C \o Span(W, n), W + n, P, L)
<1>1. /\ T \in Seq(Nat) /\ C \in Seq(Nat) /\ Ascends(T) /\ Ascends(C)
      /\ P \in Nat /\ W \in Nat /\ W <= P /\ n \in Nat /\ n <= P - W
      /\ W + n \in 0..P
      /\ Elements(T) \subseteq 1..W /\ Elements(C) \subseteq 1..W
  BY DEF Account
<1>2. /\ Span(W, n) \in Seq(Nat) /\ Ascends(Span(W, n))
      /\ Elements(Span(W, n)) = (W + 1)..(W + n)
  BY <1>1, SpanIs
<1>3. \A x \in 1..W, y \in (W + 1)..(W + n) : x < y
  BY <1>1
<1>4. /\ C \o Span(W, n) \in Seq(Nat) /\ Ascends(C \o Span(W, n))
      /\ Elements(C \o Span(W, n)) = Elements(C) \cup ((W + 1)..(W + n))
  BY <1>1, <1>2, <1>3, Joined
<1>5. \A x \in Elements(T), y \in Elements(C \o Span(W, n)) : x < y
  BY <1>1, <1>3, <1>4 DEF Account
<1>6. Elements(T) \cup Elements(C \o Span(W, n)) \subseteq 1..(W + n)
  BY <1>1, <1>4
<1>7. \A k \in 1..P : k \in L <=> k \notin Elements(T) \cup Elements(C \o Span(W, n)) /\ k <= W + n
  BY <1>1, <1>4 DEF Account
<1> QED BY <1>1, <1>4, <1>5, <1>6, <1>7 DEF Account

(* Those that are read are the first in the ring.                          *)
LEMMA AccountReads ==
  ASSUME NEW T, NEW C, NEW W, NEW P, NEW L, Account(T, C, W, P, L),
         NEW n \in 0..Len(C)
  PROVE  Account(T \o SubSeq(C, 1, n), SubSeq(C, n + 1, Len(C)), W, P, L)
<1> DEFINE front == SubSeq(C, 1, n)
           back  == SubSeq(C, n + 1, Len(C))
<1>1. T \in Seq(Nat) /\ C \in Seq(Nat) /\ Ascends(T) /\ Ascends(C)
  BY DEF Account
<1>2. /\ front \in Seq(Nat) /\ back \in Seq(Nat)
      /\ Ascends(front) /\ Ascends(back)
      /\ Elements(C) = Elements(front) \cup Elements(back)
      /\ \A x \in Elements(front), y \in Elements(back) : x < y
  BY <1>1, Split
<1> HIDE DEF front, back
<1>3. /\ T \o front \in Seq(Nat) /\ Ascends(T \o front)
      /\ Elements(T \o front) = Elements(T) \cup Elements(front)
  BY <1>1, <1>2, Joined DEF Account
<1>4. Account(T \o front, back, W, P, L)
  BY <1>2, <1>3 DEF Account
<1> QED BY <1>4 DEF front, back

(* So are those that are thrown away, and they are lost.                   *)
LEMMA AccountLoses ==
  ASSUME NEW T, NEW C, NEW W, NEW P, NEW L, Account(T, C, W, P, L),
         NEW n \in 0..Len(C)
  PROVE  Account(T, SubSeq(C, n + 1, Len(C)), W, P, L \cup Elements(SubSeq(C, 1, n)))
<1> DEFINE front == SubSeq(C, 1, n)
           back  == SubSeq(C, n + 1, Len(C))
<1>1. T \in Seq(Nat) /\ C \in Seq(Nat) /\ Ascends(T) /\ Ascends(C)
  BY DEF Account
<1>2. /\ front \in Seq(Nat) /\ back \in Seq(Nat)
      /\ Ascends(front) /\ Ascends(back)
      /\ Elements(C) = Elements(front) \cup Elements(back)
      /\ \A x \in Elements(front), y \in Elements(back) : x < y
  BY <1>1, Split
<1> HIDE DEF front, back
<1>3. /\ P \in Nat /\ W \in 0..P /\ L \subseteq 1..P
      /\ Elements(T) \cup Elements(C) \subseteq 1..W
      /\ \A x \in Elements(T), y \in Elements(C) : x < y
      /\ \A k \in 1..P : k \in L <=> k \notin Elements(T) \cup Elements(C) /\ k <= W
  BY DEF Account
<1>4. L \cup Elements(front) \subseteq 1..P
  <2>1. 1..W \subseteq 1..P
    BY <1>3
  <2> QED BY <1>2, <1>3, <2>1
<1>5. ASSUME NEW k \in Elements(front) PROVE k \notin Elements(T) \cup Elements(back) /\ k <= W
  <2>1. k \in Elements(C) /\ k \in Nat /\ ~(k < k)
    BY <1>2, <1>3
  <2> QED BY <1>2, <1>3, <2>1
<1>6. \A k \in 1..P : k \in L \cup Elements(front) <=>
                        k \notin Elements(T) \cup Elements(back) /\ k <= W
  BY <1>2, <1>3, <1>5
<1>7. Account(T, back, W, P, L \cup Elements(front))
  BY <1>1, <1>2, <1>3, <1>4, <1>6 DEF Account
<1> QED BY <1>7 DEF front, back
-----------------------------------------------------------------------------
(* What the reader has, and its caller.                                    *)
Taken == heard \o buffer

(* How many samples the writer is still to write.                          *)
ToWrite == remaining["writer"]

(* A read has copied what it was asked for and has no more to read.        *)
Copied == /\ heard \in Seq(Nat) /\ buffer \in Seq(Nat)
          /\ Len(buffer) = asked["reader"] - remaining["reader"]

(* A thread in no call was asked for nothing; one that has just called has *)
(* all of it to do.                                                        *)
Beginnings ==
  \A t \in Threads : /\ pc[t] = "idle" => asked[t] = 0
                     /\ pc[t] \in {"idle", "called"} => remaining[t] = asked[t]

(* The account of the state.                                               *)
Accounts == Account(Taken, Contents, produced - ToWrite, produced, lost)

(* With Inv, the inductive invariant.                                      *)
AccountInv == Copied /\ Beginnings /\ Accounts

(* The numbers of a state are natural numbers.                             *)
LEMMA Numbered ==
  ASSUME Inv
  PROVE  /\ produced \in Nat /\ ToWrite \in Nat /\ ToWrite <= produced
         /\ produced - ToWrite \in 0..produced
         /\ \A t \in Threads : /\ asked[t] \in Nat /\ remaining[t] \in Nat
                               /\ remaining[t] <= asked[t]
         /\ asked["writer"] <= produced
         /\ m_fill \in Nat
<1>1. /\ asked \in [Threads -> 0..MaxBlock] /\ remaining \in [Threads -> 0..MaxBlock]
      /\ \A t \in Threads : remaining[t] <= asked[t]
      /\ produced \in 0..MaxSamples /\ asked["writer"] <= produced
      /\ MaxBlock \in Nat /\ MaxSamples \in Nat
  BY BlocksAssumption DEF Inv, TypeOK
<1>2. \A t \in Threads : asked[t] \in Nat /\ remaining[t] \in Nat
  BY <1>1
<1>3. "writer" \in Threads
  BY DEF Threads
<1>4. m_fill \in Nat
  BY Bounds DEF Inv
<1> QED BY <1>1, <1>2, <1>3, <1>4 DEF ToWrite

(* The ring has as many samples as it says.                                *)
LEMMA ContentsAre ==
  ASSUME Inv
  PROVE  Contents \in Seq(Nat) /\ Len(Contents) = m_fill /\ Held = Elements(Contents)
<1>1. m_fill \in Nat /\ MaxSamples \in Nat
  BY Numbered, BlocksAssumption
<1>2. \A i \in 1..m_fill : Contents[i] \in Nat
  BY <1>1, HeldIs
<1>3. Contents = [i \in 1..m_fill |-> Contents[i]]
  BY DEF Contents
<1>4. Contents \in [1..m_fill -> Nat]
  BY <1>2, <1>3
<1>5. Contents \in Seq(Nat) /\ Len(Contents) = m_fill
  BY <1>1, <1>4
<1> QED BY <1>5 DEF Held, Elements

(* A write puts its samples after those in the ring, also where the ring   *)
(* goes around: the slots it writes are free.                              *)
LEMMA ContentsWritten ==
  ASSUME Inv, Write
  PROVE  LET n == Room(ToWrite)
         IN /\ n \in 0..ToWrite
            /\ Contents' = Contents \o Span(produced - ToWrite, n)
<1> DEFINE n == Room(ToWrite)  w == produced - ToWrite
<1>1. /\ m_size \in Nat /\ m_size > 0 /\ m_fill \in 0..m_size
      /\ m_head \in 0..(m_size - 1) /\ m_tail \in 0..(m_size - 1)
      /\ m_tail = Wrap(m_head + m_fill)
  BY Bounds DEF Inv
<1>2. ToWrite \in Nat /\ w \in Nat
  BY Numbered
<1>3. n \in Nat /\ n \in 0..ToWrite /\ n \in 0..(m_size - m_fill)
  BY <1>1, <1>2 DEF Room, AtMost
<1>4. /\ \A s \in Slots(m_size) :
           m_fifo'[s] = IF Wrap(s + m_size - m_tail) < n
                          THEN w + Wrap(s + m_size - m_tail) + 1
                          ELSE m_fifo[s]
      /\ m_fill' = m_fill + n /\ m_size' = m_size /\ m_head' = m_head
  BY DEF Write, ToWrite
<1> HIDE DEF n, w
<1>5. Contents \in Seq(Nat) /\ Len(Contents) = m_fill
  BY ContentsAre
<1>6. Span(w, n) \in Seq(Nat) /\ Len(Span(w, n)) = n
  BY <1>2, <1>3, SpanIs
<1> DEFINE both == Contents \o Span(w, n)
<1>7. /\ both \in Seq(Nat) /\ Len(both) = m_fill + n
      /\ \A i \in 1..(m_fill + n) :
           both[i] = IF i <= m_fill THEN Contents[i] ELSE Span(w, n)[i - m_fill]
  <2> DEFINE c == Contents  d == Span(w, n)
  <2>1. c \in Seq(Nat) /\ d \in Seq(Nat) /\ Len(c) = m_fill /\ Len(d) = n
    BY <1>5, <1>6
  <2> HIDE DEF c, d
  <2>2. /\ c \o d \in Seq(Nat) /\ Len(c \o d) = m_fill + n
        /\ \A i \in 1..(m_fill + n) : (c \o d)[i] = IF i <= m_fill THEN c[i] ELSE d[i - m_fill]
    BY <2>1, ConcatProperties
  <2> QED BY <2>2 DEF c, d
<1> HIDE DEF both
<1>8. ASSUME NEW i \in 1..(m_fill + n)
      PROVE  /\ Wrap(m_head + i - 1) \in 0..(m_size - 1)
             /\ Wrap(Wrap(m_head + i - 1) + m_size - m_tail) =
                  IF i <= m_fill THEN m_size - m_fill + i - 1 ELSE i - m_fill - 1
  <2> DEFINE a == m_head + i - 1
             s == Wrap(a)
             b == s + m_size - m_tail
             c == m_head + m_fill
  <2>1. a \in 0..(m_size + m_size - 1) /\ c \in 0..(m_size + m_size - 1) /\ a = m_head + i - 1
    BY <1>1, <1>3
  <2>2. /\ s = IF a < m_size THEN a ELSE a - m_size
        /\ s \in 0..(m_size - 1)
        /\ m_tail = IF c < m_size THEN c ELSE c - m_size
    BY <1>1, <2>1, WrapIs
  <2> HIDE DEF s
  <2>3. b \in 0..(m_size + m_size - 1)
    BY <1>1, <2>2
  <2>4. Wrap(b) = IF b < m_size THEN b ELSE b - m_size
    BY <1>1, <2>3, WrapIs
  <2>5. b < m_size <=> s < m_tail
    BY <1>1, <2>2
  <2>6. Wrap(b) = IF s < m_tail THEN s + m_size - m_tail ELSE s - m_tail
    BY <1>1, <2>2, <2>4, <2>5
  <2> HIDE DEF b
  <2>7. Wrap(b) = IF i <= m_fill THEN m_size - m_fill + i - 1 ELSE i - m_fill - 1
    BY <1>1, <1>3, <2>1, <2>2, <2>6 DEF a, c
  <2> QED BY <2>2, <2>7 DEF b, s
<1>9. ASSUME NEW i \in 1..(m_fill + n)
      PROVE  Contents'[i] = both[i]
  <2> DEFINE s == Wrap(m_head + i - 1)
             k == Wrap(s + m_size - m_tail)
  <2>1. /\ s \in Slots(m_size)
        /\ k = IF i <= m_fill THEN m_size - m_fill + i - 1 ELSE i - m_fill - 1
    BY <1>8 DEF Slots
  <2>2. Contents'[i] = m_fifo'[s]
    BY <1>4 DEF Contents, Wrap
  <2>3. m_fifo'[s] = IF k < n THEN w + k + 1 ELSE m_fifo[s]
    BY <1>4, <2>1
  <2>4. i <= m_fill => Contents[i] = m_fifo[s]
    BY <1>1 DEF Contents
  <2>5. i > m_fill => Span(w, n)[i - m_fill] = w + (i - m_fill)
    <3>1. i > m_fill => i - m_fill \in 1..n
      BY <1>1, <1>3
    <3> QED BY <3>1 DEF Span
  <2> HIDE DEF s, k
  <2>6. CASE i <= m_fill
    <3>1. ~(k < n)
      BY <1>1, <1>3, <2>1, <2>6
    <3> QED BY <1>7, <2>2, <2>3, <2>4, <2>6, <3>1
  <2>7. CASE i > m_fill
    <3>1. k < n /\ w + k + 1 = w + (i - m_fill) /\ ~(i <= m_fill)
      BY <1>1, <1>2, <1>3, <2>1, <2>7
    <3> QED BY <1>7, <2>2, <2>3, <2>5, <2>7, <3>1
  <2> QED BY <1>1, <2>6, <2>7
<1>10. Contents' = [i \in 1..(m_fill + n) |-> Contents'[i]]
  BY <1>4 DEF Contents
<1>11. both = [i \in 1..(m_fill + n) |-> both[i]]
  BY <1>7
<1>12. Contents' = both
  BY <1>9, <1>10, <1>11
<1> QED BY <1>3, <1>12 DEF both, n, w

(* When the head moves, the rest of the samples stay.                      *)
LEMMA ContentsDropped ==
  ASSUME Inv, NEW n \in 0..m_fill, UNCHANGED <<m_fifo, m_size>>,
         m_fill' = m_fill - n, m_head' = Wrap(m_head + n) \/ n = m_fill
  PROVE  Contents' = SubSeq(Contents, n + 1, Len(Contents))
<1>1. /\ m_size \in Nat /\ m_size > 0 /\ m_fill \in 0..m_size
      /\ m_head \in 0..(m_size - 1)
  BY Bounds DEF Inv
<1>2. Contents \in Seq(Nat) /\ Len(Contents) = m_fill
  BY ContentsAre
<1> DEFINE back == SubSeq(Contents, n + 1, m_fill)
<1>3. /\ back \in Seq(Nat) /\ Len(back) = m_fill - n
      /\ \A i \in 1..(m_fill - n) : back[i] = Contents[n + i]
  <2>1. /\ n + 1 \in Int /\ m_fill \in Int /\ m_fill - (n + 1) + 1 = m_fill - n
        /\ \A i \in (n + 1)..m_fill : Contents[i] \in Nat
    BY <1>1, <1>2
  <2>2. /\ back \in Seq(Nat) /\ Len(back) = IF n + 1 <= m_fill THEN m_fill - (n + 1) + 1 ELSE 0
        /\ \A i \in 1..(m_fill - (n + 1) + 1) : back[i] = Contents[n + 1 + i - 1]
    BY <2>1, SubSeqProperties
  <2> HIDE DEF back
  <2>3. ASSUME NEW i \in 1..(m_fill - n) PROVE back[i] = Contents[n + i]
    <3>1. n + 1 + i - 1 = n + i
      BY <1>1
    <3> QED BY <2>1, <2>2, <3>1
  <2>4. Len(back) = m_fill - n
    BY <1>1, <2>1, <2>2
  <2> QED BY <2>2, <2>3, <2>4
<1> HIDE DEF back
<1>4. ASSUME NEW i \in 1..(m_fill - n) PROVE Contents'[i] = back[i]
  <2>1. n # m_fill /\ n + i \in 1..m_fill
    BY <1>1
  <2>2. Contents'[i] = m_fifo[Wrap(Wrap(m_head + n) + i - 1)]
    BY <2>1 DEF Contents, Wrap
  <2>3. back[i] = m_fifo[Wrap(m_head + (n + i) - 1)]
    BY <1>3, <2>1 DEF Contents
  <2>4. Wrap(Wrap(m_head + n) + i - 1) = Wrap(m_head + (n + i) - 1)
    <3> DEFINE h == Wrap(m_head + n)
               a == h + i - 1
               b == m_head + (n + i) - 1
    <3>1. m_head + n \in 0..(m_size + m_size - 1) /\ b \in 0..(m_size + m_size - 1)
      BY <1>1, <2>1
    <3>2. /\ h = IF m_head + n < m_size THEN m_head + n ELSE m_head + n - m_size
          /\ h \in 0..(m_size - 1)
      BY <1>1, <3>1, WrapIs
    <3> HIDE DEF h
    <3>3. a \in 0..(m_size + m_size - 1)
      BY <1>1, <3>2
    <3>4. /\ Wrap(a) = IF a < m_size THEN a ELSE a - m_size
          /\ Wrap(b) = IF b < m_size THEN b ELSE b - m_size
      BY <1>1, <3>1, <3>3, WrapIs
    <3>5. (IF a < m_size THEN a ELSE a - m_size) = (IF b < m_size THEN b ELSE b - m_size)
      BY <1>1, <3>2, <2>1
    <3>6. Wrap(a) = Wrap(b)
      BY <3>4, <3>5
    <3> QED BY <3>6 DEF h
  <2> QED BY <2>2, <2>3, <2>4
<1>5. Contents' = [i \in 1..(m_fill - n) |-> Contents'[i]]
  BY DEF Contents
<1>6. back = [i \in 1..(m_fill - n) |-> back[i]]
  BY <1>3
<1>7. Contents' = back
  BY <1>4, <1>5, <1>6
<1> QED BY <1>2, <1>7 DEF back

(* The end of a write() balances the account, ...                          *)
LEMMA WriterEnds ==
  ASSUME Inv, NEW left \in 0..asked["writer"], NEW copied, Ends("writer", left, copied),
         UNCHANGED produced, NEW C,
         Account(Taken, C, produced - left, produced, lost)
  PROVE  /\ Account(Taken', C, produced' - ToWrite', produced', lost')
         /\ remaining' = [remaining EXCEPT !["writer"] = 0]
         /\ asked' = [asked EXCEPT !["writer"] = 0]
         /\ UNCHANGED <<heard, buffer>>
<1>1. /\ remaining' = [remaining EXCEPT !["writer"] = 0]
      /\ asked' = [asked EXCEPT !["writer"] = 0]
      /\ lost' = lost \cup Numbers(produced - asked["writer"] + (asked["writer"] - left) + 1, produced)
      /\ UNCHANGED <<heard, buffer>>
  BY DEF Ends, Returned
<1>2. /\ produced \in Nat /\ asked["writer"] \in Nat /\ left \in Nat
      /\ left <= produced /\ produced - left \in Nat
  BY Numbered DEF Threads
<1>3. lost' = lost \cup ((produced - left + 1)..produced)
  <2>1. produced - asked["writer"] + (asked["writer"] - left) + 1 = produced - left + 1
    BY <1>2
  <2>2. Numbers(produced - left + 1, produced) = (produced - left + 1)..produced
    BY <1>2 DEF Numbers
  <2> QED BY <1>1, <2>1, <2>2
<1>4. Account(Taken, C, produced, produced, lost')
  BY <1>3, AccountEnds
<1>5. Taken' = Taken
  BY <1>1 DEF Taken
<1>6. produced' - ToWrite' = produced
  <2>1. remaining \in [Threads -> 0..MaxBlock]
    BY DEF Inv, TypeOK
  <2>2. ToWrite' = 0
    BY <1>1, <2>1 DEF ToWrite, Threads
  <2> QED BY <1>2, <2>2
<1> QED BY <1>1, <1>4, <1>5, <1>6

(* ... and so does that of a read(), whose samples its caller gets.        *)
LEMMA ReaderEnds ==
  ASSUME Inv, Copied, NEW left \in 0..asked["reader"],
         NEW copied \in Seq(Nat), Len(copied) = asked["reader"] - left,
         Ends("reader", left, copied)
  PROVE  /\ Taken' = heard \o copied /\ Copied'
         /\ remaining' = [remaining EXCEPT !["reader"] = 0]
         /\ asked' = [asked EXCEPT !["reader"] = 0]
         /\ ToWrite' = ToWrite /\ UNCHANGED lost
<1>1. /\ remaining' = [remaining EXCEPT !["reader"] = 0]
      /\ asked' = [asked EXCEPT !["reader"] = 0]
      /\ heard' = heard \o SubSeq(copied, 1, asked["reader"] - left)
      /\ buffer' = << >> /\ UNCHANGED lost
  BY DEF Ends, Returned
<1>2. SubSeq(copied, 1, Len(copied)) = copied
  OBVIOUS
<1>3. heard' = heard \o copied
  BY <1>1, <1>2
<1>4. heard \in Seq(Nat)
  BY DEF Copied
<1>5. heard' \in Seq(Nat)
  BY <1>3, <1>4, ConcatProperties
<1>6. Taken' = heard'
  BY <1>1, <1>5, ConcatEmptySeq DEF Taken
<1>7. /\ remaining \in [Threads -> 0..MaxBlock] /\ asked \in [Threads -> 0..MaxBlock]
  BY DEF Inv, TypeOK
<1>8. ToWrite' = ToWrite
  BY <1>1, <1>7 DEF ToWrite, Threads
<1>9. Copied'
  BY <1>1, <1>5, <1>7 DEF Copied, Threads
<1> QED BY <1>1, <1>3, <1>6, <1>8, <1>9

(* Places of the threads after a step of one of them. *)
(* A signal starts and ends no call.                                       *)
LEMMA Woken ==
  ASSUME Inv, NEW t \in Threads, NEW u \in Threads, NEW where,
         where \in [Threads -> {"idle", "called", "releasing", "asleep", "woken"}],
         WakeOne(t, where)
  PROVE  pc'[u] = where[u] \/ pc'[u] = "woken"
  BY DEF WakeOne

(* A call, ...                                                             *)
LEMMA CallAccount ==
  ASSUME Inv, AccountInv, NEW t \in Threads, NEW n \in 1..MaxBlock, NEW none \in BOOLEAN,
         Call(t, n, none)
  PROVE  AccountInv'
<1>1. /\ asked' = [asked EXCEPT ![t] = n]
      /\ remaining' = [remaining EXCEPT ![t] = n]
      /\ pc[t] = "idle" /\ pc' = [pc EXCEPT ![t] = "called"]
      /\ UNCHANGED <<ring, lost, heard, buffer>>
      /\ IF t = "writer" THEN produced' = produced + n ELSE UNCHANGED produced
  BY DEF Call
<1>2. /\ remaining \in [Threads -> 0..MaxBlock] /\ asked \in [Threads -> 0..MaxBlock]
      /\ pc \in [Threads -> {"idle", "called", "releasing", "asleep", "woken"}]
      /\ n \in Nat
  BY BlocksAssumption DEF Inv, TypeOK
<1>3. remaining[t] = 0 /\ asked[t] = 0
  BY <1>1 DEF AccountInv, Beginnings
<1>4. Beginnings'
  BY <1>1, <1>2 DEF AccountInv, Beginnings
<1>5. Copied'
  <2>1. asked'["reader"] - remaining'["reader"] = asked["reader"] - remaining["reader"]
    <3>1. CASE t = "reader"
      BY <1>1, <1>2, <1>3, <3>1 DEF Threads
    <3>2. CASE t # "reader"
      BY <1>1, <1>2, <3>2 DEF Threads
    <3> QED BY <3>1, <3>2
  <2> QED BY <1>1, <2>1 DEF AccountInv, Copied
<1>6. Accounts'
  <2>1. Taken' = Taken /\ Contents' = Contents /\ lost' = lost
    BY <1>1 DEF Taken, Contents, Wrap, ring
  <2>2. CASE t = "writer"
    <3>1. ToWrite = 0 /\ ToWrite' = n /\ produced' = produced + n /\ produced \in Nat
      BY <1>1, <1>2, <1>3, <2>2, Numbered DEF ToWrite, Threads
    <3>2. produced - ToWrite = produced /\ produced' - ToWrite' = produced
      BY <1>2, <3>1
    <3> QED BY <1>2, <2>1, <3>1, <3>2, AccountMore DEF AccountInv, Accounts
  <2>3. CASE t # "writer"
    <3>1. ToWrite' = ToWrite /\ produced' = produced
      BY <1>1, <1>2, <2>3 DEF ToWrite, Threads
    <3> QED BY <2>1, <3>1 DEF AccountInv, Accounts
  <2> QED BY <2>2, <2>3
<1> QED BY <1>4, <1>5, <1>6 DEF AccountInv

(* ... one that finds no FIFO or waits too long, ...                       *)
LEMMA EndAccount ==
  ASSUME Inv, AccountInv, NEW t \in Threads, FindsNone(t) \/ Timeout(t)
  PROVE  AccountInv'
<1>1. /\ pc' = [pc EXCEPT ![t] = "idle"]
      /\ UNCHANGED <<ring, produced>>
  BY DEF FindsNone, Timeout
<1>2. /\ remaining \in [Threads -> 0..MaxBlock] /\ asked \in [Threads -> 0..MaxBlock]
      /\ pc \in [Threads -> {"idle", "called", "releasing", "asleep", "woken"}]
  BY DEF Inv, TypeOK
<1>3. PICK copied : /\ Ends(t, remaining[t], copied)
                    /\ t = "reader" => copied = buffer
  <2>1. CASE FindsNone(t)
    <3>1. remaining[t] = asked[t]
      BY <2>1 DEF FindsNone, AccountInv, Beginnings
    <3>2. t = "reader" => buffer = << >>
      <4>1. ASSUME t = "reader" PROVE Len(buffer) = 0 /\ buffer \in Seq(Nat)
        BY <3>1, <4>1, Numbered DEF AccountInv, Copied, Threads
      <4> QED BY <4>1
    <3> QED BY <2>1, <3>1, <3>2 DEF FindsNone
  <2>2. CASE Timeout(t)
    BY <2>2 DEF Timeout
  <2> QED BY <2>1, <2>2
<1>4. Contents' = Contents
  BY <1>1 DEF Contents, Wrap, ring
<1>5. /\ asked[t] \in Nat /\ remaining[t] \in 0..asked[t]
  BY Numbered
<1>6. CASE t = "writer"
  <2>1. Account(Taken, Contents, produced - remaining[t], produced, lost)
    BY <1>6 DEF AccountInv, Accounts, ToWrite
  <2>2. /\ Account(Taken', Contents, produced' - ToWrite', produced', lost')
        /\ remaining' = [remaining EXCEPT !["writer"] = 0]
        /\ asked' = [asked EXCEPT !["writer"] = 0]
        /\ UNCHANGED <<heard, buffer>>
    BY <1>1, <1>3, <1>5, <1>6, <2>1, WriterEnds
  <2>3. Copied'
    BY <1>2, <2>2 DEF AccountInv, Copied, Threads
  <2>4. Beginnings'
    BY <1>1, <1>2, <1>6, <2>2 DEF AccountInv, Beginnings
  <2> QED BY <1>4, <2>2, <2>3, <2>4 DEF AccountInv, Accounts
<1>7. CASE t = "reader"
  <2>1. buffer \in Seq(Nat) /\ Len(buffer) = asked["reader"] - remaining["reader"]
    BY DEF AccountInv, Copied
  <2>2. /\ Taken' = heard \o buffer /\ Copied'
        /\ remaining' = [remaining EXCEPT !["reader"] = 0]
        /\ asked' = [asked EXCEPT !["reader"] = 0]
        /\ ToWrite' = ToWrite /\ UNCHANGED lost
    BY <1>3, <1>5, <1>7, <2>1, ReaderEnds DEF AccountInv
  <2>3. Beginnings'
    BY <1>1, <1>2, <1>7, <2>2 DEF AccountInv, Beginnings
  <2> QED BY <1>1, <1>4, <2>2, <2>3 DEF AccountInv, Accounts, Taken
<1> QED BY <1>6, <1>7 DEF Threads

(* ... one that waits, ...                                                 *)
LEMMA WaitAccount ==
  ASSUME Inv, AccountInv, NEW t \in Threads, TimePasses(t) \/ Wait(t)
  PROVE  AccountInv'
<1>1. /\ UNCHANGED <<ring, asked, remaining, buffer, heard, produced, lost>>
      /\ \/ pc' = pc
         \/ pc[t] = "releasing" /\ pc' = [pc EXCEPT ![t] = "asleep"]
  BY DEF TimePasses, Wait
<1>2. pc \in [Threads -> {"idle", "called", "releasing", "asleep", "woken"}]
  BY DEF Inv, TypeOK
<1>3. Beginnings'
  BY <1>1, <1>2 DEF AccountInv, Beginnings
<1>4. Copied' /\ Accounts'
  BY <1>1 DEF AccountInv, Copied, Accounts, Taken, ToWrite, Contents, Wrap, ring
<1> QED BY <1>3, <1>4 DEF AccountInv

(* ... a write() ...                                                       *)
LEMMA WriteAccount ==
  ASSUME Inv, AccountInv, Write
  PROVE  AccountInv'
<1> DEFINE n    == Room(ToWrite)
           left == ToWrite - n
           C    == Contents \o Span(produced - ToWrite, n)
           pcs  == {"idle", "called", "releasing", "asleep", "woken"}
<1>1. n \in 0..ToWrite /\ Contents' = C
  BY ContentsWritten
<1>2. /\ Continues("writer", left, buffer)
      /\ UNCHANGED produced
      /\ \/ WakeOne("reader", Afterwards("writer", left))
         \/ pc' = Afterwards("writer", left)
  BY DEF Write, ToWrite
<1>3. /\ ToWrite \in Nat /\ produced \in Nat /\ ToWrite <= produced
      /\ asked["writer"] \in Nat /\ ToWrite <= asked["writer"]
  BY Numbered DEF ToWrite, Threads
<1>4. /\ remaining \in [Threads -> 0..MaxBlock] /\ asked \in [Threads -> 0..MaxBlock]
      /\ pc \in [Threads -> pcs]
  BY DEF Inv, TypeOK
<1> HIDE DEF n
<1>5. Account(Taken, C, produced - left, produced, lost)
  <2>1. n \in 0..(produced - (produced - ToWrite)) /\ produced - ToWrite + n = produced - left
    BY <1>1, <1>3
  <2>2. Account(Taken, C, produced - ToWrite + n, produced, lost)
    BY <2>1, AccountWrites DEF AccountInv, Accounts
  <2> QED BY <2>1, <2>2
<1>6. left \in 0..ToWrite /\ left \in 0..asked["writer"]
  BY <1>1, <1>3
<1> HIDE DEF left, C
<1>7. /\ Afterwards("writer", left) \in [Threads -> pcs]
      /\ Afterwards("writer", left)["reader"] = pc["reader"]
      /\ Afterwards("writer", left)["writer"] =
           IF left = 0 \/ elapsed["writer"] THEN "idle" ELSE "releasing"
  BY <1>4 DEF Afterwards, Threads
<1>8. \A u \in Threads : pc'[u] = Afterwards("writer", left)[u] \/ pc'[u] = "woken"
  BY <1>2, <1>7, Woken DEF Threads
<1>9. CASE left = 0 \/ elapsed["writer"]
  <2>1. Ends("writer", left, buffer)
    BY <1>2, <1>9 DEF Continues
  <2>2. /\ Account(Taken', C, produced' - ToWrite', produced', lost')
        /\ remaining' = [remaining EXCEPT !["writer"] = 0]
        /\ asked' = [asked EXCEPT !["writer"] = 0]
        /\ UNCHANGED <<heard, buffer>>
    BY <1>2, <1>5, <1>6, <2>1, WriterEnds
  <2>3. Copied'
    BY <1>4, <2>2 DEF AccountInv, Copied, Threads
  <2>4. Beginnings'
    BY <1>4, <1>7, <1>8, <2>2 DEF AccountInv, Beginnings, Threads
  <2> QED BY <1>1, <2>2, <2>3, <2>4 DEF AccountInv, Accounts
<1>10. CASE ~(left = 0 \/ elapsed["writer"])
  <2>1. /\ remaining' = [remaining EXCEPT !["writer"] = left]
        /\ UNCHANGED <<buffer, asked, heard, lost>>
    BY <1>2, <1>10 DEF Continues
  <2>2. ToWrite' = left /\ Taken' = Taken
    BY <1>4, <2>1 DEF ToWrite, Taken, Threads
  <2>3. Copied'
    BY <1>4, <2>1 DEF AccountInv, Copied, Threads
  <2>4. Beginnings'
    BY <1>4, <1>7, <1>8, <1>10, <2>1 DEF AccountInv, Beginnings, Threads
  <2> QED BY <1>1, <1>2, <1>5, <2>1, <2>2, <2>3, <2>4 DEF AccountInv, Accounts
<1> QED BY <1>9, <1>10

(* What a read() copies is the front of what the ring has.                 *)
LEMMA FrontIs ==
  ASSUME Inv, NEW n \in 0..m_fill
  PROVE  /\ [i \in 1..n |-> m_fifo[Wrap(m_head + i - 1)]] = SubSeq(Contents, 1, n)
         /\ Elements(SubSeq(Contents, 1, n)) = {Contents[i] : i \in 1..n}
         /\ SubSeq(Contents, 1, n) \in Seq(Nat) /\ Len(SubSeq(Contents, 1, n)) = n
<1> DEFINE front == SubSeq(Contents, 1, n)
<1>1. Contents \in Seq(Nat) /\ Len(Contents) = m_fill /\ m_fill \in Nat
  BY ContentsAre, Numbered
<1>2. /\ front \in Seq(Nat) /\ Len(front) = n
      /\ \A i \in 1..n : front[i] = Contents[i]
  <2>1. 1 \in Int /\ n \in Int /\ \A i \in 1..n : Contents[i] \in Nat
    BY <1>1
  <2>2. /\ front \in Seq(Nat) /\ Len(front) = IF 1 <= n THEN n - 1 + 1 ELSE 0
        /\ \A i \in 1..(n - 1 + 1) : front[i] = Contents[1 + i - 1]
    BY <2>1, SubSeqProperties
  <2> HIDE DEF front
  <2>3. ASSUME NEW i \in 1..n PROVE front[i] = Contents[i]
    <3>1. 1 + i - 1 = i /\ i \in 1..(n - 1 + 1)
      BY <1>1
    <3> QED BY <2>2, <3>1
  <2>4. Len(front) = n
    BY <1>1, <2>2
  <2> QED BY <2>2, <2>3, <2>4
<1> HIDE DEF front
<1>3. \A i \in 1..n : Contents[i] = m_fifo[Wrap(m_head + i - 1)]
  BY <1>1 DEF Contents
<1>4. front = [i \in 1..n |-> front[i]]
  BY <1>2
<1>5. front = [i \in 1..n |-> m_fifo[Wrap(m_head + i - 1)]]
  BY <1>2, <1>3, <1>4
<1>6. Elements(front) = {Contents[i] : i \in 1..n}
  BY <1>2 DEF Elements
<1> QED BY <1>2, <1>5, <1>6 DEF front

(* ... and a read() keep the account, ...                                  *)
LEMMA ReadAccount ==
  ASSUME Inv, AccountInv, Read
  PROVE  AccountInv'
<1> DEFINE n      == AtMost(remaining["reader"], m_fill)
           left   == remaining["reader"] - n
           front  == SubSeq(Contents, 1, n)
           copied == buffer \o front
           pcs    == {"idle", "called", "releasing", "asleep", "woken"}
<1>1. /\ asked["reader"] \in Nat /\ remaining["reader"] \in Nat
      /\ remaining["reader"] <= asked["reader"] /\ m_fill \in Nat
  BY Numbered DEF Threads
<1>2. /\ n \in 0..m_fill /\ n \in Nat /\ n <= remaining["reader"]
      /\ left \in 0..remaining["reader"] /\ left \in 0..asked["reader"]
  BY <1>1 DEF AtMost
<1>3. /\ [i \in 1..n |-> m_fifo[Wrap(m_head + i - 1)]] = front
      /\ front \in Seq(Nat) /\ Len(front) = n
  BY <1>2, FrontIs
<1>4. /\ Continues("reader", left, copied)
      /\ m_head' = Wrap(m_head + n) /\ m_fill' = m_fill - n
      /\ UNCHANGED <<m_fifo, m_size, m_tail, produced>>
      /\ \/ WakeOne("writer", Afterwards("reader", left))
         \/ pc' = Afterwards("reader", left)
  BY <1>3 DEF Read
<1>5. Contents' = SubSeq(Contents, n + 1, Len(Contents))
  BY <1>2, <1>4, ContentsDropped
<1>6. Account(Taken \o front, Contents', produced - ToWrite, produced, lost)
  <2>1. n \in 0..Len(Contents)
    BY <1>2, ContentsAre
  <2> QED BY <1>5, <2>1, AccountReads DEF AccountInv, Accounts
<1> HIDE DEF n, front
<1>7. /\ copied \in Seq(Nat) /\ Len(copied) = asked["reader"] - left
      /\ heard \o copied = Taken \o front
  <2>1. /\ buffer \in Seq(Nat) /\ heard \in Seq(Nat)
        /\ Len(buffer) = asked["reader"] - remaining["reader"]
    BY DEF AccountInv, Copied
  <2>2. front \in Seq(Nat) /\ Len(front) = n
    BY <1>3
  <2>3. buffer \o front \in Seq(Nat) /\ Len(buffer \o front) = Len(buffer) + Len(front)
    BY <2>1, <2>2, ConcatProperties
  <2>4. (heard \o buffer) \o front = heard \o (buffer \o front)
    BY <2>1, <2>2
  <2>5. copied = buffer \o front
    OBVIOUS
  <2> HIDE DEF copied
  <2>6. heard \o copied = Taken \o front
    BY <2>4, <2>5 DEF Taken
  <2> QED BY <1>1, <1>2, <2>1, <2>2, <2>3, <2>5, <2>6
<1> HIDE DEF left, copied
<1>8. /\ remaining \in [Threads -> 0..MaxBlock] /\ asked \in [Threads -> 0..MaxBlock]
      /\ pc \in [Threads -> pcs]
  BY DEF Inv, TypeOK
<1>9. /\ Afterwards("reader", left) \in [Threads -> pcs]
      /\ Afterwards("reader", left)["writer"] = pc["writer"]
      /\ Afterwards("reader", left)["reader"] =
           IF left = 0 \/ elapsed["reader"] THEN "idle" ELSE "releasing"
  BY <1>8 DEF Afterwards, Threads
<1>10. \A u \in Threads : pc'[u] = Afterwards("reader", left)[u] \/ pc'[u] = "woken"
  BY <1>4, <1>9, Woken DEF Threads
<1>11. CASE left = 0 \/ elapsed["reader"]
  <2>1. Ends("reader", left, copied)
    BY <1>4, <1>11 DEF Continues
  <2>2. /\ Taken' = heard \o copied /\ Copied'
        /\ remaining' = [remaining EXCEPT !["reader"] = 0]
        /\ asked' = [asked EXCEPT !["reader"] = 0]
        /\ ToWrite' = ToWrite /\ UNCHANGED lost
    BY <1>2, <1>7, <2>1, ReaderEnds DEF AccountInv
  <2>3. Beginnings'
    BY <1>8, <1>9, <1>10, <2>2 DEF AccountInv, Beginnings, Threads
  <2> QED BY <1>4, <1>6, <1>7, <2>2, <2>3 DEF AccountInv, Accounts
<1>12. CASE ~(left = 0 \/ elapsed["reader"])
  <2>1. /\ remaining' = [remaining EXCEPT !["reader"] = left]
        /\ buffer' = copied /\ UNCHANGED <<asked, heard, lost>>
    BY <1>4, <1>12 DEF Continues
  <2>2. ToWrite' = ToWrite /\ Taken' = heard \o copied
    BY <1>8, <2>1 DEF ToWrite, Taken, Threads
  <2>3. Copied'
    BY <1>7, <1>8, <2>1 DEF AccountInv, Copied, Threads
  <2>4. Beginnings'
    BY <1>8, <1>9, <1>10, <1>12, <2>1 DEF AccountInv, Beginnings, Threads
  <2> QED BY <1>4, <1>6, <1>7, <2>1, <2>2, <2>3, <2>4 DEF AccountInv, Accounts
<1> QED BY <1>11, <1>12

(* ... as do drain(), clear() and the begin of setSize(), ...              *)
LEMMA EmptyAccount ==
  ASSUME Inv, AccountInv, (\E n \in 1..m_fill : Drain(n)) \/ Clear \/ SetSize
  PROVE  AccountInv'
<1>1. m_fill \in Nat /\ Held = {Contents[i] : i \in 1..m_fill}
  BY Numbered DEF Held
<1>2. PICK n \in 0..m_fill :
        /\ m_fill' = m_fill - n /\ (m_head' = Wrap(m_head + n) \/ n = m_fill)
        /\ lost' = lost \cup {Contents[i] : i \in 1..n}
  BY <1>1 DEF Drain, Clear, SetSize
<1>3. /\ UNCHANGED <<m_fifo, m_size, asked, remaining, buffer, produced, heard>>
      /\ pc' = pc \/ WakeOne("writer", pc)
  BY DEF Drain, Clear, SetSize
<1>4. Contents' = SubSeq(Contents, n + 1, Len(Contents))
  BY <1>2, <1>3, ContentsDropped
<1>5. n \in 0..Len(Contents)
  BY ContentsAre
<1>6. lost' = lost \cup Elements(SubSeq(Contents, 1, n))
  BY <1>2, FrontIs
<1>7. Account(Taken, Contents', produced - ToWrite, produced, lost')
  BY <1>4, <1>5, <1>6, AccountLoses DEF AccountInv, Accounts
<1>8. Accounts' /\ Copied'
  BY <1>3, <1>7 DEF AccountInv, Accounts, Copied, Taken, ToWrite
<1>9. Beginnings'
  <2>1. \A u \in Threads : pc'[u] = pc[u] \/ pc'[u] = "woken"
    BY <1>3, Woken DEF Inv, TypeOK, Threads
  <2> QED BY <1>3, <2>1 DEF AccountInv, Beginnings
<1> QED BY <1>8, <1>9 DEF AccountInv

(* ... and its end.                                                        *)
LEMMA CreatedAccount ==
  ASSUME Inv, AccountInv, NEW n \in Sizes, Created(n)
  PROVE  AccountInv'
<1>1. /\ replacing /\ UNCHANGED <<m_fill, m_head, m_tail, pc, asked, remaining, buffer,
                                  produced, heard, lost>>
  BY DEF Created
<1>2. m_fill = 0
  BY <1>1 DEF Inv, Reasons
<1>3. Contents' = Contents
  <2>1. 1..m_fill = {}
    BY <1>2
  <2> QED BY <1>1, <2>1 DEF Contents
<1> QED BY <1>1, <1>3 DEF AccountInv, Copied, Beginnings, Accounts, Taken, ToWrite

(* It holds before the first sample, ...                                   *)
LEMMA AccountInit ==
  ASSUME Init
  PROVE  AccountInv
<1>1. /\ m_fill = 0 /\ heard = << >> /\ buffer = << >> /\ produced = 0 /\ lost = {}
      /\ remaining = [t \in Threads |-> 0] /\ asked = [t \in Threads |-> 0]
  BY DEF Init
<1>2. Taken = << >> /\ Contents = << >> /\ ToWrite = 0
  <2>1. Taken = << >>
    BY <1>1 DEF Taken
  <2>2. Contents = << >>
    BY <1>1 DEF Contents
  <2> QED BY <1>1, <2>1, <2>2 DEF ToWrite, Threads
<1>3. << >> \in Seq(Nat) /\ Len(<< >>) = 0 /\ Elements(<< >>) = {} /\ Ascends(<< >>)
  BY DEF Elements, Ascends
<1>4. Accounts
  BY <1>1, <1>2, <1>3 DEF Accounts, Account
<1>5. Copied /\ Beginnings
  BY <1>1, <1>3 DEF Copied, Beginnings, Threads
<1> QED BY <1>4, <1>5 DEF AccountInv

(* ... and each step keeps it.                                             *)
LEMMA AccountNext ==
  ASSUME Inv, AccountInv, [Next]_vars
  PROVE  AccountInv'
<1>1. CASE UNCHANGED vars
  BY <1>1 DEF vars, ring, AccountInv, Copied, Beginnings, Accounts, Taken, ToWrite,
              Contents, Wrap
<1> QED BY <1>1, CallAccount, EndAccount, WaitAccount, WriteAccount, ReadAccount,
           EmptyAccount, CreatedAccount DEF Next

(* It is what Accounted says, with what is to be written at the end.       *)
LEMMA AccountSays ==
  ASSUME Inv, AccountInv
  PROVE  Accounted
<1> DEFINE w    == produced - ToWrite
           some == Taken \o Contents
           all  == some \o Span(w, ToWrite)
<1>1. /\ produced \in Nat /\ ToWrite \in Nat /\ w \in Nat /\ w <= produced
      /\ w + ToWrite = produced
  BY Numbered
<1>2. /\ Taken \in Seq(Nat) /\ Contents \in Seq(Nat)
      /\ Ascends(Taken) /\ Ascends(Contents)
      /\ \A x \in Elements(Taken), y \in Elements(Contents) : x < y
      /\ Elements(Taken) \cup Elements(Contents) \subseteq 1..w
      /\ lost \subseteq 1..produced
      /\ \A k \in 1..produced : k \in lost <=> k \notin Elements(Taken) \cup Elements(Contents) /\ k <= w
  BY DEF AccountInv, Accounts, Account
<1> HIDE DEF w
<1>3. /\ some \in Seq(Nat) /\ Ascends(some)
      /\ Elements(some) = Elements(Taken) \cup Elements(Contents)
  BY <1>2, Joined
<1>4. /\ Span(w, ToWrite) \in Seq(Nat) /\ Ascends(Span(w, ToWrite))
      /\ Elements(Span(w, ToWrite)) = (w + 1)..produced
  BY <1>1, SpanIs
<1>5. \A x \in 1..w, y \in (w + 1)..produced : x < y
  BY <1>1
<1> HIDE DEF some
<1>6. /\ Ascends(all) /\ Elements(all) = Elements(some) \cup ((w + 1)..produced)
  <2> DEFINE rest == Span(w, ToWrite)
  <2>1. rest \in Seq(Nat) /\ Ascends(rest) /\ Elements(rest) = (w + 1)..produced
    BY <1>4
  <2> HIDE DEF rest
  <2>2. \A x \in Elements(some), y \in Elements(rest) : x < y
    BY <1>2, <1>3, <1>5, <2>1
  <2>3. Ascends(some \o rest) /\ Elements(some \o rest) = Elements(some) \cup Elements(rest)
    BY <1>3, <2>1, <2>2, Joined
  <2> QED BY <2>1, <2>3 DEF rest
<1>7. Elements(all) = (1..produced) \ lost
  BY <1>1, <1>2, <1>3, <1>6
<1>8. Unwritten = Span(w, ToWrite)
  BY DEF Unwritten, Span, ToWrite, w
<1>9. heard \o buffer \o Contents \o Unwritten = all
  BY <1>8 DEF some, Taken
<1> QED BY <1>6, <1>7, <1>9 DEF Accounted, Ascends, Elements

(* Accounted: for FIFOs of all sizes and calls of all lengths, however     *)
(* waits, signals, timeouts, clears and new sizes meet, each sample is     *)
(* heard at most once and in order, or is one the writer was told was not  *)
(* written, or was cleared.                                                *)
THEOREM AllAccounted == Spec => []Accounted
<1>1. Init => Inv /\ AccountInv
  BY InitInv, AccountInit
<1>2. Inv /\ AccountInv /\ [Next]_vars => (Inv /\ AccountInv)'
  BY NextInv, AccountNext
<1>3. Inv /\ AccountInv => Accounted
  BY AccountSays
<1> QED BY <1>1, <1>2, <1>3, PTL DEF Spec
=============================================================================
