--------------------------- MODULE AMDemod_proofs ---------------------------
(***************************************************************************)
(* Theorems about AMDemod and DownChannelizer.  Three things of the pure   *)
(* algorithms come first: a recursion that comes closer to its end with    *)
(* each step defines a function (Recursion), so that FilterChain and       *)
(* PassBand are what their equations say (Chaining, Passing); and then     *)
(* what the filters of any band do for any channel (Filters).  The         *)
(* invariant of the threads and the queues follows.                        *)
(***************************************************************************)
EXTENDS AMDemod, WellFoundedInduction, SequenceTheorems, TLAPS

(* A set of natural numbers that has each number if it has those before    *)
(* it has them all.                                                        *)
LEMMA Complete ==
  ASSUME NEW S, \A n \in Nat : (\A m \in 0..(n - 1) : m \in S) => n \in S
  PROVE  Nat \subseteq S
<1> SUFFICES ASSUME Nat \ S # {} PROVE FALSE
  OBVIOUS
<1>1. PICK n \in Nat \ S : \A m \in Nat \ S : ~(<<m, n>> \in OpToRel(<, Nat))
  BY NatLessThanWellFounded, WFMin
<1>2. \A m \in 0..(n - 1) : m \in S
  <2> TAKE m \in 0..(n - 1)
  <2>1. m \in Nat /\ m < n
    OBVIOUS
  <2>2. <<m, n>> \in OpToRel(<, Nat)
    BY <2>1 DEF OpToRel
  <2> QED BY <1>1, <2>1, <2>2
<1> QED BY <1>1, <1>2

(* g is what a recursion says, as far as x.                                *)
Recurs(g, x, stop, next, base, step) ==
  g[x] = IF x \in stop THEN base[x] ELSE step[<<x, g[next[x]]>>]

(* A recursion that comes closer to its end with each step defines a       *)
(* function.                                                               *)
LEMMA Recursion ==
  ASSUME NEW D, NEW V, NEW m \in [D -> Nat], NEW stop \in SUBSET D,
         NEW next \in [D -> D], NEW base \in [D -> V], NEW step \in [D \X V -> V],
         \A x \in D \ stop : m[next[x]] < m[x]
  PROVE  \E g \in [D -> V] : \A x \in D : Recurs(g, x, stop, next, base, step)
<1> DEFINE R(g, x) == Recurs(g, x, stop, next, base, step)
           Good(g, n) == \A x \in D : m[x] <= n => R(g, x)
           S == {n \in Nat : \E g \in [D -> V] : Good(g, n)}
           G(n) == CHOOSE g \in [D -> V] : Good(g, n)
<1>1. ASSUME NEW n \in Nat, NEW h \in [D -> V], n = 0 \/ Good(h, n - 1)
      PROVE  n \in S
  <2> DEFINE g == [x \in D |-> IF x \in stop THEN base[x] ELSE step[<<x, h[next[x]]>>]]
  <2>1. g \in [D -> V]
    OBVIOUS
  <2>2. ASSUME NEW x \in D, m[x] <= n PROVE R(g, x)
    <3>1. CASE x \in stop
      BY <3>1 DEF Recurs
    <3>2. CASE x \notin stop
      <4>1. m[next[x]] < m[x] /\ next[x] \in D /\ m[x] \in Nat /\ m[next[x]] \in Nat
        BY <3>2
      <4>2. n # 0 /\ m[next[x]] <= n - 1
        BY <4>1, <2>2
      <4>3. R(h, next[x])
        BY <1>1, <4>1, <4>2
      <4>4. h[next[x]] = g[next[x]]
        BY <4>1, <4>3 DEF Recurs
      <4> QED BY <3>2, <4>4 DEF Recurs
    <3> QED BY <3>1, <3>2
  <2> HIDE DEF g
  <2>3. Good(g, n)
    BY <2>2
  <2> QED BY <2>1, <2>3
<1>2. Nat \subseteq S
  <2>1. ASSUME NEW n \in Nat, \A k \in 0..(n - 1) : k \in S
        PROVE  n \in S
    <3>1. CASE n = 0
      BY <1>1, <3>1
    <3>2. CASE n # 0
      <4>1. n - 1 \in S
        BY <2>1, <3>2
      <4>2. PICK h \in [D -> V] : Good(h, n - 1)
        BY <4>1
      <4> QED BY <1>1, <4>2
    <3> QED BY <3>1, <3>2
  <2> HIDE DEF S
  <2> QED BY <2>1, Complete
<1>3. \A n \in Nat : G(n) \in [D -> V] /\ Good(G(n), n)
  BY <1>2
<1> DEFINE Same == {k \in Nat : \A x \in D, n \in Nat :
                      m[x] = k /\ n >= k => G(n)[x] = G(m[x])[x]}
<1> HIDE DEF G, S
<1>4. Nat \subseteq Same
  <2>1. ASSUME NEW k \in Nat, \A j \in 0..(k - 1) : j \in Same
        PROVE  k \in Same
    <3> SUFFICES ASSUME NEW x \in D, NEW n \in Nat, m[x] = k, n >= k
                 PROVE  G(n)[x] = G(k)[x]
      OBVIOUS
    <3>1. R(G(n), x) /\ R(G(k), x)
      BY <1>3
    <3>2. CASE x \in stop
      BY <3>1, <3>2 DEF Recurs
    <3>3. CASE x \notin stop
      <4>1. next[x] \in D /\ m[next[x]] \in Nat /\ m[next[x]] < k
        BY <3>3
      <4>2. m[next[x]] \in Same
        BY <4>1, <2>1
      <4>3. G(n)[next[x]] = G(k)[next[x]]
        BY <4>1, <4>2
      <4> QED BY <3>1, <3>3, <4>3 DEF Recurs
    <3> QED BY <3>2, <3>3
  <2> HIDE DEF Same
  <2> QED BY <2>1, Complete
<1> DEFINE g == [x \in D |-> G(m[x])[x]]
<1>5. g \in [D -> V]
  BY <1>3
<1>6. ASSUME NEW x \in D PROVE R(g, x)
  <2>1. m[x] \in Nat /\ R(G(m[x]), x)
    BY <1>3
  <2>2. CASE x \in stop
    BY <2>1, <2>2 DEF Recurs
  <2>3. CASE x \notin stop
    <3>1. next[x] \in D /\ m[next[x]] \in Nat /\ m[next[x]] < m[x]
      BY <2>3
    <3>2. m[next[x]] \in Same
      BY <3>1, <1>4
    <3>3. G(m[x])[next[x]] = G(m[next[x]])[next[x]]
      BY <3>1, <3>2, <2>1
    <3>4. g[next[x]] = G(m[x])[next[x]]
      BY <3>1, <3>3
    <3> QED BY <2>1, <2>3, <3>4 DEF Recurs
  <2> QED BY <2>2, <2>3
<1> HIDE DEF g
<1> QED BY <1>5, <1>6

(* 1 << n.                                                                 *)
LEMMA Shifts ==
  /\ LeftShift \in [Nat -> Nat \ {0}] /\ LeftShift[0] = 1
  /\ \A n \in Nat : LeftShift[n + 1] = 2 * LeftShift[n]
<1> DEFINE V == Nat \ {0}
           m == [n \in Nat |-> n]
           next == [n \in Nat |-> IF n = 0 THEN 0 ELSE n - 1]
           base == [n \in Nat |-> 1]
           step == [p \in Nat \X V |-> 2 * p[2]]
           Is(f) == f = [n \in Nat |-> IF n = 0 THEN 1 ELSE 2 * f[n - 1]]
<1>1. \A n \in Nat \ {0} : m[next[n]] < m[n]
  OBVIOUS
<1>2. /\ m \in [Nat -> Nat] /\ next \in [Nat -> Nat] /\ base \in [Nat -> V]
      /\ step \in [Nat \X V -> V]
  OBVIOUS
<1>3. PICK g \in [Nat -> V] : \A n \in Nat : Recurs(g, n, {0}, next, base, step)
  <2>1. {0} \in SUBSET Nat
    OBVIOUS
  <2> HIDE DEF m, next, base, step, V
  <2> QED BY <1>1, <1>2, <2>1, Recursion
<1>4. \A n \in Nat : g[n] = IF n = 0 THEN 1 ELSE 2 * g[n - 1]
  <2> TAKE n \in Nat
  <2>1. g[n] = IF n \in {0} THEN base[n] ELSE step[<<n, g[next[n]]>>]
    BY <1>3 DEF Recurs
  <2>2. CASE n = 0
    BY <2>1, <2>2
  <2>3. CASE n # 0
    <3>1. next[n] = n - 1 /\ n - 1 \in Nat
      BY <2>3
    <3>2. <<n, g[n - 1]>> \in Nat \X V
      BY <3>1
    <3>3. step[<<n, g[n - 1]>>] = 2 * g[n - 1]
      BY <3>2
    <3> QED BY <2>1, <2>3, <3>1, <3>3
  <2> QED BY <2>2, <2>3
<1>5. Is(g)
  BY <1>4
<1> HIDE DEF Is
<1>6. LeftShift = CHOOSE f : Is(f)
  BY DEF LeftShift, Is
<1>7. Is(LeftShift)
  BY <1>5, <1>6
<1>8. \A n \in Nat : LeftShift[n] = IF n = 0 THEN 1 ELSE 2 * LeftShift[n - 1]
  BY <1>7 DEF Is
<1> DEFINE S == {n \in Nat : LeftShift[n] \in V}
<1>9. Nat \subseteq S
  <2>1. ASSUME NEW n \in Nat, \A k \in 0..(n - 1) : k \in S PROVE n \in S
    <3>1. CASE n = 0
      BY <1>8, <3>1
    <3>2. CASE n # 0
      <4>1. n - 1 \in S
        BY <2>1, <3>2
      <4> QED BY <1>8, <3>2, <4>1
    <3> QED BY <3>1, <3>2
  <2> HIDE DEF S
  <2> QED BY <2>1, Complete
<1>10. LeftShift = [n \in Nat |-> LeftShift[n]]
  BY <1>7 DEF Is
<1>11. LeftShift \in [Nat -> Nat \ {0}]
  BY <1>9, <1>10
<1> QED BY <1>8, <1>11

LEMMA ShiftsGrow ==
  ASSUME NEW n \in Nat, NEW k \in 0..n
  PROVE  LeftShift[k] <= LeftShift[n]
<1> DEFINE S == {j \in Nat : \A i \in 0..j : LeftShift[i] <= LeftShift[j]}
<1>1. Nat \subseteq S
  <2>1. ASSUME NEW j \in Nat, \A i \in 0..(j - 1) : i \in S PROVE j \in S
    <3> SUFFICES ASSUME NEW i \in 0..j PROVE LeftShift[i] <= LeftShift[j]
      OBVIOUS
    <3>1. CASE i = j
      BY <3>1, Shifts
    <3>2. CASE i < j
      <4>1. j - 1 \in S /\ i \in 0..(j - 1) /\ j - 1 \in Nat
        BY <2>1, <3>2
      <4>2. LeftShift[i] <= LeftShift[j - 1]
        BY <4>1
      <4>3. LeftShift[j] = 2 * LeftShift[j - 1]
        <5>1. LeftShift[(j - 1) + 1] = 2 * LeftShift[j - 1]
          BY <4>1, Shifts
        <5> QED BY <5>1
      <4>4. LeftShift[i] \in Nat /\ LeftShift[j - 1] \in Nat
        BY <4>1, Shifts
      <4> QED BY <4>2, <4>3, <4>4
    <3> QED BY <3>1, <3>2
  <2> HIDE DEF S
  <2> QED BY <2>1, Complete
<1> QED BY <1>1
-----------------------------------------------------------------------------
PassType == [centre : Int, rate : Int]

(* What filters pass of a band, after none of them, one, ...               *)
Pass(stages, start) ==
  LET pass[n \in 0..Len(stages)] ==
        IF n = 0 THEN start ELSE Passes(stages[n], pass[n - 1])
  IN pass

LEMMA PassesType ==
  ASSUME NEW mode \in Modes, NEW pass \in PassType
  PROVE  Passes(mode, pass) \in PassType
<1>1. Turn[mode] \in Int
  BY DEF Turn, Modes
<1> QED BY <1>1 DEF Passes, PassType

LEMMA Passing ==
  ASSUME NEW stages \in Seq(Modes), NEW start \in PassType
  PROVE  /\ Pass(stages, start) \in [0..Len(stages) -> PassType]
         /\ Pass(stages, start)[0] = start
         /\ \A n \in 1..Len(stages) :
              Pass(stages, start)[n] = Passes(stages[n], Pass(stages, start)[n - 1])
<1> DEFINE D == 0..Len(stages)
           V == PassType
           m == [n \in D |-> n]
           next == [n \in D |-> IF n = 0 THEN 0 ELSE n - 1]
           base == [n \in D |-> start]
           step == [p \in D \X V |-> IF p[1] = 0 THEN start ELSE Passes(stages[p[1]], p[2])]
           Is(f) == f = [n \in D |-> IF n = 0 THEN start ELSE Passes(stages[n], f[n - 1])]
<1>1. \A n \in D \ {0} : m[next[n]] < m[n]
  OBVIOUS
<1>2. m \in [D -> Nat] /\ next \in [D -> D] /\ base \in [D -> V]
  OBVIOUS
<1>3. step \in [D \X V -> V]
  <2>1. ASSUME NEW p \in D \X V PROVE step[p] \in V
    <3>1. CASE p[1] = 0
      BY <3>1
    <3>2. CASE p[1] # 0
      <4>1. stages[p[1]] \in Modes /\ p[2] \in PassType
        BY <3>2
      <4>2. Passes(stages[p[1]], p[2]) \in PassType
        BY <4>1, PassesType
      <4> QED BY <3>2, <4>2
    <3> QED BY <3>1, <3>2
  <2> QED BY <2>1
<1>4. PICK g \in [D -> V] : \A n \in D : Recurs(g, n, {0}, next, base, step)
  <2>1. {0} \in SUBSET D
    OBVIOUS
  <2> HIDE DEF m, next, base, step, D, V
  <2> QED BY <1>1, <1>2, <1>3, <2>1, Recursion
<1>5. \A n \in D : g[n] = IF n = 0 THEN start ELSE Passes(stages[n], g[n - 1])
  <2> TAKE n \in D
  <2>1. g[n] = IF n \in {0} THEN base[n] ELSE step[<<n, g[next[n]]>>]
    BY <1>4 DEF Recurs
  <2>2. CASE n = 0
    BY <2>1, <2>2
  <2>3. CASE n # 0
    <3>1. next[n] = n - 1 /\ n - 1 \in D
      BY <2>3
    <3>2. <<n, g[n - 1]>> \in D \X V
      BY <3>1
    <3>3. step[<<n, g[n - 1]>>] = Passes(stages[n], g[n - 1])
      BY <3>2, <2>3
    <3> QED BY <2>1, <2>3, <3>1, <3>3
  <2> QED BY <2>2, <2>3
<1>6. Is(g)
  BY <1>5
<1> HIDE DEF Is
<1>7. Pass(stages, start) = CHOOSE f : Is(f)
  BY DEF Pass, Is
<1> DEFINE f == Pass(stages, start)
<1>8. Is(f)
  BY <1>6, <1>7
<1> HIDE DEF f
<1>9. /\ f = [n \in D |-> f[n]]
      /\ \A n \in D : f[n] = IF n = 0 THEN start ELSE Passes(stages[n], f[n - 1])
  BY <1>8 DEF Is
<1> DEFINE S == {n \in Nat : n \in D => f[n] \in V}
<1>10. Nat \subseteq S
  <2>1. ASSUME NEW n \in Nat, \A k \in 0..(n - 1) : k \in S PROVE n \in S
    <3> SUFFICES ASSUME n \in D PROVE f[n] \in V
      OBVIOUS
    <3>1. CASE n = 0
      BY <1>9, <3>1
    <3>2. CASE n # 0
      <4>1. n - 1 \in S /\ n - 1 \in D /\ stages[n] \in Modes
        BY <2>1, <3>2
      <4>2. Passes(stages[n], f[n - 1]) \in PassType
        BY <4>1, PassesType
      <4> QED BY <1>9, <3>2, <4>2
    <3> QED BY <3>1, <3>2
  <2> HIDE DEF S
  <2> QED BY <2>1, Complete
<1>11. f \in [D -> V]
  BY <1>9, <1>10
<1> QED BY <1>9, <1>11 DEF f

LEMMA PassAfterFirst ==
  ASSUME NEW mode \in Modes, NEW rest \in Seq(Modes), NEW start \in PassType
  PROVE  Pass(<<mode>> \o rest, start)[Len(rest) + 1]
           = Pass(rest, Passes(mode, start))[Len(rest)]
<1> DEFINE stages == <<mode>> \o rest
           f == Pass(stages, start)
           g == Pass(rest, Passes(mode, start))
           S == {n \in Nat : n <= Len(rest) => f[n + 1] = g[n]}
<1>1. /\ stages \in Seq(Modes) /\ Len(stages) = Len(rest) + 1
      /\ stages[1] = mode /\ \A n \in 1..Len(rest) : stages[n + 1] = rest[n]
  OBVIOUS
<1>2. Passes(mode, start) \in PassType
  BY PassesType
<1> HIDE DEF stages
<1>3. f[0] = start /\ \A n \in 1..(Len(rest) + 1) : f[n] = Passes(stages[n], f[n - 1])
  BY <1>1, Passing
<1>4. g[0] = Passes(mode, start) /\ \A n \in 1..Len(rest) : g[n] = Passes(rest[n], g[n - 1])
  BY <1>2, Passing
<1> HIDE DEF f, g
<1>5. Nat \subseteq S
  <2>1. ASSUME NEW n \in Nat, \A k \in 0..(n - 1) : k \in S PROVE n \in S
    <3> SUFFICES ASSUME n <= Len(rest) PROVE f[n + 1] = g[n]
      OBVIOUS
    <3>1. n + 1 \in 1..(Len(rest) + 1) /\ (n + 1) - 1 = n
      OBVIOUS
    <3>2. f[n + 1] = Passes(stages[n + 1], f[n])
      BY <1>3, <3>1
    <3>3. CASE n = 0
      BY <1>1, <1>3, <1>4, <3>2, <3>3
    <3>4. CASE n # 0
      <4>1. n - 1 \in S /\ n - 1 <= Len(rest) /\ (n - 1) + 1 = n /\ n \in 1..Len(rest)
        BY <2>1, <3>4
      <4>2. f[n] = g[n - 1]
        BY <4>1
      <4> QED BY <1>1, <1>4, <3>2, <4>1, <4>2
    <3> QED BY <3>3, <3>4
  <2> HIDE DEF S
  <2> QED BY <2>1, Complete
<1>6. Len(rest) \in S
  BY <1>5
<1> QED BY <1>6 DEF f, g, stages

-----------------------------------------------------------------------------
Chains == [stages : Seq(Modes), ofs : Int]

Ends(chan) == {sig \in Bands : \A mode \in Modes : ~Fits(mode, sig, chan)}

(* What a filter keeps is half as wide.                                    *)
LEMMA Halves ==
  ASSUME NEW sig \in Bands, NEW mode \in Modes
  PROVE  Half(mode, sig) \in Bands /\ Bandwidth(Half(mode, sig)) = Bandwidth(sig) \div 2
BY DEF Half, Bandwidth, Bands, Band, Modes

LEMMA FirstFits ==
  ASSUME NEW sig \in Bands, NEW chan \in Bands, sig \notin Ends(chan)
  PROVE  FirstFit(sig, chan) \in Modes /\ Fits(FirstFit(sig, chan), sig, chan)
BY DEF FirstFit, Ends, Modes

(* The filters from a band on: the first that fits and those after it.     *)
LEMMA Chaining ==
  ASSUME NEW chan \in Bands
  PROVE  /\ FilterChain(chan) \in [Bands -> Chains]
         /\ \A sig \in Ends(chan) :
              FilterChain(chan)[sig] = [stages |-> << >>, ofs |-> Centre(chan) - Centre(sig)]
         /\ \A sig \in Bands \ Ends(chan) :
              LET first == FirstFit(sig, chan)
                  rest  == FilterChain(chan)[Half(first, sig)]
              IN FilterChain(chan)[sig] = [stages |-> <<first>> \o rest.stages, ofs |-> rest.ofs]
<1> DEFINE m == [sig \in Bands |-> IF Bandwidth(sig) > 0 THEN Bandwidth(sig) ELSE 0]
           stop == Ends(chan)
           next == [sig \in Bands |-> IF sig \in stop THEN sig
                                      ELSE Half(FirstFit(sig, chan), sig)]
           base == [sig \in Bands |-> [stages |-> << >>, ofs |-> Centre(chan) - Centre(sig)]]
           After(sig, rest) == [stages |-> <<FirstFit(sig, chan)>> \o rest.stages,
                                ofs    |-> rest.ofs]
           step == [p \in Bands \X Chains |-> IF p[1] \in stop THEN p[2] ELSE After(p[1], p[2])]
           Value(f, sig) == IF \A mode \in Modes : ~Fits(mode, sig, chan)
                            THEN [stages |-> << >>, ofs |-> Centre(chan) - Centre(sig)]
                            ELSE After(sig, f[Half(FirstFit(sig, chan), sig)])
           Is(f) == f = [sig \in Bands |-> Value(f, sig)]
<1>1. m \in [Bands -> Nat]
  BY DEF Bandwidth, Bands
<1>2. stop \in SUBSET Bands
  BY DEF Ends
<1>3. next \in [Bands -> Bands]
  <2>1. ASSUME NEW sig \in Bands PROVE next[sig] \in Bands
    <3>1. CASE sig \in stop
      BY <3>1
    <3>2. CASE sig \notin stop
      BY <3>2, FirstFits, Halves
    <3> QED BY <3>1, <3>2
  <2> QED BY <2>1
<1>4. base \in [Bands -> Chains]
  <2>1. ASSUME NEW sig \in Bands PROVE base[sig] \in Chains
    <3>1. << >> \in Seq(Modes)
      OBVIOUS
    <3>2. Centre(chan) - Centre(sig) \in Int
      BY DEF Centre, Bands
    <3> QED BY <3>1, <3>2 DEF Chains
  <2> QED BY <2>1
<1>5. ASSUME NEW sig \in Bands \ stop, NEW rest \in Chains
      PROVE  After(sig, rest) \in Chains
  <2>1. FirstFit(sig, chan) \in Modes /\ rest.stages \in Seq(Modes) /\ rest.ofs \in Int
    BY FirstFits DEF Chains
  <2>2. <<FirstFit(sig, chan)>> \o rest.stages \in Seq(Modes)
    BY <2>1
  <2> QED BY <2>1, <2>2 DEF Chains
<1>6. step \in [Bands \X Chains -> Chains]
  <2>1. ASSUME NEW p \in Bands \X Chains PROVE step[p] \in Chains
    <3>1. p[1] \in Bands /\ p[2] \in Chains
      OBVIOUS
    <3>2. CASE p[1] \in stop
      BY <3>1, <3>2
    <3>3. CASE p[1] \notin stop
      <4> HIDE DEF After, stop
      <4> QED BY <3>1, <3>3, <1>5
    <3> QED BY <3>2, <3>3
  <2> QED BY <2>1
<1>7. \A sig \in Bands \ stop : m[next[sig]] < m[sig]
  <2> TAKE sig \in Bands \ stop
  <2> DEFINE first == FirstFit(sig, chan)
             half == Half(first, sig)
  <2>1. first \in Modes /\ Fits(first, sig, chan)
    BY FirstFits
  <2>2. half \in Bands /\ Bandwidth(half) = Bandwidth(sig) \div 2
    BY <2>1, Halves
  <2>3. Bandwidth(half) > 0
    BY <2>1, <2>2 DEF Fits, SignalContainsChannel, Bandwidth, Bands
  <2>4. Bandwidth(sig) \in Int
    BY DEF Bandwidth, Bands
  <2>5. next[sig] = half
    OBVIOUS
  <2> HIDE DEF half
  <2>6. m[half] = Bandwidth(sig) \div 2 /\ m[sig] = IF Bandwidth(sig) > 0 THEN Bandwidth(sig) ELSE 0
    BY <2>2, <2>3
  <2> QED BY <2>2, <2>3, <2>4, <2>5, <2>6
<1>8. PICK g \in [Bands -> Chains] : \A sig \in Bands : Recurs(g, sig, stop, next, base, step)
  <2> HIDE DEF m, stop, next, base, step
  <2> QED BY <1>1, <1>2, <1>3, <1>4, <1>6, <1>7, Recursion
<1>9. \A sig \in Bands : g[sig] = Value(g, sig)
  <2> TAKE sig \in Bands
  <2>1. g[sig] = IF sig \in stop THEN base[sig] ELSE step[<<sig, g[next[sig]]>>]
    BY <1>8 DEF Recurs
  <2>2. CASE sig \in stop
    BY <2>1, <2>2 DEF Ends
  <2>3. CASE sig \notin stop
    <3>1. next[sig] = Half(FirstFit(sig, chan), sig) /\ next[sig] \in Bands
      BY <2>3, <1>3
    <3>2. <<sig, g[next[sig]]>> \in Bands \X Chains
      BY <3>1
    <3>3. step[<<sig, g[next[sig]]>>] = After(sig, g[next[sig]])
      <4> HIDE DEF After, next, stop
      <4> QED BY <2>3, <3>2
    <3>4. ~(\A mode \in Modes : ~Fits(mode, sig, chan))
      BY <2>3 DEF Ends
    <3> HIDE DEF After, next, stop
    <3> QED BY <2>1, <2>3, <3>1, <3>3, <3>4
  <2> QED BY <2>2, <2>3
<1>10. Is(g)
  <2> HIDE DEF Value
  <2> QED BY <1>9
<1> HIDE DEF Is
<1>11. FilterChain(chan) = CHOOSE f : Is(f)
  BY DEF FilterChain, Is
<1> DEFINE f == FilterChain(chan)
<1>12. Is(f)
  BY <1>10, <1>11
<1> HIDE DEF f
<1>13. f = [sig \in Bands |-> f[sig]] /\ \A sig \in Bands : f[sig] = Value(f, sig)
  <2> HIDE DEF Value
  <2> QED BY <1>12 DEF Is
<1>14. \A sig \in Bands \ stop : f[sig] = After(sig, f[Half(FirstFit(sig, chan), sig)])
  <2> HIDE DEF After
  <2> QED BY <1>13 DEF Ends
<1>15. \A sig \in stop : f[sig] = base[sig]
  <2> HIDE DEF After
  <2> QED BY <1>13, <1>2 DEF Ends
<1> DEFINE S == {n \in Nat : \A sig \in Bands : m[sig] = n => f[sig] \in Chains}
<1>16. Nat \subseteq S
  <2>1. ASSUME NEW n \in Nat, \A k \in 0..(n - 1) : k \in S PROVE n \in S
    <3> SUFFICES ASSUME NEW sig \in Bands, m[sig] = n PROVE f[sig] \in Chains
      OBVIOUS
    <3> HIDE DEF m, base, stop, next, After
    <3>1. CASE sig \in stop
      BY <1>4, <1>15, <3>1
    <3>2. CASE sig \notin stop
      <4>1. next[sig] \in Bands /\ m[next[sig]] \in Nat /\ m[next[sig]] < n
        BY <1>1, <1>3, <1>7, <3>2
      <4>2. f[next[sig]] \in Chains
        BY <4>1, <2>1
      <4>3. next[sig] = Half(FirstFit(sig, chan), sig)
        BY <3>2 DEF next
      <4> QED BY <1>5, <1>14, <3>2, <4>2, <4>3
    <3> QED BY <3>1, <3>2
  <2> HIDE DEF S
  <2> QED BY <2>1, Complete
<1>17. f \in [Bands -> Chains]
  <2> HIDE DEF m
  <2>1. ASSUME NEW sig \in Bands PROVE f[sig] \in Chains
    BY <1>1, <1>16
  <2> QED BY <2>1, <1>13
<1>18. \A sig \in stop : f[sig] = [stages |-> << >>, ofs |-> Centre(chan) - Centre(sig)]
  BY <1>15, <1>2
<1> HIDE DEF m, stop, next, base, step, Value, S
<1> QED BY <1>14, <1>17, <1>18 DEF f, stop

(* What the filters do with a band as wide as w, around c, for a channel   *)
(* as wide as a, around f.                                                 *)
Filtered(c, w, f, a) ==
  LET chan  == Around(f, a)
      chain == FilterChain(chan)[Around(c, w)]
      n     == Len(chain.stages)
      pass  == Pass(chain.stages, [centre |-> c, rate |-> w])[n]
      band  == Around(pass.centre, pass.rate)
  IN /\ chain \in Chains /\ pass \in PassType
     /\ pass.rate * LeftShift[n] = w
     /\ pass.centre + chain.ofs = f
     /\ IF SignalContainsChannel(Around(c, w), chan)
        THEN SignalContainsChannel(band, chan)
        ELSE chain.stages = << >>
     /\ \A mode \in Modes : ~Fits(mode, band, chan)
     /\ chain.stages = << >> \/ a * LeftShift[n] <= w

LEMMA Arounds ==
  ASSUME NEW c \in Int, NEW w \in Int
  PROVE  /\ Around(c, w) \in Bands /\ Centre(Around(c, w)) = c
         /\ w % 2 = 0 => Bandwidth(Around(c, w)) = w
BY DEF Around, Bands, Band, Centre, Bandwidth

LEMMA FittingHalf ==
  ASSUME NEW c \in Int, NEW w \in Widths, NEW f \in Int, NEW a \in AudioRates \cup {0},
         NEW mode \in Modes, Fits(mode, Around(c, w), Around(f, a))
  PROVE  LET pass == Passes(mode, [centre |-> c, rate |-> w])
         IN /\ a # 0 /\ 2 * a <= w /\ w % 4 = 0 /\ pass \in PassType
            /\ pass.rate = w \div 2 /\ pass.rate \in Widths
            /\ Half(mode, Around(c, w)) = Around(pass.centre, pass.rate)
            /\ SignalContainsChannel(Around(c, w), Around(f, a))
<1> DEFINE sig == Around(c, w)
           half == Half(mode, sig)
           chan == Around(f, a)
           pass == Passes(mode, [centre |-> c, rate |-> w])
<1>1. w \in Nat \ {0} /\ w % 2 = 0 /\ a \in Nat /\ a % 2 = 0
  BY WidthsAssumption, AudioRatesAssumption
<1>2. sig \in Bands /\ Bandwidth(sig) = w /\ chan \in Bands /\ Bandwidth(chan) = a
  BY <1>1, Arounds
<1>3. half \in Bands /\ Bandwidth(half) = w \div 2
  BY <1>2, Halves
<1>4. /\ half.end > half.start /\ chan.end > chan.start
      /\ half.start <= chan.start /\ half.end >= chan.end
  BY DEF Fits, SignalContainsChannel
<1>5. a # 0 /\ a <= w \div 2
  <2> HIDE DEF half, chan
  <2> QED BY <1>1, <1>2, <1>3, <1>4 DEF Bandwidth, Bands
<1>6. 2 * a <= w
  BY <1>1, <1>5
<1>7. w % 4 = 0 /\ w \div 2 \in Widths
  BY <1>5, <1>6, UnitAssumption
<1>8. /\ sig.start = c - w \div 2 /\ sig.end = c + w \div 2
  BY DEF Around, Band
<1>9. w \div 2 = 2 * (w \div 4) /\ w = 4 * (w \div 4) /\ w \div 4 \in Nat
  BY <1>1, <1>7
<1>10. half = Around(pass.centre, w \div 2)
       /\ half.start >= sig.start /\ half.end <= sig.end
  <2>1. (w \div 2) \div 2 = w \div 4
    BY <1>9
  <2>2. CASE mode = "LowerHalf"
    <3>1. half = Band(sig.start, sig.start + w \div 2)
      BY <2>2, <1>2 DEF Half
    <3>2. pass.centre = c - w \div 4
      BY <2>2, <1>9 DEF Passes, Turn
    <3> QED BY <3>1, <3>2, <2>1, <1>8, <1>9 DEF Around, Band
  <2>3. CASE mode = "UpperHalf"
    <3>1. half = Band(sig.end - w \div 2, (sig.end - w \div 2) + w \div 2)
      BY <2>3, <1>2 DEF Half
    <3>2. pass.centre = c + w \div 4
      BY <2>3, <1>9 DEF Passes, Turn
    <3> QED BY <3>1, <3>2, <2>1, <1>8, <1>9 DEF Around, Band
  <2>4. CASE mode = "Center"
    <3>1. half = Band(sig.start + w \div 4, (sig.start + w \div 4) + w \div 2)
      BY <2>4, <1>2 DEF Half
    <3>2. pass.centre = c
      BY <2>4, <1>9 DEF Passes, Turn
    <3> QED BY <3>1, <3>2, <2>1, <1>8, <1>9 DEF Around, Band
  <2> QED BY <2>2, <2>3, <2>4 DEF Modes
<1>11. SignalContainsChannel(sig, chan)
  <2> HIDE DEF half, sig, chan
  <2> QED BY <1>2, <1>3, <1>4, <1>10 DEF SignalContainsChannel, Bands
<1>12. pass \in PassType /\ pass.rate = w \div 2
  <2>1. [centre |-> c, rate |-> w] \in PassType
    BY <1>1 DEF PassType
  <2>2. pass.rate = w \div 2
    BY DEF Passes
  <2> QED BY <2>1, <2>2, PassesType
<1> QED BY <1>5, <1>6, <1>7, <1>10, <1>11, <1>12

LEMMA Filters ==
  ASSUME NEW f \in Int, NEW a \in AudioRates \cup {0}, NEW w \in Widths, NEW c \in Int
  PROVE  Filtered(c, w, f, a)
<1> DEFINE S == {n \in Nat : n \in Widths => \A b \in Int : Filtered(b, n, f, a)}
<1>1. ASSUME NEW n \in Nat, \A k \in 0..(n - 1) : k \in S PROVE n \in S
  <2> SUFFICES ASSUME n \in Widths, NEW b \in Int PROVE Filtered(b, n, f, a)
    OBVIOUS
  <2> DEFINE chan == Around(f, a)
             sig == Around(b, n)
             start == [centre |-> b, rate |-> n]
             chain == FilterChain(chan)[sig]
             first == FirstFit(sig, chan)
             pass == Passes(first, start)
             rest == FilterChain(chan)[Around(pass.centre, pass.rate)]
  <2>1. n \in Nat \ {0} /\ n % 2 = 0 /\ a \in Nat /\ a % 2 = 0
    BY WidthsAssumption, AudioRatesAssumption
  <2>2. sig \in Bands /\ Centre(sig) = b /\ chan \in Bands /\ Centre(chan) = f
    BY <2>1, Arounds
  <2>3. start \in PassType
    BY <2>1 DEF PassType
  <2>4. CASE sig \in Ends(chan)
    <3>1. chain = [stages |-> << >>, ofs |-> f - b]
      BY <2>2, <2>4, Chaining
    <3>2. Pass(<< >>, start)[0] = start
      <4>1. << >> \in Seq(Modes)
        OBVIOUS
      <4> HIDE DEF start
      <4> QED BY <4>1, <2>3, Passing
    <3>3. \A mode \in Modes : ~Fits(mode, sig, chan)
      BY <2>4 DEF Ends
    <3>4. chain \in Chains
      BY <2>2, Chaining
    <3>5. Pass(chain.stages, start)[Len(chain.stages)] = start
      BY <3>1, <3>2
    <3>6. LeftShift[Len(chain.stages)] = 1
      BY <3>1, Shifts
    <3> HIDE DEF chan, sig, start, chain
    <3>7. start.centre = b /\ start.rate = n
      BY DEF start
    <3> QED
      BY <3>1, <3>3, <3>4, <3>5, <3>6, <3>7, <2>1, <2>3 DEF Filtered, chan, sig, start, chain
  <2>5. CASE sig \notin Ends(chan)
    <3>1. first \in Modes /\ Fits(first, sig, chan)
      BY <2>2, <2>5, FirstFits
    <3>2. /\ a # 0 /\ 2 * a <= n /\ n % 4 = 0 /\ pass \in PassType
          /\ pass.rate = n \div 2 /\ pass.rate \in Widths
          /\ Half(first, sig) = Around(pass.centre, pass.rate)
          /\ SignalContainsChannel(sig, chan)
      BY <3>1, FittingHalf
    <3>3. chain = [stages |-> <<first>> \o rest.stages, ofs |-> rest.ofs]
      <4>1. sig \in Bands \ Ends(chan)
        BY <2>2, <2>5
      <4>2. rest = FilterChain(chan)[Half(first, sig)]
        BY <3>2
      <4> HIDE DEF sig, chan, rest
      <4> QED BY <4>1, <4>2, <2>2, Chaining
    <3>4. pass.rate \in 0..(n - 1) /\ pass.centre \in Int
      BY <2>1, <3>2 DEF PassType
    <3>5. Filtered(pass.centre, pass.rate, f, a)
      BY <1>1, <3>2, <3>4
    <3> HIDE DEF pass, first, sig, chan, start
    <3>6. pass = [centre |-> pass.centre, rate |-> pass.rate]
      BY <3>2 DEF PassType
    <3> DEFINE k == Len(rest.stages)
               last == Pass(rest.stages, pass)[k]
               band == Around(last.centre, last.rate)
    <3>7. /\ rest \in Chains /\ last \in PassType
          /\ last.rate * LeftShift[k] = pass.rate
          /\ last.centre + rest.ofs = f
          /\ IF SignalContainsChannel(Around(pass.centre, pass.rate), chan)
             THEN SignalContainsChannel(band, chan) ELSE rest.stages = << >>
          /\ \A mode \in Modes : ~Fits(mode, band, chan)
          /\ rest.stages = << >> \/ a * LeftShift[k] <= pass.rate
      BY <3>5, <3>6 DEF Filtered, chan
    <3>8. rest.stages \in Seq(Modes) /\ rest.ofs \in Int
      BY <3>7 DEF Chains
    <3> HIDE DEF rest
    <3>9. chain.stages = <<first>> \o rest.stages /\ chain.ofs = rest.ofs
      BY <3>3
    <3>10. Len(chain.stages) = k + 1 /\ k \in Nat /\ chain.stages # << >>
      BY <3>1, <3>8, <3>9
    <3>11. Pass(chain.stages, start)[k + 1] = last
      BY <3>1, <3>8, <3>9, <2>3, PassAfterFirst DEF pass
    <3>12. LeftShift[k + 1] = 2 * LeftShift[k] /\ LeftShift[k] \in Nat \ {0}
      BY <3>10, Shifts
    <3>13. chain \in Chains
      BY <2>2, Chaining
    <3>14. SignalContainsChannel(Around(pass.centre, pass.rate), chan)
      BY <3>1, <3>2 DEF Fits
    <3>15. SignalContainsChannel(band, chan)
      BY <3>7, <3>14
    <3> HIDE DEF k, last, chain
    <3>16. last.rate * LeftShift[k + 1] = n
      <4>1. last.rate \in Int /\ 2 * pass.rate = n
        BY <3>2, <3>7, <2>1 DEF PassType
      <4>2. last.rate * (2 * LeftShift[k]) = 2 * (last.rate * LeftShift[k])
        BY <4>1, <3>12
      <4> QED BY <4>1, <4>2, <3>7, <3>12
    <3>17. a * LeftShift[k + 1] <= n
      <4>1. 2 * pass.rate = n
        BY <3>2, <2>1
      <4>2. CASE rest.stages = << >>
        <5>1. k = 0
          BY <4>2 DEF k
        <5>2. LeftShift[k + 1] = 2
          BY <3>12, <5>1, Shifts
        <5> QED BY <5>2, <3>2, <2>1
      <4>3. CASE a * LeftShift[k] <= pass.rate
        <5>1. a * (2 * LeftShift[k]) = 2 * (a * LeftShift[k])
          BY <2>1, <3>12
        <5> QED BY <4>1, <4>3, <5>1, <3>12, <2>1, <3>4
      <4> QED BY <3>7, <4>2, <4>3
    <3>18. last.centre + chain.ofs = f
      BY <3>7, <3>9
    <3> HIDE DEF band
    <3> QED
      BY <3>2, <3>7, <3>10, <3>11, <3>13, <3>15, <3>16, <3>17, <3>18
      DEF Filtered, chan, sig, start, chain, band
  <2> QED BY <2>4, <2>5
<1>2. Nat \subseteq S
  <2> HIDE DEF S
  <2> QED BY <1>1, Complete
<1> QED BY <1>2, WidthsAssumption

-----------------------------------------------------------------------------
(* The messages of the demodulator.                                        *)
Notifications ==
  [type : {"MsgChannelizerNotification"}, sampleRate : Nat \ {0}, frequencyOffset : Int]
ChannelizerMessages ==
  [type : {"MsgConfigureChannelizer"}, sampleRate : AudioRates, centerFrequency : Offsets]
SettingsMessages ==
  [type : {"MsgConfigureAMDemod"}, settings : Settings, force : BOOLEAN]
AudioMessages == [type : {"DSPConfigureAudio"}, sampleRate : AudioRates]

Messages ==
  Notifications \cup ChannelizerMessages \cup SettingsMessages \cup AudioMessages

Configurations == [sampleRate : AudioRates, centerFrequency : Offsets]

ChannelizerType ==
  [inputSampleRate : SampleRates \cup {0},
   requestedOutputSampleRate : AudioRates \cup {0}, requestedCenterFrequency : Offsets,
   currentOutputSampleRate : Nat, currentCenterFrequency : Int, filterStages : Seq(Modes)]

DemodType ==
  [m_settings : Settings, m_inputSampleRate : Nat \ {0}, m_inputFrequencyOffset : Int,
   m_audioSampleRate : AudioRates, nco : Int \X (Nat \ {0}),
   interpolator : (Nat \ {0}) \X AudioRates]

Places == {"idle", "centre", "chain", "rate", "create", "push"}

ChannelizerTypes ==
  /\ channelizer \in ChannelizerType
  /\ m_channelizerQueue \in Seq(Configurations)
  /\ m_inputMessageQueue \in Seq(Messages)
  /\ applying \in [Appliers -> Places]
  /\ notif \in [Appliers -> Notifications \cup {None}]
  /\ overlapped \in BOOLEAN

DemodTypes ==
  /\ demod \in DemodType /\ attached \in Devices
  /\ rateOf \in [Devices -> AudioRates] /\ running \in BOOLEAN
  /\ request \in RequestType \cup {None}
  /\ inputs \in 0..MaxInputs /\ crossed \in BOOLEAN

(* Where a thread is in applyConfiguration() there is something to apply.  *)
Applying ==
  /\ applying["engine"] # "centre"
  /\ applying["channel"] = "centre" => m_channelizerQueue # << >>
  /\ Busy("channel") => running
  /\ \A t \in Appliers :
       /\ applying[t] \notin {"idle", "centre"} => channelizer.inputSampleRate # 0
       /\ applying[t] = "create" => channelizer.currentOutputSampleRate # 0
       /\ applying[t] = "push" => notif[t] \in Notifications

(* The filters leave something of each rate there is.                      *)
Leave(stages) == \A r \in SampleRates : LeftShift[Len(stages)] <= r

Short == Leave(channelizer.filterStages)

Types == ChannelizerTypes /\ DemodTypes /\ Applying /\ Short

(* The chain is that of the rate of the source and of what is requested.   *)
Made(c) ==
  LET chain == CreateFilterChain(Around(0, c.inputSampleRate), Requested(c))
  IN c.filterStages = chain.stages /\ c.currentCenterFrequency = chain.ofs

(* It is, or a thread will make it after all that was written: whoever     *)
(* writes one of these makes the chain after it.                           *)
WillBeMade ==
  \/ channelizer.inputSampleRate = 0
  \/ \E t \in Appliers : applying[t] \in {"centre", "chain"}
  \/ Made(channelizer)

(* The rate that leaves the filters is computed from them.                 *)
Rated(c) ==
  c.currentOutputSampleRate = c.inputSampleRate \div LeftShift[Len(c.filterStages)]

(* The messages of a type that wait in a queue.                            *)
Of(queue, type) == {queue[i] : i \in {j \in DOMAIN queue : queue[j].type = type}}

Waits(queue, type) == Of(queue, type) # {}

(* The last notification in the queue is n, or without one the demodulator *)
(* has taken it.                                                           *)
Tells(queue, d, n) ==
  IF ~Waits(queue, "MsgChannelizerNotification")
  THEN d.m_inputSampleRate = n.sampleRate /\ d.m_inputFrequencyOffset = n.frequencyOffset
  ELSE \E i \in DOMAIN queue :
         /\ queue[i] = n
         /\ \A j \in DOMAIN queue : queue[j].type = "MsgChannelizerNotification" => j <= i

OneByOne == ~overlapped => ~(Busy("channel") /\ Busy("engine"))

(* One thread alone goes from the chain to the notification without a      *)
(* change of what it read.                                                 *)
Notified ==
  ~overlapped /\ channelizer.inputSampleRate # 0 =>
    /\ \A t \in Appliers :
         /\ applying[t] \in {"rate", "create", "push"} => Made(channelizer)
         /\ applying[t] \in {"create", "push"} => Rated(channelizer)
         /\ applying[t] = "push" => notif[t] = Notification(channelizer)
    /\ Standing => /\ Made(channelizer) /\ Rated(channelizer)
                   /\ Tells(m_inputMessageQueue, demod, Notification(channelizer))

(* What the demodulator works with is made of its members.                 *)
Kept ==
  /\ demod.nco = <<demod.m_inputFrequencyOffset, demod.m_inputSampleRate>>
  /\ demod.interpolator = <<demod.m_inputSampleRate, demod.m_audioSampleRate>>

ChannelInv == WillBeMade /\ OneByOne /\ Notified /\ Kept

(* The channelizer will have the offset f when it has taken its messages.  *)
Will(c, queue, f) ==
  IF queue = << >> THEN c.requestedCenterFrequency = f
                   ELSE queue[Len(queue)].centerFrequency = f

Posted == {"MsgConfigureChannelizer", "MsgConfigureAMDemod", "DSPConfigureAudio"}

(* One thing is asked at a time: ...                                       *)
InOrder(queue) ==
  /\ \A i, j \in DOMAIN queue :
       queue[i].type \in Posted /\ queue[j].type = queue[i].type => i = j
  /\ \A i, j \in DOMAIN queue :
       queue[i].type = "MsgConfigureChannelizer" /\ queue[j].type = "MsgConfigureAMDemod"
         => i < j
  /\ Waits(queue, "DSPConfigureAudio") =>
       ~Waits(queue, "MsgConfigureChannelizer") /\ ~Waits(queue, "MsgConfigureAMDemod")

(* ... settings s asked for differ from those there are in one member.     *)
Differs(s, d) ==
  \/ s.m_inputFrequencyOffset = d.m_settings.m_inputFrequencyOffset
  \/ s.m_audioDeviceName = d.m_settings.m_audioDeviceName

RequestAlone ==
  request # None =>
    /\ ~Waits(m_inputMessageQueue, "MsgConfigureAMDemod")
    /\ ~Waits(m_inputMessageQueue, "DSPConfigureAudio")
    /\ request.next = "MsgConfigureChannelizer"
         => ~Waits(m_inputMessageQueue, "MsgConfigureChannelizer")
    /\ Differs(request.settings, demod)
    /\ "m_inputFrequencyOffset" \notin request.keys =>
         request.settings.m_inputFrequencyOffset = demod.m_settings.m_inputFrequencyOffset

SettingsDiffer ==
  \A m \in Of(m_inputMessageQueue, "MsgConfigureAMDemod") : Differs(m.settings, demod)

(* f is the offset that the demodulator will have.                         *)
Final(asked, queue, d, f) ==
  IF asked # None
  THEN f = IF asked.next = "MsgConfigureAMDemod" THEN asked.settings.m_inputFrequencyOffset
           ELSE d.m_settings.m_inputFrequencyOffset
  ELSE IF Waits(queue, "MsgConfigureAMDemod")
  THEN \A m \in Of(queue, "MsgConfigureAMDemod") : f = m.settings.m_inputFrequencyOffset
  ELSE f = d.m_settings.m_inputFrequencyOffset

(* The channelizer will have it, too.                                      *)
Comes(f) ==
  /\ \A m \in Of(m_inputMessageQueue, "MsgConfigureChannelizer") : m.centerFrequency = f
  /\ ~Waits(m_inputMessageQueue, "MsgConfigureChannelizer") =>
       Will(channelizer, m_channelizerQueue, f)

OffsetComes ==
  \A f \in Offsets : Final(request, m_inputMessageQueue, demod, f) => Comes(f)

(* The audio rate is that of the output, or will be.                       *)
RateComes ==
  /\ attached = demod.m_settings.m_audioDeviceName
  /\ \A m \in Of(m_inputMessageQueue, "DSPConfigureAudio") : m.sampleRate = rateOf[attached]
  /\ ~Waits(m_inputMessageQueue, "DSPConfigureAudio") =>
       demod.m_audioSampleRate = rateOf[attached]

Uncrossed ==
  ~crossed => /\ InOrder(m_inputMessageQueue) /\ RequestAlone /\ SettingsDiffer
              /\ OffsetComes /\ RateComes

Inv == Types /\ ChannelInv /\ Uncrossed

-----------------------------------------------------------------------------
(* Members one by one.                                                     *)
LEMMA ChainedMembers ==
  ASSUME NEW c \in ChannelizerType, c.inputSampleRate # 0
  PROVE  LET chain == CreateFilterChain(Around(0, c.inputSampleRate), Requested(c))
         IN /\ Chained(c) \in ChannelizerType
            /\ Chained(c).inputSampleRate = c.inputSampleRate
            /\ Chained(c).requestedOutputSampleRate = c.requestedOutputSampleRate
            /\ Chained(c).requestedCenterFrequency = c.requestedCenterFrequency
            /\ Chained(c).currentOutputSampleRate = c.currentOutputSampleRate
            /\ Chained(c).filterStages = chain.stages
            /\ Chained(c).currentCenterFrequency = chain.ofs
            /\ Chained(c) = [c EXCEPT !.filterStages = chain.stages,
                                      !.currentCenterFrequency = chain.ofs]
<1> DEFINE chain == CreateFilterChain(Around(0, c.inputSampleRate), Requested(c))
<1>1. c.inputSampleRate \in Int /\ c.requestedCenterFrequency \in Int
      /\ c.requestedOutputSampleRate \in Int
  <2>1. c.inputSampleRate \in SampleRates \cup {0} /\ c.requestedCenterFrequency \in Offsets
        /\ c.requestedOutputSampleRate \in AudioRates \cup {0}
    BY DEF ChannelizerType
  <2>2. \A r \in SampleRates \cup {0} : r \in Int
    BY WidthsAssumption
  <2>3. \A r \in AudioRates \cup {0} : r \in Int
    BY AudioRatesAssumption
  <2> QED BY <2>1, <2>2, <2>3, OffsetsAssumption
<1>2. Around(0, c.inputSampleRate) \in Bands /\ Requested(c) \in Bands
  BY <1>1, Arounds DEF Requested
<1>3. chain \in Chains
  BY <1>2, Chaining DEF CreateFilterChain
<1>4. chain.stages \in Seq(Modes) /\ chain.ofs \in Int
  BY <1>3 DEF Chains
<1>5. Chained(c) = [c EXCEPT !.filterStages = chain.stages,
                             !.currentCenterFrequency = chain.ofs]
  BY DEF Chained
<1> HIDE DEF chain
<1> QED BY <1>4, <1>5 DEF ChannelizerType, chain

LEMMA RatedMembers ==
  ASSUME NEW c \in ChannelizerType, NEW n \in Nat
  PROVE  /\ WithRate(c, n) \in ChannelizerType
         /\ WithRate(c, n).inputSampleRate = c.inputSampleRate
         /\ WithRate(c, n).requestedOutputSampleRate = c.requestedOutputSampleRate
         /\ WithRate(c, n).requestedCenterFrequency = c.requestedCenterFrequency
         /\ WithRate(c, n).currentOutputSampleRate = c.inputSampleRate \div LeftShift[n]
         /\ WithRate(c, n).filterStages = c.filterStages
         /\ WithRate(c, n).currentCenterFrequency = c.currentCenterFrequency
<1> DEFINE rate == c.inputSampleRate \div LeftShift[n]
<1>1. rate \in Nat
  <2>1. c.inputSampleRate \in Nat /\ LeftShift[n] \in Nat \ {0}
    BY WidthsAssumption, Shifts DEF ChannelizerType
  <2> QED BY <2>1
<1>2. WithRate(c, n) = [c EXCEPT !.currentOutputSampleRate = rate]
  BY DEF WithRate
<1> HIDE DEF rate
<1> QED BY <1>1, <1>2 DEF ChannelizerType, rate

(* The filters of each chain leave something of every rate.                *)
LEMMA ChainLeaves ==
  ASSUME NEW c \in ChannelizerType, c.inputSampleRate # 0
  PROVE  Leave(Chained(c).filterStages)
<1> DEFINE w == c.inputSampleRate
           a == c.requestedOutputSampleRate
           f == c.requestedCenterFrequency
           chain == FilterChain(Around(f, a))[Around(0, w)]
           n == Len(chain.stages)
<1>1. w \in SampleRates /\ w \in Widths /\ a \in AudioRates \cup {0} /\ f \in Int
  BY WidthsAssumption, OffsetsAssumption DEF ChannelizerType
<1>2. Chained(c).filterStages = chain.stages
  BY ChainedMembers DEF CreateFilterChain, Requested
<1>3. Filtered(0, w, f, a)
  BY <1>1, Filters
<1>4. chain \in Chains /\ (chain.stages = << >> \/ a * LeftShift[n] <= w)
  BY <1>3 DEF Filtered
<1> HIDE DEF chain, w, a, f
<1>5. chain.stages \in Seq(Modes)
  BY <1>4 DEF Chains
<1>6. LeftShift[n] \in Nat \ {0} /\ LeftShift[0] = 1
  <2>1. n \in Nat
    BY <1>5
  <2> QED BY <2>1, Shifts
<1> SUFFICES ASSUME NEW r \in SampleRates PROVE LeftShift[n] <= r
  BY <1>2 DEF Leave
<1>7. r \in Nat \ {0} /\ w \in Nat \ {0} /\ a \in Nat
  BY <1>1, WidthsAssumption, AudioRatesAssumption
<1>8. CASE chain.stages = << >>
  BY <1>6, <1>7, <1>8
<1>9. CASE a * LeftShift[n] <= w
  <2>1. CASE a = 0
    <3>1. SignalContainsChannel(Around(0, w), Around(f, a)) = FALSE
      BY <2>1, <1>1 DEF SignalContainsChannel, Around, Band
    <3>2. chain.stages = << >>
      BY <1>3, <3>1 DEF Filtered, chain
    <3> QED BY <1>8, <3>2
  <2>2. CASE a # 0
    <3>1. w < a * r
      BY <1>1, <2>2, RatesAssumption
    <3>2. LeftShift[n] > r => a * r <= a * LeftShift[n]
      <4> DEFINE l == LeftShift[n]
      <4> SUFFICES ASSUME l > r PROVE a * r <= a * l
        OBVIOUS
      <4> l \in Nat /\ a \in Nat /\ r \in Nat
        BY <1>6, <1>7
      <4> HIDE DEF l
      <4>1. a * l = a * r + a * (l - r) /\ a * (l - r) >= 0
        OBVIOUS
      <4>2. a * r \in Int /\ a * l \in Int
        OBVIOUS
      <4> QED BY <4>1, <4>2
    <3>3. a * r \in Int /\ a * LeftShift[n] \in Int
      BY <1>6, <1>7
    <3> QED BY <1>6, <1>7, <1>9, <3>1, <3>2, <3>3
  <2> QED BY <2>1, <2>2
<1> QED BY <1>4, <1>8, <1>9

LEMMA Division ==
  ASSUME NEW x \in Nat, NEW l \in Nat \ {0}
  PROVE  /\ (x * l) \div l = x
         /\ l <= x => x \div l \in Nat \ {0}
<1>1. ASSUME NEW y \in Nat PROVE y \div l \in Nat /\ (y \div l) * l <= y /\ y < (y \div l) * l + l
  <2> DEFINE q == y \div l
             r == y % l
  <2>1. q \in Int /\ r \in 0..(l - 1) /\ y = l * q + r
    OBVIOUS
  <2> HIDE DEF q, r
  <2>2. l * q = q * l
    BY <2>1
  <2>3. q >= 0
    <3> SUFFICES ASSUME q <= -1 PROVE FALSE
      BY <2>1
    <3>1. l * q = l * (q + 1) - l
      BY <2>1
    <3>2. l * (q + 1) <= 0
      BY <2>1
    <3> QED BY <2>1, <3>1, <3>2
  <2> QED BY <2>1, <2>2, <2>3 DEF q
<1>2. (x * l) \div l = x
  <2> DEFINE q == (x * l) \div l
  <2>1. x * l \in Nat
    OBVIOUS
  <2>2. q \in Nat /\ q * l <= x * l /\ x * l < q * l + l
    BY <1>1, <2>1
  <2> HIDE DEF q
  <2>3. q <= x
    <3> SUFFICES ASSUME q >= x + 1 PROVE FALSE
      BY <2>2
    <3>1. q * l = x * l + l + (q - x - 1) * l /\ (q - x - 1) * l >= 0
      BY <2>2
    <3> QED BY <2>1, <2>2, <3>1
  <2>4. x <= q
    <3> SUFFICES ASSUME x >= q + 1 PROVE FALSE
      BY <2>2
    <3>1. x * l = q * l + l + (x - q - 1) * l /\ (x - q - 1) * l >= 0
      BY <2>2
    <3>2. q * l \in Int
      BY <2>2
    <3> QED BY <2>1, <2>2, <3>1, <3>2
  <2> QED BY <2>2, <2>3, <2>4 DEF q
<1>3. ASSUME l <= x PROVE x \div l \in Nat \ {0}
  <2>1. x \div l \in Nat /\ x < (x \div l) * l + l
    BY <1>1
  <2>2. x \div l = 0 => (x \div l) * l = 0
    OBVIOUS
  <2> QED BY <1>3, <2>1, <2>2
<1> QED BY <1>2, <1>3

(* A chain that is made passes the channel.                                *)
LEMMA Passed ==
  ASSUME NEW c \in ChannelizerType, c.inputSampleRate # 0, Made(c)
  PROVE  LET pass == PassBand(c.filterStages, c.inputSampleRate)
             band == Around(pass.centre, pass.rate)
             chan == Requested(c)
         IN /\ pass.rate = c.inputSampleRate \div LeftShift[Len(c.filterStages)]
            /\ pass.centre + c.currentCenterFrequency = c.requestedCenterFrequency
            /\ IF SignalContainsChannel(Around(0, c.inputSampleRate), chan)
               THEN /\ SignalContainsChannel(band, chan)
                    /\ \A mode \in Modes : ~Fits(mode, band, chan)
               ELSE c.filterStages = << >>
<1> DEFINE w == c.inputSampleRate
           a == c.requestedOutputSampleRate
           f == c.requestedCenterFrequency
           chain == FilterChain(Around(f, a))[Around(0, w)]
           n == Len(chain.stages)
           pass == Pass(chain.stages, [centre |-> 0, rate |-> w])[n]
<1>1. w \in SampleRates /\ w \in Widths /\ a \in AudioRates \cup {0} /\ f \in Int
  BY WidthsAssumption, OffsetsAssumption DEF ChannelizerType
<1>2. Filtered(0, w, f, a)
  BY <1>1, Filters
<1>3. c.filterStages = chain.stages /\ c.currentCenterFrequency = chain.ofs
  BY DEF Made, CreateFilterChain, Requested
<1>4. PassBand(c.filterStages, w) = pass
  BY <1>3 DEF PassBand, Pass
<1>5. /\ chain \in Chains /\ pass \in PassType
      /\ pass.rate * LeftShift[n] = w /\ pass.centre + chain.ofs = f
      /\ IF SignalContainsChannel(Around(0, w), Around(f, a))
         THEN SignalContainsChannel(Around(pass.centre, pass.rate), Around(f, a))
         ELSE chain.stages = << >>
      /\ \A mode \in Modes : ~Fits(mode, Around(pass.centre, pass.rate), Around(f, a))
  BY <1>2 DEF Filtered
<1>6. Requested(c) = Around(f, a)
  BY DEF Requested
<1> HIDE DEF pass, chain
<1>7. pass.rate = w \div LeftShift[n]
  <2>1. chain.stages \in Seq(Modes)
    BY <1>5 DEF Chains
  <2>2. n \in Nat
    BY <2>1
  <2>3. LeftShift[n] \in Nat \ {0}
    BY <2>2, Shifts
  <2>4. w \in Nat \ {0} /\ pass.rate \in Int
    BY <1>1, <1>5, WidthsAssumption DEF PassType
  <2>5. pass.rate \in Nat
    <3> DEFINE l == LeftShift[n]
               r == pass.rate
    <3> HIDE DEF l, r, w
    <3>1. l \in Nat \ {0} /\ r \in Int /\ r * l = w /\ w \in Nat
      BY <1>5, <2>3, <2>4 DEF l, r
    <3>2. r < 0 => r * l < 0
      BY <3>1
    <3>3. r \in Nat
      BY <3>1, <3>2
    <3> QED BY <3>3 DEF r
  <2> QED BY <1>5, <2>3, <2>5, Division
<1> QED BY <1>3, <1>4, <1>5, <1>6, <1>7

-----------------------------------------------------------------------------
LEMMA Appended ==
  ASSUME NEW M, NEW q \in Seq(M), NEW m \in M
  PROVE  LET r == Append(q, m)
         IN /\ r \in Seq(M) /\ r # << >> /\ Len(r) = Len(q) + 1
            /\ r[Len(r)] = m /\ \A i \in 1..Len(q) : r[i] = q[i]
            /\ DOMAIN r = 1..Len(r) /\ DOMAIN q = 1..Len(q) /\ Len(q) \in Nat
OBVIOUS

LEMMA Headed ==
  ASSUME NEW M, NEW q \in Seq(M), q # << >>
  PROVE  LET r == Tail(q)
         IN /\ r \in Seq(M) /\ Len(q) = Len(r) + 1 /\ Head(q) = q[1] /\ Head(q) \in M
            /\ \A i \in 1..Len(r) : r[i] = q[i + 1]
            /\ DOMAIN r = 1..Len(r) /\ DOMAIN q = 1..Len(q) /\ Len(r) \in Nat
OBVIOUS

LEMMA OfAppended ==
  ASSUME NEW M, NEW q \in Seq(M), NEW m \in M, NEW type
  PROVE  Of(Append(q, m), type) = Of(q, type) \cup (IF m.type = type THEN {m} ELSE {})
<1> DEFINE r == Append(q, m)
<1>1. /\ Len(r) = Len(q) + 1 /\ r[Len(r)] = m /\ \A i \in 1..Len(q) : r[i] = q[i]
      /\ DOMAIN r = 1..Len(r) /\ DOMAIN q = 1..Len(q) /\ Len(q) \in Nat
  BY Appended
<1> HIDE DEF r
<1>2. DOMAIN r = DOMAIN q \cup {Len(q) + 1} /\ r[Len(q) + 1] = m
  BY <1>1
<1> QED BY <1>1, <1>2 DEF Of, r

LEMMA OfHeaded ==
  ASSUME NEW M, NEW q \in Seq(M), q # << >>, NEW type
  PROVE  Of(q, type) = Of(Tail(q), type) \cup (IF Head(q).type = type THEN {Head(q)} ELSE {})
<1> DEFINE r == Tail(q)
           h == Head(q)
<1>1. /\ Len(q) = Len(r) + 1 /\ h = q[1] /\ \A i \in 1..Len(r) : r[i] = q[i + 1]
      /\ DOMAIN r = 1..Len(r) /\ DOMAIN q = 1..Len(q) /\ Len(r) \in Nat
  BY Headed
<1> HIDE DEF r, h
<1>2. \A i \in 1..Len(q) : i = 1 \/ (i - 1 \in 1..Len(r) /\ q[i] = r[i - 1])
  BY <1>1
<1>3. \A i \in 1..Len(r) : i + 1 \in 1..Len(q) /\ q[i + 1] = r[i]
  BY <1>1
<1>4. 1 \in 1..Len(q)
  BY <1>1
<1>5. ASSUME NEW x \in Of(q, type) PROVE x \in Of(r, type) \cup (IF h.type = type THEN {h} ELSE {})
  <2>1. PICK i \in 1..Len(q) : q[i].type = type /\ x = q[i]
    BY <1>1 DEF Of
  <2> QED BY <2>1, <1>1, <1>2 DEF Of
<1>6. Of(r, type) \subseteq Of(q, type)
  BY <1>1, <1>3 DEF Of
<1>7. h.type = type => h \in Of(q, type)
  BY <1>1, <1>4 DEF Of
<1> QED BY <1>5, <1>6, <1>7 DEF r, h

LEMMA TellsSame ==
  ASSUME NEW q, NEW d, NEW e, NEW n, Tells(q, d, n),
         e.m_inputSampleRate = d.m_inputSampleRate,
         e.m_inputFrequencyOffset = d.m_inputFrequencyOffset
  PROVE  Tells(q, e, n)
BY DEF Tells

LEMMA TellsAppended ==
  ASSUME NEW q \in Seq(Messages), NEW m \in Messages, NEW d, NEW n,
         m.type # "MsgChannelizerNotification", Tells(q, d, n)
  PROVE  Tells(Append(q, m), d, n)
<1> DEFINE r == Append(q, m)
<1>1. /\ Len(r) = Len(q) + 1 /\ r[Len(r)] = m /\ \A i \in 1..Len(q) : r[i] = q[i]
      /\ DOMAIN r = 1..Len(r) /\ DOMAIN q = 1..Len(q) /\ Len(q) \in Nat
  BY Appended
<1>2. Of(r, "MsgChannelizerNotification") = Of(q, "MsgChannelizerNotification")
  <2>1. Of(r, "MsgChannelizerNotification") =
          Of(q, "MsgChannelizerNotification")
            \cup (IF m.type = "MsgChannelizerNotification" THEN {m} ELSE {})
    BY OfAppended
  <2> HIDE DEF r
  <2> QED BY <2>1
<1> HIDE DEF r
<1>3. CASE ~Waits(q, "MsgChannelizerNotification")
  BY <1>2, <1>3 DEF Tells, Waits, r
<1>4. CASE Waits(q, "MsgChannelizerNotification")
  <2>1. PICK i \in DOMAIN q :
          /\ q[i] = n
          /\ \A j \in DOMAIN q : q[j].type = "MsgChannelizerNotification" => j <= i
    BY <1>4 DEF Tells
  <2>2. i \in DOMAIN r /\ r[i] = n
    BY <1>1, <2>1
  <2>3. \A j \in DOMAIN r : r[j].type = "MsgChannelizerNotification" => j <= i
    BY <1>1, <2>1
  <2> QED BY <1>2, <1>4, <2>2, <2>3 DEF Tells, Waits, r
<1> QED BY <1>3, <1>4

LEMMA TellsNew ==
  ASSUME NEW q \in Seq(Messages), NEW n \in Notifications, NEW d
  PROVE  Tells(Append(q, n), d, n)
<1> DEFINE r == Append(q, n)
<1>0. n \in Messages /\ n.type = "MsgChannelizerNotification"
  BY DEF Messages, Notifications
<1>1. /\ Len(r) = Len(q) + 1 /\ r[Len(r)] = n
      /\ DOMAIN r = 1..Len(r) /\ Len(q) \in Nat
  BY <1>0, Appended
<1> HIDE DEF r
<1>2. Len(r) \in DOMAIN r /\ \A j \in DOMAIN r : j <= Len(r)
  BY <1>1
<1>3. Waits(r, "MsgChannelizerNotification")
  BY <1>0, <1>1, <1>2 DEF Waits, Of
<1> QED BY <1>1, <1>2, <1>3 DEF Tells, r

LEMMA TellsTail ==
  ASSUME NEW q \in Seq(Messages), q # << >>, NEW d, NEW e, NEW n, Tells(q, d, n),
         n.type = "MsgChannelizerNotification",
         IF Head(q).type = "MsgChannelizerNotification"
         THEN /\ e.m_inputSampleRate = Head(q).sampleRate
              /\ e.m_inputFrequencyOffset = Head(q).frequencyOffset
         ELSE /\ e.m_inputSampleRate = d.m_inputSampleRate
              /\ e.m_inputFrequencyOffset = d.m_inputFrequencyOffset
  PROVE  Tells(Tail(q), e, n)
<1> DEFINE r == Tail(q)
           h == Head(q)
           T == "MsgChannelizerNotification"
<1>1. /\ Len(q) = Len(r) + 1 /\ h = q[1] /\ \A i \in 1..Len(r) : r[i] = q[i + 1]
      /\ DOMAIN r = 1..Len(r) /\ DOMAIN q = 1..Len(q) /\ Len(r) \in Nat
  BY Headed
<1>2. Of(q, T) = Of(r, T) \cup (IF h.type = T THEN {h} ELSE {})
  BY OfHeaded
<1> HIDE DEF r, h
<1>3. CASE ~Waits(q, T)
  BY <1>2, <1>3 DEF Tells, Waits, r, h
<1>4. CASE Waits(q, T)
  <2>1. PICK i \in DOMAIN q :
          q[i] = n /\ \A j \in DOMAIN q : q[j].type = T => j <= i
    BY <1>4 DEF Tells
  <2>2. \A j \in DOMAIN r : j + 1 \in DOMAIN q /\ r[j] = q[j + 1]
    BY <1>1
  <2>3. CASE i = 1
    <3>1. \A j \in DOMAIN r : r[j].type # T
      <4> TAKE j \in DOMAIN r
      <4>1. j \in Nat \ {0}
        BY <1>1
      <4> QED BY <4>1, <2>1, <2>2, <2>3
    <3>2. ~Waits(r, T)
      BY <3>1 DEF Waits, Of
    <3>3. h = n /\ h.type = T
      BY <1>1, <1>2, <1>4, <2>1, <2>3, <3>2 DEF Waits
    <3> QED BY <3>2, <3>3 DEF Tells, r, h
  <2>4. CASE i # 1
    <3>1. i - 1 \in DOMAIN r /\ r[i - 1] = n
      BY <1>1, <2>1, <2>4
    <3>2. \A j \in DOMAIN r : r[j].type = T => j <= i - 1
      BY <1>1, <2>1, <2>2
    <3>3. CASE Waits(r, T)
      BY <3>1, <3>2, <3>3 DEF Tells, r
    <3>4. CASE ~Waits(r, T)
      BY <3>1, <3>4 DEF Waits, Of
    <3> QED BY <3>3, <3>4
  <2> QED BY <2>3, <2>4
<1> QED BY <1>3, <1>4

LEMMA InOrderAppended ==
  ASSUME NEW q \in Seq(Messages), NEW m \in Messages, InOrder(q),
         \/ m.type \notin Posted
         \/ /\ ~Waits(q, m.type)
            /\ m.type = "MsgConfigureChannelizer" =>
                 ~Waits(q, "MsgConfigureAMDemod") /\ ~Waits(q, "DSPConfigureAudio")
            /\ m.type = "MsgConfigureAMDemod" => ~Waits(q, "DSPConfigureAudio")
            /\ m.type = "DSPConfigureAudio" =>
                 ~Waits(q, "MsgConfigureAMDemod") /\ ~Waits(q, "MsgConfigureChannelizer")
  PROVE  InOrder(Append(q, m))
<1> DEFINE r == Append(q, m)
           k == Len(q) + 1
<1>1. /\ Len(r) = k /\ r[k] = m /\ \A i \in 1..Len(q) : r[i] = q[i]
      /\ DOMAIN r = 1..k /\ DOMAIN q = 1..Len(q) /\ Len(q) \in Nat
  BY Appended
<1>2. \A type : Of(r, type) = Of(q, type) \cup (IF m.type = type THEN {m} ELSE {})
  BY OfAppended
<1> HIDE DEF r
<1>3. \A i \in DOMAIN r : i = k \/ (i \in DOMAIN q /\ i < k /\ r[i] = q[i])
  BY <1>1
<1>4. \A i \in DOMAIN q : Waits(q, q[i].type)
  BY DEF Waits, Of
<1>5. ASSUME NEW i \in DOMAIN r, NEW j \in DOMAIN r,
             r[i].type \in Posted, r[j].type = r[i].type
      PROVE  i = j
  <2>1. i = k /\ j # k => FALSE
    BY <1>1, <1>3, <1>4, <1>5
  <2>2. j = k /\ i # k => FALSE
    BY <1>1, <1>3, <1>4, <1>5
  <2>3. i # k /\ j # k => i = j
    BY <1>3, <1>5 DEF InOrder
  <2> QED BY <2>1, <2>2, <2>3
<1>6. ASSUME NEW i \in DOMAIN r, NEW j \in DOMAIN r,
             r[i].type = "MsgConfigureChannelizer", r[j].type = "MsgConfigureAMDemod"
      PROVE  i < j
  <2>1. i = k => FALSE
    <3> SUFFICES ASSUME i = k PROVE FALSE
      OBVIOUS
    <3>1. m.type = "MsgConfigureChannelizer" /\ j # k
      BY <1>1, <1>6
    <3>2. j \in DOMAIN q /\ q[j].type = "MsgConfigureAMDemod"
      BY <1>3, <1>6, <3>1
    <3>3. Waits(q, "MsgConfigureAMDemod")
      BY <3>2, <1>4
    <3> QED BY <3>1, <3>3 DEF Posted
  <2>2. i # k /\ j = k => i < j
    BY <1>3
  <2>3. i # k /\ j # k => i < j
    BY <1>3, <1>6 DEF InOrder
  <2> QED BY <2>1, <2>2, <2>3
<1>7. Waits(r, "DSPConfigureAudio") =>
        ~Waits(r, "MsgConfigureChannelizer") /\ ~Waits(r, "MsgConfigureAMDemod")
  <2>1. \A type : Waits(r, type) <=> Waits(q, type) \/ m.type = type
    BY <1>2 DEF Waits
  <2> QED BY <2>1 DEF InOrder, Posted
<1>8. InOrder(r)
  BY <1>5, <1>6, <1>7 DEF InOrder
<1> QED BY <1>8 DEF r

LEMMA InOrderTail ==
  ASSUME NEW q \in Seq(Messages), q # << >>, InOrder(q)
  PROVE  /\ InOrder(Tail(q))
         /\ Head(q).type \in Posted => ~Waits(Tail(q), Head(q).type)
         /\ Head(q).type = "MsgConfigureAMDemod" =>
              /\ ~Waits(Tail(q), "MsgConfigureChannelizer")
              /\ ~Waits(Tail(q), "DSPConfigureAudio")
         /\ Head(q).type = "MsgConfigureChannelizer" => ~Waits(Tail(q), "DSPConfigureAudio")
         /\ Head(q).type = "DSPConfigureAudio" =>
              /\ ~Waits(Tail(q), "MsgConfigureChannelizer")
              /\ ~Waits(Tail(q), "MsgConfigureAMDemod")
<1> DEFINE r == Tail(q)
           h == Head(q)
<1>1. /\ Len(q) = Len(r) + 1 /\ h = q[1] /\ \A i \in 1..Len(r) : r[i] = q[i + 1]
      /\ DOMAIN r = 1..Len(r) /\ DOMAIN q = 1..Len(q) /\ Len(r) \in Nat
  BY Headed
<1>2. \A type : Of(q, type) = Of(r, type) \cup (IF h.type = type THEN {h} ELSE {})
  BY OfHeaded
<1> HIDE DEF r, h
<1>3. \A i \in DOMAIN r : i \in Nat \ {0} /\ i + 1 \in DOMAIN q /\ r[i] = q[i + 1]
  BY <1>1
<1>4. 1 \in DOMAIN q
  BY <1>1
<1>5. \A type : Waits(q, type) <=> Waits(r, type) \/ h.type = type
  BY <1>2 DEF Waits
<1>6. \A type : Waits(r, type) => \E i \in DOMAIN r : r[i].type = type
  BY DEF Waits, Of
<1>7. InOrder(r)
  <2>1. \A i, j \in DOMAIN r :
          r[i].type \in Posted /\ r[j].type = r[i].type => i = j
    <3> TAKE i, j \in DOMAIN r
    <3>1. i + 1 \in DOMAIN q /\ j + 1 \in DOMAIN q /\ r[i] = q[i + 1] /\ r[j] = q[j + 1]
          /\ i \in Nat /\ j \in Nat
      BY <1>3
    <3>2. q[i + 1].type \in Posted /\ q[j + 1].type = q[i + 1].type => i + 1 = j + 1
      BY <3>1 DEF InOrder
    <3> QED BY <3>1, <3>2
  <2>2. \A i, j \in DOMAIN r :
          r[i].type = "MsgConfigureChannelizer" /\ r[j].type = "MsgConfigureAMDemod" => i < j
    <3> TAKE i, j \in DOMAIN r
    <3>1. i + 1 \in DOMAIN q /\ j + 1 \in DOMAIN q /\ r[i] = q[i + 1] /\ r[j] = q[j + 1]
          /\ i \in Nat /\ j \in Nat
      BY <1>3
    <3>2. q[i + 1].type = "MsgConfigureChannelizer" /\ q[j + 1].type = "MsgConfigureAMDemod"
            => i + 1 < j + 1
      BY <3>1 DEF InOrder
    <3> QED BY <3>1, <3>2
  <2>3. Waits(r, "DSPConfigureAudio") =>
          ~Waits(r, "MsgConfigureChannelizer") /\ ~Waits(r, "MsgConfigureAMDemod")
    BY <1>5 DEF InOrder
  <2> QED BY <2>1, <2>2, <2>3 DEF InOrder
<1>8. h.type \in Posted => ~Waits(r, h.type)
  <2> SUFFICES ASSUME h.type \in Posted, Waits(r, h.type) PROVE FALSE
    OBVIOUS
  <2>1. PICK i \in DOMAIN r : r[i].type = h.type
    BY <1>6
  <2>2. i + 1 \in DOMAIN q /\ q[i + 1].type = q[1].type /\ i \in Nat \ {0} /\ q[1].type \in Posted
    BY <2>1, <1>1, <1>3
  <2>3. 1 = i + 1
    BY <2>2, <1>4 DEF InOrder
  <2> QED BY <2>2, <2>3
<1>9. h.type = "MsgConfigureAMDemod" => ~Waits(r, "MsgConfigureChannelizer")
  <2> SUFFICES ASSUME h.type = "MsgConfigureAMDemod", Waits(r, "MsgConfigureChannelizer")
               PROVE  FALSE
    OBVIOUS
  <2>1. PICK i \in DOMAIN r : r[i].type = "MsgConfigureChannelizer"
    BY <1>6
  <2>2. i + 1 \in DOMAIN q /\ q[i + 1].type = "MsgConfigureChannelizer" /\ i \in Nat \ {0}
        /\ q[1].type = "MsgConfigureAMDemod"
    BY <2>1, <1>1, <1>3
  <2>3. i + 1 < 1
    BY <2>2, <1>4 DEF InOrder
  <2> QED BY <2>2, <2>3
<1>10. Waits(q, "DSPConfigureAudio") =>
         ~Waits(q, "MsgConfigureChannelizer") /\ ~Waits(q, "MsgConfigureAMDemod")
  BY DEF InOrder
<1> QED BY <1>5, <1>7, <1>8, <1>9, <1>10 DEF r, h

-----------------------------------------------------------------------------
LEMMA Kinds ==
  ASSUME NEW m \in Messages
  PROVE  /\ m.type = "MsgChannelizerNotification" => m \in Notifications
         /\ m.type = "MsgConfigureChannelizer" => m \in ChannelizerMessages
         /\ m.type = "MsgConfigureAMDemod" => m \in SettingsMessages
         /\ m.type = "DSPConfigureAudio" => m \in AudioMessages
BY DEF Messages, Notifications, ChannelizerMessages, SettingsMessages, AudioMessages

(* A step of others leaves what is asked for as it was.                    *)
LEMMA NothingAsked ==
  ASSUME Uncrossed, UNCHANGED <<attached, rateOf, request, crossed>>,
         demod'.m_settings = demod.m_settings,
         demod'.m_audioSampleRate = demod.m_audioSampleRate,
         \A type \in Posted : Of(m_inputMessageQueue', type) = Of(m_inputMessageQueue, type),
         InOrder(m_inputMessageQueue) => InOrder(m_inputMessageQueue'),
         \A f : Will(channelizer, m_channelizerQueue, f)
                  => Will(channelizer', m_channelizerQueue', f)
  PROVE  Uncrossed'
<1> SUFFICES ASSUME ~crossed'
             PROVE  /\ InOrder(m_inputMessageQueue)' /\ RequestAlone' /\ SettingsDiffer'
                    /\ OffsetComes' /\ RateComes'
  BY DEF Uncrossed
<1>1. /\ InOrder(m_inputMessageQueue) /\ RequestAlone /\ SettingsDiffer
      /\ OffsetComes /\ RateComes
  BY DEF Uncrossed
<1>2. \A type \in Posted : Waits(m_inputMessageQueue', type) <=> Waits(m_inputMessageQueue, type)
  BY DEF Waits
<1>3. /\ Of(m_inputMessageQueue', "MsgConfigureChannelizer")
           = Of(m_inputMessageQueue, "MsgConfigureChannelizer")
      /\ Of(m_inputMessageQueue', "MsgConfigureAMDemod")
           = Of(m_inputMessageQueue, "MsgConfigureAMDemod")
      /\ Of(m_inputMessageQueue', "DSPConfigureAudio")
           = Of(m_inputMessageQueue, "DSPConfigureAudio")
      /\ Waits(m_inputMessageQueue', "MsgConfigureChannelizer")
           <=> Waits(m_inputMessageQueue, "MsgConfigureChannelizer")
      /\ Waits(m_inputMessageQueue', "MsgConfigureAMDemod")
           <=> Waits(m_inputMessageQueue, "MsgConfigureAMDemod")
      /\ Waits(m_inputMessageQueue', "DSPConfigureAudio")
           <=> Waits(m_inputMessageQueue, "DSPConfigureAudio")
  BY <1>2 DEF Posted
<1>4. \A s : Differs(s, demod') <=> Differs(s, demod)
  BY DEF Differs
<1>5. InOrder(m_inputMessageQueue)'
  BY <1>1
<1>6. RequestAlone'
  BY <1>1, <1>3, <1>4 DEF RequestAlone
<1>7. SettingsDiffer'
  BY <1>1, <1>3, <1>4 DEF SettingsDiffer
<1>8. \A f : Final(request', m_inputMessageQueue', demod', f)
                 <=> Final(request, m_inputMessageQueue, demod, f)
  BY <1>3 DEF Final
<1>9. \A f : Comes(f) => Comes(f)'
  BY <1>3 DEF Comes
<1>10. OffsetComes'
  BY <1>1, <1>8, <1>9 DEF OffsetComes
<1>11. RateComes'
  BY <1>1, <1>3 DEF RateComes
<1> QED BY <1>5, <1>6, <1>7, <1>10, <1>11

(* A step of the demodulator leaves the channelizer as it was.             *)
LEMMA ChannelizerStands ==
  ASSUME ChannelInv, UNCHANGED <<channelizer, applying, notif, overlapped>>, Kept',
         \A n : n.type = "MsgChannelizerNotification" /\ Tells(m_inputMessageQueue, demod, n)
                  => Tells(m_inputMessageQueue', demod', n)
  PROVE  ChannelInv'
<1>1. WillBeMade'
  BY DEF ChannelInv, WillBeMade
<1>2. OneByOne'
  BY DEF ChannelInv, OneByOne, Busy
<1>3. Notified'
  <2>1. Notification(channelizer).type = "MsgChannelizerNotification"
    BY DEF Notification
  <2>2. Tells(m_inputMessageQueue, demod, Notification(channelizer))
          => Tells(m_inputMessageQueue', demod', Notification(channelizer))
    BY <2>1
  <2> QED BY <2>2 DEF ChannelInv, Notified, Standing, Busy
<1> QED BY <1>1, <1>2, <1>3 DEF ChannelInv

-----------------------------------------------------------------------------
LEMMA DemodStands ==
  ASSUME DemodTypes, UNCHANGED <<demod, attached, rateOf, running, request, crossed>>,
         inputs' \in 0..MaxInputs
  PROVE  DemodTypes'
BY DEF DemodTypes

LEMMA KeptStands ==
  ASSUME Kept, UNCHANGED demod
  PROVE  Kept'
BY DEF Kept

LEMMA Placed ==
  ASSUME ChannelizerTypes, NEW t \in Appliers, NEW place \in Places, At(t, place)
  PROVE  /\ applying' \in [Appliers -> Places] /\ applying'[t] = place
         /\ \A o \in Appliers : o # t => applying'[o] = applying[o]
BY DEF ChannelizerTypes, At

LEMMA TwoThreads ==
  /\ Others("channel") = {"engine"} /\ Others("engine") = {"channel"}
  /\ "channel" \in Appliers /\ "engine" \in Appliers
BY DEF Others, Appliers

LEMMA ConfigureStep ==
  ASSUME Inv, running, HandleConfigure, demodUnchanged
  PROVE  Inv'
<1> USE DEF Inv, Types
<1> DEFINE asked == Head(m_channelizerQueue)
<1>1. /\ ~Busy("channel") /\ m_channelizerQueue # << >>
      /\ channelizer' = [channelizer EXCEPT !.requestedOutputSampleRate = asked.sampleRate]
      /\ At("channel", "centre") /\ overlapped' = \E o \in Others("channel") : Busy(o)
      /\ UNCHANGED <<m_channelizerQueue, m_inputMessageQueue, notif>>
      /\ UNCHANGED <<demod, attached, rateOf, running, request, inputs, crossed>>
  BY DEF HandleConfigure, Begins, demodUnchanged
<1>2. asked \in Configurations
  BY <1>1, Headed DEF ChannelizerTypes
<1>3. asked.sampleRate \in AudioRates
  BY <1>2 DEF Configurations
<1> HIDE DEF asked
<1>4. /\ channelizer' \in ChannelizerType
      /\ channelizer'.inputSampleRate = channelizer.inputSampleRate
      /\ channelizer'.requestedCenterFrequency = channelizer.requestedCenterFrequency
      /\ channelizer'.currentOutputSampleRate = channelizer.currentOutputSampleRate
      /\ channelizer'.filterStages = channelizer.filterStages
  BY <1>1, <1>3 DEF ChannelizerTypes, ChannelizerType
<1>5. /\ applying' \in [Appliers -> Places] /\ applying'["channel"] = "centre"
      /\ applying'["engine"] = applying["engine"]
  BY <1>1, Placed DEF Appliers, Places
<1>6. overlapped' = Busy("engine")
  <2>1. (\E o \in {"engine"} : Busy(o)) = Busy("engine")
    BY Zenon DEF Busy
  <2> QED BY <1>1, <2>1, TwoThreads
<1>7. Types'
  <2>1. ChannelizerTypes'
    BY <1>1, <1>4, <1>5, <1>6 DEF ChannelizerTypes, Busy
  <2>2. DemodTypes'
    BY <1>1, DemodStands DEF DemodTypes
  <2>3. Applying'
    BY <1>1, <1>4, <1>5 DEF Applying, Appliers, Busy
  <2>4. Short'
    BY <1>4 DEF Short, Leave
  <2> QED BY <2>1, <2>2, <2>3, <2>4
<1>8. ChannelInv'
  <2>1. WillBeMade'
    BY <1>5 DEF WillBeMade, Appliers
  <2>2. OneByOne'
    BY <1>5, <1>6 DEF OneByOne, Busy
  <2>3. Notified'
    BY <1>5, <1>6 DEF Notified, Busy, Standing, Appliers
  <2>4. Kept'
    BY <1>1, KeptStands DEF ChannelInv
  <2> QED BY <2>1, <2>2, <2>3, <2>4 DEF ChannelInv
<1>9. Uncrossed'
  <2>1. \A f : Will(channelizer, m_channelizerQueue, f)
                 => Will(channelizer', m_channelizerQueue', f)
    BY <1>1, <1>4 DEF Will
  <2> QED BY <1>1, <2>1, NothingAsked
<1> QED BY <1>7, <1>8, <1>9

LEMMA CentreStep ==
  ASSUME Inv, RequestCentre, demodUnchanged
  PROVE  Inv'
<1> USE DEF Inv, Types
<1> DEFINE asked == Head(m_channelizerQueue)
           place == IF channelizer.inputSampleRate = 0 THEN "idle" ELSE "chain"
<1>1. /\ applying["channel"] = "centre" /\ m_channelizerQueue # << >>
      /\ channelizer' = [channelizer EXCEPT !.requestedCenterFrequency = asked.centerFrequency]
      /\ m_channelizerQueue' = Tail(m_channelizerQueue)
      /\ At("channel", place)
      /\ UNCHANGED <<m_inputMessageQueue, notif, overlapped>>
      /\ UNCHANGED <<demod, attached, rateOf, running, request, inputs, crossed>>
  BY DEF RequestCentre, demodUnchanged, Applying
<1>2. m_channelizerQueue \in Seq(Configurations)
  BY DEF ChannelizerTypes
<1>3. asked \in Configurations /\ m_channelizerQueue' \in Seq(Configurations)
  BY <1>1, <1>2, Headed
<1>4. asked.centerFrequency \in Offsets
  BY <1>3 DEF Configurations
<1> HIDE DEF asked
<1>5. /\ channelizer' \in ChannelizerType
      /\ channelizer'.inputSampleRate = channelizer.inputSampleRate
      /\ channelizer'.requestedCenterFrequency = asked.centerFrequency
      /\ channelizer'.currentOutputSampleRate = channelizer.currentOutputSampleRate
      /\ channelizer'.filterStages = channelizer.filterStages
  BY <1>1, <1>4 DEF ChannelizerTypes, ChannelizerType
<1>6. /\ applying' \in [Appliers -> Places] /\ applying'["channel"] = place
      /\ applying'["engine"] = applying["engine"]
  BY <1>1, Placed DEF Appliers, Places
<1>7. Types'
  <2>1. ChannelizerTypes'
    BY <1>1, <1>3, <1>5, <1>6 DEF ChannelizerTypes
  <2>2. DemodTypes'
    BY <1>1, DemodStands DEF DemodTypes
  <2>3. Applying'
    BY <1>1, <1>5, <1>6 DEF Applying, Appliers, Busy
  <2>4. Short'
    BY <1>5 DEF Short, Leave
  <2> QED BY <2>1, <2>2, <2>3, <2>4
<1>8. ChannelInv'
  <2>0. ~overlapped => ~Busy("engine")
    BY <1>1 DEF ChannelInv, OneByOne, Busy
  <2>1. WillBeMade'
    BY <1>5, <1>6 DEF WillBeMade, Appliers
  <2>2. OneByOne'
    BY <2>0, <1>1, <1>6 DEF OneByOne, Busy
  <2>3. Notified'
    BY <2>0, <1>1, <1>5, <1>6 DEF Notified, Busy, Standing, Appliers
  <2>4. Kept'
    BY <1>1, KeptStands DEF ChannelInv
  <2> QED BY <2>1, <2>2, <2>3, <2>4 DEF ChannelInv
<1>9. Uncrossed'
  <2>1. \A f : Will(channelizer, m_channelizerQueue, f)
                 => Will(channelizer', m_channelizerQueue', f)
    <3> DEFINE q == m_channelizerQueue
               r == Tail(q)
    <3>1. /\ r \in Seq(Configurations) /\ Len(q) = Len(r) + 1 /\ asked = q[1]
          /\ \A i \in 1..Len(r) : r[i] = q[i + 1] /\ Len(r) \in Nat
      BY <1>1, <1>2, Headed DEF asked
    <3>2. CASE r = << >>
      <4>1. asked = q[Len(q)]
        <5> HIDE DEF r, q
        <5>1. Len(r) = 0
          BY <3>2
        <5> QED BY <3>1, <5>1
      <4> QED BY <1>1, <1>5, <3>2, <4>1 DEF Will
    <3>3. CASE r # << >>
      <4>1. r[Len(r)] = q[Len(q)]
        BY <3>1, <3>3
      <4> QED BY <1>1, <3>3, <4>1 DEF Will
    <3> QED BY <3>2, <3>3
  <2> QED BY <1>1, <2>1, NothingAsked
<1> QED BY <1>7, <1>8, <1>9

LEMMA SignalStep ==
  ASSUME Inv, NEW rate \in SampleRates, Retune(rate)
  PROVE  Inv'
<1> USE DEF Inv, Types
<1>1. /\ ~Busy("engine")
      /\ channelizer' = [channelizer EXCEPT !.inputSampleRate = rate]
      /\ At("engine", "chain") /\ overlapped' = \E o \in Others("engine") : Busy(o)
      /\ UNCHANGED <<m_channelizerQueue, m_inputMessageQueue, notif>>
      /\ inputs < MaxInputs /\ inputs' = inputs + 1
      /\ UNCHANGED <<demod, attached, rateOf, running, request, crossed>>
  BY DEF Retune, HandleSignal, Begins
<1>2. /\ channelizer' \in ChannelizerType /\ channelizer'.inputSampleRate = rate
      /\ channelizer'.requestedCenterFrequency = channelizer.requestedCenterFrequency
      /\ channelizer'.currentOutputSampleRate = channelizer.currentOutputSampleRate
      /\ channelizer'.filterStages = channelizer.filterStages
  BY <1>1 DEF ChannelizerTypes, ChannelizerType
<1>3. /\ applying' \in [Appliers -> Places] /\ applying'["engine"] = "chain"
      /\ applying'["channel"] = applying["channel"]
  BY <1>1, Placed DEF Appliers, Places
<1>4. overlapped' = Busy("channel")
  <2>1. (\E o \in {"channel"} : Busy(o)) = Busy("channel")
    BY Zenon DEF Busy
  <2> QED BY <1>1, <2>1, TwoThreads
<1>5. rate # 0
  BY WidthsAssumption
<1>6. Types'
  <2>1. ChannelizerTypes'
    BY <1>1, <1>2, <1>3, <1>4 DEF ChannelizerTypes, Busy
  <2>2. DemodTypes'
    <3>1. inputs' \in 0..MaxInputs
      BY <1>1, DefaultsAssumption DEF DemodTypes
    <3> QED BY <1>1, <3>1, DemodStands
  <2>3. Applying'
    BY <1>1, <1>2, <1>3, <1>5 DEF Applying, Appliers, Busy
  <2>4. Short'
    BY <1>2 DEF Short, Leave
  <2> QED BY <2>1, <2>2, <2>3, <2>4
<1>7. ChannelInv'
  <2>1. WillBeMade'
    BY <1>3 DEF WillBeMade, Appliers
  <2>2. OneByOne'
    BY <1>3, <1>4 DEF OneByOne, Busy
  <2>3. Notified'
    BY <1>3, <1>4 DEF Notified, Busy, Standing, Appliers
  <2>4. Kept'
    BY <1>1, KeptStands DEF ChannelInv
  <2> QED BY <2>1, <2>2, <2>3, <2>4 DEF ChannelInv
<1>8. Uncrossed'
  <2>1. \A f : Will(channelizer, m_channelizerQueue, f)
                 => Will(channelizer', m_channelizerQueue', f)
    BY <1>1, <1>2 DEF Will
  <2> QED BY <1>1, <2>1, NothingAsked
<1> QED BY <1>6, <1>7, <1>8

LEMMA ChainedMade ==
  ASSUME NEW c \in ChannelizerType, c.inputSampleRate # 0
  PROVE  Made(Chained(c))
BY ChainedMembers DEF Made, Requested

LEMMA RatedMade ==
  ASSUME NEW c \in ChannelizerType, NEW n \in Nat, Made(c)
  PROVE  Made(WithRate(c, n))
BY RatedMembers DEF Made, Requested

(* Who is alone when nobody began together.                                *)
LEMMA Alone ==
  ASSUME OneByOne, ~overlapped, NEW t \in Appliers, Busy(t), NEW o \in Appliers, o # t
  PROVE  applying[o] = "idle"
BY DEF OneByOne, Busy, Appliers

LEMMA ChainStep ==
  ASSUME Inv, NEW t \in Appliers, MakeChain(t), demodUnchanged
  PROVE  Inv'
<1> USE DEF Inv, Types
<1>1. /\ applying[t] = "chain" /\ channelizer' = Chained(channelizer) /\ At(t, "rate")
      /\ UNCHANGED <<m_channelizerQueue, m_inputMessageQueue, notif, overlapped>>
      /\ UNCHANGED <<demod, attached, rateOf, running, request, inputs, crossed>>
  BY DEF MakeChain, demodUnchanged
<1>2. channelizer \in ChannelizerType /\ channelizer.inputSampleRate # 0
  BY <1>1 DEF ChannelizerTypes, Applying
<1>3. /\ channelizer' \in ChannelizerType
      /\ channelizer'.inputSampleRate = channelizer.inputSampleRate
      /\ channelizer'.requestedCenterFrequency = channelizer.requestedCenterFrequency
      /\ channelizer'.currentOutputSampleRate = channelizer.currentOutputSampleRate
      /\ Made(channelizer') /\ Leave(channelizer'.filterStages)
  BY <1>1, <1>2, ChainedMembers, ChainedMade, ChainLeaves
<1>4. /\ applying' \in [Appliers -> Places] /\ applying'[t] = "rate"
      /\ \A o \in Appliers : o # t => applying'[o] = applying[o]
  BY <1>1, Placed DEF Places
<1>5. ~overlapped => \A o \in Appliers : o # t => applying[o] = "idle"
  BY <1>1, Alone DEF ChannelInv, Busy
<1>6. Types'
  <2>1. ChannelizerTypes'
    BY <1>1, <1>3, <1>4 DEF ChannelizerTypes
  <2>2. DemodTypes'
    BY <1>1, DemodStands DEF DemodTypes
  <2>3. Applying'
    BY <1>1, <1>3, <1>4 DEF Applying, Appliers, Busy
  <2>4. Short'
    BY <1>3 DEF Short
  <2> QED BY <2>1, <2>2, <2>3, <2>4
<1>7. ChannelInv'
  <2>1. WillBeMade'
    BY <1>3 DEF WillBeMade
  <2>2. OneByOne'
    BY <1>1, <1>4 DEF ChannelInv, OneByOne, Busy, Appliers
  <2>3. Notified'
    BY <1>1, <1>3, <1>4, <1>5 DEF Notified, Busy, Standing
  <2>4. Kept'
    BY <1>1, KeptStands DEF ChannelInv
  <2> QED BY <2>1, <2>2, <2>3, <2>4 DEF ChannelInv
<1>8. Uncrossed'
  <2>1. \A f : Will(channelizer, m_channelizerQueue, f)
                 => Will(channelizer', m_channelizerQueue', f)
    BY <1>1, <1>3 DEF Will
  <2> QED BY <1>1, <2>1, NothingAsked
<1> QED BY <1>6, <1>7, <1>8

(* Whatever length of the list a thread sees, a rate is left.              *)
LEMMA Seeing ==
  ASSUME ChannelizerTypes, Short, NEW t \in Appliers, channelizer.inputSampleRate # 0,
         NEW n \in LengthsSeen(t)
  PROVE  n \in Nat /\ channelizer.inputSampleRate \div LeftShift[n] \in Nat \ {0}
<1> DEFINE c == channelizer
           now == Len(c.filterStages)
           after == Len(Chained(c).filterStages)
<1>1. c \in ChannelizerType /\ c.inputSampleRate \in SampleRates
  BY DEF ChannelizerTypes, ChannelizerType
<1>2. c.inputSampleRate \in Nat \ {0}
  BY <1>1, WidthsAssumption
<1>3. now \in Nat /\ after \in Nat
  <2>1. c.filterStages \in Seq(Modes) /\ Chained(c).filterStages \in Seq(Modes)
    BY <1>1, ChainedMembers DEF ChannelizerType
  <2> QED BY <2>1
<1>4. LeftShift[now] <= c.inputSampleRate /\ LeftShift[after] <= c.inputSampleRate
  BY <1>1, ChainLeaves DEF Short, Leave
<1>5. n = now \/ n \in 0..now \/ n \in 0..after
  BY DEF LengthsSeen
<1> HIDE DEF c, now, after
<1>6. n \in Nat /\ (n \in 0..now \/ n \in 0..after)
  BY <1>3, <1>5
<1>7. LeftShift[n] \in Nat \ {0} /\ LeftShift[now] \in Nat /\ LeftShift[after] \in Nat
  BY <1>3, <1>6, Shifts
<1>8. LeftShift[n] <= c.inputSampleRate
  <2>1. LeftShift[n] <= LeftShift[now] \/ LeftShift[n] <= LeftShift[after]
    BY <1>3, <1>6, ShiftsGrow
  <2> QED BY <2>1, <1>2, <1>4, <1>7
<1> QED BY <1>2, <1>6, <1>7, <1>8, Division DEF c

LEMMA RateStep ==
  ASSUME Inv, NEW t \in Appliers, ComputeRate(t), demodUnchanged
  PROVE  Inv'
<1> USE DEF Inv, Types
<1>1. /\ applying[t] = "rate" /\ At(t, "create")
      /\ UNCHANGED <<m_channelizerQueue, m_inputMessageQueue, notif, overlapped>>
      /\ UNCHANGED <<demod, attached, rateOf, running, request, inputs, crossed>>
  BY DEF ComputeRate, demodUnchanged
<1>2. PICK n \in LengthsSeen(t) : channelizer' = WithRate(channelizer, n)
  BY DEF ComputeRate
<1>3. channelizer \in ChannelizerType /\ channelizer.inputSampleRate # 0
  BY <1>1 DEF ChannelizerTypes, Applying
<1>4. n \in Nat /\ channelizer.inputSampleRate \div LeftShift[n] \in Nat \ {0}
  BY <1>3, Seeing
<1>5. /\ channelizer' \in ChannelizerType
      /\ channelizer'.inputSampleRate = channelizer.inputSampleRate
      /\ channelizer'.requestedCenterFrequency = channelizer.requestedCenterFrequency
      /\ channelizer'.currentOutputSampleRate = channelizer.inputSampleRate \div LeftShift[n]
      /\ channelizer'.filterStages = channelizer.filterStages
      /\ Made(channelizer) => Made(channelizer')
  BY <1>2, <1>3, <1>4, RatedMembers, RatedMade
<1>6. /\ applying' \in [Appliers -> Places] /\ applying'[t] = "create"
      /\ \A o \in Appliers : o # t => applying'[o] = applying[o]
  BY <1>1, Placed DEF Places
<1>7. ~overlapped => \A o \in Appliers : o # t => applying[o] = "idle"
  BY <1>1, Alone DEF ChannelInv, Busy
<1>8. Types'
  <2>1. ChannelizerTypes'
    BY <1>1, <1>5, <1>6 DEF ChannelizerTypes
  <2>2. DemodTypes'
    BY <1>1, DemodStands DEF DemodTypes
  <2>3. Applying'
    BY <1>1, <1>4, <1>5, <1>6 DEF Applying, Appliers, Busy
  <2>4. Short'
    BY <1>5 DEF Short
  <2> QED BY <2>1, <2>2, <2>3, <2>4
<1>9. ChannelInv'
  <2>1. WillBeMade'
    BY <1>1, <1>5, <1>6 DEF ChannelInv, WillBeMade, Appliers
  <2>2. OneByOne'
    BY <1>1, <1>6 DEF ChannelInv, OneByOne, Busy, Appliers
  <2>3. Notified'
    <3> SUFFICES ASSUME ~overlapped
                 PROVE  Made(channelizer') /\ Rated(channelizer')
      BY <1>1, <1>6, <1>7 DEF Notified, Busy, Standing
    <3>1. Made(channelizer')
      BY <1>1, <1>3, <1>5 DEF ChannelInv, Notified
    <3>2. n = Len(channelizer.filterStages)
      BY <1>7, <1>2 DEF LengthsSeen, Others
    <3> QED BY <3>1, <3>2, <1>5 DEF Rated
  <2>4. Kept'
    BY <1>1, KeptStands DEF ChannelInv
  <2> QED BY <2>1, <2>2, <2>3, <2>4 DEF ChannelInv
<1>10. Uncrossed'
  <2>1. \A f : Will(channelizer, m_channelizerQueue, f)
                 => Will(channelizer', m_channelizerQueue', f)
    BY <1>1, <1>5 DEF Will
  <2> QED BY <1>1, <2>1, NothingAsked
<1> QED BY <1>8, <1>9, <1>10

LEMMA Noted ==
  ASSUME NEW c \in ChannelizerType, c.currentOutputSampleRate # 0
  PROVE  /\ Notification(c) \in Notifications
         /\ Notification(c).type = "MsgChannelizerNotification"
         /\ Notification(c).sampleRate = c.currentOutputSampleRate
         /\ Notification(c).frequencyOffset = c.currentCenterFrequency
<1>1. c.currentOutputSampleRate \in Nat \ {0} /\ c.currentCenterFrequency \in Int
  BY DEF ChannelizerType
<1> QED BY <1>1 DEF Notification, Notifications

LEMMA NotificationStep ==
  ASSUME Inv, NEW t \in Appliers, CreateNotification(t), demodUnchanged
  PROVE  Inv'
<1> USE DEF Inv, Types
<1> DEFINE n == Notification(channelizer)
<1>1. /\ applying[t] = "create" /\ At(t, "push")
      /\ notif' = [notif EXCEPT ![t] = n]
      /\ UNCHANGED <<channelizer, m_channelizerQueue, m_inputMessageQueue, overlapped>>
      /\ UNCHANGED <<demod, attached, rateOf, running, request, inputs, crossed>>
  BY DEF CreateNotification, demodUnchanged
<1>2. n \in Notifications
  BY <1>1, Noted DEF ChannelizerTypes, Applying
<1> HIDE DEF n
<1>3. /\ applying' \in [Appliers -> Places] /\ applying'[t] = "push"
      /\ \A o \in Appliers : o # t => applying'[o] = applying[o]
  BY <1>1, Placed DEF Places
<1>4. ~overlapped => \A o \in Appliers : o # t => applying[o] = "idle"
  BY <1>1, Alone DEF ChannelInv, Busy
<1>5. /\ notif' \in [Appliers -> Notifications \cup {None}] /\ notif'[t] = n
      /\ \A o \in Appliers : o # t => notif'[o] = notif[o]
  BY <1>1, <1>2 DEF ChannelizerTypes
<1>6. Types'
  <2>1. ChannelizerTypes'
    BY <1>1, <1>3, <1>5 DEF ChannelizerTypes
  <2>2. DemodTypes'
    BY <1>1, DemodStands DEF DemodTypes
  <2>3. Applying'
    BY <1>1, <1>2, <1>3, <1>5 DEF Applying, Appliers, Busy
  <2>4. Short'
    BY <1>1 DEF Short
  <2> QED BY <2>1, <2>2, <2>3, <2>4
<1>7. ChannelInv'
  <2>1. WillBeMade'
    BY <1>1, <1>3 DEF ChannelInv, WillBeMade, Appliers
  <2>2. OneByOne'
    BY <1>1, <1>3 DEF ChannelInv, OneByOne, Busy, Appliers
  <2>3. Notified'
    <3> SUFFICES ASSUME ~overlapped, channelizer.inputSampleRate # 0
                 PROVE  Made(channelizer) /\ Rated(channelizer) /\ n = Notification(channelizer)
      BY <1>1, <1>3, <1>4, <1>5 DEF Notified, Busy, Standing
    <3> QED BY <1>1 DEF ChannelInv, Notified, n
  <2>4. Kept'
    BY <1>1, KeptStands DEF ChannelInv
  <2> QED BY <2>1, <2>2, <2>3, <2>4 DEF ChannelInv
<1>8. Uncrossed'
  BY <1>1, NothingAsked
<1> QED BY <1>6, <1>7, <1>8

LEMMA PushStep ==
  ASSUME Inv, NEW t \in Appliers, PushNotification(t), demodUnchanged
  PROVE  Inv'
<1> USE DEF Inv, Types
<1> DEFINE n == notif[t]
           q == m_inputMessageQueue
<1>1. /\ applying[t] = "push" /\ At(t, "idle")
      /\ m_inputMessageQueue' = Append(q, n) /\ notif' = [notif EXCEPT ![t] = None]
      /\ UNCHANGED <<channelizer, m_channelizerQueue, overlapped>>
      /\ UNCHANGED <<demod, attached, rateOf, running, request, inputs, crossed>>
  BY DEF PushNotification, demodUnchanged
<1>2. n \in Notifications /\ q \in Seq(Messages)
  BY <1>1 DEF ChannelizerTypes, Applying
<1>3. /\ applying' \in [Appliers -> Places] /\ applying'[t] = "idle"
      /\ \A o \in Appliers : o # t => applying'[o] = applying[o]
  BY <1>1, Placed DEF Places
<1>4. ~overlapped => \A o \in Appliers : o # t => applying[o] = "idle"
  BY <1>1, Alone DEF ChannelInv, Busy
<1>5. /\ notif' \in [Appliers -> Notifications \cup {None}]
      /\ \A o \in Appliers : o # t => notif'[o] = notif[o]
  BY <1>1 DEF ChannelizerTypes
<1> HIDE DEF n, q
<1>6. n \in Messages /\ n.type = "MsgChannelizerNotification"
  BY <1>2 DEF Messages, Notifications
<1>7. Append(q, n) \in Seq(Messages)
  BY <1>2, <1>6, Appended
<1>8. Types'
  <2>1. ChannelizerTypes'
    BY <1>1, <1>3, <1>5, <1>7 DEF ChannelizerTypes
  <2>2. DemodTypes'
    BY <1>1, DemodStands DEF DemodTypes
  <2>3. Applying'
    BY <1>1, <1>3, <1>5 DEF Applying, Appliers, Busy
  <2>4. Short'
    BY <1>1 DEF Short
  <2> QED BY <2>1, <2>2, <2>3, <2>4
<1>9. ChannelInv'
  <2>1. WillBeMade'
    BY <1>1, <1>3 DEF ChannelInv, WillBeMade, Appliers
  <2>2. OneByOne'
    BY <1>1, <1>3 DEF ChannelInv, OneByOne, Busy, Appliers
  <2>3. Notified'
    <3> SUFFICES ASSUME ~overlapped, channelizer.inputSampleRate # 0
                 PROVE  /\ Made(channelizer) /\ Rated(channelizer)
                        /\ Tells(Append(q, n), demod, Notification(channelizer))
      BY <1>1, <1>3, <1>4 DEF Notified, Busy, Standing
    <3>1. Made(channelizer) /\ Rated(channelizer) /\ n = Notification(channelizer)
      BY <1>1 DEF ChannelInv, Notified, n
    <3>2. Tells(Append(q, n), demod, n)
      BY <1>2, TellsNew
    <3> QED BY <3>1, <3>2
  <2>4. Kept'
    BY <1>1, KeptStands DEF ChannelInv
  <2> QED BY <2>1, <2>2, <2>3, <2>4 DEF ChannelInv
<1>10. Uncrossed'
  <2>1. \A type \in Posted : Of(Append(q, n), type) = Of(q, type)
    <3> TAKE type \in Posted
    <3>1. Of(Append(q, n), type) = Of(q, type) \cup (IF n.type = type THEN {n} ELSE {})
      BY <1>2, <1>6, OfAppended
    <3> QED BY <3>1, <1>6 DEF Posted
  <2>2. InOrder(q) => InOrder(Append(q, n))
    BY <1>2, <1>6, InOrderAppended DEF Posted
  <2> QED BY <1>1, <2>1, <2>2, NothingAsked DEF q
<1> QED BY <1>8, <1>9, <1>10

(* The demodulator takes a notification.                                   *)
LEMMA TakeStep ==
  ASSUME Inv, HandleNotification
  PROVE  Inv'
<1> USE DEF Inv, Types
<1> DEFINE q == m_inputMessageQueue
           m == Head(q)
           T == "MsgChannelizerNotification"
<1>1. /\ q # << >> /\ m.type = T
      /\ demod' = WithChannelSettings(demod, m.sampleRate, m.frequencyOffset, FALSE)
      /\ m_inputMessageQueue' = Tail(q)
      /\ UNCHANGED <<channelizer, m_channelizerQueue, applying, notif, overlapped>>
      /\ UNCHANGED <<attached, rateOf, running, request, inputs, crossed>>
  BY DEF HandleNotification, Receives, Message, channelizerVars
<1>2. q \in Seq(Messages) /\ demod \in DemodType
  BY DEF ChannelizerTypes, DemodTypes
<1>3. m \in Messages /\ Tail(q) \in Seq(Messages)
  BY <1>1, <1>2, Headed
<1>4. m.sampleRate \in Nat \ {0} /\ m.frequencyOffset \in Int
  BY <1>1, <1>3, Kinds DEF Notifications
<1> HIDE DEF q, m
<1>5. /\ demod' \in DemodType /\ demod'.m_settings = demod.m_settings
      /\ demod'.m_audioSampleRate = demod.m_audioSampleRate
      /\ demod'.m_inputSampleRate = m.sampleRate
      /\ demod'.m_inputFrequencyOffset = m.frequencyOffset
      /\ Kept'
  BY <1>1, <1>2, <1>4 DEF WithChannelSettings, DemodType, ChannelInv, Kept
<1>6. Types'
  BY <1>1, <1>3, <1>5 DEF ChannelizerTypes, DemodTypes, Applying, Busy, Short
<1>7. ChannelInv'
  <2>1. ASSUME NEW n, n.type = T, Tells(q, demod, n)
        PROVE  Tells(Tail(q), demod', n)
    BY <1>1, <1>2, <1>5, <2>1, TellsTail DEF m
  <2> QED BY <1>1, <1>5, <2>1, ChannelizerStands DEF q
<1>8. Uncrossed'
  <2>1. \A type \in Posted : Of(Tail(q), type) = Of(q, type)
    <3> TAKE type \in Posted
    <3>1. Of(q, type) = Of(Tail(q), type) \cup (IF m.type = type THEN {m} ELSE {})
      BY <1>1, <1>2, OfHeaded DEF m
    <3> QED BY <3>1, <1>1 DEF Posted
  <2>2. InOrder(q) => InOrder(Tail(q))
    BY <1>1, <1>2, InOrderTail
  <2> QED BY <1>1, <1>5, <2>1, <2>2, NothingAsked DEF q
<1> QED BY <1>6, <1>7, <1>8

(* What the queue of the demodulator is without its head.                  *)
LEMMA Taken ==
  ASSUME ChannelizerTypes, m_inputMessageQueue # << >>
  PROVE  LET q == m_inputMessageQueue
             m == Head(q)
             rest == Tail(q)
         IN /\ q \in Seq(Messages) /\ rest \in Seq(Messages) /\ m \in Messages
            /\ \A type : Of(q, type) = Of(rest, type) \cup (IF m.type = type THEN {m} ELSE {})
            /\ \A type : Waits(q, type) <=> Waits(rest, type) \/ m.type = type
<1> DEFINE q == m_inputMessageQueue
           m == Head(q)
           rest == Tail(q)
<1>1. q \in Seq(Messages)
  BY DEF ChannelizerTypes
<1>2. m \in Messages /\ rest \in Seq(Messages)
  BY <1>1, Headed
<1>3. \A type : Of(q, type) = Of(rest, type) \cup (IF m.type = type THEN {m} ELSE {})
  BY <1>1, OfHeaded
<1> HIDE DEF q, m, rest
<1>4. \A type : Waits(q, type) <=> Waits(rest, type) \/ m.type = type
  BY <1>3 DEF Waits
<1> QED BY <1>1, <1>2, <1>3, <1>4 DEF q, m, rest

(* What the demodulator asks of the channelizer comes last.                *)
LEMMA Asked ==
  ASSUME NEW q \in Seq(Messages), NEW rate \in AudioRates, NEW offset \in Offsets
  PROVE  LET m == MsgConfigureChannelizer(rate, offset)
             r == Append(q, m)
         IN /\ m \in Messages /\ m.type = "MsgConfigureChannelizer"
            /\ m.centerFrequency = offset /\ r \in Seq(Messages)
            /\ \A type : Of(r, type) = Of(q, type) \cup (IF m.type = type THEN {m} ELSE {})
            /\ \A type : Waits(r, type) <=> Waits(q, type) \/ type = "MsgConfigureChannelizer"
            /\ \A d, n : Tells(q, d, n) => Tells(r, d, n)
            /\ InOrder(q) /\ (\A type \in Posted : ~Waits(q, type)) => InOrder(r)
<1> DEFINE m == MsgConfigureChannelizer(rate, offset)
           r == Append(q, m)
<1>1. m \in ChannelizerMessages /\ m.type = "MsgConfigureChannelizer" /\ m.centerFrequency = offset
  BY DEF MsgConfigureChannelizer, ChannelizerMessages
<1>2. m \in Messages
  BY <1>1 DEF Messages
<1> HIDE DEF m
<1>3. r \in Seq(Messages)
  BY <1>2, Appended
<1>4. \A type : Of(r, type) = Of(q, type) \cup (IF m.type = type THEN {m} ELSE {})
  BY <1>2, OfAppended
<1>5. \A d, n : Tells(q, d, n) => Tells(r, d, n)
  BY <1>1, <1>2, TellsAppended
<1>6. InOrder(q) /\ (\A type \in Posted : ~Waits(q, type)) => InOrder(r)
  BY <1>1, <1>2, InOrderAppended DEF Posted
<1> HIDE DEF r
<1>7. \A type : Waits(r, type) <=> Waits(q, type) \/ type = "MsgConfigureChannelizer"
  BY <1>1, <1>4 DEF Waits
<1> QED BY <1>1, <1>2, <1>3, <1>4, <1>5, <1>6, <1>7 DEF m, r

LEMMA ForwardStep ==
  ASSUME Inv, HandleConfigureChannelizer
  PROVE  Inv'
<1> USE DEF Inv, Types
<1> DEFINE q == m_inputMessageQueue
           m == Head(q)
           rest == Tail(q)
           conf == [sampleRate |-> m.sampleRate, centerFrequency |-> m.centerFrequency]
           queue == Append(m_channelizerQueue, conf)
<1>1. /\ q # << >> /\ m.type = "MsgConfigureChannelizer"
      /\ m_channelizerQueue' = queue /\ m_inputMessageQueue' = rest
      /\ UNCHANGED <<channelizer, applying, notif, overlapped>>
      /\ UNCHANGED <<demod, attached, rateOf, running, request, inputs, crossed>>
  BY DEF HandleConfigureChannelizer, Receives, Message, demodUnchanged
<1>2. /\ q \in Seq(Messages) /\ rest \in Seq(Messages) /\ m \in Messages
      /\ \A type : Of(q, type) = Of(rest, type) \cup (IF m.type = type THEN {m} ELSE {})
      /\ \A type : Waits(q, type) <=> Waits(rest, type) \/ m.type = type
  BY <1>1, Taken
<1>3. m \in ChannelizerMessages
  BY <1>1, <1>2, Kinds
<1>4. conf \in Configurations /\ conf.centerFrequency = m.centerFrequency
  BY <1>3 DEF ChannelizerMessages, Configurations
<1>5. /\ queue \in Seq(Configurations) /\ queue # << >> /\ queue[Len(queue)] = conf
  BY <1>4, Appended DEF ChannelizerTypes
<1>6. InOrder(q) => InOrder(rest) /\ ~Waits(rest, "MsgConfigureChannelizer")
  BY <1>1, <1>2, InOrderTail DEF Posted
<1>7. \A n : n.type = "MsgChannelizerNotification" /\ Tells(q, demod, n) => Tells(rest, demod, n)
  BY <1>1, <1>2, TellsTail
<1> HIDE DEF q, m, rest, conf, queue
<1>8. Types'
  BY <1>1, <1>2, <1>5 DEF ChannelizerTypes, DemodTypes, Applying, Busy, Short
<1>9. ChannelInv'
  <2>1. Kept'
    BY <1>1, KeptStands DEF ChannelInv
  <2> QED BY <1>1, <1>7, <2>1, ChannelizerStands DEF q
<1>10. Uncrossed'
  <2> SUFFICES ASSUME ~crossed
               PROVE  /\ InOrder(rest) /\ RequestAlone' /\ SettingsDiffer'
                      /\ OffsetComes' /\ RateComes'
    BY <1>1 DEF Uncrossed
  <2>1. InOrder(q) /\ RequestAlone /\ SettingsDiffer /\ OffsetComes /\ RateComes
    BY DEF Uncrossed, q
  <2>2. /\ Of(rest, "MsgConfigureAMDemod") = Of(q, "MsgConfigureAMDemod")
        /\ Of(rest, "DSPConfigureAudio") = Of(q, "DSPConfigureAudio")
        /\ Waits(rest, "MsgConfigureAMDemod") <=> Waits(q, "MsgConfigureAMDemod")
        /\ Waits(rest, "DSPConfigureAudio") <=> Waits(q, "DSPConfigureAudio")
        /\ ~Waits(rest, "MsgConfigureChannelizer")
        /\ Of(rest, "MsgConfigureChannelizer") = {}
        /\ m \in Of(q, "MsgConfigureChannelizer")
    BY <1>1, <1>2, <1>6, <2>1 DEF Waits
  <2>3. RequestAlone'
    BY <1>1, <2>1, <2>2 DEF RequestAlone, Differs, q
  <2>4. SettingsDiffer'
    BY <1>1, <2>1, <2>2 DEF SettingsDiffer, Differs, q
  <2>5. OffsetComes'
    <3> SUFFICES ASSUME NEW f \in Offsets, Final(request', m_inputMessageQueue', demod', f)
                 PROVE  Comes(f)'
      BY DEF OffsetComes
    <3>1. Final(request, q, demod, f)
      BY <1>1, <2>2 DEF Final
    <3>2. m.centerFrequency = f
      BY <2>1, <2>2, <3>1 DEF OffsetComes, Comes, q
    <3>3. Will(channelizer, queue, f)
      BY <1>4, <1>5, <3>2 DEF Will
    <3> QED BY <1>1, <2>2, <3>3 DEF Comes
  <2>6. RateComes'
    BY <1>1, <2>1, <2>2 DEF RateComes, q
  <2> QED BY <1>6, <2>1, <2>3, <2>4, <2>5, <2>6
<1> QED BY <1>8, <1>9, <1>10

LEMMA AudioRated ==
  ASSUME NEW d \in DemodType, NEW rate \in AudioRates
  PROVE  /\ WithAudioSampleRate(d, rate) \in DemodType
         /\ WithAudioSampleRate(d, rate).m_settings = d.m_settings
         /\ WithAudioSampleRate(d, rate).m_inputSampleRate = d.m_inputSampleRate
         /\ WithAudioSampleRate(d, rate).m_inputFrequencyOffset = d.m_inputFrequencyOffset
         /\ WithAudioSampleRate(d, rate).m_audioSampleRate = rate
         /\ WithAudioSampleRate(d, rate).nco = d.nco
         /\ WithAudioSampleRate(d, rate).interpolator = <<d.m_inputSampleRate, rate>>
BY DEF WithAudioSampleRate, DemodType

LEMMA AudioStep ==
  ASSUME Inv, HandleConfigureAudio
  PROVE  Inv'
<1> USE DEF Inv, Types
<1> DEFINE q == m_inputMessageQueue
           m == Head(q)
           rest == Tail(q)
           offset == demod.m_settings.m_inputFrequencyOffset
           asked == MsgConfigureChannelizer(m.sampleRate, offset)
           more == Append(rest, asked)
           same == m.sampleRate = demod.m_audioSampleRate
<1>1. /\ q # << >> /\ m.type = "DSPConfigureAudio"
      /\ m_inputMessageQueue' = IF same THEN rest ELSE more
      /\ demod' = IF same THEN demod ELSE WithAudioSampleRate(demod, m.sampleRate)
      /\ UNCHANGED <<channelizer, m_channelizerQueue, applying, notif, overlapped>>
      /\ UNCHANGED <<attached, rateOf, running, request, inputs, crossed>>
  BY DEF HandleConfigureAudio, Receives, Message, channelizerVars, AskForRate
<1>2. /\ q \in Seq(Messages) /\ rest \in Seq(Messages) /\ m \in Messages
      /\ \A type : Of(q, type) = Of(rest, type) \cup (IF m.type = type THEN {m} ELSE {})
      /\ \A type : Waits(q, type) <=> Waits(rest, type) \/ m.type = type
  BY <1>1, Taken
<1>3. m.sampleRate \in AudioRates /\ offset \in Offsets /\ demod \in DemodType
  BY <1>1, <1>2, Kinds DEF AudioMessages, DemodTypes, DemodType, Settings
<1>4. /\ demod' \in DemodType /\ demod'.m_settings = demod.m_settings
      /\ demod'.m_inputSampleRate = demod.m_inputSampleRate
      /\ demod'.m_inputFrequencyOffset = demod.m_inputFrequencyOffset
      /\ demod'.m_audioSampleRate = m.sampleRate /\ Kept'
  BY <1>1, <1>3, AudioRated DEF ChannelInv, Kept
<1>5. /\ asked.type = "MsgConfigureChannelizer" /\ asked.centerFrequency = offset
      /\ more \in Seq(Messages)
      /\ \A type : Of(more, type) = Of(rest, type) \cup (IF asked.type = type THEN {asked} ELSE {})
      /\ \A type : Waits(more, type) <=> Waits(rest, type) \/ type = "MsgConfigureChannelizer"
      /\ \A d, n : Tells(rest, d, n) => Tells(more, d, n)
      /\ InOrder(rest) /\ (\A type \in Posted : ~Waits(rest, type)) => InOrder(more)
  <2> HIDE DEF q, m, rest, offset
  <2> QED BY <1>2, <1>3, Asked
<1>6. InOrder(q) => InOrder(rest) /\ \A type \in Posted : ~Waits(rest, type)
  BY <1>1, <1>2, InOrderTail DEF Posted
<1>7. \A n : n.type = "MsgChannelizerNotification" /\ Tells(q, demod, n) => Tells(rest, demod', n)
  BY <1>1, <1>2, <1>4, TellsTail
<1> HIDE DEF q, m, rest, offset, asked, more, same
<1>8. Types'
  BY <1>1, <1>2, <1>4, <1>5 DEF ChannelizerTypes, DemodTypes, Applying, Busy, Short
<1>9. ChannelInv'
  BY <1>1, <1>4, <1>5, <1>7, ChannelizerStands DEF q
<1>10. Uncrossed'
  <2> SUFFICES ASSUME ~crossed
               PROVE  /\ InOrder(m_inputMessageQueue)' /\ RequestAlone' /\ SettingsDiffer'
                      /\ OffsetComes' /\ RateComes'
    BY <1>1 DEF Uncrossed
  <2>1. InOrder(q) /\ RequestAlone /\ SettingsDiffer /\ OffsetComes /\ RateComes
    BY DEF Uncrossed, q
  <2>2. InOrder(m_inputMessageQueue)'
    BY <1>1, <1>5, <1>6, <2>1
  <2>3. /\ Waits(q, "DSPConfigureAudio") /\ request = None /\ request' = None
        /\ m.sampleRate = rateOf[attached]
    <3>1. Waits(q, "DSPConfigureAudio") /\ m \in Of(q, "DSPConfigureAudio")
      BY <1>1, <1>2
    <3> QED BY <1>1, <2>1, <3>1 DEF RequestAlone, RateComes, q
  <2>4. /\ Of(rest, "MsgConfigureAMDemod") = {} /\ Of(rest, "DSPConfigureAudio") = {}
        /\ Of(rest, "MsgConfigureChannelizer") = {}
    BY <1>6, <2>1 DEF Waits, Posted
  <2>5. /\ Of(m_inputMessageQueue', "MsgConfigureAMDemod") = {}
        /\ Of(m_inputMessageQueue', "DSPConfigureAudio") = {}
        /\ Of(m_inputMessageQueue', "MsgConfigureChannelizer") = IF same THEN {} ELSE {asked}
    BY <1>1, <1>5, <2>4
  <2>6. RequestAlone' /\ SettingsDiffer'
    BY <2>3, <2>5 DEF RequestAlone, SettingsDiffer
  <2>7. OffsetComes'
    <3> SUFFICES ASSUME NEW f \in Offsets, Final(request', m_inputMessageQueue', demod', f)
                 PROVE  Comes(f)'
      BY DEF OffsetComes
    <3>1. f = offset
      BY <1>4, <2>3, <2>5 DEF Final, Waits, offset
    <3>2. CASE same
      <4>1. Waits(q, "MsgConfigureAMDemod") = FALSE /\ ~Waits(q, "MsgConfigureChannelizer")
        BY <1>1, <1>2, <2>4 DEF Waits
      <4>2. Final(request, q, demod, f)
        BY <2>3, <3>1, <4>1 DEF Final, offset
      <4>3. Will(channelizer, m_channelizerQueue, f)
        BY <2>1, <4>1, <4>2 DEF OffsetComes, Comes, q
      <4> QED BY <1>1, <2>5, <3>2, <4>3 DEF Comes
    <3>3. CASE ~same
      BY <1>5, <2>5, <3>1, <3>3 DEF Comes, Waits
    <3> QED BY <3>2, <3>3
  <2>8. RateComes'
    BY <1>1, <1>4, <2>1, <2>3, <2>5 DEF RateComes
  <2> QED BY <2>2, <2>6, <2>7, <2>8
<1> QED BY <1>8, <1>9, <1>10

LEMMA Resettled ==
  ASSUME NEW d \in DemodType, NEW s \in Settings
  PROVE  LET e == [d EXCEPT !.m_settings = s]
         IN /\ e \in DemodType /\ e.m_settings = s
            /\ e.m_inputSampleRate = d.m_inputSampleRate
            /\ e.m_inputFrequencyOffset = d.m_inputFrequencyOffset
            /\ e.m_audioSampleRate = d.m_audioSampleRate
            /\ e.nco = d.nco /\ e.interpolator = d.interpolator
BY DEF DemodType

LEMMA SettingsStep ==
  ASSUME Inv, HandleConfigureAMDemod
  PROVE  Inv'
<1> USE DEF Inv, Types
<1> DEFINE q == m_inputMessageQueue
           m == Head(q)
           rest == Tail(q)
           settings == m.settings
           device == settings.m_audioDeviceName
           moves == m.force \/ device # demod.m_settings.m_audioDeviceName
           retunes == moves /\ rateOf[device] # demod.m_audioSampleRate
           rate == demod.m_audioSampleRate
           forced == IF m.force THEN WithAudioSampleRate(demod, rate) ELSE demod
           applied == IF retunes THEN WithAudioSampleRate(forced, rateOf[device]) ELSE forced
           offset == demod.m_settings.m_inputFrequencyOffset
           asked == MsgConfigureChannelizer(rateOf[device], offset)
           more == Append(rest, asked)
<1>1. /\ q # << >> /\ m.type = "MsgConfigureAMDemod"
      /\ attached' = IF moves THEN device ELSE attached
      /\ m_inputMessageQueue' = IF retunes THEN more ELSE rest
      /\ demod' = [applied EXCEPT !.m_settings = settings]
      /\ UNCHANGED <<channelizer, m_channelizerQueue, applying, notif, overlapped>>
      /\ UNCHANGED <<rateOf, running, request, inputs, crossed>>
  BY DEF HandleConfigureAMDemod, Receives, Message, channelizerVars, AskForRate
<1>2. /\ q \in Seq(Messages) /\ rest \in Seq(Messages) /\ m \in Messages
      /\ \A type : Of(q, type) = Of(rest, type) \cup (IF m.type = type THEN {m} ELSE {})
      /\ \A type : Waits(q, type) <=> Waits(rest, type) \/ m.type = type
  BY <1>1, Taken
<1>3. settings \in Settings /\ m.force \in BOOLEAN
  BY <1>1, <1>2, Kinds DEF SettingsMessages
<1>4. /\ device \in Devices /\ rateOf[device] \in AudioRates /\ offset \in Offsets
      /\ demod \in DemodType /\ rate \in AudioRates /\ attached \in Devices
  BY <1>3 DEF DemodTypes, DemodType, Settings
<1>5. /\ asked.type = "MsgConfigureChannelizer" /\ asked.centerFrequency = offset
      /\ more \in Seq(Messages)
      /\ \A type : Of(more, type) = Of(rest, type) \cup (IF asked.type = type THEN {asked} ELSE {})
      /\ \A type : Waits(more, type) <=> Waits(rest, type) \/ type = "MsgConfigureChannelizer"
      /\ \A d, n : Tells(rest, d, n) => Tells(more, d, n)
      /\ InOrder(rest) /\ (\A type \in Posted : ~Waits(rest, type)) => InOrder(more)
  <2> HIDE DEF q, m, rest, device, offset
  <2> QED BY <1>2, <1>4, Asked
<1>6. InOrder(q) => InOrder(rest) /\ \A type \in Posted : ~Waits(rest, type)
  BY <1>1, <1>2, InOrderTail DEF Posted
<1> HIDE DEF q, m, rest, settings, device, rate, offset, asked, more
<1>7. /\ forced \in DemodType /\ forced.m_audioSampleRate = rate
      /\ forced.m_inputSampleRate = demod.m_inputSampleRate
      /\ forced.m_inputFrequencyOffset = demod.m_inputFrequencyOffset
      /\ forced.nco = demod.nco
      /\ forced.interpolator = <<demod.m_inputSampleRate, rate>>
  BY <1>4, AudioRated DEF ChannelInv, Kept, rate
<1> HIDE DEF forced, moves, retunes
<1>8. /\ applied \in DemodType
      /\ applied.m_audioSampleRate = IF retunes THEN rateOf[device] ELSE rate
      /\ applied.m_inputSampleRate = demod.m_inputSampleRate
      /\ applied.m_inputFrequencyOffset = demod.m_inputFrequencyOffset
      /\ applied.nco = demod.nco
      /\ applied.interpolator = <<demod.m_inputSampleRate, applied.m_audioSampleRate>>
  BY <1>4, <1>7, AudioRated
<1> HIDE DEF applied
<1>9. /\ demod' \in DemodType /\ demod'.m_settings = settings
      /\ demod'.m_inputSampleRate = demod.m_inputSampleRate
      /\ demod'.m_inputFrequencyOffset = demod.m_inputFrequencyOffset
      /\ demod'.m_audioSampleRate = IF retunes THEN rateOf[device] ELSE rate
      /\ demod'.nco = demod.nco
      /\ demod'.interpolator = <<demod.m_inputSampleRate, demod'.m_audioSampleRate>>
  BY <1>1, <1>3, <1>8, Resettled
<1>10. Kept'
  BY <1>9 DEF ChannelInv, Kept
<1>11. \A n : n.type = "MsgChannelizerNotification" /\ Tells(q, demod, n) => Tells(rest, demod', n)
  BY <1>1, <1>2, <1>9, TellsTail DEF m, rest
<1>12. Types'
  BY <1>1, <1>2, <1>4, <1>5, <1>9 DEF ChannelizerTypes, DemodTypes, Applying, Busy, Short
<1>13. ChannelInv'
  BY <1>1, <1>5, <1>10, <1>11, ChannelizerStands DEF q
<1>14. Uncrossed'
  <2> SUFFICES ASSUME ~crossed
               PROVE  /\ InOrder(m_inputMessageQueue)' /\ RequestAlone' /\ SettingsDiffer'
                      /\ OffsetComes' /\ RateComes'
    BY <1>1 DEF Uncrossed
  <2>1. InOrder(q) /\ RequestAlone /\ SettingsDiffer /\ OffsetComes /\ RateComes
    BY DEF Uncrossed, q
  <2>2. InOrder(m_inputMessageQueue)'
    BY <1>1, <1>5, <1>6, <2>1
  <2>3. /\ Of(rest, "MsgConfigureAMDemod") = {} /\ Of(rest, "DSPConfigureAudio") = {}
        /\ Of(rest, "MsgConfigureChannelizer") = {}
    BY <1>6, <2>1 DEF Waits, Posted
  <2>4. /\ Of(m_inputMessageQueue', "MsgConfigureAMDemod") = {}
        /\ Of(m_inputMessageQueue', "DSPConfigureAudio") = {}
        /\ Of(m_inputMessageQueue', "MsgConfigureChannelizer") = IF retunes THEN {asked} ELSE {}
    BY <1>1, <1>5, <2>3
  <2>5. /\ Of(q, "MsgConfigureAMDemod") = {m} /\ Of(q, "DSPConfigureAudio") = {}
        /\ Of(q, "MsgConfigureChannelizer") = {}
    BY <1>1, <1>2, <2>3
  <2>6. /\ request = None /\ request' = None /\ Differs(settings, demod)
        /\ attached = demod.m_settings.m_audioDeviceName /\ rate = rateOf[attached]
    BY <1>1, <2>1, <2>5 DEF RequestAlone, SettingsDiffer, RateComes, Waits, q, settings, rate
  <2>7. attached' = device /\ demod'.m_audioSampleRate = rateOf[device]
    BY <1>1, <1>9, <2>6 DEF moves, retunes, rate
  <2>8. retunes => offset = settings.m_inputFrequencyOffset
    BY <2>6 DEF retunes, Differs, device, offset, rate
  <2>9. RequestAlone' /\ SettingsDiffer'
    BY <2>4, <2>6 DEF RequestAlone, SettingsDiffer
  <2>10. OffsetComes'
    <3> SUFFICES ASSUME NEW f \in Offsets, Final(request', m_inputMessageQueue', demod', f)
                 PROVE  Comes(f)'
      BY DEF OffsetComes
    <3>1. f = settings.m_inputFrequencyOffset
      BY <1>9, <2>4, <2>6 DEF Final, Waits
    <3>2. Final(request, q, demod, f)
      BY <2>5, <2>6, <3>1 DEF Final, Waits, settings
    <3>3. Will(channelizer, m_channelizerQueue, f)
      BY <2>1, <2>5, <3>2 DEF OffsetComes, Comes, Waits, q
    <3> QED BY <1>1, <1>5, <2>4, <2>8, <3>1, <3>3 DEF Comes, Waits
  <2>11. RateComes'
    BY <1>1, <1>9, <2>4, <2>7 DEF RateComes, Waits, device
  <2> QED BY <2>2, <2>9, <2>10, <2>11
<1> QED BY <1>12, <1>13, <1>14

LEMMA NothingPends ==
  ASSUME ~Pending
  PROVE  request = None /\ \A type \in Posted : ~Waits(m_inputMessageQueue, type)
BY DEF Pending, Posted, Waits, Of

(* What is added to a queue in which nothing of its kind waits.            *)
LEMMA Posts ==
  ASSUME NEW q \in Seq(Messages), NEW m \in Messages, m.type # "MsgChannelizerNotification"
  PROVE  LET r == Append(q, m)
         IN /\ r \in Seq(Messages)
            /\ \A type : Of(r, type) = Of(q, type) \cup (IF m.type = type THEN {m} ELSE {})
            /\ \A type : Waits(r, type) <=> Waits(q, type) \/ m.type = type
            /\ \A d, n : Tells(q, d, n) => Tells(r, d, n)
<1> DEFINE r == Append(q, m)
<1>1. r \in Seq(Messages)
  BY Appended
<1>2. \A type : Of(r, type) = Of(q, type) \cup (IF m.type = type THEN {m} ELSE {})
  BY OfAppended
<1>3. \A d, n : Tells(q, d, n) => Tells(r, d, n)
  BY TellsAppended
<1> HIDE DEF r
<1>4. \A type : Waits(r, type) <=> Waits(q, type) \/ m.type = type
  BY <1>2 DEF Waits
<1> QED BY <1>1, <1>2, <1>3, <1>4 DEF r

LEMMA ReadStep ==
  ASSUME Inv, NEW r \in Requests, ReadSettings(r.keys, r.force)
  PROVE  Inv'
<1> USE DEF Inv, Types
<1> DEFINE q == m_inputMessageQueue
           keys == r.keys
<1>1. PICK seen \in Seen, given \in Settings :
        request' = [settings |-> [k \in Keys |-> IF k \in keys THEN given[k] ELSE seen[k]],
                    keys |-> keys, force |-> r.force, next |-> "MsgConfigureChannelizer"]
  BY DEF ReadSettings
<1> DEFINE settings == [k \in Keys |-> IF k \in keys THEN given[k] ELSE seen[k]]
<1>2. /\ request = None /\ inputs < MaxInputs /\ inputs' = inputs + 1
      /\ crossed' = (crossed \/ Pending \/ keys = Keys)
      /\ UNCHANGED <<channelizer, m_channelizerQueue, applying, notif, overlapped>>
      /\ UNCHANGED <<m_inputMessageQueue, demod, attached, rateOf, running>>
  BY DEF ReadSettings, Asks, channelizerVars
<1>3. keys \in SUBSET Keys /\ r.force \in BOOLEAN
  BY RequestsAssumption
<1>4. seen \in Settings
  BY DEF Seen
<1>5. /\ settings.m_inputFrequencyOffset =
           IF "m_inputFrequencyOffset" \in keys THEN given.m_inputFrequencyOffset
           ELSE seen.m_inputFrequencyOffset
      /\ settings.m_audioDeviceName =
           IF "m_audioDeviceName" \in keys THEN given.m_audioDeviceName
           ELSE seen.m_audioDeviceName
  BY DEF Keys
<1>6. settings \in Settings
  <2>1. settings = [m_inputFrequencyOffset |-> settings.m_inputFrequencyOffset,
                    m_audioDeviceName |-> settings.m_audioDeviceName]
    BY DEF Keys
  <2>2. settings.m_inputFrequencyOffset \in Offsets /\ settings.m_audioDeviceName \in Devices
    BY <1>4, <1>5 DEF Settings
  <2> HIDE DEF settings
  <2> QED BY <2>1, <2>2 DEF Settings
<1> HIDE DEF settings, keys
<1>7. /\ request' \in RequestType /\ request' # None /\ request'.settings = settings
      /\ request'.keys = keys /\ request'.next = "MsgConfigureChannelizer"
  BY <1>1, <1>3, <1>6, RequestsAssumption DEF RequestType, keys, settings
<1>8. crossed' \in BOOLEAN
  BY <1>2
<1>9. inputs' \in 0..MaxInputs
  BY <1>2, DefaultsAssumption DEF DemodTypes
<1>10. Types'
  BY <1>2, <1>7, <1>8, <1>9 DEF ChannelizerTypes, DemodTypes, Applying, Busy, Short
<1>11. ChannelInv'
  <2>1. Kept'
    BY <1>2, KeptStands DEF ChannelInv
  <2> QED BY <1>2, <2>1, ChannelizerStands
<1>12. Uncrossed'
  <2> SUFFICES ASSUME ~crossed, ~Pending, keys # Keys
               PROVE  /\ InOrder(q) /\ RequestAlone' /\ SettingsDiffer'
                      /\ OffsetComes' /\ RateComes'
    BY <1>2 DEF Uncrossed
  <2>1. InOrder(q) /\ RequestAlone /\ SettingsDiffer /\ OffsetComes /\ RateComes
    BY DEF Uncrossed
  <2>2. \A type \in Posted : ~Waits(q, type)
    BY NothingPends
  <2>3. \A k \in Keys : seen[k] = demod.m_settings[k]
    <3>1. ~Receives("MsgConfigureAMDemod")
      <4> SUFFICES ASSUME Receives("MsgConfigureAMDemod") PROVE FALSE
        OBVIOUS
      <4>1. q # << >> /\ Head(q).type = "MsgConfigureAMDemod"
        BY DEF Receives, Message
      <4>2. Waits(q, "MsgConfigureAMDemod")
        BY <4>1, Taken
      <4> QED BY <2>2, <4>2 DEF Posted
    <3> QED BY <3>1 DEF Seen
  <2>4. /\ "m_inputFrequencyOffset" \notin keys =>
             settings.m_inputFrequencyOffset = demod.m_settings.m_inputFrequencyOffset
        /\ "m_audioDeviceName" \notin keys =>
             settings.m_audioDeviceName = demod.m_settings.m_audioDeviceName
    BY <1>5, <2>3 DEF Keys
  <2>5. "m_inputFrequencyOffset" \notin keys \/ "m_audioDeviceName" \notin keys
    BY <1>3 DEF Keys
  <2>6. RequestAlone'
    BY <1>2, <1>7, <2>2, <2>4, <2>5 DEF RequestAlone, Differs, Posted
  <2>7. SettingsDiffer'
    BY <1>2, <2>1 DEF SettingsDiffer, Differs
  <2>8. OffsetComes'
    <3> SUFFICES ASSUME NEW f \in Offsets, Final(request', m_inputMessageQueue', demod', f)
                 PROVE  Comes(f)'
      BY DEF OffsetComes
    <3>1. Final(request, q, demod, f)
      BY <1>2, <1>7, <2>2 DEF Final, Posted
    <3> QED BY <1>2, <2>1, <3>1 DEF OffsetComes, Comes
  <2>9. RateComes'
    BY <1>2, <2>1 DEF RateComes
  <2> QED BY <2>1, <2>6, <2>7, <2>8, <2>9
<1> QED BY <1>10, <1>11, <1>12

LEMMA OffsetStep ==
  ASSUME Inv, RequestOffset
  PROVE  Inv'
<1> USE DEF Inv, Types
<1> DEFINE q == m_inputMessageQueue
           offset == request.settings.m_inputFrequencyOffset
           m == MsgConfigureChannelizer(demod.m_audioSampleRate, offset)
           asks == "m_inputFrequencyOffset" \in request.keys
           r == Append(q, m)
<1>1. /\ request # None /\ request.next = "MsgConfigureChannelizer"
      /\ m_inputMessageQueue' = IF asks THEN r ELSE q
      /\ request' = [request EXCEPT !.next = "MsgConfigureAMDemod"]
      /\ UNCHANGED <<channelizer, m_channelizerQueue, applying, notif, overlapped>>
      /\ UNCHANGED <<demod, attached, rateOf, running, inputs, crossed>>
  BY DEF RequestOffset, channelizerVars
<1>2. request \in RequestType
  BY <1>1 DEF DemodTypes
<1>3. /\ request' \in RequestType /\ request'.settings = request.settings
      /\ request'.keys = request.keys /\ request'.next = "MsgConfigureAMDemod"
      /\ request' # None
  BY <1>1, <1>2, RequestsAssumption DEF RequestType
<1>4. offset \in Offsets /\ demod.m_audioSampleRate \in AudioRates /\ q \in Seq(Messages)
  BY <1>2 DEF RequestType, Settings, ChannelizerTypes, DemodTypes, DemodType
<1>5. /\ m.type = "MsgConfigureChannelizer" /\ m.centerFrequency = offset
      /\ r \in Seq(Messages)
      /\ \A type : Of(r, type) = Of(q, type) \cup (IF m.type = type THEN {m} ELSE {})
      /\ \A type : Waits(r, type) <=> Waits(q, type) \/ type = "MsgConfigureChannelizer"
      /\ \A d, n : Tells(q, d, n) => Tells(r, d, n)
      /\ InOrder(q) /\ (\A type \in Posted : ~Waits(q, type)) => InOrder(r)
  <2> HIDE DEF q, offset
  <2> QED BY <1>4, Asked
<1> HIDE DEF q, offset, m, asks, r
<1>6. Types'
  BY <1>1, <1>3, <1>4, <1>5 DEF ChannelizerTypes, DemodTypes, Applying, Busy, Short
<1>7. ChannelInv'
  <2>1. Kept'
    BY <1>1, KeptStands DEF ChannelInv
  <2> QED BY <1>1, <1>5, <2>1, ChannelizerStands DEF q
<1>8. Uncrossed'
  <2> SUFFICES ASSUME ~crossed
               PROVE  /\ InOrder(m_inputMessageQueue)' /\ RequestAlone' /\ SettingsDiffer'
                      /\ OffsetComes' /\ RateComes'
    BY <1>1 DEF Uncrossed
  <2>1. InOrder(q) /\ RequestAlone /\ SettingsDiffer /\ OffsetComes /\ RateComes
    BY DEF Uncrossed, q
  <2>2. \A type \in Posted : ~Waits(q, type)
    BY <1>1, <2>1 DEF RequestAlone, Posted, q
  <2>3. InOrder(m_inputMessageQueue)'
    BY <1>1, <1>5, <2>1, <2>2
  <2>4. /\ Of(q, "MsgConfigureAMDemod") = {} /\ Of(q, "DSPConfigureAudio") = {}
        /\ Of(q, "MsgConfigureChannelizer") = {}
    BY <2>2 DEF Waits, Posted
  <2>5. /\ Of(m_inputMessageQueue', "MsgConfigureAMDemod") = {}
        /\ Of(m_inputMessageQueue', "DSPConfigureAudio") = {}
        /\ Of(m_inputMessageQueue', "MsgConfigureChannelizer") = IF asks THEN {m} ELSE {}
    BY <1>1, <1>5, <2>4
  <2>6. RequestAlone'
    BY <1>1, <1>3, <2>1, <2>5 DEF RequestAlone, Differs, Waits
  <2>7. SettingsDiffer'
    BY <2>5 DEF SettingsDiffer
  <2>8. OffsetComes'
    <3> SUFFICES ASSUME NEW f \in Offsets, Final(request', m_inputMessageQueue', demod', f)
                 PROVE  Comes(f)'
      BY DEF OffsetComes
    <3>1. f = offset
      BY <1>3 DEF Final, offset
    <3>2. CASE asks
      BY <1>5, <2>5, <3>1, <3>2 DEF Comes, Waits
    <3>3. CASE ~asks
      <4>1. f = demod.m_settings.m_inputFrequencyOffset
        BY <1>1, <2>1, <3>1, <3>3 DEF RequestAlone, asks, offset
      <4>2. Final(request, q, demod, f)
        BY <1>1, <4>1 DEF Final
      <4>3. Will(channelizer, m_channelizerQueue, f)
        BY <2>1, <2>4, <4>2 DEF OffsetComes, Comes, Waits, q
      <4> QED BY <1>1, <2>5, <3>3, <4>3 DEF Comes
    <3> QED BY <3>2, <3>3
  <2>9. RateComes'
    BY <1>1, <2>1, <2>4, <2>5 DEF RateComes, Waits, q
  <2> QED BY <2>3, <2>6, <2>7, <2>8, <2>9
<1> QED BY <1>6, <1>7, <1>8

LEMMA PostStep ==
  ASSUME Inv, RequestSettings
  PROVE  Inv'
<1> USE DEF Inv, Types
<1> DEFINE q == m_inputMessageQueue
           m == MsgConfigureAMDemod(request.settings, request.force)
           r == Append(q, m)
<1>1. /\ request # None /\ request.next = "MsgConfigureAMDemod"
      /\ m_inputMessageQueue' = r /\ request' = None
      /\ UNCHANGED <<channelizer, m_channelizerQueue, applying, notif, overlapped>>
      /\ UNCHANGED <<demod, attached, rateOf, running, inputs, crossed>>
  BY DEF RequestSettings, channelizerVars
<1>2. request \in RequestType /\ q \in Seq(Messages)
  BY <1>1 DEF DemodTypes, ChannelizerTypes
<1>3. m \in Messages /\ m.type = "MsgConfigureAMDemod" /\ m.settings = request.settings
  BY <1>2 DEF RequestType, Messages, SettingsMessages, MsgConfigureAMDemod
<1> HIDE DEF q, m
<1>4. /\ r \in Seq(Messages)
      /\ \A type : Of(r, type) = Of(q, type) \cup (IF m.type = type THEN {m} ELSE {})
      /\ \A type : Waits(r, type) <=> Waits(q, type) \/ m.type = type
      /\ \A d, n : Tells(q, d, n) => Tells(r, d, n)
  BY <1>2, <1>3, Posts
<1>5. /\ InOrder(q) /\ ~Waits(q, "MsgConfigureAMDemod") /\ ~Waits(q, "DSPConfigureAudio")
           => InOrder(r)
  BY <1>2, <1>3, InOrderAppended
<1> HIDE DEF r
<1>6. Types'
  BY <1>1, <1>4 DEF ChannelizerTypes, DemodTypes, Applying, Busy, Short
<1>7. ChannelInv'
  <2>1. Kept'
    BY <1>1, KeptStands DEF ChannelInv
  <2> QED BY <1>1, <1>4, <2>1, ChannelizerStands DEF q
<1>8. Uncrossed'
  <2> SUFFICES ASSUME ~crossed
               PROVE  /\ InOrder(r) /\ RequestAlone' /\ SettingsDiffer'
                      /\ OffsetComes' /\ RateComes'
    BY <1>1 DEF Uncrossed
  <2>1. InOrder(q) /\ RequestAlone /\ SettingsDiffer /\ OffsetComes /\ RateComes
    BY DEF Uncrossed, q
  <2>2. /\ Of(q, "MsgConfigureAMDemod") = {} /\ Of(q, "DSPConfigureAudio") = {}
        /\ Differs(request.settings, demod)
    BY <1>1, <2>1 DEF RequestAlone, Waits, q
  <2>3. InOrder(r)
    BY <1>5, <2>1, <2>2 DEF Waits
  <2>4. /\ Of(r, "MsgConfigureAMDemod") = {m} /\ Of(r, "DSPConfigureAudio") = {}
        /\ Of(r, "MsgConfigureChannelizer") = Of(q, "MsgConfigureChannelizer")
    BY <1>3, <1>4, <2>2
  <2>5. RequestAlone'
    BY <1>1 DEF RequestAlone
  <2>6. SettingsDiffer'
    BY <1>1, <1>3, <2>2, <2>4 DEF SettingsDiffer, Differs
  <2>7. OffsetComes'
    <3> SUFFICES ASSUME NEW f \in Offsets, Final(request', m_inputMessageQueue', demod', f)
                 PROVE  Comes(f)'
      BY DEF OffsetComes
    <3>1. f = request.settings.m_inputFrequencyOffset
      BY <1>1, <1>3, <2>4 DEF Final, Waits
    <3>2. Final(request, q, demod, f)
      BY <1>1, <3>1 DEF Final
    <3>3. Comes(f)
      BY <2>1, <3>2 DEF OffsetComes, q
    <3> QED BY <1>1, <2>4, <3>3 DEF Comes, Waits, q
  <2>8. RateComes'
    BY <1>1, <2>1, <2>2, <2>4 DEF RateComes, Waits, q
  <2> QED BY <2>3, <2>5, <2>6, <2>7, <2>8
<1> QED BY <1>6, <1>7, <1>8

LEMMA PresetStep ==
  ASSUME Inv, NEW settings \in Presets, LoadPreset(settings)
  PROVE  Inv'
<1> USE DEF Inv, Types
<1> DEFINE q == m_inputMessageQueue
           m == MsgConfigureAMDemod(settings, TRUE)
           r == Append(q, m)
<1>1. /\ demod' = [demod EXCEPT !.m_settings = settings]
      /\ m_inputMessageQueue' = r
      /\ inputs < MaxInputs /\ inputs' = inputs + 1 /\ crossed' = (crossed \/ Pending \/ TRUE)
      /\ UNCHANGED <<channelizer, m_channelizerQueue, applying, notif, overlapped>>
      /\ UNCHANGED <<attached, rateOf, running, request>>
  BY DEF LoadPreset, Asks, channelizerVars
<1>2. settings \in Settings /\ q \in Seq(Messages) /\ demod \in DemodType
  BY RequestsAssumption DEF DemodTypes, ChannelizerTypes
<1>3. m \in Messages /\ m.type = "MsgConfigureAMDemod"
  BY <1>2 DEF Messages, SettingsMessages, MsgConfigureAMDemod
<1> HIDE DEF q, m
<1>4. r \in Seq(Messages) /\ \A d, n : Tells(q, d, n) => Tells(r, d, n)
  BY <1>2, <1>3, Posts
<1> HIDE DEF r
<1>5. /\ demod' \in DemodType
      /\ demod'.m_inputSampleRate = demod.m_inputSampleRate
      /\ demod'.m_inputFrequencyOffset = demod.m_inputFrequencyOffset
      /\ demod'.m_audioSampleRate = demod.m_audioSampleRate
      /\ demod'.nco = demod.nco /\ demod'.interpolator = demod.interpolator
  BY <1>1, <1>2, Resettled
<1>6. crossed' = TRUE
  BY <1>1
<1>7. inputs' \in 0..MaxInputs
  BY <1>1, DefaultsAssumption DEF DemodTypes
<1>8. Types'
  BY <1>1, <1>4, <1>5, <1>6, <1>7 DEF ChannelizerTypes, DemodTypes, Applying, Busy, Short
<1>9. ChannelInv'
  <2>1. Kept'
    BY <1>5 DEF ChannelInv, Kept
  <2>2. \A n : Tells(q, demod, n) => Tells(r, demod', n)
    BY <1>4, <1>5, TellsSame
  <2> QED BY <1>1, <2>1, <2>2, ChannelizerStands DEF q
<1>10. Uncrossed'
  BY <1>6 DEF Uncrossed
<1> QED BY <1>8, <1>9, <1>10

LEMMA OutputStep ==
  ASSUME Inv, NEW device \in Devices, NEW rate \in AudioRates, SetOutputRate(device, rate)
  PROVE  Inv'
<1> USE DEF Inv, Types
<1> DEFINE q == m_inputMessageQueue
           m == DSPConfigureAudio(rate)
           r == Append(q, m)
           tells == attached = device
<1>1. /\ rateOf' = [rateOf EXCEPT ![device] = rate]
      /\ m_inputMessageQueue' = IF tells THEN r ELSE q
      /\ inputs < MaxInputs /\ inputs' = inputs + 1
      /\ crossed' = (crossed \/ Pending \/ FALSE)
      /\ UNCHANGED <<channelizer, m_channelizerQueue, applying, notif, overlapped>>
      /\ UNCHANGED <<demod, attached, running, request>>
  BY DEF SetOutputRate, Asks, channelizerVars
<1>2. q \in Seq(Messages) /\ rateOf \in [Devices -> AudioRates] /\ attached \in Devices
  BY DEF DemodTypes, ChannelizerTypes
<1>3. m \in Messages /\ m.type = "DSPConfigureAudio" /\ m.sampleRate = rate
  BY DEF Messages, AudioMessages, DSPConfigureAudio
<1> HIDE DEF q, m, tells
<1>4. /\ r \in Seq(Messages)
      /\ \A type : Of(r, type) = Of(q, type) \cup (IF m.type = type THEN {m} ELSE {})
      /\ \A type : Waits(r, type) <=> Waits(q, type) \/ m.type = type
      /\ \A d, n : Tells(q, d, n) => Tells(r, d, n)
  BY <1>2, <1>3, Posts
<1>5. InOrder(q) /\ (\A type \in Posted : ~Waits(q, type)) => InOrder(r)
  BY <1>2, <1>3, InOrderAppended DEF Posted
<1> HIDE DEF r
<1>6. /\ rateOf' \in [Devices -> AudioRates] /\ rateOf'[device] = rate
      /\ \A d \in Devices : d # device => rateOf'[d] = rateOf[d]
  BY <1>1, <1>2
<1>7. crossed' \in BOOLEAN
  BY <1>1
<1>8. inputs' \in 0..MaxInputs
  BY <1>1, DefaultsAssumption DEF DemodTypes
<1>9. Types'
  BY <1>1, <1>2, <1>4, <1>6, <1>7, <1>8 DEF ChannelizerTypes, DemodTypes, Applying, Busy, Short
<1>10. ChannelInv'
  <2>1. Kept'
    BY <1>1, KeptStands DEF ChannelInv
  <2> QED BY <1>1, <1>4, <2>1, ChannelizerStands DEF q
<1>11. Uncrossed'
  <2> SUFFICES ASSUME ~crossed, ~Pending
               PROVE  /\ InOrder(m_inputMessageQueue)' /\ RequestAlone' /\ SettingsDiffer'
                      /\ OffsetComes' /\ RateComes'
    BY <1>1 DEF Uncrossed
  <2>1. InOrder(q) /\ RequestAlone /\ SettingsDiffer /\ OffsetComes /\ RateComes
    BY DEF Uncrossed, q
  <2>2. request = None /\ \A type \in Posted : ~Waits(q, type)
    BY NothingPends DEF q
  <2>3. InOrder(m_inputMessageQueue)'
    BY <1>1, <1>5, <2>1, <2>2
  <2>4. /\ Of(q, "MsgConfigureAMDemod") = {} /\ Of(q, "DSPConfigureAudio") = {}
        /\ Of(q, "MsgConfigureChannelizer") = {}
    BY <2>2 DEF Waits, Posted
  <2>5. /\ Of(m_inputMessageQueue', "MsgConfigureAMDemod") = {}
        /\ Of(m_inputMessageQueue', "DSPConfigureAudio") = IF tells THEN {m} ELSE {}
        /\ Of(m_inputMessageQueue', "MsgConfigureChannelizer") = {}
    BY <1>1, <1>3, <1>4, <2>4
  <2>6. RequestAlone' /\ SettingsDiffer'
    BY <1>1, <2>2, <2>5 DEF RequestAlone, SettingsDiffer
  <2>7. OffsetComes'
    <3> SUFFICES ASSUME NEW f \in Offsets, Final(request', m_inputMessageQueue', demod', f)
                 PROVE  Comes(f)'
      BY DEF OffsetComes
    <3>1. Final(request, q, demod, f)
      BY <1>1, <2>2, <2>4, <2>5 DEF Final, Waits
    <3>2. Will(channelizer, m_channelizerQueue, f)
      BY <2>1, <2>4, <3>1 DEF OffsetComes, Comes, Waits, q
    <3> QED BY <1>1, <2>5, <3>2 DEF Comes
  <2>8. RateComes'
    <3>1. attached = demod.m_settings.m_audioDeviceName /\ demod.m_audioSampleRate = rateOf[attached]
      BY <2>1, <2>4 DEF RateComes, Waits, q
    <3>2. CASE tells
      BY <1>1, <1>3, <1>6, <2>5, <3>1, <3>2 DEF RateComes, Waits, tells
    <3>3. CASE ~tells
      BY <1>1, <1>2, <1>6, <2>5, <3>1, <3>3 DEF RateComes, Waits, tells
    <3> QED BY <3>2, <3>3
  <2> QED BY <2>3, <2>6, <2>7, <2>8
<1> QED BY <1>9, <1>10, <1>11

LEMMA AppliedMembers ==
  ASSUME NEW c \in ChannelizerType, NEW rate \in SampleRates
  PROVE  LET a == Applied([c EXCEPT !.inputSampleRate = rate])
         IN /\ a \in ChannelizerType /\ a.inputSampleRate = rate
            /\ a.requestedCenterFrequency = c.requestedCenterFrequency
            /\ a.currentOutputSampleRate # 0
            /\ Made(a) /\ Rated(a) /\ Leave(a.filterStages)
<1> DEFINE b == [c EXCEPT !.inputSampleRate = rate]
           chained == Chained(b)
           n == Len(chained.filterStages)
           a == Applied(b)
<1>1. /\ b \in ChannelizerType /\ b.inputSampleRate = rate
      /\ b.requestedCenterFrequency = c.requestedCenterFrequency
  BY DEF ChannelizerType
<1>2. rate \in Nat \ {0}
  BY WidthsAssumption
<1> HIDE DEF b
<1>3. /\ chained \in ChannelizerType /\ chained.inputSampleRate = rate
      /\ chained.requestedCenterFrequency = c.requestedCenterFrequency
      /\ Made(chained) /\ Leave(chained.filterStages)
  BY <1>1, <1>2, ChainedMembers, ChainedMade, ChainLeaves
<1>4. a = WithRate(chained, n)
  BY DEF Applied
<1> HIDE DEF chained, a
<1>5. n \in Nat
  <2>1. chained.filterStages \in Seq(Modes)
    BY <1>3 DEF ChannelizerType
  <2> QED BY <2>1
<1>6. LeftShift[n] \in Nat \ {0} /\ LeftShift[n] <= rate
  BY <1>3, <1>5, Shifts DEF Leave
<1>7. rate \div LeftShift[n] \in Nat \ {0}
  BY <1>2, <1>6, Division
<1>8. /\ a \in ChannelizerType /\ a.inputSampleRate = rate
      /\ a.requestedCenterFrequency = c.requestedCenterFrequency
      /\ a.currentOutputSampleRate = rate \div LeftShift[n]
      /\ a.filterStages = chained.filterStages /\ Made(a)
  BY <1>3, <1>4, <1>5, RatedMembers, RatedMade
<1>9. Rated(a) /\ Leave(a.filterStages)
  BY <1>3, <1>8 DEF Rated
<1> QED BY <1>7, <1>8, <1>9 DEF a, b

LEMMA Rechannelled ==
  ASSUME NEW d \in DemodType
  PROVE  LET e == WithChannelSettings(d, d.m_inputSampleRate, d.m_inputFrequencyOffset, TRUE)
         IN /\ e \in DemodType /\ e.m_settings = d.m_settings
            /\ e.m_inputSampleRate = d.m_inputSampleRate
            /\ e.m_inputFrequencyOffset = d.m_inputFrequencyOffset
            /\ e.m_audioSampleRate = d.m_audioSampleRate
            /\ e.nco = <<d.m_inputFrequencyOffset, d.m_inputSampleRate>>
            /\ e.interpolator = <<d.m_inputSampleRate, d.m_audioSampleRate>>
BY DEF WithChannelSettings, DemodType

LEMMA StartStep ==
  ASSUME Inv, NEW rate \in SampleRates, NEW ok \in BOOLEAN, Start(rate, ok)
  PROVE  Inv'
<1> USE DEF Inv, Types
<1> DEFINE q == m_inputMessageQueue
           c == Applied([channelizer EXCEPT !.inputSampleRate = rate])
           n == Notification(c)
           r == Append(q, n)
<1>1. /\ \A t \in Appliers : applying[t] = "idle"
      /\ inputs < MaxInputs /\ inputs' = inputs + 1
      /\ channelizer' = c /\ m_inputMessageQueue' = r
      /\ overlapped' = FALSE /\ running' = ok
      /\ demod' = IF ok THEN WithChannelSettings(demod, demod.m_inputSampleRate,
                                                 demod.m_inputFrequencyOffset, TRUE)
                  ELSE demod
      /\ UNCHANGED <<m_channelizerQueue, applying, notif, attached, rateOf, request, crossed>>
  BY DEF Start, Standing, Busy
<1>2. channelizer \in ChannelizerType /\ q \in Seq(Messages) /\ demod \in DemodType
  BY DEF ChannelizerTypes, DemodTypes
<1>3. /\ c \in ChannelizerType /\ c.inputSampleRate = rate
      /\ c.requestedCenterFrequency = channelizer.requestedCenterFrequency
      /\ c.currentOutputSampleRate # 0
      /\ Made(c) /\ Rated(c) /\ Leave(c.filterStages)
  BY <1>2, AppliedMembers
<1> HIDE DEF c, q
<1>4. n \in Notifications /\ n.type = "MsgChannelizerNotification"
  BY <1>3, Noted
<1> HIDE DEF n
<1>5. n \in Messages
  BY <1>4 DEF Messages
<1>6. /\ demod' \in DemodType /\ demod'.m_settings = demod.m_settings
      /\ demod'.m_audioSampleRate = demod.m_audioSampleRate /\ Kept'
  <2>1. CASE ok
    <3>1. demod' = WithChannelSettings(demod, demod.m_inputSampleRate,
                                       demod.m_inputFrequencyOffset, TRUE)
      BY <1>1, <2>1
    <3> DEFINE d == demod
               e == WithChannelSettings(d, d.m_inputSampleRate, d.m_inputFrequencyOffset, TRUE)
    <3>2. /\ e \in DemodType /\ e.m_settings = d.m_settings
          /\ e.m_inputSampleRate = d.m_inputSampleRate
          /\ e.m_inputFrequencyOffset = d.m_inputFrequencyOffset
          /\ e.m_audioSampleRate = d.m_audioSampleRate
          /\ e.nco = <<d.m_inputFrequencyOffset, d.m_inputSampleRate>>
          /\ e.interpolator = <<d.m_inputSampleRate, d.m_audioSampleRate>>
      BY <1>2, Rechannelled
    <3>3. demod' = e
      BY <3>1
    <3> HIDE DEF e
    <3> QED BY <3>2, <3>3 DEF Kept
  <2>2. CASE ~ok
    BY <1>1, <1>2, <2>2 DEF ChannelInv, Kept
  <2> QED BY <2>1, <2>2
<1>7. r \in Seq(Messages)
  BY <1>2, <1>5, Appended
<1>8. inputs' \in 0..MaxInputs
  BY <1>1, DefaultsAssumption DEF DemodTypes
<1>9. Types'
  <2>1. ChannelizerTypes'
    BY <1>1, <1>3, <1>7 DEF ChannelizerTypes
  <2>2. DemodTypes'
    BY <1>1, <1>6, <1>8 DEF DemodTypes
  <2>3. Applying'
    BY <1>1 DEF Applying, Appliers, Busy
  <2>4. Short'
    BY <1>1, <1>3 DEF Short
  <2> QED BY <2>1, <2>2, <2>3, <2>4
<1>10. ChannelInv'
  <2>1. WillBeMade'
    BY <1>1, <1>3 DEF WillBeMade
  <2>2. OneByOne'
    BY <1>1 DEF OneByOne, Busy, Appliers
  <2>3. Notified'
    <3>1. Tells(r, demod', n)
      BY <1>2, <1>4, TellsNew
    <3> QED BY <1>1, <1>3, <3>1 DEF Notified, n
  <2> QED BY <1>6, <2>1, <2>2, <2>3 DEF ChannelInv
<1>11. Uncrossed'
  <2>1. \A f : Will(channelizer, m_channelizerQueue, f)
                 => Will(channelizer', m_channelizerQueue', f)
    BY <1>1, <1>3 DEF Will
  <2>2. \A type \in Posted : Of(r, type) = Of(q, type)
    <3> TAKE type \in Posted
    <3>1. Of(r, type) = Of(q, type) \cup (IF n.type = type THEN {n} ELSE {})
      BY <1>2, <1>5, OfAppended
    <3> QED BY <3>1, <1>4 DEF Posted
  <2>3. InOrder(q) => InOrder(r)
    BY <1>2, <1>4, <1>5, InOrderAppended DEF Posted
  <2> QED BY <1>1, <1>6, <2>1, <2>2, <2>3, NothingAsked DEF q
<1> QED BY <1>9, <1>10, <1>11

LEMMA StopStep ==
  ASSUME Inv, Stop
  PROVE  Inv'
<1> USE DEF Inv, Types
<1>1. /\ ~Busy("channel") /\ ~Busy("channel")'
      /\ running' = FALSE /\ UNCHANGED m_inputMessageQueue
      /\ UNCHANGED <<channelizer, m_channelizerQueue, applying, notif, overlapped>>
      /\ UNCHANGED <<demod, attached, rateOf, request, inputs, crossed>>
  BY DEF Stop, Busy, channelizerVars
<1>2. Types'
  BY <1>1 DEF ChannelizerTypes, DemodTypes, Applying, Short, Appliers
<1>3. ChannelInv'
  <2>1. Kept'
    BY <1>1, KeptStands DEF ChannelInv
  <2> QED BY <1>1, <2>1, ChannelizerStands
<1>4. Uncrossed'
  BY <1>1, NothingAsked
<1> QED BY <1>2, <1>3, <1>4

LEMMA NoStep ==
  ASSUME Inv, UNCHANGED vars
  PROVE  Inv'
<1> USE DEF Inv, Types
<1>1. /\ UNCHANGED <<channelizer, m_channelizerQueue, applying, notif, overlapped>>
      /\ UNCHANGED m_inputMessageQueue
      /\ UNCHANGED <<demod, attached, rateOf, running, request, inputs, crossed>>
  BY DEF vars, channelizerVars
<1>2. Types'
  BY <1>1 DEF ChannelizerTypes, DemodTypes, Applying, Busy, Short
<1>3. ChannelInv'
  <2>1. Kept'
    BY <1>1, KeptStands DEF ChannelInv
  <2> QED BY <1>1, <2>1, ChannelizerStands
<1>4. Uncrossed'
  BY <1>1, NothingAsked
<1> QED BY <1>2, <1>3, <1>4

-----------------------------------------------------------------------------
LEMMA Started ==
  ASSUME Init
  PROVE  Inv
<1> DEFINE rate0 == rateOf[DefaultDevice]
<1>1. /\ rateOf \in [Devices -> AudioRates] /\ demod = New(rate0) /\ attached = DefaultDevice
      /\ m_channelizerQueue = << >> /\ overlapped = FALSE
      /\ applying = [t \in Appliers |-> "idle"] /\ notif = [t \in Appliers |-> None]
      /\ request = None /\ inputs = 0 /\ crossed = FALSE
  BY DEF Init
<1>2. PICK rate \in SampleRates \cup {0} :
        IF rate = 0
        THEN channelizer = Fresh /\ m_inputMessageQueue = << >> /\ running = FALSE
        ELSE /\ channelizer = Applied([Fresh EXCEPT !.inputSampleRate = rate])
             /\ m_inputMessageQueue = <<Notification(channelizer)>>
             /\ running \in BOOLEAN
  BY DEF Init
<1>3. DefaultDevice \in Devices /\ 0 \in Offsets /\ DefaultRate \in Nat \ {0} /\ MaxInputs \in Nat
  BY DefaultsAssumption
<1>4. rate0 \in AudioRates
  BY <1>1, <1>3
<1> HIDE DEF rate0
<1>5. Defaults \in Settings /\ Defaults.m_inputFrequencyOffset = 0
      /\ Defaults.m_audioDeviceName = DefaultDevice
  BY <1>3 DEF Defaults, Settings
<1>6. /\ demod \in DemodType /\ demod.m_settings = Defaults
      /\ demod.m_audioSampleRate = rate0 /\ Kept
  <2>1. 0 \in Int
    OBVIOUS
  <2> QED BY <1>1, <1>3, <1>4, <1>5, <2>1 DEF New, DemodType, Kept
<1>7. /\ Fresh \in ChannelizerType /\ Fresh.inputSampleRate = 0
      /\ Fresh.requestedCenterFrequency = 0 /\ Fresh.filterStages = << >>
  <2>1. << >> \in Seq(Modes) /\ 0 \in Nat /\ 0 \in Int
    OBVIOUS
  <2> QED BY <1>3, <2>1 DEF Fresh, ChannelizerType
<1>8. Leave(<< >>)
  <2>1. Len(<< >>) = 0
    OBVIOUS
  <2>2. LeftShift[Len(<< >>)] = 1
    BY <2>1, Shifts
  <2> QED BY <2>2, WidthsAssumption DEF Leave
<1>9. /\ channelizer \in ChannelizerType /\ channelizer.requestedCenterFrequency = 0
      /\ Leave(channelizer.filterStages)
      /\ channelizer.inputSampleRate = 0 \/ (Made(channelizer) /\ Rated(channelizer))
      /\ m_inputMessageQueue \in Seq(Messages)
      /\ \A type \in Posted : Of(m_inputMessageQueue, type) = {}
      /\ channelizer.inputSampleRate # 0
           => Tells(m_inputMessageQueue, demod, Notification(channelizer))
      /\ InOrder(m_inputMessageQueue) /\ running \in BOOLEAN
  <2> DEFINE e == << >>
  <2>1. e \in Seq(Messages) /\ \A type : Of(e, type) = {}
    BY DEF Of
  <2>2. InOrder(e)
    BY <2>1 DEF InOrder, Waits
  <2>3. CASE rate = 0
    BY <1>2, <1>7, <1>8, <2>1, <2>2, <2>3
  <2>4. CASE rate # 0
    <3> DEFINE n == Notification(channelizer)
               q == Append(e, n)
    <3>1. /\ channelizer = Applied([Fresh EXCEPT !.inputSampleRate = rate])
          /\ rate \in SampleRates /\ m_inputMessageQueue = q /\ running \in BOOLEAN
      BY <1>2, <2>4
    <3>2. /\ channelizer \in ChannelizerType /\ channelizer.requestedCenterFrequency = 0
          /\ channelizer.currentOutputSampleRate # 0
          /\ Made(channelizer) /\ Rated(channelizer) /\ Leave(channelizer.filterStages)
      BY <1>7, <3>1, AppliedMembers
    <3>3. n \in Notifications /\ n.type = "MsgChannelizerNotification"
      BY <3>2, Noted
    <3> HIDE DEF n, e
    <3>4. n \in Messages
      BY <3>3 DEF Messages
    <3>5. q \in Seq(Messages) /\ Tells(q, demod, n)
      BY <2>1, <3>3, <3>4, Appended, TellsNew
    <3>6. InOrder(q)
      BY <2>1, <2>2, <3>3, <3>4, InOrderAppended DEF Posted
    <3>7. \A type \in Posted : Of(q, type) = {}
      <4> TAKE type \in Posted
      <4>1. Of(q, type) = Of(e, type) \cup (IF n.type = type THEN {n} ELSE {})
        BY <2>1, <3>4, OfAppended
      <4> QED BY <2>1, <3>3, <4>1 DEF Posted
    <3> HIDE DEF q
    <3> QED BY <3>1, <3>2, <3>5, <3>6, <3>7 DEF n
  <2> QED BY <2>3, <2>4
<1>10. Types
  <2>1. ChannelizerTypes
    <3>1. << >> \in Seq(Configurations)
      OBVIOUS
    <3>2. applying \in [Appliers -> Places] /\ notif \in [Appliers -> Notifications \cup {None}]
      BY <1>1 DEF Places
    <3> QED BY <1>1, <1>9, <3>1, <3>2 DEF ChannelizerTypes
  <2>2. DemodTypes
    <3>1. inputs \in 0..MaxInputs
      BY <1>1, <1>3
    <3>2. crossed \in BOOLEAN
      BY <1>1
    <3> QED BY <1>1, <1>3, <1>6, <1>9, <3>1, <3>2 DEF DemodTypes
  <2>3. Applying
    BY <1>1 DEF Applying, Busy, Appliers
  <2> QED BY <1>9, <2>1, <2>2, <2>3 DEF Types, Short
<1>11. ChannelInv
  <2>1. \A t \in Appliers : applying[t] = "idle"
    BY <1>1
  <2> QED BY <1>6, <1>9, <2>1 DEF ChannelInv, WillBeMade, OneByOne, Notified, Busy, Appliers
<1>12. Uncrossed
  <2>1. OffsetComes
    BY <1>1, <1>5, <1>6, <1>9 DEF OffsetComes, Final, Comes, Will, Waits, Posted
  <2>2. RateComes
    BY <1>1, <1>5, <1>6, <1>9 DEF RateComes, Waits, Posted, rate0
  <2>3. RequestAlone /\ SettingsDiffer
    BY <1>1, <1>9 DEF RequestAlone, SettingsDiffer, Posted
  <2> QED BY <1>9, <2>1, <2>2, <2>3 DEF Uncrossed
<1> QED BY <1>10, <1>11, <1>12 DEF Inv

LEMMA Preserved ==
  ASSUME Inv, [Next]_vars
  PROVE  Inv'
<1>1. CASE HandleMessage
  BY <1>1, TakeStep, ForwardStep, AudioStep, SettingsStep DEF HandleMessage
<1>2. CASE ChannelThread
  <2>1. demodUnchanged
    BY <1>2 DEF ChannelThread
  <2>2. "channel" \in Appliers
    BY TwoThreads
  <2> QED
    BY <1>2, <2>1, <2>2, ConfigureStep, CentreStep, ChainStep, RateStep, NotificationStep, PushStep
    DEF ChannelThread, ApplyStep
<1>3. CASE EngineThread
  <2>1. demodUnchanged
    BY <1>3 DEF EngineThread
  <2>2. "engine" \in Appliers
    BY TwoThreads
  <2> QED
    BY <1>3, <2>1, <2>2, ChainStep, RateStep, NotificationStep, PushStep
    DEF EngineThread, ApplyStep
<1>4. CASE HttpThread
  BY <1>4, OffsetStep, PostStep DEF HttpThread
<1>5. CASE Environment
  BY <1>5, ReadStep, PresetStep, OutputStep, StartStep, SignalStep, StopStep DEF Environment
<1>6. CASE UNCHANGED vars
  BY <1>6, NoStep
<1> QED BY <1>1, <1>2, <1>3, <1>4, <1>5, <1>6 DEF Next

(* The invariant holds through everything the web, presets, the source, the *)
(* audio manager and the three threads of a channel do, in any order.       *)
THEOREM Invariance == Spec => []Inv
BY Started, Preserved, PTL DEF Spec

(* TypeOK: the members of the channel and of its channelizer always have   *)
(* their types, and a stopped channel's thread is in no handler.           *)
THEOREM TypeCorrect == Spec => []TypeOK
<1>1. Inv => TypeOK
  <2> SUFFICES ASSUME Inv PROVE TypeOK
    OBVIOUS
  <2> QED
    BY DEF Inv, Types, ChannelizerTypes, DemodTypes, Applying, ChannelizerType, DemodType,
           Places, TypeOK
<1> QED BY <1>1, Invariance, PTL

(* ChainFits (createFilterChain()): whatever the rates and the offset, the *)
(* filters of a channelizer nobody configures are those of the source's    *)
(* last rate and of what was asked for last; they pass all of the channel, *)
(* and no narrower band they could have chosen does.                       *)
THEOREM ChainsFit == Spec => []ChainFits
<1>1. Inv => ChainFits
  <2> SUFFICES ASSUME Inv, Standing, channelizer.inputSampleRate # 0 PROVE ChainFits
    BY DEF ChainFits
  <2>1. Made(channelizer)
    BY DEF Inv, ChannelInv, WillBeMade, Standing, Busy
  <2>2. channelizer \in ChannelizerType
    BY DEF Inv, Types, ChannelizerTypes
  <2> QED BY <2>1, <2>2, Passed DEF ChainFits
<1> QED BY <1>1, Invariance, PTL

(* FollowsSettings: when all is handled the demodulator listens at the     *)
(* offset of its settings and resamples from the rate that leaves the      *)
(* filters to that of the audio output of its settings.                    *)
THEOREM Follows == Spec => []FollowsSettings
<1>1. Inv => FollowsSettings
  <2> SUFFICES ASSUME Inv, Settled PROVE FollowsSettings
    BY DEF FollowsSettings, ListensAtOffset, Resampled
  <2> DEFINE pass == PassBand(channelizer.filterStages, channelizer.inputSampleRate)
             offset == demod.m_settings.m_inputFrequencyOffset
  <2>1. /\ Standing /\ m_channelizerQueue = << >> /\ m_inputMessageQueue = << >>
        /\ request = None /\ ~overlapped /\ ~crossed /\ channelizer.inputSampleRate # 0
    BY DEF Settled, Rest
  <2>2. \A type : Of(m_inputMessageQueue, type) = {}
    BY <2>1 DEF Of
  <2>3. /\ Made(channelizer) /\ Rated(channelizer)
        /\ Tells(m_inputMessageQueue, demod, Notification(channelizer)) /\ Kept
    BY <2>1 DEF Inv, ChannelInv, Notified
  <2>4. /\ demod.m_inputSampleRate = channelizer.currentOutputSampleRate
        /\ demod.m_inputFrequencyOffset = channelizer.currentCenterFrequency
    BY <2>2, <2>3 DEF Tells, Waits, Notification
  <2>5. /\ channelizer \in ChannelizerType /\ offset \in Offsets
    BY DEF Inv, Types, ChannelizerTypes, DemodTypes, DemodType, Settings
  <2>6. /\ pass.rate = channelizer.inputSampleRate \div LeftShift[Len(channelizer.filterStages)]
        /\ pass.centre + channelizer.currentCenterFrequency = channelizer.requestedCenterFrequency
    BY <2>1, <2>3, <2>5, Passed
  <2>7. channelizer.requestedCenterFrequency = offset
    <3>1. Final(request, m_inputMessageQueue, demod, offset)
      BY <2>1, <2>2 DEF Final, Waits
    <3>2. Comes(offset)
      BY <2>1, <2>5, <3>1 DEF Inv, Uncrossed, OffsetComes
    <3> QED BY <2>1, <2>2, <3>2 DEF Comes, Will, Waits
  <2>8. /\ attached = demod.m_settings.m_audioDeviceName
        /\ demod.m_audioSampleRate = rateOf[demod.m_settings.m_audioDeviceName]
    BY <2>1, <2>2 DEF Inv, Uncrossed, RateComes, Waits
  <2> HIDE DEF pass, offset
  <2>9. /\ demod.nco[1] = channelizer.currentCenterFrequency
        /\ demod.nco[2] = channelizer.currentOutputSampleRate
        /\ demod.interpolator = <<channelizer.currentOutputSampleRate, demod.m_audioSampleRate>>
    BY <2>3, <2>4 DEF Kept
  <2>10. pass.rate = channelizer.currentOutputSampleRate
    BY <2>3, <2>6 DEF Rated
  <2>11. ListensAtOffset
    BY <2>6, <2>7, <2>9 DEF ListensAtOffset, pass, offset
  <2>12. Resampled
    BY <2>8, <2>9, <2>10 DEF Resampled, pass
  <2> QED BY <2>11, <2>12 DEF FollowsSettings
<1> QED BY <1>1, Invariance, PTL
=============================================================================
