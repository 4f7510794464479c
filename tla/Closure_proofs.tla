--------------------------- MODULE Closure_proofs ---------------------------
(***************************************************************************)
(* What one sweep decides of a graph, for every graph and policy: its      *)
(* closures are the least sets holding their seeds and closed under their  *)
(* edges, and what the view counting everything leaves needs nothing that  *)
(* view reports.                                                           *)
(***************************************************************************)
EXTENDS SweepRules, FiniteSetTheorems, WellFoundedInduction, TLAPS

\* A set holding 0 and the successor of each number it holds holds every number.
LEMMA Induction ==
  ASSUME NEW S, 0 \in S, \A n \in Nat : n \in S => n + 1 \in S
  PROVE  Nat \subseteq S
<1> SUFFICES ASSUME Nat \ S # {} PROVE FALSE
  OBVIOUS
<1>1. PICK x \in Nat \ S : \A y \in Nat \ S : ~(<<y, x>> \in OpToRel(<, Nat))
  BY WFMin, NatLessThanWellFounded
<1>2. x # 0 /\ x - 1 \in Nat /\ x - 1 < x /\ (x - 1) + 1 = x
  <2>1. x \in Nat /\ x # 0
    OBVIOUS
  <2> QED
    BY <2>1
<1>3. <<x - 1, x>> \in OpToRel(<, Nat)
  BY <1>1, <1>2 DEF OpToRel
<1>4. x - 1 \in S
  BY <1>1, <1>2, <1>3
<1> QED
  BY <1>1, <1>2, <1>4

\* A set closed under the edges [from, to, gate].
ClosedUnder(S, edges) == \A e \in edges : e.from \in S /\ e.gate \subseteq S => e.to \in S

\* One round of following the edges.
Spread(S, edges) == S \union {e.to : e \in {e \in edges : e.from \in S /\ e.gate \subseteq S}}

\* The sets the first rounds give, seeds first.
IsRounds(f, N, seeds, edges) ==
  f = [n \in 0 .. N |-> IF n = 0 THEN seeds ELSE Spread(f[n - 1], edges)]

\* Following the edges n times gives a sequence of sets, each a round further.
LEMMA Rounds ==
  ASSUME NEW V, NEW seeds \in SUBSET V, NEW edges, \A e \in edges : e.to \in V,
         NEW N \in Nat
  PROVE  \E f : IsRounds(f, N, seeds, edges)
<1> DEFINE Up(n, f) == /\ f \in [0 .. n -> SUBSET V]
                       /\ \A i \in 0 .. n : f[i] = IF i = 0 THEN seeds ELSE Spread(f[i - 1], edges)
           Reach == {n \in Nat : \E f : Up(n, f)}
<1>1. 0 \in Reach
  <2>1. Up(0, [i \in 0 .. 0 |-> seeds])
    OBVIOUS
  <2> QED
    BY <2>1
<1>2. ASSUME NEW n \in Nat, n \in Reach PROVE n + 1 \in Reach
  <2>1. PICK f : Up(n, f)
    BY <1>2
  <2> DEFINE h == [i \in 0 .. n + 1 |-> IF i = n + 1 THEN Spread(f[n], edges) ELSE f[i]]
  <2>2. n \in 0 .. n /\ f[n] \in SUBSET V
    BY <2>1
  <2>3. Spread(f[n], edges) \in SUBSET V
    BY <2>2 DEF Spread
  <2>4. \A i \in 0 .. n + 1 : i # n + 1 => i \in 0 .. n
    OBVIOUS
  <2>5. h \in [0 .. n + 1 -> SUBSET V]
    BY <2>1, <2>3, <2>4
  <2>6. ASSUME NEW i \in 0 .. n + 1
        PROVE  h[i] = IF i = 0 THEN seeds ELSE Spread(h[i - 1], edges)
    <3>1. CASE i = n + 1
      <4>1. i # 0 /\ i - 1 = n /\ n \in 0 .. n + 1 /\ n # n + 1
        BY <3>1
      <4>2. h[i - 1] = f[n] /\ h[i] = Spread(f[n], edges)
        BY <3>1, <4>1
      <4> QED
        BY <4>1, <4>2
    <3>2. CASE i # n + 1
      <4>1. i \in 0 .. n /\ h[i] = f[i]
        BY <3>2, <2>4
      <4>2. i # 0 => i - 1 \in 0 .. n + 1 /\ i - 1 # n + 1
        BY <4>1
      <4> QED
        BY <2>1, <4>1, <4>2
    <3> QED
      BY <3>1, <3>2
  <2>7. Up(n + 1, h)
    BY <2>5, <2>6
  <2> HIDE DEF h
  <2> QED
    BY <2>7
<1> HIDE DEF Reach
<1>3. Nat \subseteq Reach
  BY <1>1, <1>2, Induction
<1>4. PICK f : Up(N, f)
  BY <1>3 DEF Reach
<1>5. f = [n \in 0 .. N |-> IF n = 0 THEN seeds ELSE Spread(f[n - 1], edges)]
  BY <1>4
<1> QED
  BY <1>5 DEF IsRounds

\* What a closure holds: its seeds, every symbol an edge of its own leads to, and no more
\* than any other set of which that is so.
LEMMA ClosureWithin ==
  ASSUME NEW V, IsFiniteSet(V), Cardinality(V) <= Cardinality(Symbol),
         NEW seeds \in SUBSET V, NEW edges, \A e \in edges : e.to \in V
  PROVE  LET C == closure(seeds, edges) IN
         /\ C \subseteq V /\ seeds \subseteq C /\ ClosedUnder(C, edges)
         /\ \A S : seeds \subseteq S /\ ClosedUnder(S, edges) => C \subseteq S
<1> DEFINE N == Cardinality(Symbol)
           spread == CHOOSE f : IsRounds(f, N, seeds, edges)
<1>0. IsFiniteSet(V) /\ N \in Nat /\ Cardinality(V) \in Nat /\ Cardinality(V) <= N
  BY SweepsAssumption, FS_CardinalityType
<1>1. \E f : IsRounds(f, N, seeds, edges)
  <2> HIDE DEF N
  <2> QED
    BY <1>0, Rounds
<1>2. IsRounds(spread, N, seeds, edges)
  BY <1>1
<1>3. closure(seeds, edges) = spread[N]
  BY DEF closure, Spread, IsRounds
<1> HIDE DEF spread, N
<1>4. /\ spread[0] = seeds
      /\ \A n \in 0 .. N : n + 1 \in 0 .. N => spread[n + 1] = Spread(spread[n], edges)
  <2>1. 0 \in 0 .. N
    BY <1>0
  <2>2. \A n \in 0 .. N : n + 1 # 0 /\ (n + 1) - 1 = n
    BY <1>0
  <2> QED
    BY <1>2, <2>1, <2>2 DEF IsRounds
<1>5. \A n \in Nat : n \in 0 .. N =>
        /\ spread[n] \subseteq V /\ seeds \subseteq spread[n]
        /\ ClosedUnder(spread[n], edges) \/ Cardinality(spread[n]) >= n
        /\ \A S : seeds \subseteq S /\ ClosedUnder(S, edges) => spread[n] \subseteq S
  <2> DEFINE Good == {n \in Nat : n \in 0 .. N =>
        /\ spread[n] \subseteq V /\ seeds \subseteq spread[n]
        /\ ClosedUnder(spread[n], edges) \/ Cardinality(spread[n]) >= n
        /\ \A S : seeds \subseteq S /\ ClosedUnder(S, edges) => spread[n] \subseteq S}
  <2>1. 0 \in Good
    <3>1. IsFiniteSet(seeds) /\ Cardinality(seeds) \in Nat
      BY <1>0, FS_Subset, FS_CardinalityType
    <3> QED
      BY <1>4, <3>1
  <2>2. ASSUME NEW n \in Nat, n \in Good PROVE n + 1 \in Good
    <3> SUFFICES ASSUME n + 1 \in 0 .. N PROVE n + 1 \in Good
      OBVIOUS
    <3> DEFINE A == spread[n]
               B == spread[n + 1]
    <3>0. n \in 0 .. N
      BY <1>0
    <3>1. /\ A \subseteq V /\ seeds \subseteq A
          /\ ClosedUnder(A, edges) \/ Cardinality(A) >= n
          /\ \A S : seeds \subseteq S /\ ClosedUnder(S, edges) => A \subseteq S
      BY <2>2, <3>0
    <3>2. B = Spread(A, edges)
      BY <1>4, <3>0
    <3> HIDE DEF A, B
    <3>3. B \subseteq V /\ A \subseteq B
      BY <3>1, <3>2 DEF Spread
    <3>4. ASSUME NEW S, seeds \subseteq S, ClosedUnder(S, edges) PROVE B \subseteq S
      <4>1. A \subseteq S
        BY <3>1, <3>4
      <4> QED
        BY <3>2, <3>4, <4>1 DEF Spread, ClosedUnder
    <3>5. ClosedUnder(B, edges) \/ Cardinality(B) >= n + 1
      <4>1. CASE ClosedUnder(A, edges)
        <5>1. B = A
          BY <3>2, <4>1 DEF Spread, ClosedUnder
        <5> QED
          BY <4>1, <5>1
      <4>2. CASE ~ClosedUnder(A, edges)
        <5>1. B # A
          BY <3>2, <4>2 DEF Spread, ClosedUnder
        <5>2. IsFiniteSet(B) /\ IsFiniteSet(A) /\ Cardinality(A) \in Nat /\ Cardinality(B) \in Nat
          BY <1>0, <3>1, <3>3, FS_Subset, FS_CardinalityType
        <5>3. Cardinality(A) <= Cardinality(B) /\ Cardinality(A) # Cardinality(B)
          BY <3>3, <5>1, <5>2, FS_Subset
        <5> QED
          BY <3>1, <4>2, <5>2, <5>3
      <4> QED
        BY <4>1, <4>2
    <3> QED
      BY <3>1, <3>3, <3>4, <3>5 DEF A, B
  <2> HIDE DEF Good
  <2>3. Nat \subseteq Good
    BY <2>1, <2>2, Induction
  <2> QED
    BY <2>3 DEF Good
<1>6. N \in 0 .. N
  BY <1>0
<1>7. ClosedUnder(spread[N], edges)
  <2>1. CASE Cardinality(spread[N]) >= N
    <3>1. spread[N] \subseteq V
      BY <1>0, <1>5, <1>6
    <3>2. Cardinality(spread[N]) \in Nat /\ Cardinality(spread[N]) <= N
      BY <1>0, <3>1, FS_Subset, FS_CardinalityType DEF N
    <3>3. spread[N] = V
      BY <1>0, <2>1, <3>1, <3>2, FS_Subset DEF N
    <3> QED
      BY <3>3 DEF ClosedUnder
  <2> QED
    BY <1>0, <1>5, <1>6, <2>1
<1> QED
  BY <1>0, <1>3, <1>5, <1>6, <1>7

\* The same of the symbols.
LEMMA ClosureLeast ==
  ASSUME NEW seeds \in SUBSET Symbol, NEW edges, \A e \in edges : e.to \in Symbol
  PROVE  LET C == closure(seeds, edges) IN
         /\ C \subseteq Symbol /\ seeds \subseteq C /\ ClosedUnder(C, edges)
         /\ \A S : seeds \subseteq S /\ ClosedUnder(S, edges) => C \subseteq S
<1>1. IsFiniteSet(Symbol) /\ Cardinality(Symbol) <= Cardinality(Symbol)
  BY SweepsAssumption, FS_CardinalityType
<1> QED
  BY <1>1, ClosureWithin
-----------------------------------------------------------------------------
(* Passes *)

\* A pass given symbols only: its seeds, and the targets of its edges.
Walkable(i) ==
  /\ HeldSeeds(i) \subseteq Symbol /\ CallerSeeds(i) \subseteq Symbol
  /\ \A a \in Symbol : \A e \in Range(i.out[a]) : e.to \in Symbol

\* The edges each closure of a pass follows.
HeldHops(i) ==
  UNION {{[from |-> s, to |-> e.to, gate |-> e.gate] :
            e \in {e \in Range(i.out[s]) : HeldFollows(i, e)}} : s \in Symbol}
CallerHops(i) ==
  UNION {{[from |-> s, to |-> e.to, gate |-> e.gate] :
            e \in {e \in Range(i.out[s]) : CallerFollows(i, e)}} : s \in Symbol}

\* The least sets of `EdgeGraph' are closed, and least.
LEMMA LeastSets ==
  ASSUME NEW i, Walkable(i)
  PROVE  /\ HeldSet(i) \subseteq Symbol /\ HeldClosed(i, HeldSet(i))
         /\ CallersSet(i) \subseteq Symbol /\ CallersClosed(i, CallersSet(i))
         /\ \A S \in SUBSET Symbol : HeldClosed(i, S) => HeldSet(i) \subseteq S
         /\ \A S \in SUBSET Symbol : CallersClosed(i, S) => CallersSet(i) \subseteq S
<1>1. HeldSet(i) \subseteq Symbol
      /\ \A S \in SUBSET Symbol : HeldClosed(i, S) => HeldSet(i) \subseteq S
  BY DEF HeldSet
<1>2. CallersSet(i) \subseteq Symbol
      /\ \A S \in SUBSET Symbol : CallersClosed(i, S) => CallersSet(i) \subseteq S
  BY DEF CallersSet
<1>3. HeldClosed(i, HeldSet(i))
  <2>1. HeldSeeds(i) \subseteq HeldSet(i)
    BY DEF HeldSet, HeldClosed, Walkable
  <2>2. ASSUME NEW a \in HeldSet(i), NEW e \in Range(i.out[a]),
               HeldFollows(i, e), Open(e.gate, HeldSet(i))
        PROVE  e.to \in HeldSet(i)
    <3>1. e.to \in Symbol
      BY <1>1 DEF Walkable
    <3>2. ASSUME NEW S \in SUBSET Symbol, HeldClosed(i, S) PROVE e.to \in S
      <4>1. HeldSet(i) \subseteq S
        BY <1>1, <3>2
      <4>2. Open(e.gate, S) /\ a \in S
        BY <2>2, <4>1 DEF Open
      <4> QED
        BY <2>2, <3>2, <4>2 DEF HeldClosed
    <3> QED
      BY <3>1, <3>2 DEF HeldSet
  <2> QED
    BY <2>1, <2>2 DEF HeldClosed
<1>4. CallersClosed(i, CallersSet(i))
  <2>1. HeldSet(i) \union CallerSeeds(i) \subseteq CallersSet(i)
    BY <1>1 DEF CallersSet, CallersClosed, Walkable
  <2>2. ASSUME NEW a \in CallersSet(i), NEW e \in Range(i.out[a]),
               CallerFollows(i, e), Open(e.gate, CallersSet(i))
        PROVE  e.to \in CallersSet(i)
    <3>1. e.to \in Symbol
      BY <1>2 DEF Walkable
    <3>2. ASSUME NEW S \in SUBSET Symbol, CallersClosed(i, S) PROVE e.to \in S
      <4>1. CallersSet(i) \subseteq S
        BY <1>2, <3>2
      <4>2. Open(e.gate, S) /\ a \in S
        BY <2>2, <4>1 DEF Open
      <4> QED
        BY <2>2, <3>2, <4>2 DEF CallersClosed
    <3> QED
      BY <3>1, <3>2 DEF CallersSet
  <2> QED
    BY <2>1, <2>2 DEF CallersClosed
<1> QED
  BY <1>1, <1>2, <1>3, <1>4

\* The edges a closure is given close a set exactly where the rule of the pass does.
LEMMA HopsClose ==
  ASSUME NEW i, NEW S \in SUBSET Symbol
  PROVE  /\ ClosedUnder(S, HeldHops(i)) <=>
              \A a \in S : \A e \in Range(i.out[a]) :
                HeldFollows(i, e) /\ Open(e.gate, S) => e.to \in S
         /\ ClosedUnder(S, CallerHops(i)) <=>
              \A a \in S : \A e \in Range(i.out[a]) :
                CallerFollows(i, e) /\ Open(e.gate, S) => e.to \in S
<1>1. \A x : x \in HeldHops(i) <=>
        \E a \in Symbol : \E e \in Range(i.out[a]) :
          HeldFollows(i, e) /\ x = [from |-> a, to |-> e.to, gate |-> e.gate]
  BY DEF HeldHops
<1>2. \A x : x \in CallerHops(i) <=>
        \E a \in Symbol : \E e \in Range(i.out[a]) :
          CallerFollows(i, e) /\ x = [from |-> a, to |-> e.to, gate |-> e.gate]
  BY DEF CallerHops
<1>3. ClosedUnder(S, HeldHops(i)) <=>
        \A a \in S : \A e \in Range(i.out[a]) :
          HeldFollows(i, e) /\ Open(e.gate, S) => e.to \in S
  <2>1. ASSUME ClosedUnder(S, HeldHops(i)), NEW a \in S, NEW e \in Range(i.out[a]),
               HeldFollows(i, e), Open(e.gate, S)
        PROVE  e.to \in S
    <3>1. [from |-> a, to |-> e.to, gate |-> e.gate] \in HeldHops(i)
      BY <1>1, <2>1
    <3> QED
      BY <2>1, <3>1 DEF ClosedUnder, Open
  <2>2. ASSUME \A a \in S : \A e \in Range(i.out[a]) :
                 HeldFollows(i, e) /\ Open(e.gate, S) => e.to \in S
        PROVE  ClosedUnder(S, HeldHops(i))
    BY <1>1, <2>2 DEF ClosedUnder, Open
  <2> QED
    BY <2>1, <2>2
<1>4. ClosedUnder(S, CallerHops(i)) <=>
        \A a \in S : \A e \in Range(i.out[a]) :
          CallerFollows(i, e) /\ Open(e.gate, S) => e.to \in S
  <2>1. ASSUME ClosedUnder(S, CallerHops(i)), NEW a \in S, NEW e \in Range(i.out[a]),
               CallerFollows(i, e), Open(e.gate, S)
        PROVE  e.to \in S
    <3>1. [from |-> a, to |-> e.to, gate |-> e.gate] \in CallerHops(i)
      BY <1>2, <2>1
    <3> QED
      BY <2>1, <3>1 DEF ClosedUnder, Open
  <2>2. ASSUME \A a \in S : \A e \in Range(i.out[a]) :
                 CallerFollows(i, e) /\ Open(e.gate, S) => e.to \in S
        PROVE  ClosedUnder(S, CallerHops(i))
    BY <1>2, <2>2 DEF ClosedUnder, Open
  <2> QED
    BY <2>1, <2>2
<1> QED
  BY <1>3, <1>4

\* What the rounds of a pass reach is the answer of `EdgeGraph'.
LEMMA PassAnswers ==
  ASSUME NEW i, Walkable(i)
  PROVE  pass(i) = Answer(i)
<1> DEFINE H == closure(HeldSeeds(i), HeldHops(i))
           C == closure(H \union CallerSeeds(i), CallerHops(i))
<1>1. pass(i) = C \union CalledRoots(i)
  BY DEF pass, edgesOf, HeldHops, CallerHops
<1>2. \A e \in HeldHops(i) : e.to \in Symbol
  BY DEF HeldHops, Walkable
<1>3. \A e \in CallerHops(i) : e.to \in Symbol
  BY DEF CallerHops, Walkable
<1>4. H \subseteq Symbol /\ HeldSeeds(i) \subseteq H /\ ClosedUnder(H, HeldHops(i))
      /\ \A S : HeldSeeds(i) \subseteq S /\ ClosedUnder(S, HeldHops(i)) => H \subseteq S
  BY <1>2, ClosureLeast DEF Walkable
<1> HIDE DEF H
<1>5. H \union CallerSeeds(i) \subseteq C /\ C \subseteq Symbol /\ ClosedUnder(C, CallerHops(i))
      /\ \A S : H \union CallerSeeds(i) \subseteq S /\ ClosedUnder(S, CallerHops(i)) => C \subseteq S
  BY <1>3, <1>4, ClosureLeast DEF Walkable
<1> HIDE DEF C
<1>6. H = HeldSet(i)
  <2>1. HeldClosed(i, H)
    BY <1>4, HopsClose DEF HeldClosed
  <2>2. ClosedUnder(HeldSet(i), HeldHops(i)) /\ HeldSeeds(i) \subseteq HeldSet(i)
    BY LeastSets, HopsClose DEF HeldClosed
  <2> QED
    BY <1>4, <2>1, <2>2, LeastSets
<1>7. C = CallersSet(i)
  <2>1. CallersClosed(i, C)
    BY <1>5, <1>6, HopsClose DEF CallersClosed
  <2>2. ClosedUnder(CallersSet(i), CallerHops(i)) /\ H \union CallerSeeds(i) \subseteq CallersSet(i)
    BY <1>6, LeastSets, HopsClose DEF CallersClosed
  <2> QED
    BY <1>5, <2>1, <2>2, LeastSets
<1> QED
  BY <1>1, <1>7 DEF Answer

\* A pass with every seed and every followed edge of another reaches what the other does.
LEMMA PassGrows ==
  ASSUME NEW i, NEW j, Walkable(i), Walkable(j),
         HeldSeeds(i) \subseteq HeldSeeds(j), CallerSeeds(i) \subseteq CallerSeeds(j),
         CalledRoots(i) \subseteq CalledRoots(j),
         \A a \in Symbol : \A e \in Range(i.out[a]) : HeldFollows(i, e) =>
           \E f \in Range(j.out[a]) : f.to = e.to /\ f.gate = e.gate /\ HeldFollows(j, f),
         \A a \in Symbol : \A e \in Range(i.out[a]) : CallerFollows(i, e) =>
           \E f \in Range(j.out[a]) : f.to = e.to /\ f.gate = e.gate /\ CallerFollows(j, f)
  PROVE  pass(i) \subseteq pass(j)
<1>1. HeldClosed(j, HeldSet(j)) /\ HeldSet(j) \subseteq Symbol
      /\ CallersClosed(j, CallersSet(j)) /\ CallersSet(j) \subseteq Symbol
  BY LeastSets
<1>2. HeldSet(i) \subseteq HeldSet(j)
  <2>1. HeldClosed(i, HeldSet(j))
    BY <1>1 DEF HeldClosed
  <2> QED
    BY <1>1, <2>1, LeastSets
<1>3. CallersSet(i) \subseteq CallersSet(j)
  <2>1. CallersClosed(i, CallersSet(j))
    BY <1>1, <1>2 DEF CallersClosed
  <2> QED
    BY <1>1, <2>1, LeastSets
<1> QED
  BY <1>3, PassAnswers DEF Answer
-----------------------------------------------------------------------------
(* The graph the sweep compiles *)

\* What the graph and the policy are made of.
LEMMA GivenTypes ==
  ASSUME in \in Sweeps
  PROVE  /\ g.refs \in [Symbol -> Seq(Symbol)] /\ g.uses \in [Symbol -> Seq(Symbol)]
         /\ g.inTestFile \subseteq Symbol /\ g.support \subseteq Symbol /\ g.subject \subseteq Symbol
         /\ g.rooted \subseteq [at: Symbol, kind: Kind]
         /\ p.exempt \subseteq Exemption /\ p.marked \subseteq Symbol
         /\ p.tested \subseteq Symbol /\ p.production \in BOOLEAN
<1>1. in \in SweepType
  BY SweepsAssumption
<1> QED
  BY <1>1 DEF SweepType, GraphType, PolicyType, g, p

\* A finite set listed is a sequence of it, and the listing leaves nothing out.
LEMMA Listed ==
  ASSUME NEW S, IsFiniteSet(S)
  PROVE  SetToSeq(S) \in Seq(S) /\ Range(SetToSeq(S)) = S
<1> DEFINE n == Cardinality(S)
           D == 1 .. n
           f == SetToSeq(S)
<1>1. n \in Nat /\ ExistsBijection(D, S)
  BY FS_CardinalityType
<1> HIDE DEF n
<1>2. \E x \in [D -> S] : IsInjective(x)
  BY <1>1 DEF ExistsBijection, Bijection, Injection
<1>3. f \in [D -> S] /\ IsInjective(f)
  BY <1>2 DEF SetToSeq, n
<1> HIDE DEF f
<1>4. f \in Injection(D, S)
  BY <1>3 DEF Injection
<1>5. IsFiniteSet(D) /\ Cardinality(D) = n
  BY <1>1, FS_Interval
<1> HIDE DEF D
<1>6. f \in Surjection(D, S)
  BY <1>4, <1>5, FS_Injection DEF n
<1>7. Range(f) = S
  <2>1. \A y \in S : \E x \in D : f[x] = y
    BY <1>6 DEF Surjection
  <2> QED
    BY <1>3, <2>1 DEF Range
<1>8. f \in Seq(S)
  BY <1>1, <1>3 DEF D
<1> QED
  BY <1>7, <1>8 DEF f

\* The edges the exemptions' holders make are finitely many, and edges.
LEMMA HeldEdgesType ==
  ASSUME in \in Sweeps, NEW s \in Symbol
  PROVE  HeldEdges(s) \subseteq Edge /\ IsFiniteSet(HeldEdges(s))
<1>1. \A e \in Uses : e.of \in Symbol /\ gateOf(e) \subseteq Symbol
  BY GivenTypes DEF Uses, gateOf, Exemption
<1>2. HeldEdges(s) \subseteq Edge
  <2> SUFFICES ASSUME NEW x \in HeldEdges(s) PROVE x \in Edge
    OBVIOUS
  <2>1. PICK c \in Uses : x = [to |-> c.of, gate |-> gateOf(c), test |-> s \in g.inTestFile, held |-> TRUE]
    BY DEF HeldEdges
  <2>2. (s \in g.inTestFile) \in BOOLEAN
    OBVIOUS
  <2> QED
    BY <1>1, <2>1, <2>2 DEF Edge
<1>3. IsFiniteSet(HeldEdges(s))
  <2> DEFINE T == Symbol \X SUBSET Symbol
             f == [e \in HeldEdges(s) |-> <<e.to, e.gate>>]
  <2>1. IsFiniteSet(T)
    BY SweepsAssumption, FS_SUBSET, FS_Product
  <2>2. f \in [HeldEdges(s) -> T]
    BY <1>2 DEF Edge
  <2>3. ASSUME NEW a \in HeldEdges(s), NEW b \in HeldEdges(s), f[a] = f[b] PROVE a = b
    <3>1. a.to = b.to /\ a.gate = b.gate
      BY <2>3
    <3>2. PICK c : a = [to |-> c.of, gate |-> gateOf(c), test |-> s \in g.inTestFile, held |-> TRUE]
      BY DEF HeldEdges
    <3>3. PICK d : b = [to |-> d.of, gate |-> gateOf(d), test |-> s \in g.inTestFile, held |-> TRUE]
      BY DEF HeldEdges
    <3> QED
      BY <3>1, <3>2, <3>3
  <2> HIDE DEF f, T
  <2>4. f \in Injection(HeldEdges(s), T)
    <3>1. DOMAIN f = HeldEdges(s)
      BY <2>2
    <3> QED
      BY <2>2, <2>3, <3>1 DEF Injection, IsInjective
  <2> QED
    BY <2>1, <2>4, FS_Injection
<1> QED
  BY <1>2, <1>3

\* What an edge is: a reference, an inferred use, or a use of an exemption by its holder.
IsPlain(e, s) ==
  /\ e.held = FALSE /\ e.gate = {} /\ e.to \in Symbol
  /\ \/ e.to \in Range(g.refs[s]) /\ e.test = (s \in testCode)
     \/ g.uses[s] # <<>> /\ e.test = FALSE

LEMMA PlainType ==
  ASSUME NEW s, NEW targets \in Seq(Symbol), NEW test \in BOOLEAN
  PROVE  /\ Plain(s, targets, test) \in Seq(Edge)
         /\ \A e \in Range(Plain(s, targets, test)) :
              e.to \in Range(targets) /\ e.gate = {} /\ e.held = FALSE /\ e.test = test
<1>1. \A i \in DOMAIN targets : targets[i] \in Symbol
  OBVIOUS
<1>2. \A x \in Symbol : [to |-> x, gate |-> {}, test |-> test, held |-> FALSE] \in Edge
  BY DEF Edge
<1>3. Plain(s, targets, test) \in Seq(Edge)
  <2>1. Len(targets) \in Nat /\ DOMAIN targets = 1 .. Len(targets)
    OBVIOUS
  <2> QED
    BY <1>1, <1>2, <2>1 DEF Plain
<1> QED
  BY <1>3 DEF Plain, Range

\* The edges a list joined of two has are those of either.
LEMMA RangeJoined ==
  ASSUME NEW S, NEW x \in Seq(S), NEW y \in Seq(S)
  PROVE  x \o y \in Seq(S) /\ Range(x \o y) = Range(x) \union Range(y)
<1>1. /\ x \o y \in Seq(S) /\ DOMAIN (x \o y) = 1 .. Len(x) + Len(y)
      /\ \A i \in 1 .. Len(x) : (x \o y)[i] = x[i]
      /\ \A i \in 1 .. Len(y) : (x \o y)[Len(x) + i] = y[i]
      /\ Len(x) \in Nat /\ Len(y) \in Nat /\ DOMAIN x = 1 .. Len(x) /\ DOMAIN y = 1 .. Len(y)
  OBVIOUS
<1>2. ASSUME NEW e \in Range(x \o y) PROVE e \in Range(x) \union Range(y)
  <2>1. PICK i \in 1 .. Len(x) + Len(y) : e = (x \o y)[i]
    BY <1>1 DEF Range
  <2>2. CASE i <= Len(x)
    <3>1. i \in 1 .. Len(x)
      BY <2>2
    <3> QED
      BY <1>1, <2>1, <3>1 DEF Range
  <2>3. CASE i > Len(x)
    <3>1. i - Len(x) \in 1 .. Len(y) /\ Len(x) + (i - Len(x)) = i
      BY <1>1, <2>3
    <3> QED
      BY <1>1, <2>1, <3>1 DEF Range
  <2> QED
    BY <1>1, <2>2, <2>3
<1>3. ASSUME NEW e \in Range(x) PROVE e \in Range(x \o y)
  <2>1. PICK i \in 1 .. Len(x) : e = x[i]
    BY <1>1 DEF Range
  <2>2. i \in 1 .. Len(x) + Len(y)
    BY <1>1
  <2> QED
    BY <1>1, <2>1, <2>2 DEF Range
<1>4. ASSUME NEW e \in Range(y) PROVE e \in Range(x \o y)
  <2>1. PICK i \in 1 .. Len(y) : e = y[i]
    BY <1>1 DEF Range
  <2>2. Len(x) + i \in 1 .. Len(x) + Len(y)
    BY <1>1
  <2> QED
    BY <1>1, <2>1, <2>2 DEF Range
<1> QED
  BY <1>1, <1>2, <1>3, <1>4

\* The edges a symbol makes whatever the policy.
PlainEdges(s) == Plain(s, g.refs[s], s \in testCode) \o Plain(s, g.uses[s], FALSE)

LEMMA UsingType ==
  ASSUME in \in Sweeps, NEW s \in Symbol
  PROVE  /\ using[s] = edgesFrom(s) /\ edgesFrom(s) \in Seq(Edge)
         /\ \A e \in Range(using[s]) : e \in Edge
         /\ \A e \in Range(using[s]) : IsPlain(e, s) \/ e \in HeldEdges(s)
         /\ PlainEdges(s) \in Seq(Edge) /\ \A e \in Range(PlainEdges(s)) : IsPlain(e, s)
         /\ Range(using[s]) = Range(PlainEdges(s)) \union HeldEdges(s)
<1> DEFINE r == Plain(s, g.refs[s], s \in testCode)
           q == Plain(s, g.uses[s], FALSE)
           h == SetToSeq(HeldEdges(s))
<1>1. g.refs[s] \in Seq(Symbol) /\ g.uses[s] \in Seq(Symbol)
  BY GivenTypes
<1>2. r \in Seq(Edge) /\ \A e \in Range(r) : IsPlain(e, s)
  <2>1. \A x \in Range(g.refs[s]) : x \in Symbol
    BY <1>1 DEF Range
  <2> QED
    <3>1. (s \in testCode) \in BOOLEAN
      OBVIOUS
    <3>2. r \in Seq(Edge) /\ \A e \in Range(r) :
            e.to \in Range(g.refs[s]) /\ e.gate = {} /\ e.held = FALSE /\ e.test = (s \in testCode)
      BY <1>1, <3>1, PlainType
    <3> QED
      BY <2>1, <3>2 DEF IsPlain
<1>3. q \in Seq(Edge) /\ \A e \in Range(q) : IsPlain(e, s)
  <2>1. \A x \in Range(g.uses[s]) : x \in Symbol /\ g.uses[s] # <<>>
    BY <1>1 DEF Range
  <2> QED
    <3>1. q \in Seq(Edge) /\ \A e \in Range(q) :
            e.to \in Range(g.uses[s]) /\ e.gate = {} /\ e.held = FALSE /\ e.test = FALSE
      BY <1>1, PlainType
    <3> QED
      BY <2>1, <3>1 DEF IsPlain
<1>4. h \in Seq(Edge) /\ Range(h) = HeldEdges(s)
  <2>1. h \in Seq(HeldEdges(s)) /\ Range(h) = HeldEdges(s)
    BY HeldEdgesType, Listed
  <2> QED
    BY <2>1, HeldEdgesType
<1>5. edgesFrom(s) = (r \o q) \o h /\ PlainEdges(s) = r \o q
  BY DEF edgesFrom, PlainEdges
<1> HIDE DEF r, q, h
<1>6. r \o q \in Seq(Edge) /\ Range(r \o q) = Range(r) \union Range(q)
  BY <1>2, <1>3, RangeJoined
<1>7. edgesFrom(s) \in Seq(Edge) /\ Range(edgesFrom(s)) = Range(r \o q) \union Range(h)
  <2> DEFINE rq == r \o q
  <2>1. rq \in Seq(Edge) /\ edgesFrom(s) = rq \o h
    BY <1>5, <1>6
  <2> HIDE DEF rq
  <2>2. rq \o h \in Seq(Edge) /\ Range(rq \o h) = Range(rq) \union Range(h)
    BY <1>4, <2>1, RangeJoined
  <2> QED
    BY <2>1, <2>2 DEF rq
<1>8. using[s] = edgesFrom(s)
  BY DEF using
<1>9. \A e \in Range(edgesFrom(s)) : e \in Edge
  BY <1>7 DEF Range
<1> QED
  BY <1>2, <1>3, <1>4, <1>5, <1>6, <1>7, <1>8, <1>9
-----------------------------------------------------------------------------
(* The passes the sweep runs *)

\* The sweep gives a pass what `EdgeGraph' says one takes.
LEMMA Compiled ==
  ASSUME in \in Sweeps, NEW e \in BOOLEAN, NEW m \in SUBSET Symbol, NEW y \in BOOLEAN
  PROVE  /\ passInput(e, m, y) \in PassInput /\ GateHolders(passInput(e, m, y))
         /\ Walkable(passInput(e, m, y))
<1> DEFINE i == passInput(e, m, y)
<1>1. using \in [Symbol -> Seq(Edge)]
  BY UsingType DEF using
<1>2. rooted \subseteq Root
  BY GivenTypes DEF rooted, Root, Kind
<1>3. consumed \subseteq Symbol /\ exempt \subseteq Symbol
  BY GivenTypes DEF consumed, exempt, Exemption
<1>4. p.production \in BOOLEAN
  BY GivenTypes
<1>5. i.out = using /\ i.rooted = rooted /\ i.consumed = consumed /\ i.exempt = exempt
      /\ i.marked = m /\ i.production = p.production
  BY DEF passInput
<1>6. i \in PassInput
  BY <1>1, <1>2, <1>3, <1>4 DEF PassInput, passInput
<1> HIDE DEF i
<1>7. GateHolders(i)
  <2> SUFFICES ASSUME NEW a \in Symbol, NEW x \in Range(using[a]), NEW h \in x.gate
               PROVE  \E f \in Range(using[h]) :
                        /\ f.to = x.to /\ f.gate = x.gate /\ f.held = x.held
                        /\ p.production => (f.test => x.test)
    BY <1>5 DEF GateHolders
  <2>1. x \in HeldEdges(a)
    BY UsingType DEF IsPlain
  <2>2. PICK c \in Uses : x = [to |-> c.of, gate |-> gateOf(c), test |-> a \in g.inTestFile, held |-> TRUE]
    BY <2>1 DEF HeldEdges
  <2>3. h \in c.holders /\ h # Outside
    BY <2>2 DEF gateOf
  <2>4. h \in Symbol
    BY <2>2, <2>3, GivenTypes DEF Uses, Exemption
  <2> DEFINE f == [to |-> c.of, gate |-> gateOf(c), test |-> h \in g.inTestFile, held |-> TRUE]
  <2>5. f \in HeldEdges(h)
    BY <2>3 DEF HeldEdges
  <2>6. f \in Range(using[h])
    BY <2>4, <2>5, UsingType
  <2>7. p.production => h \notin g.inTestFile
    BY <2>2, <2>3, SweepsAssumption DEF p, g, Uses
  <2>8. f.to = x.to /\ f.gate = x.gate /\ f.held = x.held
    BY <2>2
  <2>9. p.production => ~f.test
    BY <2>7
  <2> QED
    BY <2>6, <2>8, <2>9
<1>8. Walkable(i)
  <2>1. HeldSeeds(i) \subseteq Symbol
    BY <1>3, <1>5 DEF HeldSeeds
  <2>2. CallerSeeds(i) \subseteq Symbol
    BY <1>2, <1>3, <1>5 DEF CallerSeeds, Root
  <2>3. \A a \in Symbol : \A x \in Range(i.out[a]) : x.to \in Symbol
    BY <1>5, UsingType DEF Edge
  <2> QED
    BY <2>1, <2>2, <2>3 DEF Walkable
<1> QED
  BY <1>6, <1>7, <1>8 DEF i

\* Each pass reaches its seeds.
LEMMA SeedsReached ==
  ASSUME NEW i, Walkable(i)
  PROVE  HeldSeeds(i) \subseteq pass(i)
BY LeastSets, PassAnswers DEF HeldClosed, CallersClosed, Answer

\* What each tier's pass is.
LEMMA TierPasses ==
  /\ PassOf(1) = pass(passInput(FALSE, {}, FALSE))
  /\ PassOf(2) = pass(passInput(TRUE, {}, FALSE))
  /\ PassOf(3) = pass(passInput(TRUE, p.marked, FALSE))
<1>1. (1 >= 2) = FALSE /\ (2 >= 2) = TRUE /\ (3 >= 2) = TRUE
  OBVIOUS
<1>2. /\ (IF 1 = 3 THEN p.marked ELSE {}) = {} /\ (IF 2 = 3 THEN p.marked ELSE {}) = {}
      /\ (IF 3 = 3 THEN p.marked ELSE {}) = p.marked
  OBVIOUS
<1>3. /\ PassOf(1) = pass(passInput(1 >= 2, IF 1 = 3 THEN p.marked ELSE {}, FALSE))
      /\ PassOf(2) = pass(passInput(2 >= 2, IF 2 = 3 THEN p.marked ELSE {}, FALSE))
      /\ PassOf(3) = pass(passInput(3 >= 2, IF 3 = 3 THEN p.marked ELSE {}, FALSE))
  BY DEF PassOf
<1>4. /\ passInput(1 >= 2, {}, FALSE) = passInput(FALSE, {}, FALSE)
      /\ passInput(2 >= 2, {}, FALSE) = passInput(TRUE, {}, FALSE)
      /\ passInput(3 >= 2, p.marked, FALSE) = passInput(TRUE, p.marked, FALSE)
  BY <1>1, Zenon
<1> QED
  BY <1>2, <1>3, <1>4, Zenon

\* What a pass reaches is of the graph.
LEMMA PassCovered ==
  ASSUME in \in Sweeps, NEW e \in BOOLEAN, NEW m \in SUBSET Symbol, NEW y \in BOOLEAN
  PROVE  pass(passInput(e, m, y)) \subseteq Symbol
<1>1. Walkable(passInput(e, m, y))
  BY Compiled
<1>2. pass(passInput(e, m, y)) = Answer(passInput(e, m, y))
      /\ CallersSet(passInput(e, m, y)) \subseteq Symbol
  BY <1>1, PassAnswers, LeastSets
<1>3. CalledRoots(passInput(e, m, y)) \subseteq Symbol
  <2>1. rooted \subseteq Root /\ consumed \subseteq Symbol
    BY GivenTypes DEF rooted, Root, Kind, consumed
  <2> QED
    BY <2>1 DEF CalledRoots, passInput, Root
<1> QED
  BY <1>2, <1>3 DEF Answer
-----------------------------------------------------------------------------
(* What a view judges *)

\* The parts of what a view judges dead.
LEMMA JudgeParts ==
  ASSUME in \in Sweeps, NEW v
  PROVE  LET r == relationDead(v)
             d == judge(v).testOfDeadCode
             u == judge(v).unreferencedTest
         IN /\ d = admit(v, r) /\ u = unreferenced(v, d)
            /\ judge(v) = [dead |-> judge(v).dead, testOfDeadCode |-> d, unreferencedTest |-> u]
            /\ judge(v).dead \subseteq r \union d \union u
            /\ (r \union d \union u) \ (testCode \ g.inTestFile) \subseteq judge(v).dead
            /\ d \subseteq judge(v).dead
            /\ r \subseteq g.subject
            /\ d \subseteq testCode \intersect g.subject /\ d \intersect held(v) = {}
            /\ u \subseteq g.inTestFile \intersect g.subject /\ u \intersect held(v) = {}
            /\ u \intersect reachedCountingTests(v, d) = {}
            /\ (g.subject \intersect g.inTestFile) \ (d \union held(v))
                 \subseteq u \union reachedCountingTests(v, d)
<1> DEFINE r == relationDead(v)
           d == admit(v, r)
           u == unreferenced(v, d)
<1>1. judge(v) = [dead |-> keepReferencedSupport(r \union d \union u, d),
                  testOfDeadCode |-> d, unreferencedTest |-> u]
  BY DEF judge
<1>2. d \subseteq (testCode \intersect g.subject) \ held(v)
  BY DEF admit
<1>3. u = ((g.subject \intersect g.inTestFile) \ reachedCountingTests(v, d)) \ (d \union held(v))
  BY DEF unreferenced
<1>4. r \subseteq g.subject
  BY DEF relationDead
<1> HIDE DEF r, d, u
<1>5. /\ keepReferencedSupport(r \union d \union u, d) \subseteq r \union d \union u
      /\ d \subseteq keepReferencedSupport(r \union d \union u, d)
      /\ (r \union d \union u) \ (testCode \ g.inTestFile)
           \subseteq keepReferencedSupport(r \union d \union u, d)
  BY DEF keepReferencedSupport, supportCode, testCode
<1>6. judge(v).testOfDeadCode = d /\ judge(v).unreferencedTest = u
      /\ judge(v).dead = keepReferencedSupport(r \union d \union u, d)
  BY <1>1
<1>7. d = admit(v, r) /\ u = unreferenced(v, d)
  BY DEF d, u
<1> QED
  BY <1>1, <1>2, <1>3, <1>4, <1>5, <1>6, <1>7 DEF r
-----------------------------------------------------------------------------
(* What stays needs no candidate *)

\* The pass of the last tier, and the view judged of what it reaches.
Strongest == passInput(TRUE, p.marked, FALSE)
Swept == [exemptions |-> TRUE, marked |-> p.marked, reached |-> PassOf(3)]
SweptJudged == judge(Swept)

\* The view's parts, and what its pass reaches.
LEMMA SweptIs ==
  ASSUME in \in Sweeps
  PROVE  /\ Swept.exemptions = TRUE /\ Swept.marked = p.marked
         /\ Swept.reached = Answer(Strongest) /\ PassOf(3) = Answer(Strongest)
         /\ Walkable(Strongest) /\ Answer(Strongest) \subseteq Symbol
         /\ held(Swept) \subseteq Symbol
<1>1. Walkable(Strongest)
  BY GivenTypes, Compiled DEF Strongest
<1>2. PassOf(3) = Answer(Strongest)
  BY <1>1, TierPasses, PassAnswers DEF Strongest
<1>3. Swept.exemptions = TRUE /\ Swept.marked = p.marked /\ Swept.reached = PassOf(3)
  BY DEF Swept
<1>4. held(Swept) \subseteq Symbol
  <2>1. exempt \subseteq Symbol /\ p.marked \subseteq Symbol
    BY GivenTypes DEF exempt, Exemption
  <2> QED
    BY <1>3, <2>1 DEF held
<1>5. Answer(Strongest) \subseteq Symbol
  BY <1>1, <1>2, TierPasses, PassCovered, GivenTypes DEF Strongest
<1> QED
  BY <1>1, <1>2, <1>3, <1>4, <1>5

\* A called root the mode's pass does not seed is a test: its caller is a test binary.
LEMMA StaysCalled ==
  ASSUME in \in Sweeps, NEW s \in Answer(Strongest), s \notin SuiteMethods,
         p.production => s \notin g.inTestFile
  PROVE  s \in CallersSet(Strongest)
<1>1. Strongest.rooted = rooted /\ Strongest.consumed = consumed
      /\ Strongest.production = p.production /\ Strongest.yielded = FALSE
  BY DEF Strongest, passInput
<1>2. CallerSeeds(Strongest) \subseteq CallersSet(Strongest)
  BY SweptIs, LeastSets DEF CallersClosed
<1>3. CASE s \in CalledRoots(Strongest)
  <2>1. CASE s \in consumed
    BY <1>1, <1>2, <2>1 DEF CallerSeeds
  <2>2. CASE s \notin consumed
    <3>1. PICK r \in rooted : s = r.at /\ r.kind \notin {"yielded", "published"}
      BY <1>1, <1>3, <2>2 DEF CalledRoots
    <3>2. p.production => r.kind # "test"
      <4> SUFFICES ASSUME p.production, r.kind = "test" PROVE FALSE
        OBVIOUS
      <4>1. PICK q \in g.rooted : r = [at |-> q.at, kind |-> IF q.kind # "blank" THEN q.kind
                     ELSE IF q.at \in {e.of : e \in Uses} THEN "yielded" ELSE "entry"]
        BY DEF rooted
      <4>2. q.at = s /\ q.kind = "test"
        BY <3>1, <4>1
      <4>3. s \in {z.at : z \in {z \in g.rooted : z.kind = "test"}}
        BY <4>2
      <4> QED
        BY <4>3 DEF SuiteMethods
    <3>3. s \in CallerSeeds(Strongest)
      BY <1>1, <3>1, <3>2 DEF CallerSeeds
    <3> QED
      BY <1>2, <3>3
  <2> QED
    BY <2>1, <2>2
<1>4. s \in CallersSet(Strongest) \union CalledRoots(Strongest)
  BY DEF Answer
<1> QED
  BY <1>3, <1>4

\* What test evidence, the roots and the held symbols reach is closed, and holds them.
LEMMA TestsReach ==
  ASSUME in \in Sweeps, NEW v, held(v) \subseteq Symbol, NEW d
  PROVE  LET R == reachedCountingTests(v, d) IN
         /\ held(v) \ d \subseteq R
         /\ \A s \in R \intersect Symbol : \A e \in Range(using[s]) :
              e.to \notin d /\ (e.held => v.exemptions) /\ e.gate \subseteq R => e.to \in R
<1> DEFINE roots == {r.at : r \in {r \in rooted : r.kind = "yielded" => ~v.exemptions}}
           seeds == (roots \union held(v) \union p.tested \union consumed) \ d
           hops == UNION {{[from |-> s, to |-> e.to, gate |-> e.gate] :
                     e \in {e \in Range(using[s]) : e.to \notin d /\ (e.held => v.exemptions)}} :
                      s \in Symbol}
<1>1. reachedCountingTests(v, d) = closure(seeds, hops)
  BY DEF reachedCountingTests, edgesOf
<1>2. seeds \in SUBSET Symbol
  <2>1. rooted \subseteq Root /\ consumed \subseteq Symbol /\ p.tested \subseteq Symbol
    BY GivenTypes DEF rooted, Root, Kind, consumed
  <2> QED
    BY <2>1 DEF Root
<1>3. \A e \in hops : e.to \in Symbol
  BY UsingType DEF Edge
<1>4. held(v) \ d \subseteq seeds
  OBVIOUS
<1>5. \A s \in Symbol : \A e \in Range(using[s]) :
        e.to \notin d /\ (e.held => v.exemptions) =>
          [from |-> s, to |-> e.to, gate |-> e.gate] \in hops
  OBVIOUS
<1> HIDE DEF seeds, hops
<1>6. seeds \subseteq closure(seeds, hops) /\ ClosedUnder(closure(seeds, hops), hops)
  BY <1>2, <1>3, ClosureLeast
<1> QED
  BY <1>1, <1>4, <1>5, <1>6 DEF ClosedUnder

\* A test-file declaration that stays is reached by what counts tests.
LEMMA TestKept ==
  ASSUME in \in Sweeps, NEW s \in g.subject \intersect g.inTestFile, s \notin SweptJudged.dead
  PROVE  s \in reachedCountingTests(Swept, SweptJudged.testOfDeadCode)
<1> DEFINE v == Swept
           d == SweptJudged.testOfDeadCode
           u == SweptJudged.unreferencedTest
<1>1. held(v) \subseteq Symbol
  BY SweptIs
<1>2. s \notin d /\ s \notin u
  BY JudgeParts DEF SweptJudged
<1>3. s \in held(v) \/ s \in u \union reachedCountingTests(v, d)
  BY <1>2, JudgeParts DEF SweptJudged
<1> QED
  BY <1>1, <1>2, <1>3, TestsReach

\* A candidate is found by counting and reaching, or only by the tests that reach it.
LEMMA Candidates ==
  ASSUME in \in Sweeps, NEW s \in Dead(SweptJudged)
  PROVE  \/ s \notin exempt /\ ~(s \in Answer(Strongest) /\ s \in counted(Swept)) /\ s \in Symbol
         \/ s \in g.inTestFile /\ s \notin SweptJudged.testOfDeadCode
              /\ s \notin reachedCountingTests(Swept, SweptJudged.testOfDeadCode)
<1>1. s \in relationDead(Swept) \/ s \in SweptJudged.unreferencedTest
  BY JudgeParts DEF Dead, SweptJudged
<1>2. CASE s \in relationDead(Swept)
  BY <1>2, SweptIs, GivenTypes DEF relationDead
<1>3. CASE s \in SweptJudged.unreferencedTest
  BY <1>3, JudgeParts DEF Dead, SweptJudged
<1> QED
  BY <1>1, <1>2, <1>3

\* What an exemption's holders hold stays while they all do.
LEMMA UsesStay ==
  ASSUME in \in Sweeps, NEW x \in Uses,
         x.holders \subseteq Staying(SweptJudged, PassOf(3)),
         x.of \in g.inTestFile => x.holders \subseteq g.inTestFile \intersect g.subject
  PROVE  x.of \notin Dead(SweptJudged)
<1> SUFFICES ASSUME x.of \in Dead(SweptJudged) PROVE FALSE
  OBVIOUS
<1> DEFINE e(h) == [to |-> x.of, gate |-> gateOf(x), test |-> h \in g.inTestFile, held |-> TRUE]
           R == reachedCountingTests(Swept, SweptJudged.testOfDeadCode)
<1>1. x.holders # {} /\ x.of \in Symbol
  BY GivenTypes DEF Uses, Exemption
<1>2. \A h \in x.holders : /\ h \in Symbol /\ h \notin SweptJudged.dead
                           /\ h \notin SuiteMethods /\ h \in Answer(Strongest)
  BY SweptIs DEF Staying
<1>3. p.production => x.holders \intersect g.inTestFile = {}
  BY SweepsAssumption DEF Uses, p, g
<1>4. \A h \in x.holders : e(h) \in Range(using[h])
  <2> SUFFICES ASSUME NEW h \in x.holders PROVE e(h) \in Range(using[h])
    OBVIOUS
  <2>1. e(h) \in HeldEdges(h)
    BY DEF HeldEdges
  <2> QED
    BY <1>2, <2>1, UsingType
<1>5. gateOf(x) \subseteq x.holders
  BY DEF gateOf
<1>6. \A h \in x.holders : /\ e(h).to = x.of /\ e(h).gate = gateOf(x) /\ e(h).held = TRUE
                           /\ p.production => ~e(h).test
  BY <1>3
<1> HIDE DEF e
<1>7. PICK h \in x.holders : TRUE
  BY <1>1
<1>8. CASE x.of \notin exempt /\ ~(x.of \in Answer(Strongest) /\ x.of \in counted(Swept))
  <2>1. x.holders \subseteq CallersSet(Strongest)
    BY <1>2, <1>3, StaysCalled
  <2>2. CallerFollows(Strongest, e(h)) /\ e(h) \in Range(Strongest.out[h])
    BY <1>4, <1>6, <1>7 DEF CallerFollows, HeldFollows, Strongest, passInput
  <2>3. Open(e(h).gate, CallersSet(Strongest))
    BY <1>5, <1>6, <2>1 DEF Open
  <2>4. x.of \in CallersSet(Strongest)
    BY <1>6, <2>1, <2>2, <2>3, SweptIs, LeastSets DEF CallersClosed
  <2>5. x.of \in heldMade
    <3>1. e(h) \in madeEdges
      BY <1>1, <1>2, <1>4, <1>6 DEF madeEdges
    <3> QED
      BY <1>6, <3>1 DEF heldMade
  <2>6. x.of \in counted(Swept)
    BY <2>5, SweptIs DEF counted
  <2> QED
    BY <1>8, <2>4, <2>6 DEF Answer
<1>9. CASE x.of \in g.inTestFile /\ x.of \notin SweptJudged.testOfDeadCode /\ x.of \notin R
  <2>1. x.holders \subseteq R
    BY <1>2, <1>9, TestKept
  <2>2. held(Swept) \subseteq Symbol
    BY SweptIs
  <2>3. e(h).gate \subseteq R
    BY <1>5, <1>6, <2>1
  <2> QED
    BY <1>2, <1>4, <1>6, <1>9, <2>1, <2>2, <2>3, SweptIs, TestsReach
<1> QED
  BY <1>8, <1>9, Candidates

\* What a symbol that stays references stays where the mode counts the reference.
LEMMA ReferencesStay ==
  ASSUME in \in Sweeps, NEW s \in Staying(SweptJudged, PassOf(3)), NEW e \in Range(using[s]),
         ~e.held, p.production => ~e.test,
         e.to \in g.inTestFile => s \in g.inTestFile \intersect g.subject
  PROVE  e.to \notin Dead(SweptJudged)
<1> SUFFICES ASSUME e.to \in Dead(SweptJudged) PROVE FALSE
  OBVIOUS
<1> DEFINE R == reachedCountingTests(Swept, SweptJudged.testOfDeadCode)
<1>1. s \in Symbol /\ s \notin SweptJudged.dead /\ s \notin SuiteMethods /\ s \in Answer(Strongest)
  BY SweptIs DEF Staying
<1>2. IsPlain(e, s)
  BY <1>1, UsingType DEF HeldEdges
<1>3. e.gate = {} /\ e.to \in Symbol /\ e.held = FALSE
  BY <1>2 DEF IsPlain
<1>4. CASE e.to \notin exempt /\ ~(e.to \in Answer(Strongest) /\ e.to \in counted(Swept))
  <2>1. p.production => s \notin g.inTestFile
    <3>1. g.uses[s] # <<>> => s \notin g.inTestFile
      BY <1>1, SweepsAssumption DEF g
    <3> QED
      BY <1>2, <3>1 DEF IsPlain, testCode
  <2>2. s \in CallersSet(Strongest)
    BY <1>1, <2>1, StaysCalled
  <2>3. CallerFollows(Strongest, e) /\ e \in Range(Strongest.out[s])
    BY DEF CallerFollows, HeldFollows, Strongest, passInput
  <2>4. Open(e.gate, CallersSet(Strongest))
    BY <1>3 DEF Open
  <2>5. e.to \in CallersSet(Strongest)
    BY <2>2, <2>3, <2>4, SweptIs, LeastSets DEF CallersClosed
  <2>6. e.to \in references
    <3>1. e \in madeEdges
      BY <1>1, <1>3 DEF madeEdges
    <3> QED
      BY <3>1 DEF references
  <2> QED
    BY <1>4, <2>5, <2>6 DEF counted, Answer
<1>5. CASE e.to \in g.inTestFile /\ e.to \notin SweptJudged.testOfDeadCode /\ e.to \notin R
  <2>1. s \in R
    BY <1>1, <1>5, TestKept
  <2>2. held(Swept) \subseteq Symbol
    BY SweptIs
  <2>3. e.gate \subseteq R
    BY <1>3
  <2> QED
    BY <1>1, <1>3, <1>5, <2>1, <2>2, <2>3, TestsReach
<1> QED
  BY <1>4, <1>5, Candidates

\* What the full view leaves needs no candidate.
LEMMA NothingNeeded ==
  ASSUME in \in Sweeps
  PROVE  Needed(SweptJudged, PassOf(3)) \intersect Dead(SweptJudged) = {}
BY UsesStay, ReferencesStay DEF Needed
=============================================================================
