---------------------------- MODULE Sweep_proofs ----------------------------
(***************************************************************************)
(* What the sweep tells of a graph holds for every graph and policy: the   *)
(* views read from the tiers are those a pass of their own would give, and *)
(* nothing that stays needs what is reported.                              *)
(***************************************************************************)
EXTENDS Sweep, Closure_proofs

(* Tiers *)

\* A pass counting exemptions or more marks has what one counting fewer has.
LEMMA CountingMore ==
  ASSUME in \in Sweeps, NEW e \in BOOLEAN, NEW f \in BOOLEAN, e => f,
         NEW m \in SUBSET Symbol, NEW n \in SUBSET Symbol, m \subseteq n
  PROVE  pass(passInput(e, m, FALSE)) \subseteq pass(passInput(f, n, FALSE))
<1> DEFINE i == passInput(e, m, FALSE)
           j == passInput(f, n, FALSE)
<1>1. Walkable(i) /\ Walkable(j)
  BY Compiled
<1>2. HeldSeeds(i) \subseteq HeldSeeds(j)
  BY DEF HeldSeeds, passInput
<1>3. CallerSeeds(i) = CallerSeeds(j) /\ CalledRoots(i) = CalledRoots(j)
  BY DEF CallerSeeds, CalledRoots, passInput
<1>4. i.out = j.out /\ \A x : /\ HeldFollows(i, x) => HeldFollows(j, x)
                              /\ CallerFollows(i, x) => CallerFollows(j, x)
  BY DEF HeldFollows, CallerFollows, passInput
<1> HIDE DEF i, j
<1>5. pass(i) \subseteq pass(j)
  BY <1>1, <1>2, <1>3, <1>4, PassGrows
<1> QED
  BY <1>5 DEF i, j

\* Each tier's pass reaches what the one before it does, and no more where it is skipped.
LEMMA TiersGrow ==
  ASSUME in \in Sweeps
  PROVE  /\ PassOf(1) \subseteq PassOf(2) /\ PassOf(2) \subseteq PassOf(3)
         /\ ~addsAt(2) => PassOf(2) \subseteq PassOf(1)
         /\ ~addsAt(3) => PassOf(3) \subseteq PassOf(2)
<1>1. p.marked \in SUBSET Symbol /\ {} \in SUBSET Symbol /\ {} \subseteq {} /\ {} \subseteq p.marked
      /\ FALSE \in BOOLEAN /\ TRUE \in BOOLEAN
  BY GivenTypes
<1>2. PassOf(1) \subseteq PassOf(2)
  <2>1. pass(passInput(FALSE, {}, FALSE)) \subseteq pass(passInput(TRUE, {}, FALSE))
    BY <1>1, CountingMore, Zenon
  <2> QED
    BY <2>1, TierPasses, Zenon
<1>3. PassOf(2) \subseteq PassOf(3)
  <2>1. pass(passInput(TRUE, {}, FALSE)) \subseteq pass(passInput(TRUE, p.marked, FALSE))
    BY <1>1, CountingMore, Zenon
  <2> QED
    BY <2>1, TierPasses, Zenon
<1>4. ASSUME ~addsAt(2) PROVE PassOf(2) \subseteq PassOf(1)
  <2> DEFINE i == passInput(TRUE, {}, FALSE)
             j == passInput(FALSE, {}, FALSE)
  <2>1. exempt = {} /\ \A s \in Symbol : HeldEdges(s) = {}
    BY <1>4 DEF addsAt
  <2>2. Walkable(i) /\ Walkable(j)
    BY Compiled
  <2>3. HeldSeeds(i) \subseteq HeldSeeds(j)
    BY <2>1 DEF HeldSeeds, passInput
  <2>4. CallerSeeds(i) = CallerSeeds(j) /\ CalledRoots(i) = CalledRoots(j)
    BY DEF CallerSeeds, CalledRoots, passInput
  <2>5. i.out = using /\ j.out = using
        /\ \A x : x.held = FALSE => /\ HeldFollows(i, x) => HeldFollows(j, x)
                                    /\ CallerFollows(i, x) => CallerFollows(j, x)
    BY DEF HeldFollows, CallerFollows, passInput
  <2>6. \A s \in Symbol : \A x \in Range(using[s]) : x.held = FALSE
    BY <2>1, UsingType DEF IsPlain
  <2> HIDE DEF i, j
  <2>7. pass(i) \subseteq pass(j)
    BY <2>2, <2>3, <2>4, <2>5, <2>6, PassGrows
  <2> QED
    BY <2>7, TierPasses DEF i, j
<1>5. ASSUME ~addsAt(3) PROVE PassOf(3) \subseteq PassOf(2)
  BY <1>5, TierPasses DEF addsAt
<1> QED
  BY <1>2, <1>3, <1>4, <1>5
-----------------------------------------------------------------------------
(* What the graph says stays what it is: no step changes it *)

LEMMA GraphStays ==
  ASSUME in' = in
  PROVE  /\ g' = g /\ p' = p /\ using' = using /\ rooted' = rooted /\ consumed' = consumed
         /\ exempt' = exempt
<1>1. g' = g /\ p' = p
  BY DEF g, p
<1>2. using' = using
  BY DEF using, edgesFrom, Plain, HeldEdges, gateOf, testCode, Uses, g, p
<1>3. rooted' = rooted
  BY DEF rooted, Uses, g, p
<1>4. consumed' = consumed
  BY DEF consumed, Counted, g, p
<1>5. exempt' = exempt
  BY DEF exempt, Uses, p
<1> QED
  BY <1>1, <1>2, <1>3, <1>4, <1>5

LEMMA PassStays ==
  ASSUME in' = in, NEW e, NEW m, NEW y
  PROVE  pass(passInput(e, m, y))' = pass(passInput(e, m, y))
<1>1. passInput(e, m, y)' = passInput(e, m, y)
  BY GraphStays DEF passInput
<1> QED
  BY <1>1

LEMMA TierStays ==
  ASSUME in' = in, NEW t
  PROVE  PassOf(t)' = PassOf(t)
BY GraphStays DEF PassOf, passInput

LEMMA JudgeStays ==
  ASSUME in' = in, NEW v
  PROVE  judge(v)' = judge(v)
<1>1. relationDead(v)' = relationDead(v)
  BY DEF relationDead, exempt, Uses, yielded, rooted, counted, called, consumed, Counted,
         references, heldMade, madeEdges, using, edgesFrom, Plain, HeldEdges, gateOf,
         testCode, g, p
<1>2. ASSUME NEW d PROVE admit(v, d)' = admit(v, d)
  BY DEF admit, held, exempt, Uses, testCode, sharedSupport, targetsOf, liveTargets,
         TargetEdges, supportCode, edgesFrom, Plain, HeldEdges, gateOf, g, p
<1>3. ASSUME NEW d PROVE unreferenced(v, d)' = unreferenced(v, d)
  <2>1. reachedCountingTests(v, d)' = reachedCountingTests(v, d)
    BY GraphStays DEF reachedCountingTests, held, edgesOf
  <2> QED
    BY <2>1, GraphStays DEF unreferenced, held
<1>4. ASSUME NEW d, NEW e PROVE keepReferencedSupport(d, e)' = keepReferencedSupport(d, e)
  BY DEF keepReferencedSupport, supportCode, made, madeEdges, using, edgesFrom, Plain,
         HeldEdges, gateOf, testCode, Uses, g, p
<1> PICK r, d, u : r = relationDead(v) /\ d = admit(v, r) /\ u = unreferenced(v, d)
  OBVIOUS
<1>5. r = relationDead(v)' /\ d = admit(v, r)' /\ u = unreferenced(v, d)'
  BY <1>1, <1>2, <1>3
<1>6. judge(v) = [dead |-> keepReferencedSupport(r \union d \union u, d),
                  testOfDeadCode |-> d, unreferencedTest |-> u]
  BY DEF judge
<1>7. judge(v)' = [dead |-> keepReferencedSupport(r \union d \union u, d)',
                   testOfDeadCode |-> d, unreferencedTest |-> u]
  BY <1>5 DEF judge
<1>8. keepReferencedSupport(r \union d \union u, d)' = keepReferencedSupport(r \union d \union u, d)
  BY <1>4
<1> QED
  BY <1>6, <1>7, <1>8

LEMMA TestUsedStays ==
  ASSUME in' = in, NEW v
  PROVE  testUsed(v)' = testUsed(v)
BY DEF testUsed, deadEdges, testUseEdges, deadTargets, deadProduction, Dead, testReferenced,
       testCode, g
-----------------------------------------------------------------------------
(* What a view judges *)

\* What a view judges is of the symbols the sweep judges.
LEMMA JudgeType ==
  ASSUME in \in Sweeps, NEW v
  PROVE  judge(v) \in [dead: SUBSET Symbol, testOfDeadCode: SUBSET g.subject,
                       unreferencedTest: SUBSET g.subject]
BY JudgeParts, GivenTypes

LEMMA TestUsedType ==
  ASSUME in \in Sweeps, NEW v, v.dead \subseteq Symbol, v.testOfDeadCode \subseteq Symbol
  PROVE  /\ testUsed(v) \subseteq Symbol
         /\ ClosedUnder(testUsed(v), deadEdges(v) \union testUseEdges(v))
<1>1. deadProduction(v) \intersect testReferenced \intersect g.testReached \in SUBSET Symbol
  BY DEF deadProduction, Dead
<1>2. \A e \in deadEdges(v) : e.to \in Symbol
  BY DEF deadEdges, Dead
<1>3. \A e \in testUseEdges(v) : e.to \in Symbol
  BY DEF testUseEdges
<1>4. \A e \in deadEdges(v) \union testUseEdges(v) : e.to \in Symbol
  BY <1>2, <1>3
<1> QED
  BY <1>1, <1>4, ClosureLeast DEF testUsed
-----------------------------------------------------------------------------
(* The sweep *)

\* A tier settled is the first whose own pass reaches the symbol.
Labels ==
  \A s \in Symbol : /\ tier[s] < next
                    /\ \A t \in 1 .. 3 : t < next =>
                         (s \in PassOf(t) <=> tier[s] # None /\ tier[s] <= t)

\* Each view is kept as it was judged, from the tiers and the graph.
FullKept == next >= 5 => (\E v : v = Full /\ all = judge(v)) /\ (\E v : v = all /\ used = testUsed(v))
UnmarkedKept ==
  next >= 6 => \E v : v = Unmarked /\ suppressed = IF p.marked = {} THEN {} ELSE p.marked \intersect judge(v).dead
UnexemptedKept ==
  next = 7 => \E v : v = Unexempted /\ retained \subseteq {e \in p.exempt : e.of \in judge(v).dead}

IInv == TypeOK /\ in \in Sweeps /\ Labels /\ FullKept /\ UnmarkedKept /\ UnexemptedKept

LEMMA InvInit == Init => IInv
<1> SUFFICES ASSUME Init PROVE IInv
  OBVIOUS
<1>1. in \in SweepType
  BY SweepsAssumption DEF Init
<1>2. TypeOK
  BY <1>1 DEF Init, TypeOK, NoView, None
<1>3. Labels
  BY DEF Init, Labels, None
<1> QED
  BY <1>2, <1>3 DEF Init, IInv, FullKept, UnmarkedKept, UnexemptedKept

\* Settling a tier settles what its pass is the first to reach.
LEMMA LabelStep == IInv /\ Label => Labels'
<1> SUFFICES ASSUME IInv, Label, NEW s \in Symbol
             PROVE  /\ tier'[s] < next'
                    /\ \A t \in 1 .. 3 : t < next' =>
                         (s \in PassOf(t)' <=> tier'[s] # 0 /\ tier'[s] <= t)
  BY DEF Labels, None
<1>1. in' = in /\ next' = next + 1 /\ next \in 1 .. 3 /\ in \in Sweeps
  BY DEF Label, IInv
<1>2. \A t : PassOf(t)' = PassOf(t)
  BY <1>1, TierStays
<1>3. tier[s] \in 0 .. 3 /\ tier[s] < next
      /\ \A t \in 1 .. 3 : t < next => (s \in PassOf(t) <=> tier[s] # 0 /\ tier[s] <= t)
  BY DEF IInv, TypeOK, Labels, None
<1>4. tier'[s] = IF addsAt(next) /\ tier[s] = 0 /\ s \in PassOf(next) THEN next ELSE tier[s]
  BY DEF Label, IInv, TypeOK, None
<1>5. s \in PassOf(next) <=> tier'[s] # 0
  <2>1. CASE next = 1
    <3>1. addsAt(1)
      BY DEF addsAt
    <3> QED
      BY <1>3, <1>4, <2>1, <3>1
  <2>2. CASE next = 2
    <3>1. s \in PassOf(1) <=> tier[s] # 0
      BY <1>3, <2>2
    <3> QED
      BY <1>1, <1>4, <2>2, <3>1, TiersGrow
  <2>3. CASE next = 3
    <3>1. s \in PassOf(2) <=> tier[s] # 0
      BY <1>3, <2>3
    <3> QED
      BY <1>1, <1>4, <2>3, <3>1, TiersGrow
  <2> QED
    BY <1>1, <2>1, <2>2, <2>3
<1>6. tier'[s] \in 0 .. 3 /\ tier'[s] < next'
  BY <1>1, <1>3, <1>4
<1>7. ASSUME NEW t \in 1 .. 3, t < next'
      PROVE  s \in PassOf(t)' <=> tier'[s] # 0 /\ tier'[s] <= t
  <2>1. CASE t = next
    <3>1. tier'[s] <= t
      BY <1>1, <1>6, <2>1
    <3>2. PassOf(t)' = PassOf(next)
      BY <1>2, <2>1
    <3> QED
      BY <1>5, <3>1, <3>2
  <2>2. CASE t # next
    <3>1. t < next
      BY <1>1, <1>7, <2>2
    <3>2. s \in PassOf(t) <=> tier[s] # 0 /\ tier[s] <= t
      BY <1>3, <3>1
    <3>3. tier[s] # 0 /\ tier[s] <= t <=> tier'[s] # 0 /\ tier'[s] <= t
      BY <1>1, <1>3, <1>4, <3>1
    <3> QED
      BY <1>2, <3>2, <3>3
  <2> QED
    BY <2>1, <2>2
<1> QED
  BY <1>6, <1>7

\* A step that leaves what a view was judged from leaves the view as it was judged.
LEMMA FullStays ==
  ASSUME FullKept, next >= 5, in' = in, UNCHANGED <<tier, all, used>>
  PROVE  FullKept'
<1>1. PICK v : v = Full /\ all = judge(v)
  BY DEF FullKept
<1>2. PICK w : w = all /\ used = testUsed(w)
  BY DEF FullKept
<1>3. Full' = Full
  BY GraphStays DEF Full
<1>4. v = Full' /\ all' = judge(v)' /\ w = all' /\ used' = testUsed(w)'
  BY <1>1, <1>2, <1>3, JudgeStays, TestUsedStays
<1> QED
  BY <1>4 DEF FullKept

LEMMA UnmarkedStays ==
  ASSUME UnmarkedKept, next >= 6, in' = in, UNCHANGED <<tier, suppressed>>
  PROVE  UnmarkedKept'
<1>1. PICK v : v = Unmarked /\ suppressed = IF p.marked = {} THEN {}
                                            ELSE p.marked \intersect judge(v).dead
  BY DEF UnmarkedKept
<1>2. Unmarked' = Unmarked
  BY DEF Unmarked
<1>3. v = Unmarked' /\ suppressed' = IF p'.marked = {} THEN {}
                                     ELSE p'.marked \intersect judge(v)'.dead
  BY <1>1, <1>2, GraphStays, JudgeStays
<1> QED
  BY <1>3 DEF UnmarkedKept

LEMMA UnexemptedViewStays ==
  ASSUME in' = in, suppressed' = suppressed
  PROVE  Unexempted' = Unexempted
<1>1. PICK s : s = suppressed
  OBVIOUS
<1>2. pass(passInput(FALSE, s, TRUE))' = pass(passInput(FALSE, s, TRUE))
  BY PassStays
<1> QED
  BY <1>1, <1>2 DEF Unexempted

LEMMA UnexemptedStays ==
  ASSUME UnexemptedKept, next = 7, in' = in, UNCHANGED <<suppressed, retained>>
  PROVE  UnexemptedKept'
<1>1. PICK v : v = Unexempted /\ retained \subseteq {e \in p.exempt : e.of \in judge(v).dead}
  BY DEF UnexemptedKept
<1>2. v = Unexempted' /\ retained' \subseteq {e \in p'.exempt : e.of \in judge(v)'.dead}
  BY <1>1, UnexemptedViewStays, GraphStays, JudgeStays
<1> QED
  BY <1>2 DEF UnexemptedKept

LEMMA InvStep == IInv /\ [Next]_vars => IInv'
<1> SUFFICES ASSUME IInv, [Next]_vars PROVE IInv'
  OBVIOUS
<1>1. in' = in /\ in \in Sweeps /\ TypeOK
  BY DEF IInv, Next, vars, Label, Judge, Suppress, Retain
<1>2. p' = p /\ g' = g /\ \A v : judge(v)' = judge(v) /\ testUsed(v)' = testUsed(v)
  BY <1>1, GraphStays, JudgeStays, TestUsedStays
<1>3. \A t : PassOf(t)' = PassOf(t)
  BY <1>1, TierStays
<1>4. CASE Label
  <2>1. next \in 1 .. 3 /\ next' = next + 1 /\ UNCHANGED <<in, all, suppressed, retained, used>>
    BY <1>4 DEF Label
  <2>2. tier' \in [Symbol -> 0 .. 3]
    BY <1>1, <1>4 DEF Label, TypeOK
  <2>3. TypeOK'
    BY <1>1, <1>2, <2>1, <2>2 DEF TypeOK
  <2>4. Labels'
    BY <1>4, LabelStep
  <2> QED
    BY <1>1, <2>1, <2>3, <2>4 DEF IInv, FullKept, UnmarkedKept, UnexemptedKept
<1>5. CASE Judge
  <2>1. next = 4 /\ next' = 5 /\ UNCHANGED <<in, tier, suppressed, retained>>
    BY <1>5 DEF Judge
  <2>2. Full' = Full
    BY <1>2, <2>1 DEF Full
  <2>3. all' = judge(Full)
    BY <1>5 DEF Judge
  <2>4. PICK v : v = Full
    OBVIOUS
  <2>5. v = Full' /\ all' = judge(v)'
    BY <1>2, <2>2, <2>3, <2>4
  <2>6. PICK w : w = all'
    OBVIOUS
  <2>7. used' = testUsed(w)'
    <3>1. used' = testUsed(all')
      BY <1>5 DEF Judge
    <3> QED
      BY <1>2, <2>6, <3>1
  <2>8. FullKept'
    BY <2>5, <2>6, <2>7 DEF FullKept
  <2>9. all' \in [dead: SUBSET Symbol, testOfDeadCode: SUBSET g.subject,
                  unreferencedTest: SUBSET g.subject]
    <3>1. all' = judge(v)
      BY <2>3, <2>4
    <3> QED
      BY <1>1, <3>1, JudgeType
  <2>10. used' \subseteq Symbol
    <3>1. w.dead \subseteq Symbol /\ w.testOfDeadCode \subseteq Symbol
      BY <1>1, <2>6, <2>9, GivenTypes
    <3>2. used' = testUsed(w)
      BY <1>2, <2>7
    <3> QED
      BY <1>1, <3>1, <3>2, TestUsedType
  <2>11. TypeOK'
    BY <1>1, <1>2, <2>1, <2>9, <2>10 DEF TypeOK
  <2>12. Labels'
    BY <1>3, <2>1 DEF IInv, TypeOK, Labels
  <2> QED
    BY <1>1, <2>1, <2>8, <2>11, <2>12 DEF IInv, UnmarkedKept, UnexemptedKept
<1>6. CASE Suppress
  <2>1. next = 5 /\ next' = 6 /\ UNCHANGED <<in, tier, all, retained, used>>
    BY <1>6 DEF Suppress
  <2>2. Unmarked' = Unmarked
    BY <2>1 DEF Unmarked
  <2>3. FullKept'
    BY <1>1, <2>1, FullStays DEF IInv
  <2>4. PICK v : v = Unmarked
    OBVIOUS
  <2>5. suppressed' = IF p.marked = {} THEN {} ELSE p.marked \intersect judge(v).dead
    BY <1>6, <2>4 DEF Suppress
  <2>6. UnmarkedKept'
    BY <1>2, <2>2, <2>4, <2>5 DEF UnmarkedKept
  <2>7. suppressed' \subseteq p'.marked
    BY <1>2, <2>5
  <2>8. TypeOK'
    BY <1>1, <1>2, <2>1, <2>7 DEF TypeOK
  <2>9. Labels'
    BY <1>3, <2>1 DEF IInv, TypeOK, Labels
  <2> QED
    BY <1>1, <2>1, <2>3, <2>6, <2>8, <2>9 DEF IInv, UnexemptedKept
<1>7. CASE Retain
  <2>1. next = 6 /\ next' = 7 /\ UNCHANGED <<in, tier, all, suppressed, used>>
    BY <1>7 DEF Retain
  <2>3. FullKept'
    BY <1>1, <2>1, FullStays DEF IInv
  <2>4. UnmarkedKept'
    BY <1>1, <2>1, UnmarkedStays DEF IInv
  <2>5. Unexempted' = Unexempted
    BY <1>1, <2>1, UnexemptedViewStays
  <2>6. PICK v : v = Unexempted
    OBVIOUS
  <2>7. retained' \subseteq {e \in p.exempt : e.of \in judge(v).dead}
    BY <1>7, <2>6 DEF Retain
  <2>8. UnexemptedKept'
    <3>1. v = Unexempted' /\ retained' \subseteq {e \in p'.exempt : e.of \in judge(v)'.dead}
      BY <1>2, <2>5, <2>6, <2>7
    <3> QED
      BY <3>1 DEF UnexemptedKept
  <2>9. TypeOK'
    BY <1>1, <1>2, <2>1, <2>7 DEF TypeOK
  <2>10. Labels'
    BY <1>3, <2>1 DEF IInv, TypeOK, Labels
  <2> QED
    BY <1>1, <2>3, <2>4, <2>8, <2>9, <2>10 DEF IInv
<1>8. CASE UNCHANGED vars
  <2>1. UNCHANGED <<in, next, tier, all, suppressed, retained, used>>
    BY <1>8 DEF vars
  <2>4. FullKept'
    BY <1>1, <2>1, FullStays DEF IInv, FullKept
  <2>5. UnmarkedKept'
    BY <1>1, <2>1, UnmarkedStays DEF IInv, UnmarkedKept
  <2>6. UnexemptedKept'
    BY <1>1, <2>1, UnexemptedStays DEF IInv, UnexemptedKept
  <2>7. TypeOK'
    BY <1>1, <1>2, <2>1 DEF TypeOK
  <2>8. Labels'
    BY <1>3, <2>1 DEF IInv, Labels
  <2> QED
    BY <1>1, <2>4, <2>5, <2>6, <2>7, <2>8 DEF IInv
<1> QED
  BY <1>4, <1>5, <1>6, <1>7, <1>8 DEF Next

LEMMA Invariant == Spec => []IInv
BY InvInit, InvStep, PTL DEF Spec

\* What the sweep holds is of its type: what it judges dead is of the graph's symbols, what
\* a mark or an exemption held back is of the policy's.
THEOREM TypeCorrect == Spec => []TypeOK
<1>1. IInv => TypeOK
  BY DEF IInv
<1> QED
  BY <1>1, Invariant, PTL

\* The tiers are read from passes that answer the graph: each pass the sweep runs is one
\* Pass is shown to answer and answers as Pass does, and a tier settles what its pass
\* reaches first, the passes that are skipped (addsAt) included.
THEOREM AnswersTiers == Spec => []TiersAnswer
<1>1. IInv => PassesAnswer
  <2> SUFFICES ASSUME IInv, NEW e \in BOOLEAN, NEW m \in SUBSET Symbol, NEW y \in BOOLEAN
               PROVE  LET i == passInput(e, m, y) IN
                      i \in PassInput /\ GateHolders(i) /\ pass(i) = Answer(i)
    <3>1. ASSUME IInv PROVE p.marked \in SUBSET Symbol /\ suppressed \in SUBSET Symbol
      BY <3>1, GivenTypes DEF IInv, TypeOK
    <3> QED
      BY <3>1 DEF PassesAnswer
  <2>1. in \in Sweeps
    BY DEF IInv
  <2> QED
    BY <2>1, Compiled, PassAnswers
<1>2. IInv => LabelsWhole
  <2> SUFFICES ASSUME IInv, next = 4, NEW s \in Symbol, NEW t \in 1 .. 3
               PROVE  s \in PassOf(t) <=> tier[s] # None /\ tier[s] <= t
    BY DEF LabelsWhole
  <2> QED
    BY DEF IInv, Labels
<1> QED
  BY <1>1, <1>2, Invariant, PTL DEF TiersAnswer
-----------------------------------------------------------------------------
(* What the marks and the exemptions held back *)

\* The view without the marks, read from the tiers, is the one a pass of its own gives.
LEMMA UnmarkedIsSwept ==
  ASSUME IInv, next >= 4
  PROVE  Unmarked = [exemptions |-> TRUE, marked |-> {},
                     reached |-> pass(passInput(TRUE, {}, FALSE))]
<1>1. PassOf(2) \subseteq Symbol
  <2>1. in \in Sweeps /\ TRUE \in BOOLEAN /\ FALSE \in BOOLEAN /\ {} \in SUBSET Symbol
    BY DEF IInv
  <2>2. pass(passInput(TRUE, {}, FALSE)) \subseteq Symbol
    BY <2>1, PassCovered, Zenon
  <2> QED
    BY <2>2, TierPasses, Zenon
<1>2. \A s \in Symbol : tier[s] \in 0 .. 3 /\ (s \in PassOf(2) <=> tier[s] # 0 /\ tier[s] <= 2)
  BY DEF IInv, TypeOK, Labels, None
<1>3. \A s \in Symbol : s \in PassOf(2) <=> tier[s] \in {1, 2}
  <2> SUFFICES ASSUME NEW s \in Symbol PROVE s \in PassOf(2) <=> tier[s] \in {1, 2}
    OBVIOUS
  <2>1. tier[s] \in {0, 1, 2, 3} /\ (s \in PassOf(2) <=> tier[s] # 0 /\ tier[s] <= 2)
    BY <1>2
  <2> QED
    BY <2>1
<1>4. {s \in Symbol : tier[s] \in {1, 2}} = PassOf(2)
  BY <1>1, <1>3
<1> QED
  BY <1>4, TierPasses DEF Unmarked

LEMMA MarksWithdrawn == IInv => SuppressedWithdrawn
<1> SUFFICES ASSUME IInv, next = 7
             PROVE  suppressed = p.marked \intersect
                      judge([exemptions |-> TRUE, marked |-> {},
                             reached |-> pass(passInput(TRUE, {}, FALSE))]).dead
  BY DEF SuppressedWithdrawn, Done
<1>1. PICK v : v = Unmarked /\ suppressed = IF p.marked = {} THEN {} ELSE p.marked \intersect judge(v).dead
  BY DEF IInv, UnmarkedKept
<1>2. v = [exemptions |-> TRUE, marked |-> {}, reached |-> pass(passInput(TRUE, {}, FALSE))]
  <2>1. Unmarked = [exemptions |-> TRUE, marked |-> {},
                    reached |-> pass(passInput(TRUE, {}, FALSE))]
    <3>1. next >= 4
      OBVIOUS
    <3> QED
      BY <3>1, UnmarkedIsSwept, Zenon
  <2> QED
    BY <1>1, <2>1, Zenon
<1> QED
  BY <1>1, <1>2

\* Without exemptions the same symbols are judged over the same references: no holder
\* answers for a blank root, and no edge is a holder's.
LEMMA BareGraph ==
  ASSUME in \in Sweeps, suppressed \subseteq Symbol
  PROVE  /\ Bare!g = g /\ Bare!p = [p EXCEPT !.exempt = {}, !.marked = suppressed]
         /\ Bare!exempt = {} /\ Bare!consumed = consumed
         /\ Bare!rooted = {[at |-> r.at, kind |-> IF r.kind # "blank" THEN r.kind ELSE "entry"] :
                             r \in g.rooted}
         /\ \A s \in Symbol : Range(Bare!using[s]) = Range(PlainEdges(s))
<1>1. in \in SweepType
  BY SweepsAssumption
<1>2. Bare!g = g /\ Bare!p = [p EXCEPT !.exempt = {}, !.marked = suppressed]
  BY <1>1 DEF Bare!g, Bare!p, g, p, SweepType, PolicyType
<1>3. /\ Bare!p.exempt = {} /\ Bare!p.production = p.production
      /\ Bare!p.consumerTests = p.consumerTests
  BY <1>1, <1>2 DEF p, SweepType, PolicyType
<1>4. Bare!Uses = {} /\ Bare!exempt = {}
  BY <1>3 DEF Bare!Uses, Bare!exempt
<1>5. Bare!consumed = consumed
  BY <1>2, <1>3 DEF Bare!consumed, consumed, Bare!Counted, Counted
<1>6. Bare!rooted = {[at |-> r.at, kind |-> IF r.kind # "blank" THEN r.kind ELSE "entry"] :
                       r \in g.rooted}
  BY <1>2, <1>4 DEF Bare!rooted
<1>7. ASSUME NEW s \in Symbol PROVE Range(Bare!using[s]) = Range(PlainEdges(s))
  <2>1. Bare!HeldEdges(s) = {}
    BY <1>4 DEF Bare!HeldEdges
  <2>2. Bare!testCode = testCode
    BY <1>2 DEF Bare!testCode, testCode
  <2>3. Bare!edgesFrom(s) = PlainEdges(s) \o SetToSeq({})
    <3>1. /\ Bare!Plain(s, g.refs[s], s \in testCode) = Plain(s, g.refs[s], s \in testCode)
          /\ Bare!Plain(s, g.uses[s], FALSE) = Plain(s, g.uses[s], FALSE)
      BY DEF Bare!Plain, Plain
    <3>2. Bare!edgesFrom(s) = (Bare!Plain(s, Bare!g.refs[s], s \in Bare!testCode)
            \o Bare!Plain(s, Bare!g.uses[s], FALSE)) \o Bare!SetToSeq(Bare!HeldEdges(s))
      BY DEF Bare!edgesFrom
    <3>4. Bare!SetToSeq({}) = SetToSeq({})
      BY DEF Bare!SetToSeq, SetToSeq, Bare!IsInjective, IsInjective, Bare!Cardinality, Cardinality
    <3>3. Bare!edgesFrom(s) = (Bare!Plain(s, g.refs[s], s \in testCode)
            \o Bare!Plain(s, g.uses[s], FALSE)) \o SetToSeq({})
      BY <1>2, <2>1, <2>2, <3>2, <3>4
    <3> QED
      BY <3>1, <3>3, Zenon DEF PlainEdges
  <2>4. SetToSeq({}) \in Seq(Edge) /\ Range(SetToSeq({})) = {}
    <3>1. SetToSeq({}) \in Seq({}) /\ Range(SetToSeq({})) = {}
      BY Listed, FS_EmptySet
    <3> QED
      BY <3>1
  <2>5. Range(Bare!edgesFrom(s)) = Range(PlainEdges(s)) \union {}
    <3> DEFINE x == PlainEdges(s)
               y == SetToSeq({})
    <3>1. x \in Seq(Edge)
      BY UsingType
    <3> HIDE DEF x, y
    <3>2. Range(x \o y) = Range(x) \union Range(y)
      BY <2>4, <3>1, RangeJoined DEF y
    <3> QED
      BY <2>3, <2>4, <3>2 DEF x, y
  <2>6. Bare!using[s] = Bare!edgesFrom(s)
    BY DEF Bare!using
  <2> QED
    BY <2>5, <2>6
<1> QED
  BY <1>2, <1>4, <1>5, <1>6, <1>7

\* A pass is the same whatever graph's rules it is read under.
LEMMA BarePass ==
  /\ \A i : Bare!pass(i) = pass(i)
  /\ \A e, m, y : Bare!passInput(e, m, y) =
       [out |-> Bare!using, rooted |-> Bare!rooted, consumed |-> Bare!consumed,
        exempt |-> Bare!exempt, marked |-> m, production |-> Bare!p.production,
        exemptions |-> e, yielded |-> y]
<1>1. ASSUME NEW i PROVE Bare!pass(i) = pass(i)
  BY DEF Bare!pass, pass, Bare!closure, closure, Bare!edgesOf, edgesOf, Bare!HeldFollows,
         HeldFollows, Bare!CallerFollows, CallerFollows, Bare!HeldSeeds, HeldSeeds,
         Bare!CallerSeeds, CallerSeeds, Bare!CalledRoots, CalledRoots, Bare!Range, Range,
         Bare!Cardinality, Cardinality
<1> QED
  BY <1>1 DEF Bare!passInput

\* The pass of the graph without exemptions reaches nothing the view without them, whose
\* yielded roots seed, does not.
LEMMA BareReached ==
  ASSUME in \in Sweeps, suppressed \subseteq Symbol
  PROVE  Bare!pass(Bare!passInput(TRUE, suppressed, FALSE))
           \subseteq pass(passInput(FALSE, suppressed, TRUE))
<1> DEFINE i == Bare!passInput(TRUE, suppressed, FALSE)
           j == passInput(FALSE, suppressed, TRUE)
<1>1. /\ i.out = Bare!using /\ i.rooted = Bare!rooted /\ i.consumed = Bare!consumed
      /\ i.exempt = Bare!exempt /\ i.marked = suppressed
      /\ i.production = Bare!p.production /\ i.exemptions = TRUE /\ i.yielded = FALSE
  <2>1. i = [out |-> Bare!using, rooted |-> Bare!rooted, consumed |-> Bare!consumed,
             exempt |-> Bare!exempt, marked |-> suppressed, production |-> Bare!p.production,
             exemptions |-> TRUE, yielded |-> FALSE]
    BY BarePass, Zenon
  <2> HIDE DEF i
  <2> QED
    BY <2>1
<1>2. /\ j.out = using /\ j.rooted = rooted /\ j.consumed = consumed /\ j.exempt = exempt
      /\ j.marked = suppressed /\ j.production = p.production
      /\ j.exemptions = FALSE /\ j.yielded = TRUE
  BY DEF passInput
<1> HIDE DEF i, j
<1>3. Bare!p.production = p.production
  <2>1. in \in SweepType
    BY SweepsAssumption
  <2> QED
    BY <2>1, BareGraph DEF p, SweepType, PolicyType
<1>4. HeldSeeds(i) = suppressed /\ HeldSeeds(j) = suppressed
  BY <1>1, <1>2, BareGraph DEF HeldSeeds
<1>5. CallerSeeds(i) \subseteq CallerSeeds(j) /\ CalledRoots(i) \subseteq CalledRoots(j)
  <2> DEFINE plain(r) == [at |-> r.at, kind |-> IF r.kind # "blank" THEN r.kind ELSE "entry"]
             seen(r) == [at |-> r.at,
                         kind |-> IF r.kind # "blank" THEN r.kind
                                  ELSE IF r.at \in {e.of : e \in Uses} THEN "yielded" ELSE "entry"]
  <2>1. i.rooted = {plain(r) : r \in g.rooted} /\ j.rooted = {seen(r) : r \in g.rooted}
    BY <1>1, <1>2, BareGraph DEF rooted
  <2>2. \A r \in g.rooted : /\ plain(r).at = r.at /\ seen(r).at = r.at
                            /\ seen(r).kind \in {plain(r).kind, "yielded"}
                            /\ seen(r).kind = "yielded" => plain(r).kind # "published"
                            /\ r.kind \in Kind
    BY GivenTypes DEF Kind
  <2>3. i.consumed = j.consumed /\ i.production = j.production
    BY <1>1, <1>2, <1>3, BareGraph
  <2> HIDE DEF plain, seen
  <2>4. ASSUME NEW r \in g.rooted, i.production => plain(r).kind # "test"
        PROVE  r.at \in CallerSeeds(j)
    <3>1. seen(r) \in j.rooted /\ seen(r).at = r.at
      BY <2>1, <2>2
    <3>2. (j.production => seen(r).kind # "test") /\ (seen(r).kind = "yielded" => j.yielded)
      BY <1>2, <2>2, <2>3, <2>4
    <3> QED
      BY <3>1, <3>2 DEF CallerSeeds
  <2>5. CallerSeeds(i) \subseteq CallerSeeds(j)
    <3> SUFFICES ASSUME NEW s \in CallerSeeds(i) PROVE s \in CallerSeeds(j)
      OBVIOUS
    <3>1. CASE s \in i.consumed
      BY <2>3, <3>1 DEF CallerSeeds
    <3>2. CASE s \notin i.consumed
      <4>1. PICK q \in i.rooted : s = q.at /\ (i.production => q.kind # "test")
        BY <3>2 DEF CallerSeeds
      <4>2. PICK r \in g.rooted : q = plain(r)
        BY <2>1
      <4> QED
        BY <2>2, <2>4, <4>1, <4>2
    <3> QED
      BY <3>1, <3>2
  <2>6. CalledRoots(i) \subseteq CalledRoots(j)
    <3> SUFFICES ASSUME NEW s \in CalledRoots(i) PROVE s \in CalledRoots(j)
      OBVIOUS
    <3>1. PICK q \in i.rooted : s = q.at /\ (q.kind # "published" \/ s \in i.consumed)
      BY <1>1 DEF CalledRoots
    <3>2. PICK r \in g.rooted : q = plain(r)
      BY <2>1
    <3>3. seen(r) \in j.rooted /\ seen(r).at = s
      BY <2>1, <2>2, <3>1, <3>2
    <3>4. CASE s \in i.consumed
      BY <2>3, <3>3, <3>4 DEF CalledRoots
    <3>5. CASE plain(r).kind # "published"
      <4>1. IF seen(r).kind = "yielded" THEN j.yielded ELSE seen(r).kind # "published"
        BY <1>2, <2>2, <3>5
      <4> QED
        BY <3>3, <4>1 DEF CalledRoots
    <3> QED
      BY <3>1, <3>2, <3>4, <3>5
  <2> QED
    BY <2>5, <2>6
<1>6. \A a \in Symbol : \A e \in Range(i.out[a]) : e \in Range(j.out[a]) /\ e.held = FALSE /\ e.to \in Symbol
  BY <1>1, <1>2, BareGraph, UsingType DEF IsPlain
<1>7. Walkable(j)
  BY Compiled DEF j
<1>8. Walkable(i)
  BY <1>4, <1>5, <1>6, <1>7 DEF Walkable
<1>9. \A e : e.held = FALSE => /\ HeldFollows(j, e)
                               /\ CallerFollows(i, e) => CallerFollows(j, e)
  BY <1>1, <1>2, <1>3 DEF HeldFollows, CallerFollows
<1>10. pass(i) \subseteq pass(j)
  BY <1>4, <1>5, <1>6, <1>7, <1>8, <1>9, PassGrows
<1> QED
  BY <1>10, BarePass DEF i, j

\* Without exemptions a symbol outside the test code that counting holds live is held live
\* in the view that leaves them out, or yielded.
LEMMA BareCounted ==
  ASSUME in \in Sweeps, suppressed \subseteq Symbol,
         NEW v, v.marked = suppressed, NEW w, w.marked = suppressed,
         NEW s \in Bare!counted(v)
  PROVE  s \in counted(w) \union yielded
<1>1. Bare!madeEdges \subseteq madeEdges /\ \A e \in Bare!madeEdges : e.held = FALSE
  <2>1. \A a \in Symbol : Range(Bare!using[a]) \subseteq Range(using[a])
                          /\ \A e \in Range(Bare!using[a]) : e.held = FALSE
    BY BareGraph, UsingType DEF IsPlain
  <2>2. \A a \in Symbol : Bare!Range(Bare!using[a]) = Range(Bare!using[a])
    BY DEF Bare!Range, Range
  <2> QED
    BY <2>1, <2>2 DEF Bare!madeEdges, madeEdges
<1>2. Bare!p.production = p.production
  <2>1. in \in SweepType
    BY SweepsAssumption
  <2> QED
    BY <2>1, BareGraph DEF p, SweepType, PolicyType
<1>3. Bare!heldMade = {}
  BY <1>1 DEF Bare!heldMade
<1>4. Bare!references \subseteq references
  BY <1>1, <1>2, BareGraph DEF Bare!references, references
<1>5. Bare!called \subseteq called \union yielded
  <2> SUFFICES ASSUME NEW x \in Bare!called, x \notin consumed PROVE x \in called \union yielded
    BY DEF called
  <2>1. PICK q \in Bare!rooted : x = q.at /\ q.kind \notin {"published", "yielded"}
    BY BareGraph DEF Bare!called
  <2>2. PICK r \in g.rooted : q = [at |-> r.at, kind |-> IF r.kind # "blank" THEN r.kind ELSE "entry"]
    BY BareGraph
  <2> DEFINE k == IF r.kind # "blank" THEN r.kind
                  ELSE IF r.at \in {e.of : e \in Uses} THEN "yielded" ELSE "entry"
             z == [at |-> r.at, kind |-> k]
  <2>3. z \in rooted
    BY DEF rooted
  <2>4. z.at = x /\ (z.kind = "yielded" \/ z.kind \notin {"published", "yielded"})
    BY <2>1, <2>2
  <2> HIDE DEF z
  <2> QED
    BY <2>3, <2>4 DEF called, yielded
<1> QED
  BY <1>3, <1>4, <1>5 DEF Bare!counted, counted

LEMMA ExemptionsWithdrawn == IInv => RetainedWithdrawn
<1> SUFFICES ASSUME IInv, next = 7, NEW x \in retained, x.of \notin testCode
             PROVE  x.of \in Bare!judge([exemptions |-> TRUE, marked |-> suppressed,
                               reached |-> Bare!pass(Bare!passInput(TRUE, suppressed, FALSE))]).dead
  BY DEF RetainedWithdrawn, Done
<1> DEFINE w == [exemptions |-> TRUE, marked |-> suppressed,
                 reached |-> Bare!pass(Bare!passInput(TRUE, suppressed, FALSE))]
           s == x.of
<1>1. in \in Sweeps /\ suppressed \subseteq Symbol
  BY GivenTypes DEF IInv, TypeOK
<1>2. PICK v : v = Unexempted /\ retained \subseteq {e \in p.exempt : e.of \in judge(v).dead}
  BY DEF IInv, UnexemptedKept
<1>3. /\ v.marked = suppressed /\ v.reached = pass(passInput(FALSE, suppressed, TRUE))
      /\ v.exemptions = FALSE
  BY <1>2 DEF Unexempted
<1>4. s \in relationDead(v)
  <2>1. s \in judge(v).dead
    BY <1>2
  <2> QED
    BY <1>1, <2>1, JudgeParts DEF testCode
<1>5. s \in g.subject /\ s \notin yielded /\ s \notin v.reached \intersect counted(v)
  BY <1>3, <1>4 DEF relationDead
<1>6. w.marked = suppressed /\ w.exemptions = TRUE
      /\ w.reached = Bare!pass(Bare!passInput(TRUE, suppressed, FALSE))
  OBVIOUS
<1> HIDE DEF w
<1>7. s \notin w.reached \intersect Bare!counted(w)
  BY <1>1, <1>3, <1>5, <1>6, BareReached, BareCounted
<1>8. s \in Bare!relationDead(w)
  BY <1>1, <1>5, <1>6, <1>7, BareGraph DEF Bare!relationDead
<1>9. s \notin Bare!supportCode
  BY <1>1, BareGraph DEF Bare!supportCode, testCode
<1>10. s \in Bare!judge(w).dead
  BY <1>8, <1>9 DEF Bare!judge, Bare!keepReferencedSupport
<1> QED
  BY <1>10 DEF w

\* A mark is in effect, and a production declaration's exemption retained, exactly (for an
\* exemption: only) where the sweep without it would report the symbol, though one view is
\* read from the tiers and the other judged over the graph that has the exemptions.
THEOREM WithdrawnJudged == Spec => []JudgedWithdrawn
<1>1. IInv => JudgedWithdrawn
  BY MarksWithdrawn, ExemptionsWithdrawn DEF JudgedWithdrawn
<1> QED
  BY <1>1, Invariant, PTL
-----------------------------------------------------------------------------
(* Nothing that stays needs what is reported *)

\* The full view, read from the tiers, is the one the pass of the last tier gives.
LEMMA FullIsSwept ==
  ASSUME IInv, next >= 4
  PROVE  Full = Swept
<1>1. in \in Sweeps /\ PassOf(3) \subseteq Symbol
  BY SweptIs DEF IInv
<1>2. \A s \in Symbol : tier[s] # 0 <=> s \in PassOf(3)
  <2> SUFFICES ASSUME NEW s \in Symbol PROVE tier[s] # 0 <=> s \in PassOf(3)
    OBVIOUS
  <2>1. tier[s] \in 0 .. 3 /\ (s \in PassOf(3) <=> tier[s] # 0 /\ tier[s] <= 3)
    BY DEF IInv, TypeOK, Labels, None
  <2> QED
    BY <2>1
<1>3. {s \in Symbol : tier[s] # None} = PassOf(3)
  BY <1>1, <1>2 DEF None
<1> QED
  BY <1>3 DEF Full, Swept

\* What the full view judged is what the sweep keeps.
LEMMA AllIsFull ==
  ASSUME IInv, next = 7
  PROVE  /\ all = SweptJudged /\ used = testUsed(all) /\ in \in Sweeps
         /\ Full = Swept /\ TypeOK
<1>1. PICK v : v = Full /\ all = judge(v)
  BY DEF IInv, FullKept
<1>2. PICK w : w = all /\ used = testUsed(w)
  BY DEF IInv, FullKept
<1>3. Full = Swept
  <2>1. next >= 4
    OBVIOUS
  <2> QED
    BY <2>1, FullIsSwept, Zenon
<1>4. v = Swept
  BY <1>1, <1>3, Zenon
<1> QED
  BY <1>1, <1>2, <1>3, <1>4 DEF IInv, SweptJudged

\* No candidate is one a mark or an exemption names.
LEMMA HeldStay ==
  ASSUME IInv, next = 7
  PROVE  held(Full) \intersect all.dead = {}
<1>1. in \in Sweeps /\ all = SweptJudged /\ Full = Swept
  BY AllIsFull
<1>2. ASSUME NEW s \in held(Swept), s \in SweptJudged.dead PROVE FALSE
  <2>1. s \in relationDead(Swept)
    BY <1>1, <1>2, JudgeParts DEF SweptJudged
  <2>2. s \in p.marked /\ s \in Symbol
    BY <1>1, <1>2, <2>1, SweptIs DEF held, relationDead
  <2>3. s \in Answer(Strongest)
    <3>1. s \in HeldSeeds(Strongest)
      BY <2>2 DEF HeldSeeds, Strongest, passInput
    <3> QED
      BY <1>1, <3>1, SweptIs, SeedsReached, PassAnswers
  <2> QED
    BY <1>1, <2>1, <2>2, <2>3, SweptIs DEF relationDead, counted
<1>3. held(Swept) \intersect SweptJudged.dead = {}
  BY <1>2
<1> QED
  BY <1>1, <1>3, Zenon

\* Nor one that what stays needs.
LEMMA NeededStay ==
  ASSUME IInv, next = 7
  PROVE  Needed(all, Full.reached) \intersect Dead(all) = {}
<1>1. in \in Sweeps /\ all = SweptJudged /\ Full.reached = PassOf(3)
  BY AllIsFull DEF Swept
<1>2. Needed(SweptJudged, PassOf(3)) \intersect Dead(SweptJudged) = {}
  BY <1>1, NothingNeeded
<1> QED
  BY <1>1, <1>2

\* What a withheld production candidate references is withheld with it.
LEMMA WithheldStay == IInv => WithheldClosed
<1> SUFFICES ASSUME IInv, next = 7, NEW s \in used \ testCode,
                    NEW t \in Range(g.refs[s]) \intersect all.dead
             PROVE  t \in used
  BY DEF WithheldClosed, Done
<1>1. in \in Sweeps /\ TypeOK /\ all = SweptJudged /\ used = testUsed(all)
  BY AllIsFull
<1>2. s \in Symbol /\ t \in Symbol
  BY <1>1, GivenTypes DEF TypeOK
<1>3. t \notin testCode
  <2>1. /\ Range(g.refs[s]) \intersect g.inTestFile # {} => s \in g.inTestFile
        /\ Range(g.refs[s]) \intersect g.support # {} => s \in g.inTestFile \union g.support
    BY <1>1, <1>2, SweepsAssumption DEF g
  <2> QED
    BY <2>1 DEF testCode
<1>4. t \in Dead(all)
  BY <1>1, <1>3, JudgeParts DEF Dead, SweptJudged
<1>5. [from |-> s, to |-> t, gate |-> {}] \in deadEdges(all)
  <2>1. <<s, t>> \in Symbol \X Dead(all)
    BY <1>2, <1>4
  <2>2. <<s, t>>[1] = s /\ <<s, t>>[2] = t
    OBVIOUS
  <2> QED
    BY <2>1, <2>2 DEF deadEdges
<1>6. ClosedUnder(testUsed(all), deadEdges(all) \union testUseEdges(all))
  <2>1. all.dead \subseteq Symbol /\ all.testOfDeadCode \subseteq Symbol
    BY <1>1, GivenTypes DEF TypeOK
  <2> QED
    BY <1>1, <2>1, TestUsedType
<1> QED
  BY <1>1, <1>5, <1>6 DEF ClosedUnder

\* A report can be deleted: nothing reached that stays, and nothing withheld, needs what the
\* full view names, whatever the graph, the policy and the mode.
THEOREM ReportDeletes == Spec => []DeletesSafely
<1>1. IInv => NothingDangles
  BY HeldStay, NeededStay DEF NothingDangles, Done
<1> QED
  BY <1>1, WithheldStay, Invariant, PTL DEF DeletesSafely
=============================================================================
