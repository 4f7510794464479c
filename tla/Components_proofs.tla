------------------------- MODULE Components_proofs -------------------------
(***************************************************************************)
(* The components of the dead, for every graph, policy and order the walk  *)
(* reads edges in: the cycles Tarjan's walk closes are those of the dead   *)
(* subgraph, each after those it reaches, and the components joined from   *)
(* them partition the dead into parts a deletion starts and finishes.      *)
(***************************************************************************)
EXTENDS Components, Closure_proofs, SequenceTheorems

(* What the walk is given *)

\* The symbols and edges the walk is over are those the sweep judged, none of which what it
\* leaves needs.
Given ==
  /\ in \in Sweeps /\ dependents \in Dependents /\ judged.dead \subseteq Symbol
  /\ Needed(judged, judged.reached) \intersect Dead(judged) = {}
  /\ place = placed /\ heldSet = heldClosure /\ adj = withinHeld

\* The dead are of the graph.
LEMMA PlaceTypes ==
  ASSUME Given
  PROVE  place \subseteq Symbol /\ heldSet \subseteq place /\ adj \subseteq place \X place
<1>1. place \subseteq Symbol
  BY DEF Given, placed
<1>2. heldSet \subseteq place
  <2> DEFINE seeds == {s \in place : dependents[s] \intersect live # {}}
             keeping == UNION {{[from |-> s, to |-> b, gate |-> {}] :
                               b \in heldWith(s) \intersect place} : s \in place}
  <2>1. seeds \in SUBSET place /\ \A e \in keeping : e.to \in place
    OBVIOUS
  <2>2. IsFiniteSet(place) /\ Cardinality(place) <= Cardinality(Symbol)
    BY <1>1, SweepsAssumption, FS_Subset
  <2> HIDE DEF seeds, keeping
  <2>3. closure(seeds, keeping) \subseteq place
    BY <2>1, <2>2, ClosureWithin
  <2> QED
    BY <2>3 DEF Given, heldClosure, seeds, keeping
<1>3. adj \subseteq place \X place
  BY DEF Given, withinHeld, deadSubgraph, referenceEdges
<1> QED
  BY <1>1, <1>2, <1>3

\* What a pass judges dead is what the analysis covers.
LEMMA DeadCovered ==
  ASSUME in \in Sweeps, judged \in Judgements
  PROVE  judged.dead \subseteq Symbol
<1>1. g.subject \subseteq Symbol
  BY SweepsAssumption DEF g, SweepType, GraphType
<1>2. ASSUME NEW v PROVE judge(v).dead \subseteq g.subject
  BY DEF judge, keepReferencedSupport, relationDead, admit, unreferenced
<1> QED
  BY <1>1, <1>2 DEF Judgements

\* What a pass leaves needs none of what it judges dead, a test of dead code aside.
LEMMA DeadUnneeded ==
  ASSUME in \in Sweeps, judged \in Judgements
  PROVE  Needed(judged, judged.reached) \intersect Dead(judged) = {}
<1>1. judged = [dead |-> SweptJudged.dead, testOfDeadCode |-> SweptJudged.testOfDeadCode,
                unreferencedTest |-> SweptJudged.unreferencedTest, reached |-> PassOf(3)]
  BY DEF Judgements, SweptJudged, Swept
<1>2. judged.dead = SweptJudged.dead /\ judged.testOfDeadCode = SweptJudged.testOfDeadCode
      /\ judged.reached = PassOf(3)
  BY <1>1
<1>3. Dead(judged) = Dead(SweptJudged)
  BY <1>2 DEF Dead
<1>4. Needed(judged, judged.reached) = Needed(SweptJudged, PassOf(3))
  BY <1>2 DEF Needed, Staying
<1> QED
  BY <1>3, <1>4, NothingNeeded

\* The walk starts on what the sweep judged.
LEMMA GivenInit == Init => Given
  BY DeadCovered, DeadUnneeded DEF Init, Given

\* No step changes what the walk is given.
LEMMA GivenStep == Given /\ UNCHANGED given => Given'
<1> SUFFICES ASSUME Given, UNCHANGED given PROVE Given'
  OBVIOUS
<1>1. placed' = placed
  BY DEF given, placed, testCode, todc, unref, unreferencedSupport, supportCode, outermost, made,
         g, madeEdges, using, edgesFrom, Plain, HeldEdges, gateOf, Uses, p
<1>2. withinHeld' = withinHeld /\ heldClosure' = heldClosure
  BY DEF given, withinHeld, heldClosure, deadSubgraph, referenceEdges, Alike, Targets, live,
         heldWith, g, using, edgesFrom, Plain, HeldEdges, gateOf, Uses, p, unref, todc, testCode
<1>3. (Needed(judged, judged.reached) \intersect Dead(judged))'
        = Needed(judged, judged.reached) \intersect Dead(judged)
  BY DEF given, Needed, Staying, SuiteMethods, Dead, using, edgesFrom, Plain, HeldEdges, gateOf,
         testCode, Uses, g, p
<1> QED
  BY <1>1, <1>2, <1>3 DEF Given, given
-----------------------------------------------------------------------------
(* What a symbol reaches *)

\* A set the edges do not leave.
Kept(S) == \A e \in adj : e[1] \in S => e[2] \in S

\* What a symbol reaches: itself, what its edges lead to, and no more.
LEMMA ReachingLeast ==
  ASSUME Given, NEW s \in place
  PROVE  /\ Reaching(s) \subseteq place /\ s \in Reaching(s) /\ Kept(Reaching(s))
         /\ \A S : s \in S /\ Kept(S) => Reaching(s) \subseteq S
<1> DEFINE hops == {[from |-> e[1], to |-> e[2], gate |-> {}] : e \in adj}
<1>1. place \subseteq Symbol /\ adj \subseteq place \X place
  BY PlaceTypes
<1>2. IsFiniteSet(place) /\ Cardinality(place) <= Cardinality(Symbol)
  BY <1>1, SweepsAssumption, FS_Subset
<1>3. {s} \in SUBSET place /\ \A e \in hops : e.to \in place
  BY <1>1
<1>4. ASSUME NEW S PROVE ClosedUnder(S, hops) <=> Kept(S)
  <2>1. ASSUME ClosedUnder(S, hops), NEW e \in adj, e[1] \in S PROVE e[2] \in S
    <3>1. [from |-> e[1], to |-> e[2], gate |-> {}] \in hops
      OBVIOUS
    <3> QED
      BY <2>1, <3>1 DEF ClosedUnder
  <2>2. ASSUME Kept(S), NEW e \in hops, e.from \in S PROVE e.to \in S
    <3>1. PICK d \in adj : e = [from |-> d[1], to |-> d[2], gate |-> {}]
      OBVIOUS
    <3> QED
      BY <2>2, <3>1 DEF Kept
  <2> QED
    BY <2>1, <2>2 DEF ClosedUnder, Kept
<1> HIDE DEF hops
<1>5. /\ closure({s}, hops) \subseteq place /\ {s} \subseteq closure({s}, hops)
      /\ ClosedUnder(closure({s}, hops), hops)
      /\ \A S : {s} \subseteq S /\ ClosedUnder(S, hops) => closure({s}, hops) \subseteq S
  BY <1>2, <1>3, ClosureWithin
<1>6. Reaching(s) = closure({s}, hops)
  BY DEF Reaching, hops
<1> QED
  BY <1>4, <1>5, <1>6

\* Reaching is transitive.
LEMMA ReachingOn ==
  ASSUME Given, NEW a \in place, NEW b \in Reaching(a)
  PROVE  Reaching(b) \subseteq Reaching(a)
<1>1. b \in place /\ Kept(Reaching(a))
  BY ReachingLeast
<1> QED
  BY <1>1, ReachingLeast

\* An edge is a way.
LEMMA ReachingEdge ==
  ASSUME Given, NEW a \in place, NEW b, <<a, b>> \in adj
  PROVE  b \in Reaching(a)
<1>1. a \in Reaching(a) /\ Kept(Reaching(a))
  BY ReachingLeast
<1> QED
  BY <1>1 DEF Kept

\* Nor what a symbol reaches.
LEMMA ReachingStep == UNCHANGED given => \A s : Reaching(s)' = Reaching(s)
  BY DEF Reaching, given
-----------------------------------------------------------------------------
(* What the walk has open *)

Active == {walk[i].at : i \in DOMAIN walk}
OnStack == {stack[i] : i \in DOMAIN stack}
Done == UNION {found[c] : c \in Cycle}

\* The edges the open calls have left to read.
Waits ==
  {e \in place \X place : \E i \in DOMAIN walk : walk[i].at = e[1] /\ e[2] \in walk[i].left}

\* Calls and symbols are in the order of their indices.
Ascending ==
  /\ \A i, j \in DOMAIN stack : i < j => index[stack[i]] < index[stack[j]]
  /\ \A i, j \in DOMAIN walk : i < j => index[walk[i].at] < index[walk[j].at]

\* What calling connect for a symbol changes.
Calls(s) ==
  /\ s \in place /\ index[s] = Unvisited
  /\ index' = [index EXCEPT ![s] = nextIndex]
  /\ low' = [low EXCEPT ![s] = nextIndex]
  /\ OnStack' = OnStack \union {s}
  /\ Active' = Active \union {s}
  /\ UNCHANGED <<given, found, grouped>>

\* The innermost call is the last.
LEMMA Innermost ==
  ASSUME TypeOK, Ascending, walk # <<>>
  PROVE  /\ Len(walk) \in Nat \ {0} /\ top = walk[Len(walk)]
         /\ top \in [at: place, left: SUBSET place]
         /\ top.at \in Active /\ \A a \in Active : a # top.at => index[a] < index[top.at]
<1>1. Len(walk) \in Nat \ {0} /\ DOMAIN walk = 1 .. Len(walk)
  BY LenProperties, EmptySeq DEF TypeOK
<1>2. top = walk[Len(walk)] /\ Len(walk) \in DOMAIN walk
  BY <1>1 DEF top, Last
<1>3. top \in [at: place, left: SUBSET place]
  BY <1>1, <1>2, ElementOfSeq DEF TypeOK
<1>4. ASSUME NEW a \in Active, a # top.at PROVE index[a] < index[top.at]
  <2>1. PICK i \in DOMAIN walk : walk[i].at = a
    BY DEF Active
  <2>2. i < Len(walk)
    BY <1>1, <1>2, <1>4, <2>1
  <2> QED
    BY <1>1, <1>2, <2>1, <2>2 DEF Ascending
<1> QED
  BY <1>1, <1>2, <1>3, <1>4 DEF Active

\* Pushing a symbol no index is as high as.
LEMMA Pushes ==
  ASSUME TypeOK, Ascending, NEW s \in place, Reach(s), index[s] = Unvisited,
         \A b \in OnStack : index[b] < nextIndex /\ b # s, nextIndex \in Nat
  PROVE  /\ OnStack' = OnStack \union {s} /\ stack' \in Seq(place)
         /\ \A i, j \in DOMAIN stack' : i < j => index'[stack'[i]] < index'[stack'[j]]
<1> DEFINE n == Len(stack)
<1>1. n \in Nat /\ DOMAIN stack = 1 .. n /\ \A i \in 1 .. n : stack[i] \in place
  BY LenProperties, ElementOfSeq DEF TypeOK
<1>2. /\ stack' \in Seq(place) /\ Len(stack') = n + 1
      /\ \A i \in 1 .. n : stack'[i] = stack[i]
      /\ stack'[n + 1] = s
  BY AppendProperties DEF TypeOK, Reach
<1>3. DOMAIN stack' = 1 .. n + 1
  BY <1>1, <1>2, LenProperties
<1> HIDE DEF n
<1>4. OnStack' = OnStack \union {s}
  <2>1. \A i \in 1 .. n + 1 : i \in 1 .. n \/ i = n + 1
    BY <1>1
  <2>2. n + 1 \in 1 .. n + 1 /\ 1 .. n \subseteq 1 .. n + 1
    BY <1>1
  <2> QED
    BY <1>1, <1>2, <1>3, <2>1, <2>2 DEF OnStack
<1>5. index' = [index EXCEPT ![s] = nextIndex] /\ place \subseteq Symbol
  BY DEF Reach, TypeOK
<1>6. ASSUME NEW i \in 1 .. n + 1, NEW j \in 1 .. n + 1, i < j
      PROVE  index'[stack'[i]] < index'[stack'[j]]
  <2>1. i \in 1 .. n /\ stack'[i] = stack[i] /\ stack[i] \in OnStack
    BY <1>1, <1>2, <1>6 DEF OnStack
  <2>2. index'[stack[i]] = index[stack[i]]
    BY <1>1, <1>5, <2>1 DEF TypeOK
  <2>3. CASE j = n + 1
    BY <1>2, <1>5, <2>1, <2>2, <2>3 DEF TypeOK
  <2>4. CASE j # n + 1
    <3>1. j \in 1 .. n /\ stack'[j] = stack[j] /\ stack[j] \in OnStack
      BY <1>1, <1>2, <2>4 DEF OnStack
    <3>2. index'[stack[j]] = index[stack[j]]
      BY <1>1, <1>5, <3>1 DEF TypeOK
    <3> QED
      BY <1>1, <1>6, <2>1, <2>2, <3>1, <3>2 DEF Ascending
  <2> QED
    BY <2>3, <2>4
<1> QED
  BY <1>2, <1>3, <1>4, <1>6
\* What indices say: a symbol has one once it is reached, and is then on the stack or in a
\* cycle closed, and no index is above the number of symbols reached.
Indexed ==
  /\ \A s \in Symbol : index[s] # Unvisited <=> s \in OnStack \union Done
  /\ \A s \in Symbol : index[s] < nextIndex
  /\ OnStack \intersect Done = {} /\ Active \subseteq OnStack
  /\ Waits \subseteq adj

\* Where the walk is not under way, nothing is open.
LEMMA Starts ==
  ASSUME TypeOK, Ascending, Indexed, Start, OnStack = {}
  PROVE  /\ TypeOK' /\ Ascending' /\ Active = {} /\ Waits = {}
         /\ \E s : Calls(s) /\ Waits' = {e \in adj : e[1] = s}
<1>1. PICK s \in place :
        /\ index[s] = Unvisited /\ Reach(s)
        /\ low' = [low EXCEPT ![s] = nextIndex]
        /\ walk' = <<[at |-> s, left |-> {b \in place : <<s, b>> \in adj}]>>
  BY DEF Start
<1> DEFINE first == [at |-> s, left |-> {b \in place : <<s, b>> \in adj}]
<1>2. walk = <<>> /\ UNCHANGED <<given, found, grouped>>
  BY DEF Start
<1>3. Active = {} /\ Waits = {}
  BY <1>2 DEF Active, Waits
<1>4. nextIndex \in Nat
  <2>1. IsFiniteSet({b \in Symbol : index[b] # Unvisited})
    BY SweepsAssumption, FS_Subset
  <2> QED
    BY <2>1, FS_CardinalityType DEF nextIndex
<1>5. /\ OnStack' = OnStack \union {s} /\ stack' \in Seq(place)
      /\ \A i, j \in DOMAIN stack' : i < j => index'[stack'[i]] < index'[stack'[j]]
  BY <1>1, <1>4, Pushes
<1>6. walk' = <<first>> /\ first \in [at: place, left: SUBSET place]
  BY <1>1
<1> HIDE DEF first
<1>7. walk' \in Seq([at: place, left: SUBSET place]) /\ DOMAIN walk' = {1} /\ walk'[1] = first
  BY <1>6
<1> USE DEF first
<1>8. Active' = {s}
  BY <1>7 DEF Active
<1>9. Waits' = {e \in adj : e[1] = s}
  <2>1. place' = place /\ adj \subseteq place \X place
    BY <1>2 DEF given, TypeOK
  <2> QED
    BY <1>7, <2>1 DEF Waits
<1>10. Ascending'
  BY <1>5, <1>7 DEF Ascending
<1>11. place \subseteq Symbol
  BY DEF TypeOK
<1>12. TypeOK'
  BY <1>1, <1>2, <1>4, <1>5, <1>7, <1>11 DEF TypeOK, Reach, given
<1>13. Calls(s)
  BY <1>1, <1>2, <1>3, <1>5, <1>8 DEF Calls, Reach
<1> QED
  BY <1>3, <1>9, <1>10, <1>12, <1>13
Call == [at: place, left: SUBSET place]

\* The calls below the innermost.
LEMMA FrontIs ==
  ASSUME TypeOK, walk # <<>>
  PROVE  /\ Front(walk) \in Seq(Call) /\ Len(Front(walk)) = Len(walk) - 1
         /\ \A i \in 1 .. Len(walk) - 1 : Front(walk)[i] = walk[i]
<1> DEFINE n == Len(walk)
<1>1. n \in Nat \ {0} /\ \A i \in 1 .. n : walk[i] \in Call
  BY LenProperties, EmptySeq, ElementOfSeq DEF TypeOK, Call
<1>2. Front(walk) = SubSeq(walk, 1, n - 1)
  BY DEF Front
<1> HIDE DEF n
<1>3. \A i \in 1 .. n - 1 : walk[i] \in Call
  BY <1>1
<1>4. 1 \in Int /\ n - 1 \in Int
  BY <1>1
<1>5. /\ SubSeq(walk, 1, n - 1) \in Seq(Call)
      /\ Len(SubSeq(walk, 1, n - 1)) = IF 1 <= n - 1 THEN (n - 1) - 1 + 1 ELSE 0
      /\ \A i \in 1 .. (n - 1) - 1 + 1 : SubSeq(walk, 1, n - 1)[i] = walk[1 + i - 1]
  BY <1>3, <1>4, SubSeqProperties
<1>6. \A i \in 1 .. n - 1 : i \in 1 .. (n - 1) - 1 + 1 /\ 1 + i - 1 = i
  BY <1>1
<1>7. (IF 1 <= n - 1 THEN (n - 1) - 1 + 1 ELSE 0) = n - 1
  BY <1>1
<1>8. \A i \in 1 .. n - 1 : SubSeq(walk, 1, n - 1)[i] = walk[i]
  BY <1>5, <1>6
<1>9. /\ Front(walk) \in Seq(Call) /\ Len(Front(walk)) = n - 1
      /\ \A i \in 1 .. n - 1 : Front(walk)[i] = walk[i]
  BY <1>2, <1>5, <1>7, <1>8
<1> QED
  BY <1>9 DEF n

\* Reading an edge takes it from those the innermost call has left.
LEMMA RestIs ==
  ASSUME TypeOK, Ascending, walk # <<>>, NEW to
  PROVE  /\ Rest(to) \in Seq(Call) /\ Len(Rest(to)) = Len(walk)
         /\ \A i \in 1 .. Len(walk) - 1 : Rest(to)[i] = walk[i]
         /\ Rest(to)[Len(walk)] = [at |-> top.at, left |-> top.left \ {to}]
<1> DEFINE n == Len(walk)
           last == [at |-> top.at, left |-> top.left \ {to}]
<1>1. n \in Nat \ {0} /\ top \in Call
  BY Innermost DEF Call
<1>2. [top EXCEPT !.left = @ \ {to}] = last /\ last \in Call
  BY <1>1 DEF Call
<1>3. Front(walk) \in Seq(Call) /\ Len(Front(walk)) = n - 1
      /\ \A i \in 1 .. n - 1 : Front(walk)[i] = walk[i]
  BY FrontIs
<1>4. Rest(to) = Append(Front(walk), last)
  BY <1>2 DEF Rest
<1> HIDE DEF n, last
<1>5. /\ Append(Front(walk), last) \in Seq(Call)
      /\ Len(Append(Front(walk), last)) = (n - 1) + 1
      /\ \A i \in 1 .. n - 1 : Append(Front(walk), last)[i] = Front(walk)[i]
      /\ Append(Front(walk), last)[(n - 1) + 1] = last
  BY <1>2, <1>3, AppendProperties
<1> QED
  BY <1>1, <1>3, <1>4, <1>5 DEF n, last

\* What reading an edge leaves of the walk.
LEMMA RestReads ==
  ASSUME TypeOK, Ascending, walk # <<>>, NEW to \in place, to \in top.left
  PROVE  LET r == Rest(to) IN
         /\ DOMAIN r = DOMAIN walk /\ \A i \in DOMAIN walk : r[i].at = walk[i].at
         /\ {e \in place \X place : \E i \in DOMAIN r : r[i].at = e[1] /\ e[2] \in r[i].left}
              = Waits \ {<<top.at, to>>}
         /\ <<top.at, to>> \in Waits
<1> DEFINE n == Len(walk)
           r == Rest(to)
<1>1. /\ n \in Nat \ {0} /\ top = walk[n] /\ top \in Call /\ DOMAIN walk = 1 .. n
  BY Innermost, LenProperties DEF Call, TypeOK
<1>2. /\ r \in Seq(Call) /\ Len(r) = n /\ \A i \in 1 .. n - 1 : r[i] = walk[i]
      /\ r[n] = [at |-> top.at, left |-> top.left \ {to}]
  BY RestIs
<1> HIDE DEF n, r
<1>3. DOMAIN r = 1 .. n
  BY <1>2, LenProperties
<1>4. \A i \in 1 .. n : i = n \/ (i \in 1 .. n - 1 /\ r[i] = walk[i])
  BY <1>1, <1>2
<1>5. \A i \in 1 .. n : r[i].at = walk[i].at
  BY <1>1, <1>2, <1>4
<1>6. \A i \in 1 .. n : walk[i].at = top.at => i = n
  <2> SUFFICES ASSUME NEW i \in 1 .. n, walk[i].at = top.at, i # n PROVE FALSE
    OBVIOUS
  <2>1. i < n /\ n \in 1 .. n
    BY <1>1
  <2>2. index[walk[i].at] < index[walk[n].at]
    BY <1>1, <2>1 DEF Ascending
  <2>3. index[top.at] \in Nat
    BY <1>1 DEF Call, TypeOK
  <2> QED
    BY <1>1, <2>2, <2>3
<1>7. ASSUME NEW e \in place \X place
      PROVE  (\E i \in 1 .. n : r[i].at = e[1] /\ e[2] \in r[i].left)
               <=> e \in Waits /\ e # <<top.at, to>>
  <2>0. e = <<e[1], e[2]>>
    OBVIOUS
  <2>1. ASSUME NEW i \in 1 .. n, r[i].at = e[1], e[2] \in r[i].left
        PROVE  e \in Waits /\ e # <<top.at, to>>
    <3>1. CASE i = n
      BY <1>1, <1>2, <2>1, <3>1 DEF Waits
    <3>2. CASE i # n
      <4>1. r[i] = walk[i] /\ walk[i].at # top.at
        BY <1>4, <1>6, <3>2
      <4> QED
        BY <1>1, <2>0, <2>1, <4>1 DEF Waits
    <3> QED
      BY <3>1, <3>2
  <2>2. ASSUME e \in Waits, e # <<top.at, to>>
        PROVE  \E i \in 1 .. n : r[i].at = e[1] /\ e[2] \in r[i].left
    <3>1. PICK i \in 1 .. n : walk[i].at = e[1] /\ e[2] \in walk[i].left
      BY <1>1, <2>2 DEF Waits
    <3>2. CASE i = n
      <4>1. e[2] # to
        BY <1>1, <2>0, <2>2, <3>1, <3>2
      <4> QED
        BY <1>1, <1>2, <3>1, <3>2, <4>1
    <3>3. CASE i # n
      BY <1>4, <3>1, <3>3
    <3> QED
      BY <3>2, <3>3
  <2> QED
    BY <2>1, <2>2
<1>8. <<top.at, to>> \in Waits
  BY <1>1 DEF Waits, Call
<1>9. Waits \subseteq place \X place
  BY DEF Waits
<1> QED
  BY <1>1, <1>3, <1>5, <1>7, <1>8, <1>9 DEF r
\* The next index is a number.
LEMMA NextIndexNat == TypeOK => nextIndex \in Nat
<1>1. IsFiniteSet({b \in Symbol : index[b] # Unvisited})
  BY SweepsAssumption, FS_Subset
<1> QED
  BY <1>1, FS_CardinalityType DEF nextIndex

\* Descending reads an edge and calls connect for the symbol it leads to.
LEMMA Descends ==
  ASSUME TypeOK, Ascending, Indexed, Descend
  PROVE  /\ TypeOK' /\ Ascending' /\ walk # <<>>
         /\ \E to : /\ Calls(to) /\ <<top.at, to>> \in Waits
                    /\ Waits' = (Waits \ {<<top.at, to>>}) \union {e \in adj : e[1] = to}
<1>1. PICK to \in top.left :
        /\ index[to] = Unvisited /\ Reach(to)
        /\ low' = [low EXCEPT ![to] = nextIndex]
        /\ walk' = Append(Rest(to), [at |-> to, left |-> {b \in place : <<to, b>> \in adj}])
  BY DEF Descend
<1>2. walk # <<>> /\ UNCHANGED <<given, found, grouped>>
  BY DEF Descend
<1> DEFINE n == Len(walk)
           new == [at |-> to, left |-> {b \in place : <<to, b>> \in adj}]
           r == Rest(to)
<1>3. /\ n \in Nat \ {0} /\ top \in Call /\ DOMAIN walk = 1 .. n /\ to \in place
      /\ place \subseteq Symbol /\ nextIndex \in Nat
  BY <1>2, Innermost, LenProperties, NextIndexNat DEF Call, TypeOK
<1>4. new \in Call
  BY <1>3 DEF Call
<1>5. /\ DOMAIN r = DOMAIN walk /\ \A i \in DOMAIN walk : r[i].at = walk[i].at
      /\ {e \in place \X place : \E i \in DOMAIN r : r[i].at = e[1] /\ e[2] \in r[i].left}
           = Waits \ {<<top.at, to>>}
      /\ <<top.at, to>> \in Waits
  BY <1>2, <1>3, RestReads
<1>6. r \in Seq(Call) /\ Len(r) = n
  BY <1>2, RestIs
<1>7. walk' = Append(r, new)
  BY <1>1
<1>70. <<top.at, to>> \in Waits
  BY <1>5
<1> HIDE DEF n, new, r
<1>8. /\ walk' \in Seq(Call) /\ Len(walk') = n + 1
      /\ \A i \in 1 .. n : walk'[i] = r[i]
      /\ walk'[n + 1] = new
  BY <1>4, <1>6, <1>7, AppendProperties
<1>9. DOMAIN walk' = 1 .. n + 1
  BY <1>8, LenProperties
<1>10. /\ \A i \in 1 .. n + 1 : i \in 1 .. n \/ i = n + 1
       /\ n + 1 \in 1 .. n + 1 /\ 1 .. n \subseteq 1 .. n + 1
  BY <1>3
<1>11. \A i \in 1 .. n : walk'[i].at = walk[i].at
  BY <1>3, <1>5, <1>8
<1>12. new.at = to /\ new.left = {b \in place : <<to, b>> \in adj}
  BY DEF new
<1>13. Active' = Active \union {to}
  BY <1>3, <1>8, <1>9, <1>10, <1>11, <1>12 DEF Active
<1>14. Waits' = (Waits \ {<<top.at, to>>}) \union {e \in adj : e[1] = to}
  <2>1. place' = place /\ adj \subseteq place \X place
    BY <1>2 DEF given, TypeOK
  <2>2. ASSUME NEW e \in place \X place
        PROVE  (\E i \in 1 .. n + 1 : walk'[i].at = e[1] /\ e[2] \in walk'[i].left)
                 <=> \/ \E i \in 1 .. n : r[i].at = e[1] /\ e[2] \in r[i].left
                     \/ e \in adj /\ e[1] = to
    <3>1. e = <<e[1], e[2]>> /\ e[2] \in place
      OBVIOUS
    <3> QED
      BY <1>8, <1>10, <1>12, <3>1
  <2> QED
    BY <1>3, <1>5, <1>9, <2>1, <2>2 DEF Waits
<1>15. \A b \in OnStack : index[b] < nextIndex /\ b # to
  <2>1. OnStack \subseteq Symbol
    BY <1>3, LenProperties, ElementOfSeq DEF OnStack, TypeOK
  <2> QED
    BY <1>1, <2>1 DEF Indexed
<1>16. /\ OnStack' = OnStack \union {to} /\ stack' \in Seq(place)
       /\ \A i, j \in DOMAIN stack' : i < j => index'[stack'[i]] < index'[stack'[j]]
  BY <1>1, <1>3, <1>15, Pushes
<1>17. \A i \in 1 .. n : /\ index'[walk[i].at] = index[walk[i].at]
                         /\ index[walk[i].at] < nextIndex
  <2>1. \A i \in 1 .. n : walk[i].at \in OnStack
    BY <1>3 DEF Indexed, Active
  <2> QED
    BY <1>1, <1>3, <1>15, <2>1 DEF Reach, TypeOK
<1>18. index'[to] = nextIndex
  BY <1>1, <1>3 DEF Reach, TypeOK
<1>19. ASSUME NEW i \in 1 .. n + 1, NEW j \in 1 .. n + 1, i < j
       PROVE  index'[walk'[i].at] < index'[walk'[j].at]
  <2>1. i \in 1 .. n
    BY <1>3, <1>19
  <2>2. CASE j = n + 1
    BY <1>8, <1>11, <1>12, <1>17, <1>18, <2>1, <2>2
  <2>3. CASE j # n + 1
    <3>1. j \in 1 .. n
      BY <1>10, <2>3
    <3>2. index[walk[i].at] < index[walk[j].at]
      BY <1>3, <1>19, <2>1, <3>1 DEF Ascending
    <3> QED
      BY <1>11, <1>17, <2>1, <3>1, <3>2
  <2> QED
    BY <2>2, <2>3
<1>20. Ascending'
  BY <1>9, <1>16, <1>19 DEF Ascending
<1>21. TypeOK'
  BY <1>1, <1>2, <1>3, <1>8, <1>16 DEF TypeOK, Reach, given, Call
<1>22. Calls(to)
  BY <1>1, <1>2, <1>3, <1>13, <1>16 DEF Calls, Reach
<1> QED
  BY <1>2, <1>14, <1>20, <1>21, <1>22, <1>70

\* Looking reads an edge to a symbol reached, whose index bears on the call's lowest while
\* it is on the stack.
LEMMA Looks ==
  ASSUME TypeOK, Ascending, Look
  PROVE  /\ TypeOK' /\ Ascending' /\ walk # <<>>
         /\ Active' = Active /\ OnStack' = OnStack /\ UNCHANGED <<given, index, found, grouped>>
         /\ \E to : /\ <<top.at, to>> \in Waits /\ index[to] # Unvisited
                    /\ Waits' = Waits \ {<<top.at, to>>}
                    /\ low' = IF to \in OnStack
                                THEN [low EXCEPT ![top.at] = Min({low[top.at], index[to]})]
                                ELSE low
<1>1. PICK to \in top.left :
        /\ index[to] # Unvisited
        /\ low' = IF to \in Range(stack)
                    THEN [low EXCEPT ![top.at] = Min({low[top.at], index[to]})]
                    ELSE low
        /\ walk' = Rest(to)
  BY DEF Look
<1>2. walk # <<>> /\ UNCHANGED <<given, index, stack, found, grouped>>
  BY DEF Look
<1>3. /\ top \in Call /\ to \in place /\ place \subseteq Symbol
      /\ low[top.at] \in Nat /\ index[to] \in Nat
  BY <1>2, Innermost DEF Call, TypeOK
<1>4. Min({low[top.at], index[to]}) \in Nat
  <2>1. PICK m \in {low[top.at], index[to]} : \A y \in {low[top.at], index[to]} : m =< y
    BY <1>3
  <2> QED
    BY <1>3, <2>1 DEF Min
<1>5. /\ DOMAIN walk' = DOMAIN walk /\ \A i \in DOMAIN walk : walk'[i].at = walk[i].at
      /\ {e \in place \X place :
            \E i \in DOMAIN walk' : walk'[i].at = e[1] /\ e[2] \in walk'[i].left}
           = Waits \ {<<top.at, to>>}
      /\ <<top.at, to>> \in Waits
  BY <1>1, <1>2, <1>3, RestReads
<1>6. walk' \in Seq(Call)
  BY <1>1, <1>2, RestIs
<1>7. Active' = Active
  BY <1>5 DEF Active
<1>8. place' = place /\ OnStack' = OnStack
  BY <1>2 DEF given, OnStack
<1>9. Waits' = Waits \ {<<top.at, to>>}
  BY <1>5, <1>8 DEF Waits
<1>10. Ascending'
  BY <1>2, <1>5 DEF Ascending
<1>11. low' \in [Symbol -> Nat]
  BY <1>1, <1>3, <1>4 DEF TypeOK
<1>12. TypeOK'
  BY <1>2, <1>6, <1>11 DEF TypeOK, given, Call
<1>13. OnStack = Range(stack)
  BY DEF OnStack, Range
<1> QED
  BY <1>1, <1>2, <1>5, <1>7, <1>8, <1>9, <1>10, <1>12, <1>13
\* The symbols on the stack from the innermost call's up.
Popped == {b \in OnStack : index[top.at] <= index[b]}

\* What the stack holds from a symbol up is what was reached since.
LEMMA Pops ==
  ASSUME TypeOK, Ascending, Indexed, walk # <<>>
  PROVE  LET at == CHOOSE i \in DOMAIN stack : stack[i] = top.at IN
         /\ {stack[i] : i \in at .. Len(stack)} = Popped
         /\ SubSeq(stack, 1, at - 1) \in Seq(place)
         /\ {SubSeq(stack, 1, at - 1)[i] : i \in DOMAIN SubSeq(stack, 1, at - 1)}
              = OnStack \ Popped
         /\ \A i, j \in DOMAIN SubSeq(stack, 1, at - 1) : i < j =>
              index[SubSeq(stack, 1, at - 1)[i]] < index[SubSeq(stack, 1, at - 1)[j]]
<1> DEFINE at == CHOOSE i \in DOMAIN stack : stack[i] = top.at
           n == Len(stack)
           kept == SubSeq(stack, 1, at - 1)
<1>1. n \in Nat /\ DOMAIN stack = 1 .. n /\ \A i \in 1 .. n : stack[i] \in place
  BY LenProperties, ElementOfSeq DEF TypeOK
<1>2. top.at \in OnStack
  BY Innermost DEF Indexed
<1>3. at \in 1 .. n /\ stack[at] = top.at
  BY <1>1, <1>2 DEF OnStack
<1> HIDE DEF at, n, kept
<1>4. \A i \in 1 .. n : index[stack[i]] \in Nat
  BY <1>1 DEF TypeOK
<1>5. \A i \in 1 .. n : /\ i < at => index[stack[i]] < index[top.at]
                        /\ at < i => index[top.at] < index[stack[i]]
  BY <1>1, <1>3 DEF Ascending
<1>6. \A i \in 1 .. n : index[top.at] <= index[stack[i]] <=> i \in at .. n
  <2> SUFFICES ASSUME NEW i \in 1 .. n
               PROVE  index[top.at] <= index[stack[i]] <=> i \in at .. n
    OBVIOUS
  <2>1. i < at \/ i = at \/ at < i
    BY <1>1, <1>3
  <2>2. index[stack[i]] \in Nat /\ index[top.at] \in Nat /\ at \in 1 .. n /\ n \in Nat
    BY <1>1, <1>3, <1>4
  <2>3. CASE i < at
    BY <1>5, <2>2, <2>3
  <2>4. CASE i = at
    BY <1>3, <2>2, <2>4
  <2>5. CASE at < i
    BY <1>5, <2>2, <2>5
  <2> QED
    BY <2>1, <2>3, <2>4, <2>5
<1>7. {stack[i] : i \in at .. n} = Popped
  <2>1. at .. n \subseteq 1 .. n
    BY <1>1, <1>3
  <2> QED
    BY <1>1, <1>6, <2>1 DEF Popped, OnStack
<1>8. /\ kept \in Seq(place) /\ Len(kept) = at - 1
      /\ \A i \in 1 .. at - 1 : kept[i] = stack[i]
  <2>1. 1 \in Int /\ at - 1 \in Int /\ \A i \in 1 .. at - 1 : stack[i] \in place
    BY <1>1, <1>3
  <2>2. /\ kept \in Seq(place) /\ Len(kept) = IF 1 <= at - 1 THEN (at - 1) - 1 + 1 ELSE 0
        /\ \A i \in 1 .. (at - 1) - 1 + 1 : kept[i] = stack[1 + i - 1]
    BY <2>1, SubSeqProperties DEF kept
  <2>3. (IF 1 <= at - 1 THEN (at - 1) - 1 + 1 ELSE 0) = at - 1
    BY <1>1, <1>3
  <2>4. \A i \in 1 .. at - 1 : i \in 1 .. (at - 1) - 1 + 1 /\ 1 + i - 1 = i
    BY <1>1, <1>3
  <2> QED
    BY <2>2, <2>3, <2>4
<1>9. DOMAIN kept = 1 .. at - 1 /\ 1 .. at - 1 \subseteq 1 .. n
  BY <1>1, <1>3, <1>8, LenProperties
<1>10. {kept[i] : i \in 1 .. at - 1} = OnStack \ Popped
  <2>1. \A i \in 1 .. n : i \in 1 .. at - 1 <=> ~(index[top.at] <= index[stack[i]])
    BY <1>1, <1>3, <1>6
  <2> QED
    BY <1>1, <1>8, <1>9, <2>1 DEF Popped, OnStack
<1>11. \A i, j \in 1 .. at - 1 : i < j => index[kept[i]] < index[kept[j]]
  BY <1>1, <1>8, <1>9 DEF Ascending
<1> QED
  BY <1>7, <1>8, <1>9, <1>10, <1>11 DEF at, n, kept
\* The call below the innermost is the last of the others.
Below(b) == b \in Active \ {top.at} /\ \A a \in Active \ {top.at} : a # b => index[a] < index[b]

\* Returning leaves the call, closes what its symbol was pushed with where nothing lower is
\* reached, and hands the call below its lowest.
LEMMA Returns ==
  ASSUME TypeOK, Ascending, Indexed, Return
  PROVE  /\ TypeOK' /\ Ascending' /\ walk # <<>> /\ UNCHANGED <<given, index, grouped>>
         /\ \A b : <<top.at, b>> \notin Waits
         /\ Waits' = Waits /\ Active' = Active \ {top.at}
         /\ IF low[top.at] = index[top.at]
              THEN found' = Append(found, Popped) /\ OnStack' = OnStack \ Popped
              ELSE UNCHANGED found /\ OnStack' = OnStack
         /\ \/ Active' = {} /\ low' = low
            \/ \E b : Below(b) /\ low' = [low EXCEPT ![b] = Min({low[b], low[top.at]})]
<1> DEFINE n == Len(walk)
           at == CHOOSE i \in DOMAIN stack : stack[i] = top.at
           popped == {stack[i] : i \in at .. Len(stack)}
           kept == SubSeq(stack, 1, at - 1)
<1>1. walk # <<>> /\ top.left = {} /\ walk' = Front(walk) /\ UNCHANGED <<given, index, grouped>>
  BY DEF Return
<1>2. IF low[top.at] = index[top.at]
        THEN found' = Append(found, popped) /\ stack' = kept
        ELSE UNCHANGED <<found, stack>>
  BY DEF Return
<1>3. low' = IF n = 1 THEN low
             ELSE [low EXCEPT ![walk[n - 1].at] = Min({low[walk[n - 1].at], low[top.at]})]
  BY DEF Return
<1>4. /\ n \in Nat \ {0} /\ top = walk[n] /\ top \in Call /\ DOMAIN walk = 1 .. n
      /\ \A i \in 1 .. n : walk[i] \in Call
  BY <1>1, Innermost, LenProperties, ElementOfSeq DEF Call, TypeOK
<1>5. /\ popped = Popped /\ kept \in Seq(place)
      /\ {kept[i] : i \in DOMAIN kept} = OnStack \ Popped
      /\ \A i, j \in DOMAIN kept : i < j => index[kept[i]] < index[kept[j]]
  BY <1>1, Pops
<1>6. /\ walk' \in Seq(Call) /\ Len(walk') = n - 1
      /\ \A i \in 1 .. n - 1 : walk'[i] = walk[i]
  BY <1>1, FrontIs
<1> HIDE DEF n, at, popped, kept
<1>7. DOMAIN walk' = 1 .. n - 1
  BY <1>6, LenProperties
<1>8. \A i \in 1 .. n - 1 : i \in 1 .. n /\ walk[i].at # top.at
  <2>1. \A i \in 1 .. n - 1 : i \in 1 .. n /\ i < n /\ n \in 1 .. n
    BY <1>4
  <2>2. index[top.at] \in Nat
    BY <1>4 DEF Call, TypeOK
  <2> QED
    BY <1>4, <2>1, <2>2 DEF Ascending
<1>9. \A i \in 1 .. n : i = n \/ i \in 1 .. n - 1
  BY <1>4
<1>10. Active' = Active \ {top.at}
  BY <1>4, <1>6, <1>7, <1>8, <1>9 DEF Active
<1>11. place' = place
  BY <1>1 DEF given
<1>12. Waits' = Waits /\ \A b : <<top.at, b>> \notin Waits
  <2>1. ASSUME NEW e \in place \X place
        PROVE  (\E i \in 1 .. n - 1 : walk'[i].at = e[1] /\ e[2] \in walk'[i].left)
                 <=> \E i \in 1 .. n : walk[i].at = e[1] /\ e[2] \in walk[i].left
    BY <1>1, <1>4, <1>6, <1>8, <1>9
  <2>2. ASSUME NEW b, <<top.at, b>> \in Waits PROVE FALSE
    <3>1. PICK i \in 1 .. n : walk[i].at = top.at /\ b \in walk[i].left
      BY <1>4, <2>2 DEF Waits
    <3> QED
      BY <1>1, <1>4, <1>8, <1>9, <3>1
  <2> QED
    BY <1>4, <1>7, <1>11, <2>1, <2>2 DEF Waits
<1>13. IF low[top.at] = index[top.at]
         THEN found' = Append(found, Popped) /\ OnStack' = OnStack \ Popped
         ELSE UNCHANGED found /\ OnStack' = OnStack
  BY <1>2, <1>5 DEF OnStack
<1>14. ASSUME n = 1 PROVE Active' = {} /\ low' = low
  BY <1>3, <1>7, <1>14 DEF Active
<1>15. ASSUME n # 1
       PROVE  /\ Below(walk[n - 1].at)
              /\ low' = [low EXCEPT ![walk[n - 1].at] = Min({low[walk[n - 1].at], low[top.at]})]
  <2>1. n - 1 \in 1 .. n - 1
    BY <1>4, <1>15
  <2>2. walk[n - 1].at \in Active \ {top.at}
    BY <1>4, <1>8, <2>1 DEF Active
  <2>3. ASSUME NEW a \in Active \ {top.at}, a # walk[n - 1].at
        PROVE  index[a] < index[walk[n - 1].at]
    <3>1. PICK i \in 1 .. n : walk[i].at = a
      BY <1>4 DEF Active
    <3>2. i # n /\ i # n - 1
      BY <1>4, <2>3, <3>1
    <3>3. i < n - 1 /\ n - 1 \in 1 .. n
      BY <1>4, <2>1, <3>2
    <3> QED
      BY <1>4, <3>1, <3>3 DEF Ascending
  <2> QED
    BY <1>3, <1>15, <2>2, <2>3 DEF Below
<1>16. Ascending'
  <2>1. \A i, j \in DOMAIN stack' : i < j => index'[stack'[i]] < index'[stack'[j]]
    BY <1>1, <1>2, <1>5 DEF Ascending
  <2>2. \A i, j \in DOMAIN walk' : i < j => index'[walk'[i].at] < index'[walk'[j].at]
    BY <1>1, <1>4, <1>6, <1>7, <1>8 DEF Ascending
  <2> QED
    BY <2>1, <2>2 DEF Ascending
<1>17. OnStack \subseteq place
  BY LenProperties, ElementOfSeq DEF OnStack, TypeOK
<1>18. found' \in Seq(SUBSET place)
  <2>1. Popped \in SUBSET place
    BY <1>17 DEF Popped
  <2>2. found \in Seq(SUBSET place)
    BY DEF TypeOK
  <2>3. Append(found, Popped) \in Seq(SUBSET place)
    BY <2>1, <2>2, AppendProperties
  <2> QED
    BY <1>2, <1>5, <2>2, <2>3
<1>19. stack' \in Seq(place)
  BY <1>2, <1>5 DEF TypeOK
<1>20. low' \in [Symbol -> Nat]
  <2>1. CASE n = 1
    BY <1>3, <2>1 DEF TypeOK
  <2>2. CASE n # 1
    <3> DEFINE b == walk[n - 1].at
    <3>1. n - 1 \in 1 .. n
      BY <1>4, <2>2
    <3>2. low[b] \in Nat /\ low[top.at] \in Nat
      BY <1>4, <3>1 DEF Call, TypeOK
    <3>3. Min({low[b], low[top.at]}) \in Nat
      <4>1. PICK m \in {low[b], low[top.at]} : \A y \in {low[b], low[top.at]} : m =< y
        BY <3>2
      <4> QED
        BY <3>2, <4>1 DEF Min
    <3> HIDE DEF b
    <3>4. low' = [low EXCEPT ![b] = Min({low[b], low[top.at]})]
      BY <1>3, <2>2 DEF b
    <3> QED
      BY <3>3, <3>4 DEF TypeOK
  <2> QED
    BY <2>1, <2>2
<1>21. TypeOK'
  BY <1>1, <1>6, <1>18, <1>19, <1>20 DEF TypeOK, given, Call
<1> QED
  BY <1>1, <1>10, <1>12, <1>13, <1>14, <1>15, <1>16, <1>21
-----------------------------------------------------------------------------
(* Tarjan's argument *)

\* No symbol is in two cycles, and no cycle is empty.
Apart ==
  /\ \A c, b \in Cycle : c # b => found[c] \intersect found[b] = {}
  /\ \A c \in Cycle : found[c] # {}

\* Every edge read led to a symbol reached, and those of a cycle closed stay in it or lead to
\* an earlier one.
Followed ==
  /\ \A e \in adj \ Waits : e[1] \in OnStack => index[e[2]] # Unvisited
  /\ \A c \in Cycle : \A e \in adj : e[1] \in found[c] => \E d \in 1 .. c : e[2] \in found[d]

\* An open call reaches what was pushed since, and what is on the stack reaches an open call
\* at or below it.
Linked ==
  /\ \A a \in Active, b \in OnStack : index[a] <= index[b] => b \in Reaching(a)
  /\ \A b \in OnStack : \E a \in Active : index[a] <= index[b] /\ a \in Reaching(b)

\* The symbols on the stack whose edges the call for a symbol read, its own and those of the
\* calls it made and were returned from.
Span(a) ==
  {b \in OnStack :
     index[a] <= index[b] /\ \A c \in Active : index[a] < index[c] => index[b] < index[c]}

\* The lowest of a call is the index of a symbol on the stack it reaches, and none it read an
\* edge to is lower.
Lows ==
  \A a \in Active :
    /\ low[a] <= index[a]
    /\ \E b \in OnStack : low[a] = index[b] /\ b \in Reaching(a)
    /\ \A e \in adj \ Waits : e[1] \in Span(a) /\ e[2] \in OnStack => low[a] <= index[e[2]]

\* Every cycle closed is the symbols that reach each other.
Exact ==
  \A c \in Cycle : \A s \in found[c] : found[c] = {b \in Reaching(s) : s \in Reaching(b)}

WInv == TypeOK /\ Given /\ Ascending /\ Indexed /\ Apart /\ Followed /\ Linked /\ Lows /\ Exact

\* What is on the stack or in a cycle is a symbol of the subgraph.
LEMMA Places ==
  ASSUME TypeOK
  PROVE  /\ OnStack \subseteq place /\ Done \subseteq place /\ place \subseteq Symbol
         /\ Len(found) \in Nat /\ Cycle = 1 .. Len(found)
<1>1. \A i \in DOMAIN stack : stack[i] \in place
  BY LenProperties, ElementOfSeq DEF TypeOK
<1>2. Len(found) \in Nat /\ Cycle = 1 .. Len(found) /\ \A c \in Cycle : found[c] \in SUBSET place
  BY LenProperties, ElementOfSeq DEF TypeOK, Cycle
<1> QED
  BY <1>1, <1>2 DEF OnStack, Done, TypeOK

\* What calling connect does to the indices.
LEMMA CallIndexed ==
  ASSUME TypeOK, Indexed, NEW s, Calls(s), Waits' \subseteq adj
  PROVE  /\ Indexed' /\ nextIndex \in Nat /\ index'[s] = nextIndex /\ low'[s] = nextIndex
         /\ \A b \in Symbol \ {s} : index'[b] = index[b] /\ low'[b] = low[b]
         /\ \A b \in Symbol : index[b] < nextIndex
         /\ s \notin OnStack \union Done
<1> DEFINE seen == {b \in Symbol : index[b] # Unvisited}
<1>1. nextIndex \in Nat
  BY NextIndexNat
<1>2. s \in Symbol /\ index[s] = Unvisited /\ s \notin OnStack \union Done
  BY Places DEF Calls, Indexed
<1>3. IsFiniteSet(seen) /\ Cardinality(seen) \in Nat /\ nextIndex = Cardinality(seen) + 1
  <2>1. IsFiniteSet(seen)
    BY SweepsAssumption, FS_Subset
  <2> QED
    BY <2>1, FS_CardinalityType DEF nextIndex
<1>4. /\ index'[s] = nextIndex /\ low'[s] = nextIndex
      /\ \A b \in Symbol \ {s} : index'[b] = index[b] /\ low'[b] = low[b]
  BY <1>2 DEF Calls, TypeOK
<1>5. nextIndex' = nextIndex + 1
  <2>1. seen' = seen \union {s} /\ s \notin seen
    BY <1>2, <1>3, <1>4 DEF Unvisited
  <2>2. Cardinality(seen') = Cardinality(seen) + 1
    BY <1>3, <2>1, FS_AddElement
  <2> QED
    BY <1>3, <2>2 DEF nextIndex
<1>6. OnStack' = OnStack \union {s} /\ Active' = Active \union {s} /\ Done' = Done /\ adj' = adj
  BY DEF Calls, Done, Cycle, given
<1>7. \A b \in Symbol : index'[b] # Unvisited <=> b \in OnStack' \union Done'
  BY <1>2, <1>3, <1>4, <1>6 DEF Indexed, Unvisited
<1>8. \A b \in Symbol : index[b] < nextIndex /\ index[b] \in Nat
  BY DEF Indexed, TypeOK
<1>9. \A b \in Symbol : index'[b] < nextIndex'
  BY <1>1, <1>4, <1>5, <1>8
<1>10. OnStack' \intersect Done' = {} /\ Active' \subseteq OnStack' /\ Waits' \subseteq adj'
  BY <1>2, <1>6 DEF Indexed
<1> QED
  BY <1>1, <1>2, <1>4, <1>7, <1>8, <1>9, <1>10 DEF Indexed
\* A call for the first symbol of what is left.
LEMMA StartStep == WInv /\ Start => WInv'
<1> SUFFICES ASSUME WInv, Start PROVE WInv'
  OBVIOUS
<1>0. TypeOK /\ Given /\ Ascending /\ Indexed /\ walk = <<>>
  BY DEF WInv, Start
<1>1. Active = {} /\ OnStack = {}
  <2>1. Active = {}
    BY <1>0 DEF Active
  <2> QED
    BY <2>1 DEF WInv, Linked
<1>2. PICK s : /\ TypeOK' /\ Ascending' /\ Waits = {} /\ Calls(s)
               /\ Waits' = {e \in adj : e[1] = s}
  BY <1>0, <1>1, Starts
<1>3. /\ Indexed' /\ nextIndex \in Nat /\ index'[s] = nextIndex /\ low'[s] = nextIndex
      /\ \A b \in Symbol \ {s} : index'[b] = index[b]
      /\ \A b \in Symbol : index[b] < nextIndex
  BY <1>0, <1>2, CallIndexed
<1>4. /\ OnStack' = {s} /\ Active' = {s} /\ s \in place /\ UNCHANGED <<given, found>>
      /\ adj' = adj /\ Cycle' = Cycle /\ found' = found
  BY <1>1, <1>2 DEF Calls, given, Cycle
<1>5. Given' /\ \A a : Reaching(a)' = Reaching(a)
  BY <1>0, <1>4, GivenStep, ReachingStep
<1>6. s \in Reaching(s)
  BY <1>0, <1>4, ReachingLeast
<1>7. Apart' /\ Exact'
  BY <1>4, <1>5 DEF WInv, Apart, Exact
<1>8. Followed'
  BY <1>2, <1>4 DEF WInv, Followed
<1>9. Linked'
  BY <1>3, <1>4, <1>5, <1>6 DEF Linked
<1>10. Lows'
  <2>1. \A e \in adj \ Waits' : e[1] # s
    BY <1>2
  <2> QED
    BY <1>3, <1>4, <1>5, <1>6, <2>1 DEF Lows, Span
<1> QED
  BY <1>2, <1>3, <1>5, <1>7, <1>8, <1>9, <1>10 DEF WInv

\* A call for a symbol the innermost reaches.
LEMMA DescendStep == WInv /\ Descend => WInv'
<1> SUFFICES ASSUME WInv, Descend PROVE WInv'
  OBVIOUS
<1>0. TypeOK /\ Given /\ Ascending /\ Indexed
  BY DEF WInv
<1>1. PICK to : /\ TypeOK' /\ Ascending' /\ walk # <<>> /\ Calls(to) /\ <<top.at, to>> \in Waits
                /\ Waits' = (Waits \ {<<top.at, to>>}) \union {e \in adj : e[1] = to}
  BY <1>0, Descends
<1> DEFINE t == top.at
<1>2. /\ t \in Active /\ t \in place
      /\ \A a \in Active : a # t => index[a] < index[t]
  BY <1>0, <1>1, Innermost
<1> HIDE DEF t
<1>3. Waits \subseteq adj /\ <<t, to>> \in adj /\ Waits' \subseteq adj
  BY <1>0, <1>1 DEF Indexed, t
<1>4. /\ Indexed' /\ nextIndex \in Nat /\ index'[to] = nextIndex /\ low'[to] = nextIndex
      /\ \A b \in Symbol \ {to} : index'[b] = index[b] /\ low'[b] = low[b]
      /\ \A b \in Symbol : index[b] < nextIndex
      /\ to \notin OnStack \union Done
  BY <1>0, <1>1, <1>3, CallIndexed
<1>5. /\ OnStack' = OnStack \union {to} /\ Active' = Active \union {to} /\ to \in place
      /\ UNCHANGED <<given, found>> /\ adj' = adj /\ Cycle' = Cycle /\ found' = found
      /\ index[to] = Unvisited
  BY <1>1 DEF Calls, given, Cycle
<1>6. Given' /\ \A a : Reaching(a)' = Reaching(a)
  BY <1>0, <1>5, GivenStep, ReachingStep
<1>7. to \in Reaching(to) /\ to \in Reaching(t)
  BY <1>0, <1>2, <1>3, <1>5, ReachingLeast, ReachingEdge
<1>8. Apart' /\ Exact'
  BY <1>5, <1>6 DEF WInv, Apart, Exact
<1>9. /\ OnStack \subseteq place /\ place \subseteq Symbol /\ Active \subseteq OnStack
      /\ to \notin OnStack
      /\ \A b \in OnStack :
           index'[b] = index[b] /\ low'[b] = low[b] /\ index[b] \in Nat /\ low[b] \in Nat
      /\ \A b \in OnStack : index[b] < nextIndex
  BY <1>0, <1>4, Places DEF Indexed, TypeOK
<1>10. ASSUME NEW e \in adj \ Waits'
       PROVE  e[1] # to /\ (e \notin Waits \/ e = <<t, to>>)
  BY <1>1, <1>10 DEF t
<1>11. Followed'
  <2>1. ASSUME NEW e \in adj \ Waits', e[1] \in OnStack' PROVE index'[e[2]] # Unvisited
    <3>1. CASE e = <<t, to>>
      BY <1>4, <3>1, <1>9, <1>2 DEF Unvisited, Indexed
    <3>2. CASE e # <<t, to>>
      <4>1. e[1] \in OnStack /\ e \notin Waits
        BY <1>5, <1>10, <2>1, <3>2
      <4>2. index[e[2]] # Unvisited
        BY <4>1 DEF WInv, Followed
      <4>3. e[2] # to /\ e[2] \in Symbol
        BY <1>0, <1>5, <4>2 DEF TypeOK
      <4> QED
        BY <1>4, <4>2, <4>3
    <3> QED
      BY <3>1, <3>2
  <2> QED
    BY <1>5, <2>1 DEF WInv, Followed
<1>12. Linked'
  <2>1. ASSUME NEW a \in Active', NEW b \in OnStack', index'[a] <= index'[b]
        PROVE  b \in Reaching(a)
    <3>1. CASE a = to
      <4>1. b = to
        BY <1>4, <1>5, <1>9, <2>1, <3>1
      <4> QED
        BY <1>7, <3>1, <4>1
    <3>2. CASE a # to /\ b = to
      <4>1. a \in Active /\ (a = t \/ index[a] < index[t]) /\ a \in OnStack /\ t \in OnStack
        BY <1>2, <1>5, <1>9, <3>2
      <4>2. t \in Reaching(a)
        BY <1>9, <4>1 DEF WInv, Linked
      <4> QED
        BY <1>0, <1>7, <1>9, <3>2, <4>1, <4>2, ReachingOn
    <3>3. CASE a # to /\ b # to
      BY <1>5, <1>9, <2>1, <3>3 DEF WInv, Linked
    <3> QED
      BY <3>1, <3>2, <3>3
  <2>2. ASSUME NEW b \in OnStack'
        PROVE  \E a \in Active' : index'[a] <= index'[b] /\ a \in Reaching(b)
    <3>1. CASE b = to
      BY <1>4, <1>5, <1>7, <3>1
    <3>2. CASE b # to
      <4>1. PICK a \in Active : index[a] <= index[b] /\ a \in Reaching(b)
        BY <1>5, <3>2 DEF WInv, Linked
      <4> QED
        BY <1>5, <1>9, <3>2, <4>1
    <3> QED
      BY <3>1, <3>2
  <2> QED
    BY <1>6, <2>1, <2>2 DEF Linked
<1>13. Lows'
  <2>1. ASSUME NEW a \in Active'
        PROVE  /\ low'[a] <= index'[a]
               /\ \E b \in OnStack' : low'[a] = index'[b] /\ b \in Reaching(a)
    <3>1. CASE a = to
      BY <1>4, <1>5, <1>7, <3>1
    <3>2. CASE a # to
      <4>1. a \in Active
        BY <1>5, <3>2
      <4>2. PICK b \in OnStack : low[a] = index[b] /\ b \in Reaching(a)
        BY <4>1 DEF WInv, Lows
      <4>3. low[a] <= index[a]
        BY <4>1 DEF WInv, Lows
      <4> QED
        BY <1>5, <1>9, <4>1, <4>2, <4>3
    <3> QED
      BY <3>1, <3>2
  <2>2. ASSUME NEW a \in Active', NEW e \in adj \ Waits', e[1] \in Span(a)', e[2] \in OnStack'
        PROVE  low'[a] <= index'[e[2]]
    <3>1. e[1] # to /\ e[1] \in OnStack /\ index'[a] <= index'[e[1]]
          /\ \A c \in Active' : index'[a] < index'[c] => index'[e[1]] < index'[c]
      BY <1>5, <1>10, <2>2 DEF Span
    <3>2. a # to /\ a \in Active
      BY <1>4, <1>5, <1>9, <3>1
    <3>3. low[a] <= index[a] /\ low'[a] = low[a] /\ low[a] \in Nat /\ index[a] < nextIndex
          /\ index[a] \in Nat
      BY <1>9, <3>2 DEF WInv, Lows
    <3>4. CASE e = <<t, to>>
      BY <1>4, <3>3, <3>4
    <3>5. CASE e # <<t, to>>
      <4>1. e \notin Waits
        BY <1>10, <3>5
      <4>2. index[e[2]] # Unvisited
        BY <3>1, <4>1 DEF WInv, Followed
      <4>3. e[2] # to /\ e[2] \in OnStack
        BY <1>5, <2>2, <4>2
      <4>4. \A c \in Active : index[a] < index[c] => index[e[1]] < index[c]
        BY <1>5, <1>9, <3>1, <3>2
      <4>5. e[1] \in Span(a)
        BY <1>9, <3>1, <3>2, <4>4 DEF Span
      <4>6. low[a] <= index[e[2]]
        BY <3>2, <4>1, <4>3, <4>5 DEF WInv, Lows
      <4> QED
        BY <1>9, <3>3, <4>3, <4>6
    <3> QED
      BY <3>4, <3>5
  <2> QED
    BY <1>5, <1>6, <2>1, <2>2 DEF Lows
<1> QED
  BY <1>1, <1>4, <1>6, <1>8, <1>11, <1>12, <1>13 DEF WInv
\* The lower of two numbers.
LEMMA MinOfTwo ==
  ASSUME NEW a \in Nat, NEW b \in Nat
  PROVE  Min({a, b}) = IF a <= b THEN a ELSE b
<1>1. PICK m \in {a, b} : \A y \in {a, b} : m =< y
  OBVIOUS
<1>2. Min({a, b}) \in {a, b} /\ \A y \in {a, b} : Min({a, b}) =< y
  BY <1>1 DEF Min
<1> QED
  BY <1>2

\* A look at a symbol reached.
LEMMA LookStep == WInv /\ Look => WInv'
<1> SUFFICES ASSUME WInv, Look PROVE WInv'
  OBVIOUS
<1>0. TypeOK /\ Given /\ Ascending /\ Indexed
  BY DEF WInv
<1> DEFINE t == top.at
<1>1. PICK to :
        /\ TypeOK' /\ Ascending' /\ walk # <<>>
        /\ Active' = Active /\ OnStack' = OnStack /\ UNCHANGED <<given, index, found, grouped>>
        /\ <<t, to>> \in Waits /\ index[to] # Unvisited
        /\ Waits' = Waits \ {<<t, to>>}
        /\ low' = IF to \in OnStack THEN [low EXCEPT ![t] = Min({low[t], index[to]})] ELSE low
  BY <1>0, Looks
<1>2. /\ t \in Active /\ t \in place
      /\ \A a \in Active : a # t => index[a] < index[t]
  BY <1>0, <1>1, Innermost
<1> HIDE DEF t
<1>3. <<t, to>> \in adj /\ t \in place /\ to \in place /\ Waits \subseteq adj
  BY <1>0, <1>1 DEF Indexed, TypeOK
<1>4. adj' = adj /\ Cycle' = Cycle /\ found' = found /\ index' = index /\ Done' = Done
      /\ nextIndex' = nextIndex
  BY <1>1 DEF given, Cycle, Done, nextIndex
<1>5. Given' /\ \A a : Reaching(a)' = Reaching(a)
  BY <1>0, <1>1, GivenStep, ReachingStep
<1>6. to \in Reaching(t)
  BY <1>0, <1>3, ReachingEdge
<1>7. Apart' /\ Exact'
  BY <1>4, <1>5 DEF WInv, Apart, Exact
<1>8. Indexed'
  BY <1>1, <1>4, <1>0 DEF Indexed
<1>9. ASSUME NEW e \in adj \ Waits' PROVE e \notin Waits \/ e = <<t, to>>
  BY <1>1, <1>9
<1>10. Followed'
  <2>1. \A e \in adj \ Waits' : e[1] \in OnStack => index[e[2]] # Unvisited
    BY <1>1, <1>9 DEF WInv, Followed
  <2> QED
    BY <1>1, <1>4, <2>1 DEF WInv, Followed
<1>11. Linked'
  BY <1>1, <1>4, <1>5 DEF WInv, Linked
<1>12. /\ OnStack \subseteq place /\ place \subseteq Symbol /\ Active \subseteq OnStack
       /\ \A b \in Symbol : low[b] \in Nat /\ index[b] \in Nat
  BY <1>0, Places DEF Indexed, TypeOK
<1>13. /\ low'[t] = IF to \in OnStack /\ index[to] < low[t] THEN index[to] ELSE low[t]
       /\ \A a \in Active : a # t => low'[a] = low[a]
  <2> DEFINE v == Min({low[t], index[to]})
  <2>0. low[t] \in Nat /\ index[to] \in Nat
    BY <1>3, <1>12
  <2>1. v = IF low[t] <= index[to] THEN low[t] ELSE index[to]
    BY <2>0, MinOfTwo
  <2>2. low \in [Symbol -> Nat]
    BY <1>0 DEF TypeOK
  <2>3. low' = IF to \in OnStack THEN [low EXCEPT ![t] = v] ELSE low
    BY <1>1
  <2> HIDE DEF v
  <2>4. low'[t] = IF to \in OnStack THEN v ELSE low[t]
    BY <1>3, <1>12, <2>2, <2>3
  <2>5. \A a \in Active : a # t => low'[a] = low[a]
    BY <1>12, <2>2, <2>3
  <2> QED
    BY <2>0, <2>1, <2>4, <2>5
<1>14. ASSUME NEW a \in Active
       PROVE  /\ low'[a] <= index[a]
              /\ \E b \in OnStack : low'[a] = index[b] /\ b \in Reaching(a)
  <2>1. low[a] <= index[a] /\ \E b \in OnStack : low[a] = index[b] /\ b \in Reaching(a)
    BY DEF WInv, Lows
  <2>2. CASE a = t /\ to \in OnStack /\ index[to] < low[t]
    BY <1>6, <1>12, <1>13, <2>1, <2>2
  <2>3. CASE ~(a = t /\ to \in OnStack /\ index[to] < low[t])
    <3>1. low'[a] = low[a]
      BY <1>13, <2>3
    <3> QED
      BY <2>1, <3>1
  <2> QED
    BY <2>2, <2>3
<1>15. ASSUME NEW a \in Active, NEW e \in adj \ Waits', e[1] \in Span(a), e[2] \in OnStack
       PROVE  low'[a] <= index[e[2]]
  <2>1. CASE e = <<t, to>>
    <3>1. e[1] = t /\ e[2] = to
      BY <2>1
    <3>2. a = t
      <4>1. index[a] <= index[t] /\ (index[a] < index[t] => index[t] < index[t])
        BY <1>2, <1>15, <3>1 DEF Span
      <4>2. index[a] \in Nat /\ index[t] \in Nat
        BY <1>2, <1>12
      <4> QED
        BY <1>2, <4>1, <4>2
    <3>3. low[t] \in Nat /\ index[to] \in Nat /\ to \in OnStack
      BY <1>3, <1>12, <1>15, <3>1
    <3> QED
      BY <1>13, <3>1, <3>2, <3>3
  <2>2. CASE e # <<t, to>>
    <3>1. low[a] <= index[e[2]]
      BY <1>9, <1>15, <2>2 DEF WInv, Lows
    <3>2. low'[a] = low[a] \/ (a = t /\ low'[a] < low[a])
      BY <1>13, <1>3, <1>12
    <3>3. low[a] \in Nat /\ index[e[2]] \in Nat /\ index[to] \in Nat /\ low'[a] \in Nat
      BY <1>1, <1>3, <1>12, <1>15 DEF TypeOK
    <3> QED
      BY <3>1, <3>2, <3>3
  <2> QED
    BY <2>1, <2>2
<1>16. \A a : Span(a)' = Span(a)
  BY <1>1, <1>4 DEF Span
<1>17. Lows'
  BY <1>1, <1>4, <1>5, <1>14, <1>15, <1>16 DEF Lows
<1> QED
  BY <1>1, <1>5, <1>7, <1>8, <1>10, <1>11, <1>17 DEF WInv
\* Whatever the call below took of its lowest, a symbol on the stack it reaches has it, and no
\* edge it or the call it made read leads lower.
LEMMA ReturnLow ==
  ASSUME WInv, walk # <<>>, NEW b, Below(b)
  PROVE  LET v == Min({low[b], low[top.at]}) IN
         /\ v <= low[b] /\ v <= low[top.at]
         /\ \E s \in OnStack : v = index[s] /\ s \in Reaching(b)
<1> DEFINE t == top.at
           v == Min({low[b], low[t]})
<1>0. TypeOK /\ Given /\ Ascending /\ Indexed
  BY DEF WInv
<1>1. t \in Active /\ b \in Active /\ index[b] < index[t]
  BY <1>0, Innermost DEF Below
<1>2. /\ OnStack \subseteq place /\ place \subseteq Symbol /\ Active \subseteq OnStack
  BY <1>0, Places DEF Indexed
<1>3. low[b] \in Nat /\ low[t] \in Nat /\ index[b] \in Nat /\ index[t] \in Nat
  BY <1>0, <1>1, <1>2 DEF TypeOK
<1> HIDE DEF t
<1>4. v = IF low[b] <= low[t] THEN low[b] ELSE low[t]
  BY <1>3, MinOfTwo
<1> HIDE DEF v
<1>5. t \in Reaching(b)
  BY <1>1, <1>2, <1>3 DEF WInv, Linked
<1>6. PICK s \in OnStack : low[b] = index[s] /\ s \in Reaching(b)
  BY <1>1 DEF WInv, Lows
<1>7. PICK u \in OnStack : low[t] = index[u] /\ u \in Reaching(t)
  BY <1>1 DEF WInv, Lows
<1>8. u \in Reaching(b)
  BY <1>0, <1>1, <1>2, <1>5, <1>7, ReachingOn
<1>9. v <= low[b] /\ v <= low[t]
  BY <1>3, <1>4
<1> QED
  BY <1>4, <1>6, <1>7, <1>8, <1>9 DEF v, t

\* What a returned call's edges led to counts for the call below.
LEMMA ReturnSpan ==
  ASSUME WInv, walk # <<>>, NEW a \in Active \ {top.at}, NEW b, Below(b), NEW u \in OnStack,
         index[a] <= index[u],
         \A c \in Active \ {top.at} : index[a] < index[c] => index[u] < index[c]
  PROVE  u \in Span(a) \/ (a = b /\ u \in Span(top.at))
<1> DEFINE t == top.at
<1>0. TypeOK /\ Given /\ Ascending /\ Indexed
  BY DEF WInv
<1>1. /\ t \in Active /\ b \in Active /\ index[b] < index[t]
      /\ \A c \in Active : c # t => index[c] < index[t]
  BY <1>0, Innermost DEF Below
<1>2. \A s \in OnStack : index[s] \in Nat
  BY <1>0, Places DEF TypeOK
<1>3. Active \subseteq OnStack
  BY <1>0 DEF Indexed
<1> HIDE DEF t
<1>4. CASE index[u] < index[t]
  <2>1. u \in Span(a)
    BY <1>4 DEF Span, t
  <2> QED
    BY <2>1
<1>5. CASE index[t] <= index[u]
  <2>1. u \in Span(t)
    <3>1. \A c \in Active : ~(index[t] < index[c])
      BY <1>1, <1>2, <1>3
    <3> QED
      BY <1>5, <3>1 DEF Span
  <2>2. a = b
    <3> SUFFICES ASSUME a # b PROVE FALSE
      OBVIOUS
    <3>1. index[a] < index[b] /\ b \in Active \ {t}
      BY DEF Below, t
    <3>2. index[u] < index[b]
      BY <3>1 DEF t
    <3> QED
      BY <1>1, <1>2, <1>3, <1>5, <3>2
  <2> QED
    BY <2>1, <2>2 DEF t
<1> QED
  BY <1>1, <1>2, <1>3, <1>4, <1>5
\* What the calls left know after a return is what they knew, whether a cycle was closed or
\* not.
LEMMA ReturnLows ==
  ASSUME WInv, Return
  PROVE  Lows'
<1>0. TypeOK /\ Given /\ Ascending /\ Indexed
  BY DEF WInv
<1> DEFINE t == top.at
<1>1. /\ walk # <<>> /\ UNCHANGED <<given, index>> /\ Waits' = Waits /\ Active' = Active \ {t}
      /\ OnStack' = OnStack \/ OnStack' = OnStack \ Popped
      /\ \/ Active' = {} /\ low' = low
         \/ \E b : Below(b) /\ low' = [low EXCEPT ![b] = Min({low[b], low[t]})]
  BY <1>0, Returns
<1>2. t \in Active /\ \A a \in Active : a # t => index[a] < index[t]
  BY <1>0, <1>1, Innermost
<1>3. adj' = adj /\ index' = index /\ \A a : Reaching(a)' = Reaching(a)
  BY <1>1, ReachingStep DEF given
<1>4. CASE Active' = {}
  BY <1>4 DEF Lows
<1>5. ASSUME NEW b, Below(b), low' = [low EXCEPT ![b] = Min({low[b], low[t]})]
      PROVE  Lows'
  <2> DEFINE v == Min({low[b], low[t]})
  <2>1. /\ OnStack \subseteq place /\ place \subseteq Symbol /\ Active \subseteq OnStack
        /\ low \in [Symbol -> Nat] /\ \A a \in Symbol : low[a] \in Nat /\ index[a] \in Nat
    BY <1>0, Places DEF Indexed, TypeOK
  <2>2. b \in Active \ {t} /\ b \in Symbol
    BY <1>5, <2>1 DEF Below
  <2>3. v <= low[b] /\ v <= low[t] /\ \E s \in OnStack : v = index[s] /\ s \in Reaching(b)
    BY <1>1, <1>5, ReturnLow
  <2> HIDE DEF v
  <2>4. low'[b] = v /\ \A a \in Active : a # b => low'[a] = low[a]
    <3>1. low' = [low EXCEPT ![b] = v]
      BY <1>5 DEF v
    <3> QED
      BY <2>1, <2>2, <3>1
  <2> HIDE DEF t
  <2>5. v \in Nat
    BY <2>1, <2>3
  <2>6. ASSUME NEW a \in Active \ {t}
        PROVE  /\ low'[a] <= low[a] /\ low'[a] <= index[a] /\ low'[a] < index[t]
               /\ \E s \in OnStack : low'[a] = index[s] /\ s \in Reaching(a)
    <3>1. low[a] <= index[a] /\ \E s \in OnStack : low[a] = index[s] /\ s \in Reaching(a)
      BY DEF WInv, Lows
    <3>2. low[a] \in Nat /\ index[a] \in Nat /\ index[t] \in Nat /\ index[a] < index[t]
      BY <1>2, <2>1
    <3>3. low'[a] \in Nat /\ low'[a] <= low[a]
      BY <2>3, <2>4, <2>5, <3>2
    <3>4. \E s \in OnStack : low'[a] = index[s] /\ s \in Reaching(a)
      BY <2>3, <2>4, <3>1
    <3> QED
      BY <3>1, <3>2, <3>3, <3>4
  <2>7. ASSUME NEW s \in OnStack, index[s] < index[t] PROVE s \in OnStack'
    <3>1. ~(index[t] <= index[s])
      BY <1>2, <2>1, <2>7
    <3> QED
      BY <1>1, <3>1 DEF Popped, t
  <2>8. ASSUME NEW a \in Active \ {t}, NEW e \in adj \ Waits, e[1] \in Span(a)', e[2] \in OnStack'
        PROVE  low'[a] <= index[e[2]]
    <3>1. /\ e[1] \in OnStack /\ e[2] \in OnStack /\ index[a] <= index[e[1]]
          /\ \A c \in Active \ {t} : index[a] < index[c] => index[e[1]] < index[c]
      BY <1>1, <1>3, <2>8 DEF Span
    <3>2. e[1] \in Span(a) \/ (a = b /\ e[1] \in Span(t))
      BY <1>1, <1>5, <3>1, ReturnSpan DEF t
    <3>3. index[e[2]] \in Nat /\ low[a] \in Nat /\ low[t] \in Nat /\ low'[a] \in Nat
      BY <1>2, <2>1, <2>4, <2>5, <3>1
    <3>4. CASE e[1] \in Span(a)
      <4>1. low[a] <= index[e[2]]
        BY <3>1, <3>4 DEF WInv, Lows
      <4> QED
        BY <2>6, <3>3, <4>1
    <3>5. CASE a = b /\ e[1] \in Span(t)
      <4>1. low[t] <= index[e[2]]
        BY <1>2, <3>1, <3>5 DEF WInv, Lows
      <4> QED
        BY <2>3, <2>4, <2>5, <3>3, <3>5, <4>1
    <3> QED
      BY <3>2, <3>4, <3>5
  <2>9. ASSUME NEW a \in Active \ {t}
        PROVE  \E s \in OnStack' : low'[a] = index[s] /\ s \in Reaching(a)
    BY <2>6, <2>7
  <2> QED
    BY <1>1, <1>3, <2>6, <2>8, <2>9 DEF Lows
<1> QED
  BY <1>1, <1>4, <1>5

\* A return of a symbol that reaches a lower one leaves its symbols to the call below.
LEMMA ReturnStays ==
  ASSUME WInv, Return, low[top.at] # index[top.at]
  PROVE  Linked'
<1>0. TypeOK /\ Given /\ Ascending /\ Indexed
  BY DEF WInv
<1> DEFINE t == top.at
<1>1. /\ walk # <<>> /\ UNCHANGED <<given, index>> /\ Active' = Active \ {t} /\ OnStack' = OnStack
  BY <1>0, Returns
<1>2. t \in Active /\ \A a \in Active : a # t => index[a] < index[t]
  BY <1>0, <1>1, Innermost
<1>3. index' = index /\ \A a : Reaching(a)' = Reaching(a)
  BY <1>1, ReachingStep
<1>4. low[t] # index[t]
  OBVIOUS
<1> HIDE DEF t
<1>5. /\ OnStack \subseteq place /\ Active \subseteq OnStack
      /\ \A a \in OnStack : low[a] \in Nat /\ index[a] \in Nat
  BY <1>0, Places DEF Indexed, TypeOK
<1>6. PICK u \in OnStack : low[t] = index[u] /\ u \in Reaching(t) /\ low[t] <= index[t]
  BY <1>2 DEF WInv, Lows
<1>7. PICK d \in Active : index[d] <= index[u] /\ d \in Reaching(u)
  BY DEF WInv, Linked
<1>8. d # t /\ d \in Reaching(t) /\ index[d] < index[t]
  <2>1. d \in Reaching(t)
    BY <1>0, <1>2, <1>5, <1>6, <1>7, ReachingOn
  <2>2. index[u] < index[t]
    BY <1>2, <1>4, <1>5, <1>6
  <2> QED
    BY <1>2, <1>5, <1>7, <2>1, <2>2
<1>9. ASSUME NEW b \in OnStack
      PROVE  \E a \in Active \ {t} : index[a] <= index[b] /\ a \in Reaching(b)
  <2>1. PICK a \in Active : index[a] <= index[b] /\ a \in Reaching(b)
    BY DEF WInv, Linked
  <2>2. CASE a = t
    <3>1. d \in Reaching(b)
      BY <1>0, <1>5, <1>8, <2>1, <2>2, ReachingOn
    <3>2. index[d] <= index[b]
      BY <1>2, <1>5, <1>8, <2>1, <2>2
    <3> QED
      BY <1>8, <3>1, <3>2
  <2> QED
    BY <2>1, <2>2
<1> QED
  BY <1>1, <1>3, <1>9 DEF WInv, Linked
\* No edge leaves the cycles closed, nor the first of them.
LEMMA DoneKept ==
  ASSUME TypeOK, Followed
  PROVE  Kept(Done) /\ \A c \in Cycle : Kept(UNION {found[b] : b \in 1 .. c})
<1>1. Len(found) \in Nat /\ Cycle = 1 .. Len(found)
  BY Places
<1>2. ASSUME NEW e \in adj, NEW c \in Cycle, e[1] \in found[c]
      PROVE  \E d \in Cycle : d <= c /\ e[2] \in found[d]
  <2>1. PICK d \in 1 .. c : e[2] \in found[d]
    BY <1>2 DEF Followed
  <2> QED
    BY <1>1, <2>1
<1>3. Kept(Done)
  BY <1>2 DEF Kept, Done
<1>4. ASSUME NEW c \in Cycle, NEW e \in adj, NEW b \in 1 .. c, e[1] \in found[b]
      PROVE  \E d \in 1 .. c : e[2] \in found[d]
  <2>1. b \in Cycle
    BY <1>1
  <2>2. PICK d \in Cycle : d <= b /\ e[2] \in found[d]
    BY <1>2, <1>4, <2>1
  <2>3. d \in 1 .. c
    BY <1>1, <2>2
  <2> QED
    BY <2>2, <2>3
<1> QED
  BY <1>3, <1>4 DEF Kept

\* A symbol that reaches nothing lower was pushed with the whole of its cycle, and with
\* nothing else.
LEMMA Closing ==
  ASSUME WInv, walk # <<>>, \A b : <<top.at, b>> \notin Waits, low[top.at] = index[top.at]
  PROVE  /\ top.at \in Popped /\ Popped \subseteq OnStack
         /\ \A e \in adj : e[1] \in Popped => e[2] \in Popped \union Done
         /\ \A s \in Popped : Popped = {b \in Reaching(s) : s \in Reaching(b)}
<1>0. TypeOK /\ Given /\ Ascending /\ Indexed
  BY DEF WInv
<1> DEFINE t == top.at
           K == Popped
<1>1. t \in Active /\ \A a \in Active : a # t => index[a] < index[t]
  BY <1>0, Innermost
<1>2. /\ OnStack \subseteq place /\ Active \subseteq OnStack /\ Done \subseteq place
      /\ place \subseteq Symbol /\ adj \subseteq place \X place
      /\ \A a \in OnStack : index[a] \in Nat
  BY <1>0, Places DEF Indexed, TypeOK
<1>3. t \in K /\ K \subseteq OnStack /\ K = {b \in OnStack : index[t] <= index[b]}
  BY <1>1, <1>2 DEF Popped
<1>4. low[t] = index[t] /\ \A b : <<t, b>> \notin Waits
  OBVIOUS
<1> HIDE DEF t, K
<1>5. K \subseteq Span(t)
  <2>1. \A c \in Active : ~(index[t] < index[c])
    BY <1>1, <1>2
  <2> QED
    BY <1>3, <2>1 DEF Span
<1>6. ASSUME NEW e \in adj, e[1] \in K PROVE e[2] \in K \union Done
  <2>1. e \notin Waits
    <3> SUFFICES ASSUME e \in Waits PROVE FALSE
      OBVIOUS
    <3>1. e = <<e[1], e[2]>>
      BY <1>2
    <3>2. e[1] \in Active
      BY DEF Waits, Active
    <3>3. e[1] = t
      BY <1>1, <1>2, <1>3, <1>6, <3>2
    <3> QED
      BY <1>4, <3>1, <3>3
  <2>2. index[e[2]] # Unvisited
    BY <1>3, <1>6, <2>1 DEF WInv, Followed
  <2>3. e[2] \in OnStack \union Done
    BY <1>0, <1>2, <2>2 DEF Indexed
  <2>4. ASSUME e[2] \in OnStack PROVE e[2] \in K
    <3>1. low[t] <= index[e[2]]
      BY <1>1, <1>5, <1>6, <2>1, <2>4 DEF WInv, Lows
    <3> QED
      BY <1>3, <1>4, <2>4, <3>1
  <2> QED
    BY <2>3, <2>4
<1>7. ASSUME NEW s \in K PROVE s \in Reaching(t) /\ t \in Reaching(s)
  <2>1. s \in Reaching(t)
    BY <1>1, <1>3 DEF WInv, Linked
  <2>2. PICK a \in Active : index[a] <= index[s] /\ a \in Reaching(s)
    BY <1>3 DEF WInv, Linked
  <2>3. index[a] <= index[t]
    BY <1>1, <1>2
  <2>4. t \in Reaching(a)
    BY <1>1, <1>2, <2>2, <2>3 DEF WInv, Linked
  <2> QED
    BY <1>0, <1>2, <1>3, <2>1, <2>2, <2>4, ReachingOn
<1>8. Kept(Done)
  BY DoneKept DEF WInv
<1>9. Kept(K \union Done)
  BY <1>6, <1>8 DEF Kept
<1>10. ASSUME NEW s \in K PROVE K = {b \in Reaching(s) : s \in Reaching(b)}
  <2>0. s \in place
    BY <1>2, <1>3
  <2>1. ASSUME NEW b \in K PROVE b \in Reaching(s) /\ s \in Reaching(b)
    BY <1>0, <1>2, <1>3, <1>7, ReachingOn
  <2>2. ASSUME NEW b \in Reaching(s), s \in Reaching(b) PROVE b \in K
    <3>1. b \in K \union Done
      BY <1>0, <1>9, <2>0, ReachingLeast
    <3>2. ASSUME b \in Done PROVE FALSE
      <4>1. Reaching(b) \subseteq Done
        BY <1>0, <1>2, <1>8, <3>2, ReachingLeast
      <4> QED
        BY <1>0, <1>3, <2>2, <4>1 DEF Indexed
    <3> QED
      BY <3>1, <3>2
  <2> QED
    BY <2>1, <2>2
<1> QED
  BY <1>3, <1>6, <1>10 DEF t, K

\* What closing a cycle adds to the cycles closed.
LEMMA Closes ==
  ASSUME TypeOK, NEW K \in SUBSET place, found' = Append(found, K)
  PROVE  /\ Cycle' = Cycle \union {Len(found) + 1} /\ Len(found) + 1 \notin Cycle
         /\ \A c \in Cycle : found'[c] = found[c] /\ c \in Nat /\ c < Len(found) + 1
         /\ found'[Len(found) + 1] = K /\ Done' = Done \union K
<1> DEFINE n == Len(found)
<1>1. n \in Nat /\ Cycle = 1 .. n /\ found \in Seq(SUBSET place)
  BY Places DEF TypeOK
<1>2. /\ found' \in Seq(SUBSET place) /\ Len(found') = n + 1
      /\ \A c \in 1 .. n : found'[c] = found[c]
      /\ found'[n + 1] = K
  BY <1>1, AppendProperties
<1>3. Cycle' = 1 .. n + 1
  BY <1>2, LenProperties DEF Cycle
<1>4. 1 .. n + 1 = (1 .. n) \union {n + 1} /\ n + 1 \notin 1 .. n
  BY <1>1
<1>5. Done' = Done \union K
  BY <1>1, <1>2, <1>3, <1>4 DEF Done
<1> QED
  BY <1>1, <1>2, <1>3, <1>4, <1>5

\* A return of a symbol that reaches nothing lower closes its cycle.
LEMMA ReturnCloses ==
  ASSUME WInv, Return, low[top.at] = index[top.at]
  PROVE  Indexed' /\ Apart' /\ Followed' /\ Linked' /\ Exact'
<1>0. TypeOK /\ Given /\ Ascending /\ Indexed
  BY DEF WInv
<1> DEFINE t == top.at
           K == Popped
           n == Len(found) + 1
<1>1. /\ walk # <<>> /\ UNCHANGED <<given, index>> /\ Active' = Active \ {t}
      /\ Waits' = Waits /\ \A b : <<t, b>> \notin Waits
      /\ found' = Append(found, K) /\ OnStack' = OnStack \ K
  BY <1>0, Returns
<1>2. t \in Active /\ \A a \in Active : a # t => index[a] < index[t]
  BY <1>0, <1>1, Innermost
<1>3. adj' = adj /\ index' = index /\ \A a : Reaching(a)' = Reaching(a)
  BY <1>1, ReachingStep DEF given
<1>4. /\ t \in K /\ K \subseteq OnStack
      /\ \A e \in adj : e[1] \in K => e[2] \in K \union Done
      /\ \A s \in K : K = {b \in Reaching(s) : s \in Reaching(b)}
  BY <1>1, Closing
<1>5. K = {b \in OnStack : index[t] <= index[b]}
  BY DEF Popped
<1> HIDE DEF t, K
<1>6. OnStack \subseteq place /\ Active \subseteq OnStack /\ \A a \in OnStack : index[a] \in Nat
  BY <1>0, Places DEF Indexed, TypeOK
<1>7. /\ Cycle' = Cycle \union {n} /\ n \notin Cycle
      /\ \A c \in Cycle : found'[c] = found[c] /\ c \in Nat /\ c < n
      /\ found'[n] = K /\ Done' = Done \union K
  BY <1>0, <1>1, <1>4, <1>6, Closes
<1>70. n \in Nat /\ Cycle = 1 .. n - 1
  BY <1>0, Places
<1> HIDE DEF n
<1>8. Indexed'
  <2>1. nextIndex' = nextIndex
    BY <1>3 DEF nextIndex
  <2>2. Active' \subseteq OnStack'
    BY <1>1, <1>2, <1>5, <1>6
  <2> QED
    BY <1>0, <1>1, <1>3, <1>4, <1>7, <2>1, <2>2 DEF Indexed
<1>9. Apart'
  <2>1. \A c \in Cycle : found[c] \intersect K = {}
    BY <1>0, <1>4 DEF Indexed, Done
  <2> QED
    BY <1>4, <1>7, <2>1 DEF WInv, Apart
<1>10. Followed'
  <2>1. \A e \in adj \ Waits' : e[1] \in OnStack' => index'[e[2]] # Unvisited
    BY <1>1, <1>3 DEF WInv, Followed
  <2>2. ASSUME NEW e \in adj, e[1] \in K PROVE \E d \in 1 .. n : e[2] \in found'[d]
    <3>1. e[2] \in K \/ \E d \in Cycle : e[2] \in found[d]
      BY <1>4, <2>2 DEF Done
    <3>2. n \in 1 .. n /\ Cycle \subseteq 1 .. n
      <4>1. n \in Nat \ {0}
        <5>1. n # 0
          BY <1>0, Places DEF n
        <5> QED
          BY <1>70, <5>1
      <4> QED
        BY <1>70, <4>1
    <3> QED
      BY <1>7, <3>1, <3>2
  <2>3. ASSUME NEW c \in Cycle, NEW e \in adj, e[1] \in found[c]
        PROVE  \E d \in 1 .. c : e[2] \in found'[d]
    <3>1. PICK d \in 1 .. c : e[2] \in found[d]
      BY <2>3 DEF WInv, Followed
    <3>2. d \in Cycle
      BY <1>70
    <3> QED
      BY <1>7, <3>1, <3>2
  <2> QED
    BY <1>3, <1>7, <2>1, <2>2, <2>3 DEF Followed
<1>11. Linked'
  <2>1. ASSUME NEW b \in OnStack' PROVE \E a \in Active' : index[a] <= index[b] /\ a \in Reaching(b)
    <3>1. b \in OnStack /\ index[b] < index[t]
      BY <1>1, <1>2, <1>5, <1>6
    <3>2. PICK a \in Active : index[a] <= index[b] /\ a \in Reaching(b)
      BY <3>1 DEF WInv, Linked
    <3>3. a # t
      BY <1>6, <1>2, <3>1, <3>2
    <3> QED
      BY <1>1, <3>2, <3>3
  <2> QED
    BY <1>1, <1>3, <2>1 DEF WInv, Linked
<1>12. Exact'
  BY <1>3, <1>4, <1>7 DEF WInv, Exact
<1> QED
  BY <1>8, <1>9, <1>10, <1>11, <1>12

\* Returning, with a cycle closed or not, keeps the invariant.
LEMMA ReturnStep == WInv /\ Return => WInv'
<1> SUFFICES ASSUME WInv, Return PROVE WInv'
  OBVIOUS
<1>0. TypeOK /\ Given /\ Ascending /\ Indexed
  BY DEF WInv
<1>1. TypeOK' /\ Ascending' /\ UNCHANGED <<given, index>>
  BY <1>0, Returns
<1>2. Given' /\ Lows'
  BY <1>0, <1>1, GivenStep, ReturnLows
<1>3. CASE low[top.at] = index[top.at]
  <2>1. Indexed' /\ Apart' /\ Followed' /\ Linked' /\ Exact'
    BY <1>3, ReturnCloses
  <2> QED
    BY <1>1, <1>2, <2>1 DEF WInv
<1>4. CASE low[top.at] # index[top.at]
  <2>1. Linked'
    BY <1>4, ReturnStays
  <2>2. /\ UNCHANGED <<given, index, found>> /\ Waits' = Waits
        /\ Active' = Active \ {top.at} /\ OnStack' = OnStack
    BY <1>0, <1>4, Returns
  <2>3. adj' = adj /\ index' = index /\ found' = found /\ Cycle' = Cycle /\ Done' = Done
        /\ nextIndex' = nextIndex /\ \A a : Reaching(a)' = Reaching(a)
    BY <2>2, ReachingStep DEF given, Cycle, Done, nextIndex
  <2>4. Indexed'
    BY <1>0, <2>2, <2>3 DEF Indexed
  <2>5. Apart' /\ Exact'
    BY <2>3 DEF WInv, Apart, Exact
  <2>6. Followed'
    BY <2>2, <2>3 DEF WInv, Followed
  <2> QED
    BY <1>1, <1>2, <2>1, <2>4, <2>5, <2>6 DEF WInv
<1> QED
  BY <1>3, <1>4
-----------------------------------------------------------------------------
(* The cycles *)

\* The walk starts with nothing reached.
LEMMA WalkInit == Init => WInv
<1> SUFFICES ASSUME Init PROVE WInv
  OBVIOUS
<1>1. Given /\ place \subseteq Symbol /\ heldSet \subseteq place /\ adj \subseteq place \X place
  BY GivenInit, PlaceTypes
<1>2. walk = <<>> /\ stack = <<>> /\ found = <<>> /\ grouped = <<>>
      /\ index = [s \in Symbol |-> Unvisited] /\ low = [s \in Symbol |-> Unvisited]
  BY DEF Init
<1>3. DOMAIN walk = {} /\ DOMAIN stack = {} /\ Cycle = {}
  BY <1>2 DEF Cycle
<1>4. Active = {} /\ OnStack = {} /\ Done = {} /\ Waits = {}
  BY <1>3 DEF Active, OnStack, Done, Waits
<1>5. TypeOK
  <2>1. walk \in Seq([at: place, left: SUBSET place]) /\ stack \in Seq(place)
        /\ found \in Seq(SUBSET place) /\ DOMAIN grouped = {}
    BY <1>2
  <2> QED
    BY <1>1, <1>2, <2>1 DEF TypeOK, Init, Unvisited
<1>6. Indexed
  <2>1. nextIndex = 1
    <3>1. {b \in Symbol : index[b] # Unvisited} = {}
      BY <1>2
    <3> QED
      BY <3>1, FS_EmptySet DEF nextIndex
  <2> QED
    BY <1>2, <1>4, <2>1 DEF Indexed, Unvisited
<1> QED
  BY <1>1, <1>3, <1>4, <1>5, <1>6 DEF WInv, Ascending, Apart, Followed, Linked, Lows, Exact

\* Every step of the walk keeps what the argument is made of, the grouping aside.
LEMMA WalkStep == WInv /\ [Next]_vars /\ ~Group => WInv'
<1> SUFFICES ASSUME WInv, UNCHANGED <<given, walked, grouped>> PROVE WInv'
  BY StartStep, DescendStep, LookStep, ReturnStep DEF Next, vars, given, walked
<1>1. Given' /\ \A a : Reaching(a)' = Reaching(a)
  BY GivenStep, ReachingStep DEF WInv
<1>2. /\ in' = in /\ dependents' = dependents /\ place' = place /\ heldSet' = heldSet /\ adj' = adj
      /\ walk' = walk /\ index' = index /\ low' = low /\ stack' = stack /\ found' = found
      /\ grouped' = grouped
  BY DEF given, walked
<1>3. /\ Active' = Active /\ OnStack' = OnStack /\ Done' = Done /\ Cycle' = Cycle /\ Waits' = Waits
      /\ nextIndex' = nextIndex /\ \A a : Span(a)' = Span(a)
  BY <1>2 DEF Active, OnStack, Done, Cycle, Waits, nextIndex, Span
<1>4. TypeOK' /\ Ascending' /\ Indexed' /\ Apart'
  BY <1>2, <1>3 DEF WInv, TypeOK, Ascending, Indexed, Apart
<1>5. Followed' /\ Linked' /\ Lows' /\ Exact'
  BY <1>1, <1>2, <1>3 DEF WInv, Followed, Linked, Lows, Exact
<1> QED
  BY <1>1, <1>4, <1>5 DEF WInv

\* Once every cycle is closed, each symbol of the subgraph is in one of them.
LEMMA ClosedWhole ==
  ASSUME WInv, Closed
  PROVE  OnStack = {} /\ Done = place
<1>1. Active = {}
  BY DEF Closed, Active
<1>2. OnStack = {}
  BY <1>1 DEF WInv, Linked
<1> QED
  BY <1>2, Places DEF WInv, Closed, Indexed

\* What the walk knows gives what it finds.
LEMMA WalkExact == WInv => CyclesExact
<1> SUFFICES ASSUME WInv, NEW c \in Cycle, NEW s \in found[c]
             PROVE  /\ found[c] = {b \in Reaching(s) : s \in Reaching(b)}
                    /\ Reaching(s) \subseteq UNION {found[b] : b \in 1 .. c}
  BY DEF CyclesExact
<1>1. found[c] = {b \in Reaching(s) : s \in Reaching(b)}
  BY DEF WInv, Exact
<1>2. s \in place /\ c \in 1 .. c
  BY Places DEF WInv, Done
<1>3. Kept(UNION {found[b] : b \in 1 .. c}) /\ s \in UNION {found[b] : b \in 1 .. c}
  BY <1>2, DoneKept DEF WInv
<1>4. Reaching(s) \subseteq UNION {found[b] : b \in 1 .. c}
  BY <1>2, <1>3, ReachingLeast DEF WInv
<1> QED
  BY <1>1, <1>4
-----------------------------------------------------------------------------
(* The order *)

\* What `Sorted' is given: pairs that order a finite set.
Orders(S, before) ==
  /\ IsFiniteSet(S)
  /\ \A a \in S : <<a, a>> \notin before
  /\ \A a, b, c \in S : <<a, b>> \in before /\ <<b, c>> \in before => <<a, c>> \in before
  /\ \A a, b \in S : a # b => <<a, b>> \in before \/ <<b, a>> \in before

\* A sorted sequence lists every element of the set once, in the order of the pairs.
LEMMA SortedLists ==
  ASSUME NEW S, NEW before, Orders(S, before)
  PROVE  LET q == Sorted(S, before) IN
         /\ Cardinality(S) \in Nat /\ DOMAIN q = 1 .. Cardinality(S)
         /\ \A i \in DOMAIN q : q[i] \in S
         /\ \A c \in S : \E i \in DOMAIN q : q[i] = c
         /\ \A i, j \in DOMAIN q : i < j => q[i] # q[j]
         /\ \A i, j \in DOMAIN q : <<q[i], q[j]>> \in before => i < j
<1> DEFINE n == Cardinality(S)
           Ahead(c) == {b \in S : <<b, c>> \in before}
           rank == [c \in S |-> Cardinality(Ahead(c))]
           q == Sorted(S, before)
<1>1. IsFiniteSet(S) /\ n \in Nat
  BY FS_CardinalityType DEF Orders
<1>2. \A c \in S : rank[c] = Cardinality(Ahead(c))
  OBVIOUS
<1> HIDE DEF rank
<1>20. \A c \in S : IsFiniteSet(Ahead(c)) /\ rank[c] \in 0 .. n - 1
  <2> SUFFICES ASSUME NEW c \in S PROVE IsFiniteSet(Ahead(c)) /\ rank[c] \in 0 .. n - 1
    OBVIOUS
  <2>1. Ahead(c) \subseteq S \ {c}
    BY DEF Orders
  <2>2. IsFiniteSet(S \ {c}) /\ Cardinality(S \ {c}) = n - 1
    BY <1>1, FS_RemoveElement
  <2>3. IsFiniteSet(Ahead(c)) /\ Cardinality(Ahead(c)) <= n - 1
    BY <2>1, <2>2, FS_Subset
  <2>4. Cardinality(Ahead(c)) \in Nat
    BY <2>3, FS_CardinalityType
  <2> QED
    BY <1>1, <1>2, <2>3, <2>4
<1>21. \A c \in S : rank[c] \in Nat
  <2> HIDE DEF n, Ahead
  <2> QED
    BY <1>1, <1>20
<1>3. ASSUME NEW a \in S, NEW c \in S, <<a, c>> \in before
      PROVE  rank[a] < rank[c]
  <2>1. Ahead(a) \union {a} \subseteq Ahead(c) /\ a \notin Ahead(a)
    BY <1>3 DEF Orders
  <2>2. Cardinality(Ahead(a) \union {a}) = Cardinality(Ahead(a)) + 1
    BY <1>20, <2>1, FS_AddElement
  <2>3. Cardinality(Ahead(a) \union {a}) <= Cardinality(Ahead(c))
    BY <1>20, <2>1, FS_Subset
  <2>4. Cardinality(Ahead(a)) \in Nat /\ Cardinality(Ahead(c)) \in Nat
    BY <1>20, FS_CardinalityType
  <2> HIDE DEF Ahead
  <2> QED
    BY <1>2, <2>2, <2>3, <2>4
<1>4. \A a, c \in S : rank[a] = rank[c] => a = c
  <2> SUFFICES ASSUME NEW a \in S, NEW c \in S, a # c PROVE rank[a] # rank[c]
    OBVIOUS
  <2>1. <<a, c>> \in before \/ <<c, a>> \in before
    BY DEF Orders
  <2>2. rank[a] < rank[c] \/ rank[c] < rank[a]
    BY <1>3, <2>1
  <2>3. rank[a] \in Nat /\ rank[c] \in Nat
    BY <1>21
  <2> HIDE DEF Ahead
  <2> QED
    BY <2>2, <2>3
<1>5. ASSUME NEW k \in 0 .. n - 1 PROVE \E c \in S : rank[c] = k
  <2>1. rank \in [S -> 0 .. n - 1]
    BY <1>20 DEF rank
  <2> HIDE DEF n
  <2>2. rank \in Injection(S, 0 .. n - 1)
    BY <1>4, <2>1 DEF Injection, IsInjective
  <2>3. IsFiniteSet(0 .. n - 1) /\ Cardinality(0 .. n - 1) = n
    <3>1. 0 \in Int /\ n - 1 \in Int /\ (IF 0 > n - 1 THEN 0 ELSE (n - 1) - 0 + 1) = n
      BY <1>1
    <3> QED
      BY <3>1, FS_Interval
  <2>4. rank \in Surjection(S, 0 .. n - 1)
    BY <2>2, <2>3, FS_Injection DEF n
  <2> QED
    BY <2>4 DEF Surjection
<1>6. DOMAIN q = 1 .. n /\ \A i \in 1 .. n : q[i] = CHOOSE c \in S : rank[c] = i - 1
  <2>1. q = [i \in 1 .. n |-> CHOOSE c \in S : Cardinality(Ahead(c)) = i - 1]
    BY DEF Sorted
  <2>2. ASSUME NEW k
        PROVE  (CHOOSE c \in S : Cardinality(Ahead(c)) = k) = CHOOSE c \in S : rank[c] = k
    BY <1>2
  <2> QED
    BY <2>1, <2>2
<1> HIDE DEF q, n
<1>7. \A i \in 1 .. n : q[i] \in S /\ rank[q[i]] = i - 1
  <2> SUFFICES ASSUME NEW i \in 1 .. n PROVE q[i] \in S /\ rank[q[i]] = i - 1
    OBVIOUS
  <2>1. i - 1 \in 0 .. n - 1
    BY <1>1
  <2>2. \E c \in S : rank[c] = i - 1
    BY <1>5, <2>1
  <2> QED
    BY <1>6, <2>2
<1>8. ASSUME NEW c \in S PROVE \E i \in 1 .. n : q[i] = c
  <2>1. rank[c] \in 0 .. n - 1 /\ rank[c] + 1 \in 1 .. n /\ (rank[c] + 1) - 1 = rank[c]
    <3> HIDE DEF Ahead
    <3> QED
      BY <1>1, <1>20
  <2>2. q[rank[c] + 1] \in S /\ rank[q[rank[c] + 1]] = rank[c]
    BY <1>7, <2>1
  <2> QED
    BY <1>4, <2>1, <2>2
<1>9. ASSUME NEW i \in 1 .. n, NEW j \in 1 .. n, <<q[i], q[j]>> \in before
      PROVE  i < j
  <2>1. rank[q[i]] < rank[q[j]]
    BY <1>3, <1>7, <1>9
  <2> QED
    BY <1>1, <1>7, <2>1
<1>10. ASSUME NEW i \in 1 .. n, NEW j \in 1 .. n, i < j
       PROVE  q[i] # q[j]
  <2>1. rank[q[i]] = i - 1 /\ rank[q[j]] = j - 1
    BY <1>7
  <2> QED
    BY <1>1, <1>10, <2>1
<1> QED
  BY <1>1, <1>6, <1>7, <1>8, <1>9, <1>10 DEF q, n
\* Something comes first.
LEMMA FirstOf ==
  ASSUME NEW S, NEW before, Orders(S, before), S # {}
  PROVE  \E x \in S : \A y \in S : <<y, x>> \notin before
<1> DEFINE q == Sorted(S, before)
           n == Cardinality(S)
<1>1. n \in Nat \ {0}
  BY FS_EmptySet, FS_CardinalityType DEF Orders
<1>2. /\ DOMAIN q = 1 .. n /\ \A i \in DOMAIN q : q[i] \in S
      /\ \A c \in S : \E i \in DOMAIN q : q[i] = c
      /\ \A i, j \in DOMAIN q : <<q[i], q[j]>> \in before => i < j
  BY SortedLists
<1> HIDE DEF q, n
<1>3. 1 \in 1 .. n /\ \A i \in 1 .. n : ~(i < 1)
  BY <1>1
<1>4. ASSUME NEW y \in S PROVE <<y, q[1]>> \notin before
  <2>1. PICK i \in 1 .. n : q[i] = y
    BY <1>2
  <2> QED
    BY <1>2, <1>3, <2>1
<1>5. q[1] \in S
  BY <1>2, <1>3
<1> QED
  BY <1>4, <1>5

\* A finite set of numbers has a greatest and a least.
LEMMA Extremes ==
  ASSUME NEW S \in SUBSET Nat, IsFiniteSet(S), S # {}
  PROVE  /\ Max(S) \in S /\ \A y \in S : y <= Max(S)
         /\ Min(S) \in S /\ \A y \in S : Min(S) <= y
<1> DEFINE up == {e \in S \X S : e[1] < e[2]}
           down == {e \in S \X S : e[2] < e[1]}
<1>1. Orders(S, up) /\ Orders(S, down)
  BY DEF Orders
<1>2. /\ \A x, y \in S : <<y, x>> \notin up => x <= y
      /\ \A x, y \in S : <<y, x>> \notin down => x >= y
  OBVIOUS
<1> HIDE DEF up, down
<1>3. PICK x \in S : \A y \in S : <<y, x>> \notin up
  BY <1>1, FirstOf
<1>4. PICK z \in S : \A y \in S : <<y, z>> \notin down
  BY <1>1, FirstOf
<1>5. Max(S) \in S /\ \A y \in S : Max(S) >= y
  BY <1>2, <1>4 DEF Max
<1>6. Min(S) \in S /\ \A y \in S : Min(S) =< y
  BY <1>2, <1>3 DEF Min
<1> QED
  BY <1>5, <1>6

\* One more than each depth that leads into a cycle.
Into(f, c, n, E) == {0} \union {f[b] + 1 : b \in {b \in 1 .. n : b > c /\ <<b, c>> \in E}}

\* The depth of a cycle is above those that lead into it.
LEMMA IntoMax ==
  ASSUME NEW n \in Nat, NEW E, NEW c, NEW f, \A b \in 1 .. n : b > c => f[b] \in Nat
  PROVE  /\ Max(Into(f, c, n, E)) \in Nat
         /\ \A b \in 1 .. n : b > c /\ <<b, c>> \in E => f[b] < Max(Into(f, c, n, E))
<1> DEFINE B == {b \in 1 .. n : b > c /\ <<b, c>> \in E}
           T == {f[b] + 1 : b \in B}
           up == [b \in B |-> f[b] + 1]
<1>1. IsFiniteSet(B)
  <2>1. IsFiniteSet(1 .. n)
    BY FS_Interval
  <2> QED
    BY <2>1, FS_Subset
<1>2. up \in Surjection(B, T)
  BY DEF Surjection
<1>3. IsFiniteSet(T)
  BY <1>1, <1>2, FS_Surjection
<1>4. T \in SUBSET Nat
  <2>1. \A b \in B : f[b] \in Nat
    OBVIOUS
  <2> HIDE DEF B
  <2> QED
    BY <2>1
<1>5. Into(f, c, n, E) = T \union {0}
  BY DEF Into
<1> HIDE DEF T
<1>6. IsFiniteSet(Into(f, c, n, E)) /\ Into(f, c, n, E) \in SUBSET Nat /\ Into(f, c, n, E) # {}
  BY <1>3, <1>4, <1>5, FS_AddElement
<1>7. /\ Max(Into(f, c, n, E)) \in Nat
      /\ \A y \in Into(f, c, n, E) : y <= Max(Into(f, c, n, E))
  BY <1>6, Extremes
<1>8. ASSUME NEW b \in 1 .. n, b > c /\ <<b, c>> \in E PROVE f[b] < Max(Into(f, c, n, E))
  <2>1. f[b] + 1 \in Into(f, c, n, E) /\ f[b] \in Nat
    BY <1>5, <1>8 DEF T
  <2>2. f[b] + 1 <= Max(Into(f, c, n, E))
    BY <1>7, <2>1
  <2> QED
    BY <1>7, <2>1, <2>2
<1> QED
  BY <1>7, <1>8
\* Depths found from the last cycle down.
IsDepth(d, n, E) == d = [c \in 1 .. n |-> Max(Into(d, c, n, E))]

\* There are such depths.
LEMMA DepthExists ==
  ASSUME NEW n \in Nat, NEW E
  PROVE  \E d : IsDepth(d, n, E)
<1> DEFINE Late(k) == {c \in 1 .. n : n < c + k}
           Up(k, f) == /\ f \in [Late(k) -> Nat]
                       /\ \A c \in Late(k) : f[c] = Max(Into(f, c, n, E))
           Good == {k \in Nat : \E f : Up(k, f)}
<1>1. 0 \in Good
  <2>1. Late(0) = {}
    OBVIOUS
  <2>2. Up(0, [c \in Late(0) |-> 0])
    BY <2>1
  <2> QED
    BY <2>2
<1>2. ASSUME NEW k \in Nat, k \in Good PROVE k + 1 \in Good
  <2>1. PICK f : Up(k, f)
    BY <1>2
  <2> DEFINE h == [c \in Late(k + 1) |-> IF c \in Late(k) THEN f[c] ELSE Max(Into(f, c, n, E))]
  <2>2. /\ Late(k) \subseteq Late(k + 1)
        /\ \A c \in Late(k + 1) : \A b \in 1 .. n : b > c => b \in Late(k)
    OBVIOUS
  <2>3. ASSUME NEW c \in Late(k + 1) PROVE h[c] \in Nat /\ h[c] = Max(Into(f, c, n, E))
    <3>1. \A b \in 1 .. n : b > c => f[b] \in Nat
      BY <2>1, <2>2
    <3>2. Max(Into(f, c, n, E)) \in Nat
      BY <3>1, IntoMax
    <3> QED
      BY <2>1, <3>2
  <2>4. ASSUME NEW c \in Late(k + 1) PROVE Into(h, c, n, E) = Into(f, c, n, E)
    <3>1. \A b \in 1 .. n : b > c => h[b] = f[b]
      BY <2>2
    <3> HIDE DEF h
    <3> QED
      BY <3>1 DEF Into
  <2>5. h \in [Late(k + 1) -> Nat]
    BY <2>3
  <2>6. Up(k + 1, h)
    BY <2>3, <2>4, <2>5
  <2> HIDE DEF h
  <2> QED
    BY <2>6
<1> HIDE DEF Good
<1>3. n \in Good
  BY <1>1, <1>2, Induction
<1>4. PICK f : Up(n, f)
  BY <1>3 DEF Good
<1>5. Late(n) = 1 .. n
  OBVIOUS
<1>6. f = [c \in 1 .. n |-> Max(Into(f, c, n, E))]
  BY <1>4, <1>5
<1> QED
  BY <1>6 DEF IsDepth

\* Depths are numbers, each above those that lead into it.
LEMMA DepthRises ==
  ASSUME NEW n \in Nat, NEW E, NEW d, IsDepth(d, n, E)
  PROVE  /\ d \in [1 .. n -> Nat]
         /\ \A b, c \in 1 .. n : b > c /\ <<b, c>> \in E => d[b] < d[c]
<1> DEFINE Good == {k \in Nat : \A c \in 1 .. n : n < c + k => d[c] \in Nat}
<1>1. \A c \in 1 .. n : d[c] = Max(Into(d, c, n, E))
  BY DEF IsDepth
<1>2. 0 \in Good
  OBVIOUS
<1>3. ASSUME NEW k \in Nat, k \in Good PROVE k + 1 \in Good
  <2>1. \A c \in 1 .. n : n < c + k => d[c] \in Nat
    BY <1>3
  <2>2. ASSUME NEW c \in 1 .. n, n < c + (k + 1) PROVE d[c] \in Nat
    <3>1. \A b \in 1 .. n : b > c => d[b] \in Nat
      BY <2>1, <2>2
    <3> QED
      BY <1>1, <3>1, IntoMax
  <2> QED
    BY <2>2
<1> HIDE DEF Good
<1>4. n \in Good
  BY <1>2, <1>3, Induction
<1>5. \A c \in 1 .. n : d[c] \in Nat
  BY <1>4 DEF Good
<1>6. ASSUME NEW b \in 1 .. n, NEW c \in 1 .. n, b > c, <<b, c>> \in E PROVE d[b] < d[c]
  BY <1>1, <1>5, <1>6, IntoMax
<1>7. d \in [1 .. n -> Nat]
  <2>1. DOMAIN d = 1 .. n /\ d = [c \in 1 .. n |-> d[c]]
    BY DEF IsDepth
  <2> QED
    BY <1>5, <2>1
<1> QED
  BY <1>6, <1>7

\* Every edge between cycles leads to an earlier one.
LEMMA EdgesBack ==
  ASSUME WInv, NEW e \in edges
  PROVE  e[1] \in Cycle /\ e[2] \in Cycle /\ e[1] > e[2] /\ e = <<e[1], e[2]>>
<1>1. /\ e[1] \in Cycle /\ e[2] \in Cycle /\ e[1] # e[2] /\ e = <<e[1], e[2]>>
      /\ \E a \in found[e[1]], b \in found[e[2]] : <<a, b>> \in adj
  BY DEF edges
<1>2. PICK a \in found[e[1]], b \in found[e[2]] : <<a, b>> \in adj
  BY <1>1
<1>3. PICK d \in 1 .. e[1] : b \in found[d]
  BY <1>1, <1>2 DEF WInv, Followed
<1>4. Cycle = 1 .. Len(found) /\ Len(found) \in Nat
  BY Places DEF WInv
<1>5. d \in Cycle
  BY <1>1, <1>3, <1>4
<1>6. d = e[2]
  BY <1>1, <1>2, <1>3, <1>5 DEF WInv, Apart
<1> QED
  BY <1>1, <1>3, <1>4, <1>6

\* The depth of a cycle is above those of the cycles that reach it.
LEMMA Deeper ==
  ASSUME WInv
  PROVE  \E d \in [Cycle -> Nat] : depth = d /\ \A e \in edges : d[e[1]] < d[e[2]]
<1> DEFINE n == Len(found)
           E == edges
           deep == CHOOSE d : d = [c \in 1 .. n |-> Max(Into(d, c, n, E))]
<1>1. n \in Nat /\ Cycle = 1 .. n
  BY Places DEF WInv
<1>2. depth = deep
  BY <1>1 DEF depth, Into
<1>3. \E d : d = [c \in 1 .. n |-> Max(Into(d, c, n, E))]
  BY <1>1, DepthExists DEF IsDepth
<1>4. deep = [c \in 1 .. n |-> Max(Into(deep, c, n, E))]
  BY <1>3
<1> HIDE DEF n, deep
<1>5. deep \in [1 .. n -> Nat] /\ \A b, c \in 1 .. n : b > c /\ <<b, c>> \in E => deep[b] < deep[c]
  BY <1>1, <1>4, DepthRises DEF IsDepth
<1>6. ASSUME NEW e \in edges PROVE deep[e[1]] < deep[e[2]]
  BY <1>1, <1>5, EdgesBack
<1> QED
  BY <1>1, <1>2, <1>5, <1>6

\* The first symbols of two cycles differ.
LEMMA Firsts ==
  ASSUME WInv
  PROVE  \E m \in [Cycle -> Nat] :
           /\ \A c \in Cycle : m[c] = Min(found[c])
           /\ \A a, b \in Cycle : a # b => m[a] # m[b]
<1> DEFINE m == [c \in Cycle |-> Min(found[c])]
<1>1. \A c \in Cycle : Min(found[c]) \in found[c] /\ Min(found[c]) \in Nat
  <2> SUFFICES ASSUME NEW c \in Cycle PROVE Min(found[c]) \in found[c] /\ Min(found[c]) \in Nat
    OBVIOUS
  <2>1. found[c] \in SUBSET place /\ found[c] # {}
    BY DEF WInv, TypeOK, Apart, Cycle
  <2>2. place \subseteq Symbol /\ Symbol \subseteq Nat /\ IsFiniteSet(Symbol)
    BY SweepsAssumption, DependentsAssumption, Places DEF WInv
  <2>3. found[c] \in SUBSET Nat /\ IsFiniteSet(found[c])
    BY <2>1, <2>2, FS_Subset
  <2> QED
    BY <2>1, <2>3, Extremes
<1>2. m \in [Cycle -> Nat] /\ \A c \in Cycle : m[c] = Min(found[c])
  BY <1>1
<1>3. \A a, b \in Cycle : a # b => m[a] # m[b]
  BY <1>1, <1>2 DEF WInv, Apart
<1> QED
  BY <1>2, <1>3

\* The order of the cycles is one, and puts each ahead of those it reaches.
LEMMA OrderIs ==
  ASSUME WInv
  PROVE  \E before : /\ Orders(Cycle, before) /\ order = Sorted(Cycle, before)
                     /\ edges \subseteq before
<1>1. PICK d \in [Cycle -> Nat] : depth = d /\ \A e \in edges : d[e[1]] < d[e[2]]
  BY Deeper
<1>2. PICK m \in [Cycle -> Nat] : /\ \A c \in Cycle : m[c] = Min(found[c])
                                 /\ \A a, b \in Cycle : a # b => m[a] # m[b]
  BY Firsts
<1> DEFINE before == {e \in Cycle \X Cycle :
                        \/ d[e[1]] < d[e[2]]
                        \/ d[e[1]] = d[e[2]] /\ m[e[1]] < m[e[2]]}
<1>3. order = Sorted(Cycle, before)
  <2>1. before = {e \in Cycle \X Cycle :
                    \/ d[e[1]] < d[e[2]]
                    \/ d[e[1]] = d[e[2]] /\ Min(found[e[1]]) < Min(found[e[2]])}
    BY <1>2
  <2> HIDE DEF before
  <2> QED
    BY <1>1, <2>1 DEF order
<1>4. IsFiniteSet(Cycle)
  BY Places, FS_Interval DEF WInv
<1>5. \A a, b \in Cycle : <<a, b>> \in before <=> d[a] < d[b] \/ (d[a] = d[b] /\ m[a] < m[b])
  OBVIOUS
<1> HIDE DEF before
<1>6. Orders(Cycle, before)
  <2>1. \A c \in Cycle : d[c] \in Nat /\ m[c] \in Nat
    OBVIOUS
  <2>2. \A a \in Cycle : <<a, a>> \notin before
    BY <1>5, <2>1
  <2>3. \A a, b, c \in Cycle : <<a, b>> \in before /\ <<b, c>> \in before => <<a, c>> \in before
    BY <1>5, <2>1
  <2>4. \A a, b \in Cycle : a # b => <<a, b>> \in before \/ <<b, a>> \in before
    BY <1>2, <1>5, <2>1
  <2> QED
    BY <1>4, <2>2, <2>3, <2>4 DEF Orders
<1>7. edges \subseteq before
  <2> SUFFICES ASSUME NEW e \in edges PROVE e \in before
    OBVIOUS
  <2> QED
    BY <1>1, <1>5, EdgesBack
<1> QED
  BY <1>3, <1>6, <1>7

\* The order lists every cycle once, and each ahead of those it reaches.
LEMMA OrderLists ==
  ASSUME WInv
  PROVE  /\ Cardinality(Cycle) \in Nat /\ DOMAIN order = 1 .. Cardinality(Cycle)
         /\ \A i \in DOMAIN order : order[i] \in Cycle
         /\ \A c \in Cycle : \E i \in DOMAIN order : order[i] = c
         /\ \A i, j \in DOMAIN order : i < j => order[i] # order[j]
         /\ \A i, j \in DOMAIN order : <<order[i], order[j]>> \in edges => i < j
<1>1. PICK before : /\ Orders(Cycle, before) /\ order = Sorted(Cycle, before)
                    /\ edges \subseteq before
  BY OrderIs
<1> QED
  BY <1>1, SortedLists

\* A deletion meets every cycle before those it reaches.
LEMMA WalkOrders == WInv => OrderFollows
  BY OrderLists DEF OrderFollows
-----------------------------------------------------------------------------
(* The components *)

\* What is grouped is what the cycles group into.
GroupedIs == grouped # <<>> => Closed /\ grouped = componentsOf

IInv == WInv /\ GroupedIs

\* The components follow from what the walk is given and what it found.
LEMMA ComponentsStay == UNCHANGED given /\ UNCHANGED found => componentsOf' = componentsOf
<1> SUFFICES ASSUME UNCHANGED given, UNCHANGED found PROVE componentsOf' = componentsOf
  OBVIOUS
<1>1. Cycle' = Cycle /\ edges' = edges
  BY DEF Cycle, edges, given
<1>2. order' = order
  BY <1>1 DEF order, depth
<1>3. \A s : cycleOf(s)' = cycleOf(s)
  BY <1>1 DEF cycleOf
<1>4. clusters' = clusters
  BY <1>1, <1>3 DEF clusters, links, joints, given
<1>5. \A K : component(K)' = component(K)
  BY <1>1, <1>3 DEF component, contained, g, given
<1> QED
  BY <1>2, <1>4, <1>5 DEF componentsOf

\* Grouping leaves the walk as it is.
LEMMA GroupStep == WInv /\ Group => WInv' /\ GroupedIs'
<1> SUFFICES ASSUME WInv, Group PROVE WInv' /\ GroupedIs'
  OBVIOUS
<1>1. UNCHANGED given /\ UNCHANGED walked /\ Given' /\ \A s : Reaching(s)' = Reaching(s)
  BY GivenStep, ReachingStep DEF Group, WInv
<1>2. UNCHANGED <<walk, index, low, stack, found>>
  BY <1>1 DEF walked
<1>3. componentsOf' = componentsOf
  BY <1>1, <1>2, ComponentsStay
<1>4. \A K : component(K).roots \subseteq component(K).members
  BY DEF component
<1>5. \A n \in DOMAIN grouped' : \E K : grouped'[n] = component(K)
  BY DEF Group, componentsOf
<1>6. TypeOK'
  BY <1>1, <1>2, <1>4, <1>5 DEF WInv, TypeOK, given
<1>7. OnStack' = OnStack /\ Active' = Active /\ Waits' = Waits /\ Done' = Done /\ Cycle' = Cycle
      /\ \A a : Span(a)' = Span(a)
  BY <1>1, <1>2 DEF OnStack, Active, Waits, Done, Cycle, Span, given
<1>8. Ascending' /\ Indexed' /\ Apart'
  <2>1. Ascending'
    BY <1>1, <1>2 DEF WInv, Ascending
  <2>2. Indexed'
    BY <1>1, <1>2, <1>7 DEF WInv, Indexed, given, nextIndex
  <2>3. Apart'
    BY <1>2, <1>7 DEF WInv, Apart
  <2> QED
    BY <2>1, <2>2, <2>3
<1>9. Followed' /\ Linked' /\ Lows' /\ Exact'
  BY <1>1, <1>2, <1>7 DEF WInv, Followed, Linked, Lows, Exact, given
<1>10. GroupedIs'
  BY <1>1, <1>2, <1>3 DEF Group, GroupedIs, Closed, given
<1> QED
  BY <1>1, <1>6, <1>8, <1>9, <1>10 DEF WInv

\* Every step keeps the invariant.
LEMMA InvStep == IInv /\ [Next]_vars => IInv'
<1> SUFFICES ASSUME IInv, [Next]_vars PROVE IInv'
  OBVIOUS
<1>1. CASE Group
  BY <1>1, GroupStep DEF IInv
<1>2. CASE ~Group
  <2>1. WInv'
    BY <1>2, WalkStep DEF IInv
  <2>2. CASE UNCHANGED vars
    <3>1. UNCHANGED <<given, walk, index, found, grouped, place>>
      BY <2>2 DEF vars, given
    <3> QED
      BY <2>1, <3>1, ComponentsStay DEF IInv, GroupedIs, Closed
  <2>3. CASE Start \/ Descend \/ Look \/ Return
    <3>1. UNCHANGED grouped
      BY <2>3 DEF Start, Descend, Look, Return
    <3>2. ~Closed
      BY <2>3 DEF Closed, Start, Descend, Look, Return
    <3> QED
      BY <2>1, <3>1, <3>2 DEF IInv, GroupedIs
  <2> QED
    BY <1>2, <2>2, <2>3 DEF Next
<1> QED
  BY <1>1, <1>2

\* The invariant holds of every state of the walk and after it.
LEMMA Invariant == Spec => []IInv
<1>1. Init => IInv
  BY WalkInit DEF Init, IInv, GroupedIs
<1> QED
  BY <1>1, InvStep, PTL DEF Spec

\* The walk keeps to the symbols of the subgraph, and a component's roots are members.
THEOREM TypeCorrect == Spec => []TypeOK
<1>1. IInv => TypeOK
  BY DEF IInv, WInv
<1> QED
  BY <1>1, Invariant, PTL

\* Every cycle closed is the whole of one, closed after those it reaches, and the order puts it
\* ahead of them.
THEOREM CyclesFound == Spec => []CyclesOrdered
<1>1. IInv => CyclesOrdered
  BY WalkExact, WalkOrders DEF IInv, CyclesOrdered
<1> QED
  BY <1>1, Invariant, PTL
-----------------------------------------------------------------------------
(* The clusters partition the cycles *)

\* Every symbol of the subgraph is in one cycle.
LEMMA CycleOf ==
  ASSUME WInv, Closed, NEW s \in place
  PROVE  /\ cycleOf(s) \in Cycle /\ s \in found[cycleOf(s)]
         /\ \A c \in Cycle : s \in found[c] => c = cycleOf(s)
<1>1. \E c \in Cycle : s \in found[c]
  BY ClosedWhole DEF Done
<1>2. cycleOf(s) \in Cycle /\ s \in found[cycleOf(s)]
  BY <1>1 DEF cycleOf
<1> QED
  BY <1>2 DEF WInv, Apart

\* There are no more cycles than symbols.
LEMMA CyclesFew == WInv => IsFiniteSet(Cycle) /\ Cardinality(Cycle) <= Cardinality(Symbol)
<1> SUFFICES ASSUME WInv PROVE IsFiniteSet(Cycle) /\ Cardinality(Cycle) <= Cardinality(Symbol)
  OBVIOUS
<1> DEFINE one == [c \in Cycle |-> CHOOSE s \in found[c] : TRUE]
<1>1. \A c \in Cycle : one[c] \in found[c] /\ found[c] \subseteq Symbol
  BY PlaceTypes DEF WInv, TypeOK, Apart, Cycle
<1>2. DOMAIN one = Cycle /\ one \in [Cycle -> Symbol]
  BY <1>1
<1> HIDE DEF one
<1>3. \A a, b \in Cycle : one[a] = one[b] => a = b
  BY <1>1 DEF WInv, Apart
<1>4. one \in Injection(Cycle, Symbol)
  BY <1>2, <1>3 DEF Injection, IsInjective
<1> QED
  BY <1>4, SweepsAssumption, FS_Injection

\* A link joins two cycles, both ways.
LEMMA LinkIs ==
  ASSUME WInv, Closed
  PROVE  /\ \A l \in links : l[1] \in Cycle /\ l[2] \in Cycle /\ <<l[2], l[1]>> \in links
         /\ edges \subseteq links
         /\ \A j \in joints : <<cycleOf(j[1]), cycleOf(j[2])>> \in links
<1> DEFINE linked == edges \union {<<cycleOf(j[1]), cycleOf(j[2])>> : j \in joints}
<1>1. \A l \in linked : l = <<l[1], l[2]>> /\ l[1] \in Cycle /\ l[2] \in Cycle
  <2>1. joints \subseteq place \X place
    BY DEF joints
  <2>2. \A j \in joints : cycleOf(j[1]) \in Cycle /\ cycleOf(j[2]) \in Cycle
    BY <2>1, CycleOf
  <2>3. \A e \in edges : e = <<e[1], e[2]>> /\ e[1] \in Cycle /\ e[2] \in Cycle
    BY DEF edges
  <2> QED
    BY <2>2, <2>3
<1>2. /\ edges \subseteq linked
      /\ \A j \in joints : <<cycleOf(j[1]), cycleOf(j[2])>> \in linked
  OBVIOUS
<1>3. links = linked \union {<<l[2], l[1]>> : l \in linked}
  BY DEF links
<1> HIDE DEF linked
<1>4. ASSUME NEW l \in links PROVE l[1] \in Cycle /\ l[2] \in Cycle /\ <<l[2], l[1]>> \in links
  <2>1. CASE l \in linked
    BY <1>1, <1>3, <2>1
  <2>2. CASE \E k \in linked : l = <<k[2], k[1]>>
    <3>1. PICK k \in linked : l = <<k[2], k[1]>>
      BY <2>2
    <3>2. l[1] = k[2] /\ l[2] = k[1] /\ <<l[2], l[1]>> = k
      BY <1>1, <3>1
    <3> QED
      BY <1>1, <1>3, <3>2
  <2> QED
    BY <1>3, <2>1, <2>2
<1> QED
  BY <1>2, <1>3, <1>4

\* What the links join a cycle with.
Joined(c) == closure({c}, {[from |-> l[1], to |-> l[2], gate |-> {}] : l \in links})

\* A cycle's cluster is the least set holding it that no link leaves.
LEMMA JoinedLeast ==
  ASSUME WInv, Closed, NEW c \in Cycle
  PROVE  /\ Joined(c) \subseteq Cycle /\ c \in Joined(c)
         /\ \A l \in links : l[1] \in Joined(c) => l[2] \in Joined(c)
         /\ \A S : c \in S /\ (\A l \in links : l[1] \in S => l[2] \in S) => Joined(c) \subseteq S
<1> DEFINE hops == {[from |-> l[1], to |-> l[2], gate |-> {}] : l \in links}
<1>1. \A l \in links : l[1] \in Cycle /\ l[2] \in Cycle
  BY LinkIs
<1>2. {c} \in SUBSET Cycle /\ \A h \in hops : h.to \in Cycle
  BY <1>1
<1>3. ASSUME NEW S PROVE ClosedUnder(S, hops) <=> \A l \in links : l[1] \in S => l[2] \in S
  <2>1. ASSUME ClosedUnder(S, hops), NEW l \in links, l[1] \in S PROVE l[2] \in S
    <3>1. [from |-> l[1], to |-> l[2], gate |-> {}] \in hops
      OBVIOUS
    <3> QED
      BY <2>1, <3>1 DEF ClosedUnder
  <2>2. ASSUME \A l \in links : l[1] \in S => l[2] \in S, NEW h \in hops, h.from \in S
        PROVE  h.to \in S
    <3>1. PICK l \in links : h = [from |-> l[1], to |-> l[2], gate |-> {}]
      OBVIOUS
    <3> QED
      BY <2>2, <3>1
  <2> QED
    BY <2>1, <2>2 DEF ClosedUnder
<1> HIDE DEF hops
<1>4. /\ closure({c}, hops) \subseteq Cycle /\ {c} \subseteq closure({c}, hops)
      /\ ClosedUnder(closure({c}, hops), hops)
      /\ \A S : {c} \subseteq S /\ ClosedUnder(S, hops) => closure({c}, hops) \subseteq S
  BY <1>2, CyclesFew, ClosureWithin
<1>5. Joined(c) = closure({c}, hops)
  BY DEF Joined, hops
<1> QED
  BY <1>3, <1>4, <1>5

\* Links run both ways, so a cycle joined with another is joined with what that one is.
LEMMA JoinedAlike ==
  ASSUME WInv, Closed, NEW c \in Cycle, NEW b \in Joined(c)
  PROVE  Joined(b) = Joined(c)
<1> DEFINE S == {x \in Joined(c) : c \in Joined(x)}
<1>1. ASSUME NEW l \in links, l[1] \in S PROVE l[2] \in S
  <2>1. l[1] \in Cycle /\ l[2] \in Joined(c) /\ l[2] \in Cycle
    BY <1>1, JoinedLeast
  <2>2. <<l[2], l[1]>> \in links
    BY LinkIs
  <2>3. l[1] \in Joined(l[2])
    <3>1. <<l[2], l[1]>>[1] \in Joined(l[2])
      BY <2>1, JoinedLeast
    <3> QED
      BY <2>1, <2>2, <3>1, JoinedLeast
  <2>4. Joined(l[1]) \subseteq Joined(l[2])
    BY <2>1, <2>3, JoinedLeast
  <2> QED
    BY <1>1, <2>1, <2>4
<1>2. c \in S
  BY JoinedLeast
<1> HIDE DEF S
<1>3. Joined(c) \subseteq S
  BY <1>1, <1>2, JoinedLeast
<1>4. b \in Cycle /\ c \in Joined(b)
  BY <1>3, JoinedLeast DEF S
<1> QED
  BY <1>4, JoinedLeast

\* The clusters are the parts of a partition of the cycles, which no link crosses.
LEMMA ClustersPart ==
  ASSUME WInv, Closed
  PROVE  /\ IsFiniteSet(clusters)
         /\ \A K \in clusters : K \subseteq Cycle /\ \E c \in K : K = Joined(c)
         /\ \A c \in Cycle : \E K \in clusters : c \in K
         /\ \A K, J \in clusters : K # J => K \intersect J = {}
         /\ \A K \in clusters : \A l \in links : l[1] \in K <=> l[2] \in K
<1>1. clusters = {Joined(c) : c \in Cycle}
  BY DEF clusters, Joined
<1>2. \A K \in clusters : K \subseteq Cycle /\ \E c \in K : c \in Cycle /\ K = Joined(c)
  BY <1>1, JoinedLeast
<1>3. IsFiniteSet(clusters)
  <2>1. IsFiniteSet(SUBSET Cycle) /\ clusters \subseteq SUBSET Cycle
    BY <1>2, CyclesFew, FS_SUBSET
  <2> QED
    BY <2>1, FS_Subset
<1>4. \A c \in Cycle : \E K \in clusters : c \in K
  BY <1>1, JoinedLeast
<1>5. \A K, J \in clusters : K # J => K \intersect J = {}
  BY <1>2, JoinedAlike
<1>6. ASSUME NEW K \in clusters, NEW l \in links PROVE l[1] \in K <=> l[2] \in K
  <2>1. <<l[2], l[1]>> \in links
    BY LinkIs
  <2> QED
    BY <1>2, <2>1, JoinedLeast
<1> QED
  BY <1>2, <1>3, <1>4, <1>5, <1>6

\* A sequence that lists each cluster once, at the place of its component.
Numbers(q) ==
  /\ DOMAIN componentsOf = DOMAIN q
  /\ \A n \in DOMAIN q : q[n] \in clusters /\ componentsOf[n] = component(q[n])
  /\ \A K \in clusters : \E n \in DOMAIN q : q[n] = K
  /\ \A n, m \in DOMAIN q : n # m => q[n] # q[m]

\* There is one component for each cluster.
LEMMA ComponentsAre ==
  ASSUME WInv, Closed
  PROVE  \E q : Numbers(q)
<1> DEFINE at(K) == {i \in DOMAIN order : order[i] \in K}
           first(K) == Min(at(K))
           before == {e \in clusters \X clusters : first(e[1]) < first(e[2])}
           q == Sorted(clusters, before)
           N == Cardinality(clusters)
<1>1. \A K \in clusters : first(K) \in Nat /\ first(K) \in DOMAIN order /\ order[first(K)] \in K
  <2> SUFFICES ASSUME NEW K \in clusters
               PROVE  first(K) \in Nat /\ first(K) \in DOMAIN order /\ order[first(K)] \in K
    OBVIOUS
  <2>1. PICK c \in K : c \in Cycle
    BY ClustersPart, JoinedLeast
  <2>2. at(K) # {}
    BY <2>1, OrderLists
  <2>3. DOMAIN order = 1 .. Cardinality(Cycle) /\ Cardinality(Cycle) \in Nat
    BY OrderLists
  <2>4. IsFiniteSet(at(K)) /\ at(K) \in SUBSET Nat
    <3>1. IsFiniteSet(DOMAIN order) /\ DOMAIN order \in SUBSET Nat
      <4> DEFINE last == Cardinality(Cycle)
      <4>1. last \in Nat /\ DOMAIN order = 1 .. last
        BY <2>3
      <4> HIDE DEF last
      <4> QED
        BY <4>1, FS_Interval
    <3>2. at(K) \subseteq DOMAIN order
      OBVIOUS
    <3> HIDE DEF at
    <3> QED
      BY <3>1, <3>2, FS_Subset
  <2>5. first(K) \in at(K)
    <3> HIDE DEF at
    <3> QED
      BY <2>2, <2>4, Extremes
  <2> QED
    BY <2>4, <2>5
<1>2. \A K, J \in clusters : K # J => first(K) # first(J)
  BY <1>1, ClustersPart
<1>3. \A K, J \in clusters : <<K, J>> \in before <=> first(K) < first(J)
  OBVIOUS
<1>4. componentsOf = [n \in DOMAIN q |-> component(q[n])]
  BY DEF componentsOf
<1> HIDE DEF first, before
<1>5. Orders(clusters, before)
  <2>1. \A K \in clusters : <<K, K>> \notin before
    BY <1>1, <1>3
  <2>2. \A K, J, M \in clusters :
          <<K, J>> \in before /\ <<J, M>> \in before => <<K, M>> \in before
    BY <1>1, <1>3
  <2>3. \A K, J \in clusters : K # J => <<K, J>> \in before \/ <<J, K>> \in before
    BY <1>1, <1>2, <1>3
  <2> QED
    BY <2>1, <2>2, <2>3, ClustersPart DEF Orders
<1>6. /\ DOMAIN q = 1 .. N /\ N \in Nat /\ \A i \in DOMAIN q : q[i] \in clusters
      /\ \A K \in clusters : \E i \in DOMAIN q : q[i] = K
      /\ \A i, j \in DOMAIN q : i < j => q[i] # q[j]
  BY <1>5, SortedLists
<1> HIDE DEF q, N
<1>7. \A i, j \in DOMAIN q : i # j => q[i] # q[j]
  <2>1. \A i, j \in 1 .. N : i # j => i < j \/ j < i
    BY <1>6
  <2> QED
    BY <1>6, <2>1
<1>8. Numbers(q)
  BY <1>4, <1>6, <1>7 DEF Numbers
<1> QED
  BY <1>8

\* The members of a cluster's component are the symbols whose cycle it holds.
LEMMA MembersAre ==
  ASSUME WInv, Closed, NEW K \in clusters
  PROVE  /\ component(K).members = {s \in place : cycleOf(s) \in K}
         /\ K # {}
<1>1. K \subseteq Cycle /\ K # {}
  BY ClustersPart, JoinedLeast
<1>2. component(K).members = UNION {found[c] : c \in K}
  BY DEF component
<1>3. \A c \in Cycle : found[c] \subseteq place
  BY DEF WInv, TypeOK, Cycle
<1>4. \A c \in K : \A s \in found[c] : s \in place /\ cycleOf(s) = c
  BY <1>1, <1>3, CycleOf
<1>5. \A s \in place : s \in found[cycleOf(s)]
  BY CycleOf
<1> QED
  BY <1>1, <1>2, <1>4, <1>5

\* The symbols an edge joins are of the same component.
LEMMA EdgesWithin ==
  ASSUME WInv, Closed, NEW K \in clusters, NEW e \in adj
  PROVE  cycleOf(e[1]) \in K <=> cycleOf(e[2]) \in K
<1>1. e[1] \in place /\ e[2] \in place /\ e = <<e[1], e[2]>>
  BY PlaceTypes DEF WInv
<1>2. /\ cycleOf(e[1]) \in Cycle /\ e[1] \in found[cycleOf(e[1])]
      /\ cycleOf(e[2]) \in Cycle /\ e[2] \in found[cycleOf(e[2])]
  BY <1>1, CycleOf
<1>3. CASE cycleOf(e[1]) # cycleOf(e[2])
  <2> DEFINE l == <<cycleOf(e[1]), cycleOf(e[2])>>
  <2>1. \E a \in found[l[1]], b \in found[l[2]] : <<a, b>> \in adj
    BY <1>1, <1>2
  <2>2. l \in edges
    BY <1>2, <1>3, <2>1 DEF edges
  <2>3. l \in links /\ l[1] = cycleOf(e[1]) /\ l[2] = cycleOf(e[2])
    BY <2>2, LinkIs
  <2> HIDE DEF l
  <2> QED
    BY <2>3, ClustersPart
<1> QED
  BY <1>3

\* What a member reaches, and what reaches it, are of its component.
LEMMA ReachingWithin ==
  ASSUME WInv, Closed, NEW K \in clusters, NEW a \in place, NEW b \in Reaching(a)
  PROVE  cycleOf(a) \in K <=> cycleOf(b) \in K
<1> DEFINE S == {s \in place : cycleOf(s) \in K <=> cycleOf(a) \in K}
<1>1. Kept(S)
  BY EdgesWithin, PlaceTypes DEF Kept, WInv
<1>2. Reaching(a) \subseteq S
  BY <1>1, ReachingLeast DEF WInv
<1> QED
  BY <1>2
-----------------------------------------------------------------------------
(* What is held *)

\* A declaration with a dependent that stays is held, and so is what a held one holds.
LEMMA HeldLeast ==
  ASSUME Given
  PROVE  /\ \A s \in place : dependents[s] \intersect live # {} => s \in heldSet
         /\ \A s \in heldSet : heldWith(s) \intersect place \subseteq heldSet
<1> DEFINE seeds == {s \in place : dependents[s] \intersect live # {}}
           hops == UNION {{[from |-> s, to |-> b, gate |-> {}] :
                            b \in heldWith(s) \intersect place} : s \in place}
<1>1. place \subseteq Symbol /\ heldSet \subseteq place
  BY PlaceTypes
<1>2. IsFiniteSet(place) /\ Cardinality(place) <= Cardinality(Symbol)
  BY <1>1, SweepsAssumption, FS_Subset
<1>3. seeds \in SUBSET place /\ \A h \in hops : h.to \in place
  OBVIOUS
<1>4. \A s \in place : \A b \in heldWith(s) \intersect place :
        [from |-> s, to |-> b, gate |-> {}] \in hops
  OBVIOUS
<1>5. heldSet = closure(seeds, hops)
  BY DEF Given, heldClosure
<1> HIDE DEF hops
<1>6. seeds \subseteq heldSet /\ ClosedUnder(heldSet, hops)
  <2> HIDE DEF seeds
  <2> QED
    BY <1>2, <1>3, <1>5, ClosureWithin
<1>7. ASSUME NEW s \in heldSet, NEW b \in heldWith(s) \intersect place PROVE b \in heldSet
  <2>1. [from |-> s, to |-> b, gate |-> {}] \in hops
    BY <1>1, <1>4
  <2> QED
    BY <1>6, <2>1 DEF ClosedUnder
<1> QED
  BY <1>6, <1>7

\* The symbols of a component are alike: all held or none.
LEMMA ComponentAlike ==
  ASSUME WInv, Closed, NEW K \in clusters,
         NEW a \in component(K).members, NEW b \in component(K).members
  PROVE  Alike(a, b)
<1>1. PICK c \in Cycle : K = Joined(c)
  BY ClustersPart
<1> DEFINE S == {x \in Cycle : \A s \in found[c], t \in found[x] : Alike(s, t)}
<1>2. ASSUME NEW x \in Cycle, NEW s \in found[x], NEW t \in found[x] PROVE Alike(s, t)
  <2>1. s \in place /\ t \in Reaching(s)
    BY <1>2 DEF WInv, TypeOK, Cycle, Exact
  <2>2. Kept({y \in place : Alike(s, y)})
    <3>1. \A e \in adj : Alike(e[1], e[2]) /\ e[2] \in place
      BY PlaceTypes DEF WInv, Given, withinHeld
    <3> QED
      BY <3>1 DEF Kept, Alike
  <2>3. s \in {y \in place : Alike(s, y)}
    BY <2>1 DEF Alike
  <2>4. Reaching(s) \subseteq {y \in place : Alike(s, y)}
    BY <2>1, <2>2, <2>3, ReachingLeast DEF WInv
  <2> QED
    BY <2>1, <2>4
<1>3. \A l \in links : \E s \in found[l[1]], t \in found[l[2]] : Alike(s, t)
  <2> DEFINE Meets(l) == \E s \in found[l[1]], t \in found[l[2]] : Alike(s, t)
             linked == edges \union {<<cycleOf(j[1]), cycleOf(j[2])>> : j \in joints}
  <2>1. ASSUME NEW e \in edges PROVE Meets(e)
    <3>1. PICK s \in found[e[1]], t \in found[e[2]] : <<s, t>> \in adj
      BY DEF edges
    <3>2. Alike(<<s, t>>[1], <<s, t>>[2])
      BY <3>1 DEF WInv, Given, withinHeld
    <3> QED
      BY <3>1, <3>2
  <2>2. ASSUME NEW j \in joints PROVE Meets(<<cycleOf(j[1]), cycleOf(j[2])>>)
    <3>1. j[1] \in place \ heldSet /\ j[2] \in place \ heldSet
      BY DEF joints
    <3>2. j[1] \in found[cycleOf(j[1])] /\ j[2] \in found[cycleOf(j[2])]
      BY <3>1, CycleOf
    <3> QED
      BY <3>1, <3>2 DEF Alike
  <2>3. \A l \in linked : Meets(l)
    BY <2>1, <2>2
  <2>4. \A l \in linked : Meets(<<l[2], l[1]>>)
    BY <2>3 DEF Alike
  <2>5. links = linked \union {<<l[2], l[1]>> : l \in linked}
    BY DEF links
  <2> HIDE DEF linked, Meets
  <2>6. \A l \in links : Meets(l)
    BY <2>3, <2>4, <2>5
  <2> QED
    BY <2>6 DEF Meets
<1>4. \A l \in links : l[1] \in S => l[2] \in S
  <2> SUFFICES ASSUME NEW l \in links, l[1] \in S PROVE l[2] \in S
    OBVIOUS
  <2>1. l[1] \in Cycle /\ l[2] \in Cycle
    BY LinkIs
  <2>2. PICK u \in found[l[1]], v \in found[l[2]] : Alike(u, v)
    BY <1>3
  <2>3. \A s \in found[c] : Alike(s, u)
    OBVIOUS
  <2>4. \A t \in found[l[2]] : Alike(v, t)
    BY <1>2, <2>1
  <2> QED
    BY <2>1, <2>2, <2>3, <2>4 DEF Alike
<1>5. c \in S
  BY <1>2
<1> HIDE DEF S
<1>6. K \subseteq S
  BY <1>1, <1>4, <1>5, JoinedLeast
<1>7. /\ cycleOf(a) \in S /\ a \in found[cycleOf(a)]
      /\ cycleOf(b) \in S /\ b \in found[cycleOf(b)]
  BY <1>6, MembersAre, CycleOf
<1>8. PICK s \in found[c] : TRUE
  BY DEF WInv, Apart
<1> QED
  BY <1>7, <1>8 DEF S, Alike

\* Every dead symbol of the subgraph is in one component, and no component is part held.
LEMMA ComponentsPart == IInv => Partitioned
<1> SUFFICES ASSUME IInv, Grouped
             PROVE  /\ \A s \in place :
                         Cardinality({n \in DOMAIN grouped : s \in grouped[n].members}) = 1
                    /\ \A n \in DOMAIN grouped :
                         \/ grouped[n].members \subseteq heldSet
                         \/ grouped[n].members \intersect heldSet = {}
  BY DEF Partitioned
<1>1. CASE grouped = <<>>
  BY <1>1 DEF Grouped
<1>2. CASE grouped # <<>>
  <2>1. WInv /\ Closed /\ grouped = componentsOf
    BY <1>2 DEF IInv, GroupedIs
  <2>20. PICK q : Numbers(q)
    BY <2>1, ComponentsAre
  <2>2. /\ DOMAIN componentsOf = DOMAIN q
        /\ \A n \in DOMAIN q : q[n] \in clusters /\ componentsOf[n] = component(q[n])
        /\ \A K \in clusters : \E n \in DOMAIN q : q[n] = K
        /\ \A n, m \in DOMAIN q : n # m => q[n] # q[m]
    BY <2>20 DEF Numbers
  <2>3. ASSUME NEW s \in place
        PROVE  Cardinality({n \in DOMAIN grouped : s \in grouped[n].members}) = 1
    <3>1. cycleOf(s) \in Cycle
      BY <2>1, CycleOf
    <3>2. PICK K \in clusters : cycleOf(s) \in K
      BY <2>1, <3>1, ClustersPart
    <3>3. PICK n \in DOMAIN q : q[n] = K
      BY <2>2
    <3>4. \A J \in clusters : s \in component(J).members <=> cycleOf(s) \in J
      BY <2>1, MembersAre
    <3>5. \A J \in clusters : cycleOf(s) \in J => J = K
      BY <2>1, <3>2, ClustersPart
    <3>6. {m \in DOMAIN grouped : s \in grouped[m].members} = {n}
      BY <2>1, <2>2, <3>2, <3>3, <3>4, <3>5
    <3> QED
      BY <3>6, FS_Singleton
  <2>4. ASSUME NEW n \in DOMAIN grouped
        PROVE  \/ grouped[n].members \subseteq heldSet
               \/ grouped[n].members \intersect heldSet = {}
    <3>1. q[n] \in clusters /\ grouped[n] = component(q[n])
      BY <2>1, <2>2
    <3>2. \A a, b \in grouped[n].members : Alike(a, b)
      BY <2>1, <3>1, ComponentAlike
    <3> QED
      BY <3>2 DEF Alike
  <2> QED
    BY <2>3, <2>4
<1> QED
  BY <1>1, <1>2

\* Every component grouped is that of a cluster.
LEMMA ComponentOf ==
  ASSUME IInv, Grouped, NEW n \in DOMAIN grouped
  PROVE  WInv /\ Closed /\ \E K \in clusters : grouped[n] = component(K)
<1>1. WInv /\ Closed /\ grouped = componentsOf
  BY DEF IInv, GroupedIs
<1>2. PICK q : Numbers(q)
  BY <1>1, ComponentsAre
<1> QED
  BY <1>1, <1>2 DEF Numbers
-----------------------------------------------------------------------------
(* What a deletion does *)

\* A cycle no other reaches holds a symbol its containers are outside of.
LEMMA SourceUncontained ==
  ASSUME WInv, Closed, NEW x \in Cycle
  PROVE  \E s \in found[x] : ~contained(s)
<1>1. found[x] \subseteq place /\ place \subseteq Symbol /\ found[x] # {}
  BY PlaceTypes DEF WInv, TypeOK, Cycle, Apart
<1>2. PICK s \in found[x] : g.parents[s] \intersect found[x] = {}
  BY <1>1, ContainersAssumption DEF WInv, Given, g
<1>3. ASSUME NEW o \in g.parents[s], o \in place PROVE FALSE
  <2>1. s \in place /\ s \in Symbol /\ o \in Symbol
    BY <1>1, <1>3
  <2>2. <<o, s>> \in deadSubgraph /\ <<s, o>> \in deadSubgraph
    <3>1. <<o, s>> \in place \X place /\ <<s, o>> \in place \X place
      BY <1>3, <2>1
    <3> QED
      BY <1>3, <3>1 DEF deadSubgraph
  <2>3. o \in heldWith(s) /\ s \in heldWith(o)
    BY <1>3, <2>1 DEF heldWith
  <2>4. Alike(o, s) /\ Alike(s, o)
    BY <1>3, <2>1, <2>3, HeldLeast DEF Alike, WInv
  <2>5. <<o, s>> \in adj /\ <<s, o>> \in adj
    BY <2>2, <2>4 DEF WInv, Given, withinHeld
  <2>6. o \in Reaching(s) /\ s \in Reaching(o)
    BY <1>3, <2>1, <2>5, ReachingEdge DEF WInv
  <2>7. o \in found[x]
    BY <2>6 DEF WInv, Exact
  <2> QED
    BY <1>2, <1>3, <2>7
<1>4. ~contained(s)
  BY <1>3 DEF contained
<1> QED
  BY <1>4

\* Every member is reached from a root of its component.
LEMMA RootReaches ==
  ASSUME WInv, Closed, NEW K \in clusters, NEW b \in component(K).members
  PROVE  \E r \in component(K).roots : b \in Reaching(r)
<1>1. b \in place /\ cycleOf(b) \in K
  BY MembersAre
<1> DEFINE A == {c \in Cycle : \E a \in found[c] : b \in Reaching(a)}
<1>2. \A c \in Cycle : found[c] \subseteq place
  BY DEF WInv, TypeOK, Cycle
<1>3. A \in SUBSET Nat /\ IsFiniteSet(A) /\ A # {}
  <2>1. A \subseteq Cycle /\ Cycle \in SUBSET Nat
    BY Places DEF WInv
  <2>2. IsFiniteSet(A)
    BY <2>1, CyclesFew, FS_Subset
  <2>3. cycleOf(b) \in A
    BY <1>1, CycleOf, ReachingLeast DEF WInv
  <2> QED
    BY <2>1, <2>2, <2>3
<1>4. PICK x \in A : \A y \in A : y <= x
  <2> HIDE DEF A
  <2> QED
    BY <1>3, Extremes
<1>5. PICK a \in found[x] : x \in Cycle /\ b \in Reaching(a)
  OBVIOUS
<1>6. ASSUME NEW e \in edges, e[2] = x PROVE FALSE
  <2>1. e[1] \in Cycle /\ e[1] > x
    BY <1>6, EdgesBack
  <2>2. PICK u \in found[e[1]], v \in found[x] : <<u, v>> \in adj
    BY <1>6 DEF edges
  <2>3. u \in place /\ v \in place /\ v \in Reaching(u)
    BY <1>2, <1>5, <2>1, <2>2, ReachingEdge DEF WInv
  <2>4. a \in Reaching(v)
    BY <1>5, <2>2 DEF WInv, Exact
  <2>5. b \in Reaching(u)
    BY <1>5, <2>3, <2>4, ReachingOn DEF WInv
  <2>6. e[1] \in A
    BY <2>1, <2>2, <2>5
  <2> DEFINE y == e[1]
  <2>7. y \in A /\ y > x
    BY <2>1, <2>6
  <2> HIDE DEF A, y
  <2>8. y \in Nat /\ x \in Nat /\ y <= x
    BY <1>3, <1>4, <2>7
  <2> QED
    BY <2>7, <2>8
<1>7. PICK r \in found[x] : ~contained(r)
  BY <1>5, SourceUncontained
<1>8. a \in place /\ r \in place /\ cycleOf(r) = x /\ cycleOf(a) = x
  BY <1>2, <1>5, CycleOf
<1>9. x \in K
  BY <1>1, <1>5, <1>8, ReachingWithin
<1>10. r \in component(K).members
  BY <1>8, <1>9, MembersAre
<1>11. r \in component(K).roots
  BY <1>6, <1>7, <1>8, <1>10 DEF component
<1>12. a \in Reaching(r)
  BY <1>5, <1>7 DEF WInv, Exact
<1>13. b \in Reaching(r)
  BY <1>5, <1>8, <1>12, ReachingOn DEF WInv
<1> QED
  BY <1>11, <1>13

\* A component has a root, and the deletion of its roots falls through to every member.
LEMMA ComponentsReached == IInv => RootsReachMembers
<1> SUFFICES ASSUME IInv, Grouped, NEW n \in DOMAIN grouped
             PROVE  /\ grouped[n].roots # {}
                    /\ grouped[n].members \subseteq UNION {Reaching(r) : r \in grouped[n].roots}
  BY DEF RootsReachMembers
<1>1. PICK K \in clusters : grouped[n] = component(K)
  BY ComponentOf
<1>2. WInv /\ Closed
  BY ComponentOf
<1>3. \A b \in component(K).members : \E r \in component(K).roots : b \in Reaching(r)
  BY <1>2, RootReaches
<1>4. component(K).members # {}
  <2>1. PICK c \in K : c \in Cycle
    BY <1>2, MembersAre, ClustersPart
  <2>2. found[c] # {} /\ found[c] \subseteq component(K).members
    BY <1>2, <2>1 DEF WInv, Apart, component
  <2> QED
    BY <2>2
<1> QED
  BY <1>1, <1>3, <1>4

\* What depends on a member of an unheld component, or references it, is a member too.
LEMMA UnheldWhole ==
  ASSUME WInv, Closed, NEW K \in clusters, ~component(K).held, NEW b \in component(K).members
  PROVE  /\ dependents[b] \subseteq component(K).members
         /\ \A a \in (place \ unref) \ component(K).members : b \notin Targets(a)
<1>1. b \in place /\ b \in Symbol /\ b \notin heldSet /\ cycleOf(b) \in K
  BY MembersAre, PlaceTypes DEF WInv, component
<1>2. ASSUME NEW d \in dependents[b] PROVE d \in component(K).members
  <2>1. d \in Symbol
    BY <1>1, DependentsAssumption DEF WInv, Given
  <2>2. dependents[b] \intersect live = {}
    BY <1>1, HeldLeast DEF WInv
  <2>3. d \in place
    BY <2>1, <2>2 DEF live
  <2>4. b \in heldWith(d)
    BY <1>1, <1>2 DEF heldWith
  <2>5. d \notin heldSet
    BY <1>1, <2>4, HeldLeast DEF WInv
  <2>6. <<b, d>> \in joints
    BY <1>1, <1>2, <2>3, <2>5 DEF joints
  <2>7. <<cycleOf(b), cycleOf(d)>> \in links
    <3>1. <<b, d>>[1] = b /\ <<b, d>>[2] = d
      OBVIOUS
    <3> QED
      BY <2>6, <3>1, LinkIs
  <2>8. cycleOf(d) \in K
    <3> DEFINE l == <<cycleOf(b), cycleOf(d)>>
    <3>1. l \in links /\ l[1] = cycleOf(b) /\ l[2] = cycleOf(d)
      BY <2>7
    <3> HIDE DEF l
    <3> QED
      BY <1>1, <3>1, ClustersPart
  <2> QED
    BY <2>3, <2>8, MembersAre
<1>3. ASSUME NEW a \in place \ unref, b \in Targets(a) PROVE a \in component(K).members
  <2>1. <<a, b>> \in deadSubgraph
    <3>1. <<a, b>> \in place \X place /\ <<a, b>>[1] = a /\ <<a, b>>[2] = b
      BY <1>1
    <3>2. <<a, b>> \in referenceEdges
      BY <1>3, <3>1 DEF referenceEdges
    <3> QED
      BY <3>2 DEF deadSubgraph
  <2>2. b \in heldWith(a)
    BY <1>3 DEF heldWith
  <2>3. Alike(a, b)
    BY <1>1, <2>2, HeldLeast DEF WInv, Alike
  <2>4. <<a, b>> \in adj
    BY <2>1, <2>3 DEF WInv, Given, withinHeld
  <2>5. b \in Reaching(a)
    BY <2>4, ReachingEdge DEF WInv
  <2>6. cycleOf(a) \in K
    BY <1>1, <2>5, ReachingWithin
  <2> QED
    BY <2>6, MembersAre
<1> QED
  BY <1>2, <1>3

\* What is not held is deleted component by component.
LEMMA ComponentsWhole == IInv => DeletesWhole
<1> SUFFICES ASSUME IInv, Grouped, NEW n \in DOMAIN grouped, ~grouped[n].held
             PROVE  /\ \A b \in grouped[n].members :
                         /\ dependents[b] \subseteq grouped[n].members
                         /\ \A a \in (place \ unref) \ grouped[n].members : b \notin Targets(a)
                    /\ grouped[n].members \intersect Needed(judged, judged.reached) \subseteq todc
  BY DEF DeletesWhole
<1>1. PICK K \in clusters : grouped[n] = component(K)
  BY ComponentOf
<1>2. WInv /\ Closed
  BY ComponentOf
<1>3. grouped[n].members \intersect Needed(judged, judged.reached) \subseteq todc
  <2> SUFFICES ASSUME NEW b \in grouped[n].members, b \in Needed(judged, judged.reached)
               PROVE  b \in todc
    OBVIOUS
  <2>1. b \in place
    BY <1>1, <1>2, MembersAre DEF component
  <2>2. b \in judged.dead
    BY <1>2, <2>1 DEF WInv, Given, placed
  <2> QED
    BY <1>2, <2>2 DEF WInv, Given, Dead, todc
<1> QED
  BY <1>1, <1>2, <1>3, UnheldWhole

\* The dead are partitioned into components that a deletion starts at a root, finishes, and
\* removes whole: what depends on a member goes with it, no other component's declaration
\* references one, an unreferenced test's aside, and nothing the sweep reached and keeps
\* needs one, a test of dead code aside.
THEOREM Deletable == Spec => []ComponentsDeletable
<1>1. IInv => ComponentsDeletable
  BY ComponentsPart, ComponentsReached, ComponentsWhole DEF ComponentsDeletable, GroupsWhole
<1> QED
  BY <1>1, Invariant, PTL
=============================================================================
