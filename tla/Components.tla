---------------------------- MODULE Components ----------------------------
(***************************************************************************)
(* How the dead symbols one sweep judged are grouped into the components   *)
(* a deletion removes (internal/liveness/component.go): the dead subgraph, *)
(* the held set, Tarjan's walk that finds its cycles, and the clusters of  *)
(* cycles.  Symbols are numbered by site.                                  *)
(***************************************************************************)
EXTENDS SweepRules

CONSTANT Dependents  \* what each constant's dependents may be

ASSUME DependentsAssumption ==
  /\ Symbol \subseteq Nat
  /\ Dependents \subseteq [Symbol -> SUBSET Symbol]

\* Containers enclose what they contain, so the way out of them ends.
ASSUME ContainersAssumption ==
  \A i \in Sweeps : \A S \in SUBSET Symbol : S # {} => \E s \in S : i.g.parents[s] \intersect S = {}

VARIABLES
  dependents,  \* the dependents of each symbol
  judged,      \* the full view the sweep judged, and what it reached
  place,       \* the dead symbols a component may hold
  heldSet,     \* those of them no edit deletes
  adj,         \* the edges the cycles are found over
  walk,        \* the calls of connect, innermost last: a symbol and the edges it has left
  index, low,  \* the order the walk reached each symbol, and the lowest it reaches
  stack,       \* the symbols of open cycles
  found,       \* the cycles closed
  grouped      \* the components, <<>> until every cycle is closed

walked == <<walk, index, low, stack, found>>
given == <<in, dependents, judged, place, heldSet, adj>>
vars == <<in, dependents, judged, place, heldSet, adj, walk, index, low, stack, found, grouped>>

Unvisited == 0
-----------------------------------------------------------------------------
(* The dead subgraph: deadSubgraph, referenceEdges, heldSet, withinHeld *)

todc == judged.testOfDeadCode
unref == judged.unreferencedTest

\* The subject containers of a symbol, theirs, and the symbol.
outermost(s) ==
  {o \in closure({s}, UNION {{[from |-> c, to |-> b, gate |-> {}] :
                                b \in g.parents[c] \intersect g.subject} : c \in Symbol}) :
     g.parents[o] \intersect g.subject = {}}

\* The test-support code nothing references the outermost container of.
unreferencedSupport == {s \in supportCode : outermost(s) \intersect made = {}}

placed == {s \in judged.dead : s \notin testCode \/ s \in todc \union unref \union unreferencedSupport}

Targets(s) == {e.to : e \in Range(using[s])}

\* The references between dead symbols, both ways between an admitted test and what it
\* tests; an unreferenced test declaration's references to production code join nothing.
referenceEdges ==
  LET from == {e \in place \X place :
                 e[2] \in Targets(e[1]) /\ (e[1] \in unref => e[2] \in testCode)}
  IN from \union {<<e[2], e[1]>> : e \in {e \in from :
                    e[1] \in todc /\ e[2] \notin testCode /\ e[2] \in g.subject}}

deadSubgraph ==
  referenceEdges \union {e \in place \X place : e[1] \in g.parents[e[2]] \/ e[2] \in g.parents[e[1]]}

\* Mutant of heldWith: what a held declaration references is not held with it.
ContainersAlone(s) ==
  g.parents[s] \union {c \in Symbol : s \in g.parents[c]} \union {c \in Symbol : s \in dependents[c]}

\* What a held declaration holds: what it references, its containers, its members and the
\* declarations it is a dependent of.
heldWith(s) ==
  Targets(s) \union g.parents[s] \union {c \in Symbol : s \in g.parents[c]}
    \union {c \in Symbol : s \in dependents[c]}

\* A declaration with a dependent that stays is deleted by no edit, nor what it holds.
live == {s \in Symbol : s \notin judged.dead \/ s \in judged.reached \/ s \notin place}

heldClosure ==
  closure({s \in place : dependents[s] \intersect live # {}},
          UNION {{[from |-> s, to |-> b, gate |-> {}] : b \in heldWith(s) \intersect place} :
                   s \in place})

Alike(a, b) == a \in heldSet <=> b \in heldSet

withinHeld == {e \in deadSubgraph : Alike(e[1], e[2])}
joints == {j \in (place \ heldSet) \X (place \ heldSet) : j[2] \in dependents[j[1]]}
-----------------------------------------------------------------------------
(* The clusters: condense, order, clusters, componentsOf *)

Cycle == DOMAIN found
cycleOf(s) == CHOOSE c \in Cycle : s \in found[c]

edges == {e \in Cycle \X Cycle :
            e[1] # e[2] /\ \E a \in found[e[1]], b \in found[e[2]] : <<a, b>> \in adj}

\* The longest path into each cycle, in one pass from the last cycle closed.
depth ==
  LET into == edges
      deep[c \in Cycle] ==
        Max({0} \union {deep[b] + 1 : b \in {b \in Cycle : b > c /\ <<b, c>> \in into}})
  IN deep

\* The elements of a finite set, each after those the pairs put before it.
Sorted(S, before) ==
  [i \in 1 .. Cardinality(S) |->
     CHOOSE c \in S : Cardinality({b \in S : <<b, c>> \in before}) = i - 1]

order ==
  LET deep == depth
  IN Sorted(Cycle, {e \in Cycle \X Cycle :
                      \/ deep[e[1]] < deep[e[2]]
                      \/ deep[e[1]] = deep[e[2]] /\ Min(found[e[1]]) < Min(found[e[2]])})

\* Mutant of links: a cycle takes along only the cycles it reaches.
ForwardLinks == edges \union {<<cycleOf(j[1]), cycleOf(j[2])>> : j \in joints}

\* The cycles a reference or a joint links.
links ==
  LET linked == edges \union {<<cycleOf(j[1]), cycleOf(j[2])>> : j \in joints} IN
  linked \union {<<l[2], l[1]>> : l \in linked}

\* The sets of cycles the links join.
clusters ==
  LET joined == {[from |-> l[1], to |-> l[2], gate |-> {}] : l \in links} IN
  {closure({c}, joined) : c \in Cycle}

contained(s) == g.parents[s] # {} /\ g.parents[s] \subseteq place

component(cluster) ==
  LET members == UNION {found[c] : c \in cluster}
      reached == {e[2] : e \in edges}
  IN
  [members |-> members,
   roots |-> {s \in members : ~contained(s) /\ cycleOf(s) \notin reached},
   held |-> members \intersect heldSet # {}]

\* One component per cluster, at the place its first cycle takes.
componentsOf ==
  LET sequence == order
      first(cluster) == Min({i \in DOMAIN sequence : sequence[i] \in cluster})
      numbered == Sorted(clusters, {e \in clusters \X clusters : first(e[1]) < first(e[2])})
  IN [n \in DOMAIN numbered |-> component(numbered[n])]
-----------------------------------------------------------------------------
\* What the sweep judged in the full view, what it reached first.
Judgements ==
  UNION {{[dead |-> v.dead, testOfDeadCode |-> v.testOfDeadCode,
           unreferencedTest |-> v.unreferencedTest, reached |-> reached] :
            v \in {judge([exemptions |-> TRUE, marked |-> p.marked, reached |-> reached])}} :
           reached \in {PassOf(3)}}

Init ==
  /\ in \in Sweeps
  /\ dependents \in Dependents
  /\ judged \in Judgements
  /\ place = placed /\ heldSet = heldClosure /\ adj = withinHeld
  /\ walk = <<>> /\ stack = <<>> /\ found = <<>> /\ grouped = <<>>
  /\ index = [s \in Symbol |-> Unvisited] /\ low = [s \in Symbol |-> Unvisited]

TypeOK ==
  /\ in \in Sweeps /\ dependents \in Dependents
  /\ place \subseteq Symbol /\ heldSet \subseteq place /\ adj \subseteq place \X place
  /\ walk \in Seq([at: place, left: SUBSET place])
  /\ index \in [Symbol -> Nat] /\ low \in [Symbol -> Nat]
  /\ stack \in Seq(place) /\ found \in Seq(SUBSET place)
  /\ \A n \in DOMAIN grouped : grouped[n].roots \subseteq grouped[n].members

top == Last(walk)
nextIndex == Cardinality({s \in Symbol : index[s] # Unvisited}) + 1

\* connect is called: the symbol takes the next index and is pushed.
Reach(s) ==
  /\ index' = [index EXCEPT ![s] = nextIndex]
  /\ stack' = Append(stack, s)

Start ==
  /\ walk = <<>>
  /\ \E s \in place :
       /\ index[s] = Unvisited
       /\ \A b \in place : index[b] = Unvisited => s <= b
       /\ Reach(s)
       /\ low' = [low EXCEPT ![s] = nextIndex]
       /\ walk' = <<[at |-> s, left |-> {b \in place : <<s, b>> \in adj}]>>
  /\ UNCHANGED <<given, found, grouped>>

Rest(to) == Append(Front(walk), [top EXCEPT !.left = @ \ {to}])

Descend ==
  /\ walk # <<>>
  /\ \E to \in top.left :
       /\ index[to] = Unvisited
       /\ Reach(to)
       /\ low' = [low EXCEPT ![to] = nextIndex]
       /\ walk' = Append(Rest(to), [at |-> to, left |-> {b \in place : <<to, b>> \in adj}])
  /\ UNCHANGED <<given, found, grouped>>

Look ==
  /\ walk # <<>>
  /\ \E to \in top.left :
       /\ index[to] # Unvisited
       /\ low' = IF to \in Range(stack)
                   THEN [low EXCEPT ![top.at] = Min({low[top.at], index[to]})]
                   ELSE low
       /\ walk' = Rest(to)
  /\ UNCHANGED <<given, index, stack, found, grouped>>

\* Mutant of Return: the call below does not keep the lowest index.
ReturnAlone ==
  /\ walk # <<>> /\ top.left = {}
  /\ LET at == CHOOSE i \in DOMAIN stack : stack[i] = top.at IN
     IF low[top.at] = index[top.at]
       THEN /\ found' = Append(found, {stack[i] : i \in at .. Len(stack)})
            /\ stack' = SubSeq(stack, 1, at - 1)
       ELSE UNCHANGED <<found, stack>>
  /\ walk' = Front(walk)
  /\ UNCHANGED <<given, low, index, grouped>>

\* connect returns: a symbol whose walk reaches nothing above it closes its cycle, and
\* the call below keeps the lowest index of the two.
Return ==
  /\ walk # <<>> /\ top.left = {}
  /\ LET at == CHOOSE i \in DOMAIN stack : stack[i] = top.at IN
     IF low[top.at] = index[top.at]
       THEN /\ found' = Append(found, {stack[i] : i \in at .. Len(stack)})
            /\ stack' = SubSeq(stack, 1, at - 1)
       ELSE UNCHANGED <<found, stack>>
  /\ low' = IF Len(walk) = 1 THEN low
            ELSE LET b == walk[Len(walk) - 1].at IN
                 [low EXCEPT ![b] = Min({low[b], low[top.at]})]
  /\ walk' = Front(walk)
  /\ UNCHANGED <<given, index, grouped>>

Closed == walk = <<>> /\ \A s \in place : index[s] # Unvisited

Group ==
  /\ Closed /\ grouped = <<>> /\ place # {}
  /\ grouped' = componentsOf
  /\ UNCHANGED <<given, walked>>

Next == Start \/ Descend \/ Look \/ Return \/ Group

Spec == Init /\ [][Next]_vars
-----------------------------------------------------------------------------
(* Properties *)

Reaching(s) == closure({s}, {[from |-> e[1], to |-> e[2], gate |-> {}] : e \in adj})

\* Every cycle Tarjan's walk closes is the whole of a cycle of the subgraph, and closes
\* after each cycle it reaches, in whatever order the edges are read.
CyclesExact ==
  Closed => \A c \in Cycle : \A s \in found[c] :
    /\ found[c] = {b \in Reaching(s) : s \in Reaching(b)}
    /\ Reaching(s) \subseteq UNION {found[b] : b \in 1 .. c}

Grouped == Closed /\ (place # {} => grouped # <<>>)

\* What is not held is deletable component by component: what depends on a member is a
\* member, no declaration of another component references one, an unreferenced test
\* declaration aside (whose component the report does not join to production code), and
\* nothing the sweep reached and keeps needs one, a test of dead code aside.
DeletesWhole ==
  Grouped => \A n \in DOMAIN grouped : ~grouped[n].held =>
    /\ \A b \in grouped[n].members :
         /\ dependents[b] \subseteq grouped[n].members
         /\ \A a \in (place \ unref) \ grouped[n].members : b \notin Targets(a)
    /\ grouped[n].members \intersect Needed(judged, judged.reached) \subseteq todc

\* "Every component has at least one" root (the comment on Component.Roots), and a
\* deletion that starts at the roots falls through to every member.
RootsReachMembers ==
  Grouped => \A n \in DOMAIN grouped :
    /\ grouped[n].roots # {}
    /\ grouped[n].members \subseteq UNION {Reaching(r) : r \in grouped[n].roots}

\* Each component is numbered by the place of its first cycle, and the order puts every
\* cycle ahead of the cycles it reaches.
OrderFollows ==
  Grouped => LET sequence == order
                 follows == edges
             IN \A i, j \in DOMAIN sequence : <<sequence[i], sequence[j]>> \in follows => i < j

\* Every dead symbol of the subgraph ends in exactly one component, which holds no other
\* of the other kind: no edit of an unheld component touches a declaration no edit deletes.
Partitioned ==
  Grouped =>
    /\ \A s \in place : Cardinality({n \in DOMAIN grouped : s \in grouped[n].members}) = 1
    /\ \A n \in DOMAIN grouped :
         grouped[n].members \subseteq heldSet \/ grouped[n].members \intersect heldSet = {}

\* The walk finds the cycles and numbers them in the order a deletion follows.
CyclesOrdered == CyclesExact /\ OrderFollows

\* The dead are partitioned into components a deletion can start and finish.
GroupsWhole == Partitioned /\ RootsReachMembers

\* The dead are partitioned into components, each started at its roots and, where it is not
\* held, whole: what depends on it, references it or needs it is in it, as far as
\* DeletesWhole says.
ComponentsDeletable == GroupsWhole /\ DeletesWhole
=============================================================================
