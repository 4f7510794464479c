----------------------------- MODULE SweepRules -----------------------------
(***************************************************************************)
(* What one sweep decides of a merged graph under one policy (internal/    *)
(* liveness/sweep.go, tier.go, graph.go): what each mechanism holds, what  *)
(* a view counting some of them judges dead, and which of the dead only    *)
(* tests use.                                                              *)
(***************************************************************************)
EXTENDS EdgeGraph, Naturals, FiniteSets, SequencesExt

CONSTANTS
  Outside,  \* an identifier the inventory does not hold
  Sweeps    \* the graphs and policies swept

(***************************************************************************)
(* A graph: the references each symbol makes and the uses the analysis     *)
(* infers, what declares a symbol (a test file, a test-support package),   *)
(* which symbols the sweep judges, containers, the symbols of packages     *)
(* only tests reach, the roots, and the kinds of consumer file naming it.  *)
(***************************************************************************)
Kind == {"published", "test", "blank", "entry"}
Consumer == {"production", "consumerTest", "testBuild"}

GraphType ==
  [refs: [Symbol -> Seq(Symbol)], uses: [Symbol -> Seq(Symbol)],
   inTestFile: SUBSET Symbol, support: SUBSET Symbol, subject: SUBSET Symbol,
   parents: [Symbol -> SUBSET Symbol], testReached: SUBSET Symbol,
   rooted: SUBSET [at: Symbol, kind: Kind], consumers: [Symbol -> SUBSET Consumer]]

\* An exemption names a symbol and its holders, none where it is a seed.
Exemption == [of: Symbol, holders: SUBSET (Symbol \union {Outside})]

PolicyType ==
  [exempt: SUBSET Exemption, marked: SUBSET Symbol, unseen: SUBSET Symbol,
   tested: SUBSET Symbol, production: BOOLEAN, consumerTests: BOOLEAN]

SweepType == [g: GraphType, p: PolicyType]

(***************************************************************************)
(* Production code references no test code: a package it names is no test- *)
(* support one.  A test file holds no interface method the analysis infers *)
(* uses of, and under a production mode no exemption has a holder in one   *)
(* (such evidence is the policy's `tested').                               *)
(***************************************************************************)
ASSUME SweepsAssumption ==
  /\ IsFiniteSet(Symbol)
  /\ Outside \notin Symbol
  /\ Sweeps \subseteq SweepType
  /\ \A in \in Sweeps :
       /\ \A s \in Symbol :
            /\ Range(in.g.refs[s]) \intersect in.g.inTestFile # {} => s \in in.g.inTestFile
            /\ Range(in.g.refs[s]) \intersect in.g.support # {} =>
                 s \in in.g.inTestFile \union in.g.support
            /\ in.g.uses[s] # <<>> => s \notin in.g.inTestFile
       /\ in.p.production => \A e \in in.p.exempt : e.holders \intersect in.g.inTestFile = {}

VARIABLE in  \* the graph and the policy

g == in.g
p == in.p
-----------------------------------------------------------------------------
(* The graph with the policy's uses: New, Of, using, holderUse, gateOf *)

testCode == g.inTestFile \union g.support

Uses == {e \in p.exempt : e.holders # {}}
exempt == {e.of : e \in p.exempt \ Uses}

\* A gate is waited on where an exemption has several holders, those outside aside.
gateOf(e) == IF Cardinality(e.holders) > 1 THEN e.holders \ {Outside} ELSE {}

HeldEdges(s) ==
  {[to |-> e.of, gate |-> gateOf(e), test |-> s \in g.inTestFile, held |-> TRUE] :
     e \in {e \in Uses : s \in e.holders}}

Plain(s, targets, test) ==
  [i \in DOMAIN targets |-> [to |-> targets[i], gate |-> {}, test |-> test, held |-> FALSE]]

edgesFrom(s) ==
  Plain(s, g.refs[s], s \in testCode) \o Plain(s, g.uses[s], FALSE)
    \o SetToSeq(HeldEdges(s))

using == [s \in Symbol |-> edgesFrom(s)]

\* A blank root an exemption with holders names is yielded to them.
rooted == {[at |-> r.at,
            kind |-> IF r.kind # "blank" THEN r.kind
                     ELSE IF r.at \in {e.of : e \in Uses} THEN "yielded" ELSE "entry"] :
             r \in g.rooted}

\* The consumer files whose references a mode counts.
Counted == {"production"}
  \union (IF ~p.production THEN {"consumerTest", "testBuild"} ELSE {})
  \union (IF p.consumerTests THEN {"consumerTest"} ELSE {})

consumed == {s \in Symbol : g.consumers[s] \intersect Counted # {}}

\* What a called symbol's caller may be: any root but a published or a yielded one, or a
\* consumer.
called == {r.at : r \in {r \in rooted : r.kind \notin {"published", "yielded"}}} \union consumed
yielded == {r.at : r \in {r \in rooted : r.kind = "yielded"}}

\* Every edge to a symbol.
madeEdges == LET out == using IN {e \in UNION {Range(out[a]) : a \in Symbol} : e.to \in Symbol}

\* Mutant of references: no test reference counts, in any mode.
NoTestReference == {e.to : e \in {e \in madeEdges : ~e.held /\ ~e.test}} \union consumed

\* The symbols a counted reference names, and those a counted use of an exemption does.
references ==
  {e.to : e \in {e \in madeEdges : ~e.held /\ (p.production => ~e.test)}} \union consumed
heldMade == {e.to : e \in {e \in madeEdges : e.held /\ (p.production => ~e.test)}}
\* The symbols any reference or use names, and those a test reference does.
made ==
  {e.to : e \in madeEdges} \union {s \in Symbol : g.consumers[s] # {}}
testReferenced ==
  {s \in Symbol : \/ \E a \in testCode : s \in Range(g.refs[a])
                  \/ g.consumers[s] \intersect {"consumerTest", "testBuild"} # {}}
-----------------------------------------------------------------------------
\* The least set holding the seeds and closed under the edges [from, to, gate].
closure(seeds, edges) ==
  LET spread[n \in 0 .. Cardinality(Symbol)] ==
        IF n = 0 THEN seeds
        ELSE LET reached == spread[n - 1] IN
             reached \union
             {e.to : e \in {e \in edges : e.from \in reached /\ e.gate \subseteq reached}}
  IN spread[Cardinality(Symbol)]

\* The edges of a graph a closure follows, as closure reads them.
edgesOf(out, E(_)) ==
  UNION {{[from |-> s, to |-> e.to, gate |-> e.gate] : e \in {e \in Range(out[s]) : E(e)}} :
           s \in Symbol}

\* What one pass reaches: its held seeds' closure, then its callers', then the called roots.
pass(i) ==
  LET HeldRule(e) == HeldFollows(i, e)
      CallerRule(e) == CallerFollows(i, e)
      held == closure(HeldSeeds(i), edgesOf(i.out, HeldRule))
  IN closure(held \union CallerSeeds(i), edgesOf(i.out, CallerRule)) \union CalledRoots(i)

(* The tiers: label, addsAt, pass *)

passInput(exemptions, marked, yields) ==
  [out |-> using, rooted |-> rooted, consumed |-> consumed, exempt |-> exempt,
   marked |-> marked, production |-> p.production, exemptions |-> exemptions,
   yielded |-> yields]

\* What the pass of a tier reaches.
PassOf(t) == pass(passInput(t >= 2, IF t = 3 THEN p.marked ELSE {}, FALSE))

\* Mutant of addsAt: only a seed makes the pass of the exemptions worth running.
SeedsAlone(t) ==
  /\ t = 2 => exempt # {}
  /\ t = 3 => p.marked # {}

\* Whether the pass of a tier has a seed or an edge the one before it lacks.
addsAt(t) ==
  /\ t = 2 => exempt # {} \/ \E s \in Symbol : HeldEdges(s) # {}
  /\ t = 3 => p.marked # {}
-----------------------------------------------------------------------------
(* What a view judges dead *)

held(v) == (IF v.exemptions THEN exempt ELSE {}) \union v.marked

\* What reference counting holds live in the view.
counted(v) ==
  called \union references \union v.marked \union (IF v.exemptions THEN heldMade ELSE {})

\* Mutant of relationDead: a yielded symbol is judged like any other.
UnyieldedDead(v) ==
  (g.subject \ (IF v.exemptions THEN exempt ELSE {})) \ (v.reached \intersect counted(v))

relationDead(v) ==
  (g.subject \ (IF v.exemptions THEN exempt ELSE yielded)) \ (v.reached \intersect counted(v))

supportCode == g.support \ g.inTestFile
TargetEdges(s) == {e.to : e \in Range(edgesFrom(s))}

\* The targets one test references, and which of them are live: production
\* declarations, and the shared test-support code, which counts as live.
targetsOf(s, shared) == {t \in TargetEdges(s) : t \in shared \/ t \in g.subject \ testCode}
liveTargets(s, dead, shared) ==
  {t \in targetsOf(s, shared) : t \in shared \/ t \notin dead \/ t \in p.unseen}

\* The test-support code a test with a live target references too.
sharedSupport(dead) ==
  {u \in supportCode : \E s \in testCode :
     u \in TargetEdges(s) /\ liveTargets(s, dead, {}) # {}}

\* The tests of dead code: they reference something, all of it dead.
admit(v, dead) ==
  LET shared == sharedSupport(dead) IN
  {s \in (testCode \intersect g.subject) \ held(v) :
     targetsOf(s, shared) # {} /\ liveTargets(s, dead, shared) = {}}

\* What the roots, the held symbols, the test evidence and the consumers reach through
\* every edge the view counts, tests of dead code aside.
reachedCountingTests(v, todc) ==
  LET roots == {r.at : r \in {r \in rooted : r.kind = "yielded" => ~v.exemptions}}
      seeds == (roots \union held(v) \union p.tested \union consumed) \ todc
      Rule(e) == e.to \notin todc /\ (e.held => v.exemptions)
  IN closure(seeds, edgesOf(using, Rule))

\* The test-file declarations only reported tests reach.
unreferenced(v, todc) ==
  ((g.subject \intersect g.inTestFile) \ reachedCountingTests(v, todc)) \ (todc \union held(v))

\* Test-support code a reference or test evidence names stays.
keepReferencedSupport(dead, todc) == dead \ ((supportCode \intersect (made \union p.tested)) \ todc)

judge(v) ==
  LET relation == relationDead(v)
      todc == admit(v, relation)
      unref == unreferenced(v, todc)
  IN [dead |-> keepReferencedSupport(relation \union todc \union unref, todc),
      testOfDeadCode |-> todc, unreferencedTest |-> unref]

\* What a test that stays references: reached test code, tests of dead code aside.
keptByTests(v, todc) ==
  {e.to : e \in UNION {{e \in Range(edgesFrom(s)) : e.test} :
                         s \in (testCode \intersect reachedCountingTests(v, todc)) \ todc}}

\* The references made to a symbol, whatever the mode counts: a consumer's tests are
\* production code where the mode says so, and test evidence is a test's reference.
refCount(s, test) ==
  LET edges == {e \in Symbol \X (1 .. Max({Len(edgesFrom(b)) : b \in Symbol})) :
                  LET out == edgesFrom(e[1]) IN
                  e[2] \in DOMAIN out /\ out[e[2]].to = s /\ out[e[2]].test = test}
      Tests == IF p.consumerTests THEN {"testBuild"} ELSE {"testBuild", "consumerTest"}
      Files == IF test THEN Tests ELSE Consumer \ Tests
  IN Cardinality(edges) + Cardinality(g.consumers[s] \intersect Files)
       + (IF test /\ s \in p.tested THEN 1 ELSE 0)

\* A candidate as the findings read it: its counts, the relation that found it, its label.
Candidate(v, judged, s) ==
  LET unref == s \in judged.unreferencedTest
      counts == s \in references \union heldMade
  IN [ofDeadCode |-> s \in judged.testOfDeadCode, unreferenced |-> unref,
      production |-> refCount(s, FALSE), test |-> refCount(s, TRUE),
      relation |-> IF ~counts /\ (~unref \/ s \notin made) THEN "counting" ELSE "reachability",
      kept |-> s \in keptByTests(v, judged.testOfDeadCode), configs |-> {}]

\* The methods a suite runner calls, declared outside the test files: under a production
\* mode each runs, and the pass follows nothing it references.
SuiteMethods == IF p.production THEN {r.at : r \in {r \in g.rooted : r.kind = "test"}} \ g.inTestFile
                ELSE {}

\* What a judged view leaves: what is reached and not dead, the suites' methods aside.
Staying(judged, reached) == reached \ (judged.dead \union SuiteMethods)

\* What that needs: where it makes a reference the mode counts, and what an exemption's
\* holders hold where all of them stay; what a test file declares is held and used by what
\* the sweep judges of test files alone.
Needed(judged, reached) ==
  LET staying == Staying(judged, reached)
      tests == g.inTestFile \intersect g.subject
  IN
  {e.of : e \in {e \in Uses :
     e.holders \subseteq staying /\ (e.of \in g.inTestFile => e.holders \subseteq tests)}}
  \union UNION {{e.to : e \in {e \in Range(using[s]) :
     /\ ~e.held /\ (p.production => ~e.test)
     /\ e.to \in g.inTestFile => s \in tests}} : s \in staying}
-----------------------------------------------------------------------------
(* The candidates only tests use: testUsed, testUseEdges, deadEdges *)

Dead(v) == v.dead \ v.testOfDeadCode
deadProduction(v) == Dead(v) \ g.inTestFile
deadTargets(v, s) == Range(g.refs[s]) \intersect deadProduction(v)

\* Mutant of deadEdges: a dead container takes its members along, no reference does.
ParentEdges(v) ==
  {[from |-> e[1], to |-> e[2], gate |-> {}] :
     e \in {e \in Symbol \X Dead(v) : e[1] \in g.parents[e[2]]}}

deadEdges(v) ==
  {[from |-> e[1], to |-> e[2], gate |-> {}] :
     e \in {e \in Symbol \X Dead(v) : e[2] \in Range(g.refs[e[1]]) \/ e[1] \in g.parents[e[2]]}}

testUseEdges(v) ==
  UNION {{[from |-> d, to |-> t, gate |-> deadTargets(v, t)] : d \in deadTargets(v, t)} :
           t \in v.testOfDeadCode}

testUsed(v) ==
  closure(deadProduction(v) \intersect testReferenced \intersect g.testReached,
          deadEdges(v) \union testUseEdges(v))
=============================================================================
