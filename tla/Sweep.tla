------------------------------- MODULE Sweep -------------------------------
(***************************************************************************)
(* The sweep of one merged graph under one policy (internal/liveness/      *)
(* sweep.go, tier.go): each symbol is settled at the strongest tier that   *)
(* reaches it, the full view is judged, and the views without the marks    *)
(* and without the exemptions tell what each held back.                    *)
(***************************************************************************)
EXTENDS SweepRules

VARIABLES
  next,        \* the step that comes next
  tier,        \* per symbol, the strongest tier reaching it, None for none
  all,         \* the full view judged
  suppressed,  \* the marks that held a symbol back
  retained,    \* the exemptions that did
  used         \* the candidates production code only tests reach is

vars == <<in, next, tier, all, suppressed, retained, used>>

None == 0

\* The full view, the one the marks held back from and the one the exemptions did.
Full == [exemptions |-> TRUE, marked |-> p.marked, reached |-> {s \in Symbol : tier[s] # None}]
Unmarked == [exemptions |-> TRUE, marked |-> {}, reached |-> {s \in Symbol : tier[s] \in {1, 2}}]
Unexempted == [exemptions |-> FALSE, marked |-> suppressed,
               reached |-> pass(passInput(FALSE, suppressed, TRUE))]

\* An exemption with a holder that is dead and unreached held nothing back.
holds(e) == \A h \in e.holders \ {Outside} : h \notin all.dead \/ tier[h] # None
-----------------------------------------------------------------------------
NoView == [dead |-> {}, testOfDeadCode |-> {}, unreferencedTest |-> {}]

TypeOK ==
  /\ in \in SweepType
  /\ next \in 1 .. 7
  /\ tier \in [Symbol -> 0 .. 3]
  /\ all \in [dead: SUBSET Symbol, testOfDeadCode: SUBSET g.subject,
              unreferencedTest: SUBSET g.subject]
  /\ suppressed \subseteq p.marked
  /\ retained \subseteq p.exempt
  /\ used \subseteq Symbol

Init ==
  /\ in \in Sweeps
  /\ next = 1
  /\ tier = [s \in Symbol |-> None]
  /\ all = NoView /\ suppressed = {} /\ retained = {} /\ used = {}

\* The pass of the next tier settles the symbols it is the first to reach; a pass that
\* would repeat the one before it is not run.
Label ==
  /\ next \in 1 .. 3
  /\ tier' = IF addsAt(next)
               THEN [s \in Symbol |-> IF tier[s] = None /\ s \in PassOf(next) THEN next
                                      ELSE tier[s]]
               ELSE tier
  /\ next' = next + 1
  /\ UNCHANGED <<in, all, suppressed, retained, used>>

Judge ==
  /\ next = 4
  /\ all' = judge(Full)
  /\ used' = testUsed(all')
  /\ next' = 5
  /\ UNCHANGED <<in, tier, suppressed, retained>>

Suppress ==
  /\ next = 5
  /\ suppressed' = IF p.marked = {} THEN {} ELSE p.marked \intersect judge(Unmarked).dead
  /\ next' = 6
  /\ UNCHANGED <<in, tier, all, retained, used>>

Retain ==
  /\ next = 6
  /\ retained' = IF p.exempt = {} THEN {}
                 ELSE LET without == judge(Unexempted) IN
                      {e \in p.exempt : e.of \in without.dead \ all.dead /\ holds(e)}
  /\ next' = 7
  /\ UNCHANGED <<in, tier, all, suppressed, used>>

Next == Label \/ Judge \/ Suppress \/ Retain

Spec == Init /\ [][Next]_vars
-----------------------------------------------------------------------------
(* Properties *)

Done == next = 7

\* Every pass the sweep runs is one Pass is shown to answer, and answers as Pass does:
\* each holder of a gate has an edge of its own waiting on it (the comment on `closure').
PassesAnswer ==
  Done => \A i \in {passInput(TRUE, p.marked, FALSE), passInput(FALSE, suppressed, TRUE)} :
            i \in PassInput /\ GateHolders(i) /\ pass(i) = Answer(i)

\* Skipping a pass that adds nothing loses nothing: each symbol is at the first tier
\* whose own pass reaches it.
LabelsWhole ==
  next = 4 => \A s \in Symbol : \A t \in 1 .. 3 :
    s \in PassOf(t) <=> (tier[s] # None /\ tier[s] <= t)

\* The tiers are read from passes that answer the graph, each only where it adds a symbol.
TiersAnswer == PassesAnswer /\ LabelsWhole

\* A mark is in effect exactly where the sweep with every mark withdrawn reports its
\* symbol, though that view is read from the tiers and never swept.
SuppressedWithdrawn ==
  Done => suppressed = p.marked \intersect
            judge([exemptions |-> TRUE, marked |-> {},
                   reached |-> pass(passInput(TRUE, {}, FALSE))]).dead

\* The same graph under the marks in effect and no exemption.
Bare == INSTANCE SweepRules WITH
          in <- [in EXCEPT !.p.exempt = {}, !.p.marked = suppressed]

\* A production declaration's exemption is retained only where the sweep of the graph
\* without any exemption reports the declaration, though that view is judged over the
\* graph that has them.
RetainedWithdrawn ==
  Done => {e.of : e \in retained} \ testCode \subseteq
            Bare!judge([exemptions |-> TRUE, marked |-> suppressed,
                        reached |-> Bare!pass(Bare!passInput(TRUE, suppressed, FALSE))]).dead

\* What withholds a finding would have it reported were it gone.
JudgedWithdrawn == SuppressedWithdrawn /\ RetainedWithdrawn

\* Deleting what is reported leaves nothing dangling: neither a mark nor an exemption
\* names a candidate, and nothing reached that stays needs one, a test of dead code aside.
NothingDangles ==
  Done => /\ held(Full) \intersect all.dead = {}
          /\ Needed(all, Full.reached) \intersect Dead(all) = {}

\* A production candidate withheld because only tests use it references no candidate
\* that is reported.
WithheldClosed ==
  Done => \A s \in used \ testCode : Range(g.refs[s]) \intersect all.dead \subseteq used

\* A report can be deleted: nothing reached that stays, and nothing withheld, needs what it
\* names.
DeletesSafely == NothingDangles /\ WithheldClosed
=============================================================================
