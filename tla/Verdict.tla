------------------------------- MODULE Verdict -------------------------------
(***************************************************************************)
(* Adjudicating a report: an author records findings, tidies what is stale *)
(* or silences a kind, then a baseline is written in rounds, each a sweep  *)
(* under the records so far (internal/run/baseline.go, sweep.go).  Each    *)
(* report is computed by Findings from the sweeps SweepRules judges and    *)
(* the components Components groups.                                       *)
(***************************************************************************)
EXTENDS Findings

CONSTANTS
  Symbol,
  Outside,
  Trees,     \* the targets analyzed, and how they are configured
  Slips,     \* the records an author may have left behind
  MaxEdits,  \* the most edits before the baseline is written
  MaxRounds  \* the most rounds of a write that are followed

Sweeps == {}
Dependents == {}
Swept(in) == INSTANCE SweepRules
Grouped(in, judged, place, heldSet, adj, found) ==
  INSTANCE Components WITH dependents <- [s \in Symbol |-> {}], walk <- <<>>, index <- <<>>,
                           low <- <<>>, stack <- <<>>, grouped <- <<>>

ASSUME CodesAssumption == ByDead \in DOMAIN RowOf

VARIABLES
  tree,    \* the target
  config,  \* the minimum confidence, and the severity of each kind
  marks,   \* the directives and entries an author wrote
  rows,    \* the rows of the baseline
  edits,   \* how often the author edited
  rounds,  \* how many rounds the write took
  stage,   \* the author edits, the baseline is written, or it is
  due,     \* the next run has not read what changed
  report,  \* what the last run reports
  before   \* what the author edited, and what was reported of it

vars == <<tree, config, marks, rows, edits, rounds, stage, due, report, before>>
-----------------------------------------------------------------------------
\* The sets of the dead that reach each other, each after those it reaches.
cycles(place, adj) ==
  LET reaching == FoldSet(LAMBDA s, paths : paths \union
                            {<<a, b>> \in place \X place : <<a, s>> \in paths /\ <<s, b>> \in paths},
                          adj \union {<<s, s>> : s \in place}, place)
      ahead(s) == Cardinality({p \in reaching : p[1] = s})
  IN SetToSortSeq({{b \in place : <<s, b>> \in reaching /\ <<b, s>> \in reaching} : s \in place},
       LAMBDA b, c : \/ ahead(Min(b)) < ahead(Min(c))
                     \/ ahead(Min(b)) = ahead(Min(c)) /\ Min(b) < Min(c))

\* What one sweep judges under the marks, what of it a component may hold, and the
\* components, each bound to its value.
Judgement(in, reached) ==
  UNION {{[dead |-> v.dead, testOfDeadCode |-> v.testOfDeadCode,
           unreferencedTest |-> v.unreferencedTest, reached |-> reached] :
            v \in {Swept(in)!judge([exemptions |-> TRUE, marked |-> in.p.marked, reached |-> reached])}}}

Placed(in, judged) ==
  UNION {{[place |-> place, held |-> held, adj |-> Grouped(in, judged, place, held, {}, <<>>)!withinHeld] :
            held \in {Grouped(in, judged, place, {}, {}, <<>>)!heldClosure}} :
           place \in {Grouped(in, judged, {}, {}, {}, <<>>)!placed}}

ComponentsOf(in, judged) ==
  UNION {UNION {{Grouped(in, judged, q.place, q.held, q.adj, found)!componentsOf :
                   found \in {cycles(q.place, q.adj)}} : q \in {q \in Placed(in, judged) : q.place # {}}}}
    \union {<<>> : q \in {q \in Placed(in, judged) : q.place = {}}}

\* A sweep as a report reads it.
Read(in, judged, components) ==
  LET full == [exemptions |-> TRUE, marked |-> in.p.marked, reached |-> judged.reached]
      unexempted == Swept(in)!judge([exemptions |-> FALSE, marked |-> in.p.marked,
        reached |-> Swept(in)!pass(Swept(in)!passInput(FALSE, in.p.marked, TRUE))])
  IN [candidates |-> [s \in judged.dead |-> Swept(in)!Candidate(full, judged, s)],
      components |-> components,
      retained |-> {e.of : e \in in.p.exempt} \intersect (unexempted.dead \ judged.dead),
      testUsed |-> Swept(in)!testUsed(judged),
      withdrawn |-> FALSE]

SweepOf(t, marked) ==
  UNION {UNION {UNION {{Read(in, judged, components) : components \in ComponentsOf(in, judged)} :
    judged \in UNION {Judgement(in, reached) : reached \in {Swept(in)!PassOf(3)}}}} :
      in \in {[g |-> t.g, p |-> [t.p EXCEPT !.marked = marked, !.unseen = Unseen(t)]]}}

\* One analysis: the records a run reads, in order, the sweeps under them and without
\* them, and what it reports.
Analyzed(c, written, recorded) ==
  LET f == [tree EXCEPT !.minimum = c.minimum, !.severity = c.severity,
                        !.marks = SetToSeq(written) \o SetToSeq(recorded)]
  IN UNION {{Compute([f EXCEPT !.sweep = v, !.unmarked = u]) : v \in SweepOf(tree, Marked(f))} :
              u \in SweepOf(tree, {})}
-----------------------------------------------------------------------------
Unread == [refused |-> FALSE, findings |-> {}, pending |-> {}, withheld |-> {},
           stale |-> {}, inEffect |-> {}]

Init ==
  /\ tree \in Trees
  /\ config = [minimum |-> tree.minimum, severity |-> tree.severity]
  /\ marks \in Slips
  /\ rows = {}
  /\ edits = 0 /\ rounds = 0
  /\ stage = "edit" /\ due = TRUE
  /\ report = Unread
  /\ before = [config |-> config, marks |-> marks, report |-> Unread]

Analyze ==
  /\ due
  /\ due' = FALSE
  /\ report' \in Analyzed(config, marks, rows)
  /\ UNCHANGED <<tree, config, marks, rows, edits, rounds, stage, before>>

Edit(c, m) ==
  /\ stage = "edit" /\ ~due /\ edits < MaxEdits
  /\ edits' = edits + 1
  /\ config' = c /\ marks' = m
  /\ due' = TRUE
  /\ before' = [config |-> config, marks |-> marks, report |-> report]
  /\ UNCHANGED <<tree, rows, rounds, stage, report>>

\* A directive or an entry for one reported finding.
Record ==
  \E x \in report.findings : Recordable(x) /\ Edit(config, marks \union {Row("inline", x)})

Tidy ==
  \E s \in report.stale : Edit(config, {r \in marks : r.site # s.site})

Silence ==
  \E code \in DOMAIN RowOf :
    /\ config.severity[code] # "allow"
    /\ Edit([config EXCEPT !.severity[code] = "allow"], marks)

\* A baseline write reads none first.
BeginWrite ==
  /\ stage = "edit" /\ ~due
  /\ stage' = "write"
  /\ UNCHANGED <<tree, config, marks, rows, edits, rounds, due, report, before>>

\* A round records what is exposed and removes what is stale, until it does neither.
Round ==
  /\ stage = "write" /\ ~due /\ rounds < MaxRounds
  /\ LET gone == {s.site : s \in report.stale}
         exposed == {Row("baseline", x) : x \in {x \in report.findings : Recordable(x)}}
         now == {r \in rows : r.site \notin gone} \union exposed
     IN /\ rows' = now
        /\ stage' = IF now = rows THEN "written" ELSE "write"
  /\ rounds' = rounds + 1
  /\ due' = TRUE
  /\ UNCHANGED <<tree, config, marks, edits, report, before>>

Next == Analyze \/ Record \/ Tidy \/ Silence \/ BeginWrite \/ Round

Spec == Init /\ [][Next]_vars
-----------------------------------------------------------------------------
(* Properties *)

Sites(r) == {s.site : s \in r.stale}
Drafts(findings) == {x.draft : x \in findings}

\* Nothing withholds a finding yet, or no code of the tests is helper code: a record that keeps
\* a declaration live changes why the helpers of its tests are reported.
UnhelpedUnder(c, m) ==
  \/ /\ m = {} /\ c.minimum = "possible"
     /\ \A code \in DOMAIN RowOf : c.severity[code] # "allow"
  \/ tree.g.inTestFile \union tree.g.support \subseteq {r.at : r \in tree.g.rooted}

\* A record is stale when it withheld nothing: one of a site naming no other code that is
\* reported there goes without a change to the report.
Tidied ==
  \A s \in before.report.stale :
    s.beside = {} /\ config = before.config /\ marks = {r \in before.marks : r.site # s.site}
      => report.findings = before.report.findings

\* A record for a finding withholds it, holds, and makes no other record stale.
Recorded ==
  \A x \in before.report.findings :
    UnhelpedUnder(before.config, before.marks) /\ Recordable(x)
      /\ config = before.config /\ marks = before.marks \union {Row("inline", x)}
      => /\ Row("inline", x) \in report.inEffect
         /\ x.draft \notin Drafts(report.findings)
         /\ Sites(report) \subseteq Sites(before.report)

\* "Turning a kind off never fails the run over the adjudications turning it back on would
\* need" (docs/kinds.md), and takes along what falls with a root it silences.
Silenced ==
  \A code \in DOMAIN RowOf :
    marks = before.marks /\ config = [before.config EXCEPT !.severity[code] = "allow"]
      => /\ Sites(report) \subseteq Sites(before.report)
         /\ Drafts(report.findings) \subseteq Drafts(before.report.findings)
         /\ \A x \in before.report.findings : x.draft.code = code /\ x.root /\ aboutDeclaration(x.draft)
              => \A y \in report.findings : aboutDeclaration(y.draft) => y.draft.id \notin x.members

Adjudicated == stage = "edit" /\ ~due /\ edits > 0 => Tidied /\ Recorded /\ Silenced

\* A baseline write ends, each round but the last adding rows or removing them for good.
\* The document "read back on the tree it was written from then reports no finding a row can
\* withhold and no stale row" (docs/configuration.md).
BaselineSettles ==
  /\ rounds < MaxRounds
  /\ stage = "written" /\ ~due =>
       /\ \A x \in report.findings : ~Recordable(x)
       /\ {r.site : r \in rows} \intersect Sites(report) = {}

\* It does where nothing withholds a finding beforehand, and beside any record where every
\* declaration of a test file is a test.
SettlesUnlessHelped == UnhelpedUnder(config, marks) => BaselineSettles

\* No finding of a component is reported beside a root withheld for its class, nor with
\* more confidence than a root has.
ComponentsWhole ==
  \A x \in report.findings : \A y \in report.findings \union report.pending \union report.withheld :
    x.component = y.component /\ y.root /\ aboutDeclaration(y.draft) =>
      rank(x.confidence) <= rank(y.shared) /\ rank(y.shared) >= rank(config.minimum)

\* No declaration is reported twice, of two kinds or in two components, and a number
\* names one component, numbered apart from the sweep's.
ReportedOnce ==
  LET all == report.findings \union report.pending \union report.withheld IN
  /\ ~report.refused
  /\ \A x, y \in all : x # y =>
       /\ key(x.draft) # key(y.draft)
       /\ x.component = y.component => x.members = y.members /\ x.members # {}
       /\ x.component # y.component => x.members \intersect y.members = {}

\* A finding is reported once, with the whole of its component and no more confidence than
\* the roots of it support.
ReportsWhole == ComponentsWhole /\ ReportedOnce
=============================================================================
