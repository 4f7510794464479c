------------------------------ MODULE Findings ------------------------------
(***************************************************************************)
(* What a run reports of one sweep (internal/findings, the framework):     *)
(* the kind each candidate is reported under, a finding's class and        *)
(* confidence, what the dials withhold, what the suppression records       *)
(* decide, what a declared edge makes pending, and what is numbered.       *)
(***************************************************************************)
EXTENDS FiniteSetsExt, SequencesExt

CONSTANTS
  RowOf,    \* per kind's code, its row of the vocabulary
  None      \* no declaration, and no code

(***************************************************************************)
(* A row: the shape of its subject, whether its subject may be live, the   *)
(* highest class it reports.  An input f holds the configuration (target   *)
(* kind, minimum class, severity per code), the loaded consumers, the      *)
(* graph g, the symbols with what their packages and units are, the sweep  *)
(* under the marks and without them, the records, the drafts of the kinds  *)
(* no sweep decides, and what a type error skips, falls with a write-only  *)
(* subject or is filled by reflection.                                     *)
(***************************************************************************)
classOrder == <<"possible", "probable", "certain">>
rank(c) == CHOOSE n \in 1 .. 3 : classOrder[n] = c
lower(c, other) == IF rank(c) <= rank(other) THEN c ELSE other

container(f, s) ==
  LET parents == f.symbols[s].parents IN
  IF Cardinality(parents) = 1 THEN CHOOSE c \in parents : TRUE ELSE None

Inner == {"field", "interfaceMethod", "typeParam"}

\* A symbol, what declares it, and on while what is left is declared inside another.
within(f, s) ==
  LET up[n \in 0 .. Cardinality(DOMAIN f.symbols)] ==
        IF n = 0 THEN <<s>>
        ELSE LET held == up[n - 1]
                 next == IF f.symbols[Last(held)].kind \in Inner THEN container(f, Last(held)) ELSE None
             IN IF next = None THEN held ELSE Append(held, next)
  IN Range(up[Cardinality(DOMAIN f.symbols)])

skippedWithin(f, s) == s # None /\ within(f, s) \intersect f.skipped # {}
-----------------------------------------------------------------------------
(* The kind of a candidate: codeOf, shapeCode, outsideTheRule, deadParent *)

ByDead == "test-of-dead-code"

shapeCode(f, s) ==
  LET symbol == f.symbols[s] IN
  CASE symbol.kind = "field" -> "unused-member"
    [] symbol.kind # "field" /\ ~symbol.exported -> "unused-unexported"
    [] symbol.kind # "field" /\ symbol.exported /\ ~symbol.importable -> None
    [] OTHER -> "unused-exported"

\* Bug: it falls in the pass with the marks withdrawn too.
fallsWithdrawn(f, v, s) ==
  LET parents == f.symbols[s].parents IN
  parents # {} /\ parents \subseteq DOMAIN v.candidates

\* A member falls with its dead containers; the pass with the marks withdrawn reports it.
deadParent(f, v, s) ==
  LET parents == f.symbols[s].parents IN
  /\ parents # {} /\ ~v.withdrawn
  /\ \A c \in parents :
       /\ c \in DOMAIN v.candidates
       /\ f.symbols[c].inTest => v.candidates[c].unreferenced \/ v.candidates[c].ofDeadCode

testOnly(c) == c.production = 0 /\ c.test > 0
testKept(c) == testOnly(c) \/ (c.test > 0 /\ c.relation = "reachability" /\ c.kept)

outsideTheRule(f, v, s) ==
  LET c == v.candidates[s]
      symbol == f.symbols[s]
  IN \/ c.ofDeadCode \/ symbol.blank \/ (symbol.inTest /\ ~c.unreferenced)
     \/ deadParent(f, v, s)
     \/ IF symbol.kind \in {"interface", "interfaceMethod"} THEN ~symbol.testCalled
        ELSE c.production = 0 /\ c.test = 0 /\ symbol.readOrWrite

codeOf(f, v, s) ==
  LET c == v.candidates[s]
      symbol == f.symbols[s]
  IN CASE outsideTheRule(f, v, s) -> None
       [] c.unreferenced /\ symbol.exported /\ symbol.kind # "field" -> None
       [] c.unreferenced -> shapeCode(f, s)
       [] c.production = 0 /\ symbol.deprecated -> "deprecated-unused"
       [] testKept(c) -> "test-only-use"
       [] OTHER -> shapeCode(f, s)

Draft(code, s, tested) ==
  [code |-> code, id |-> s, decl |-> None, at |-> 0, local |-> FALSE, tested |-> tested,
   testRead |-> FALSE, unseen |-> FALSE]

\* Whether a kind no sweep decides reports its draft: a kind of live subjects reports no
\* candidate, one of unnamed subjects only those nothing names, and a part's kind skips
\* the test code nothing references.
Emits(f, v, d) ==
  CASE d.id # None /\ RowOf[d.code].holdsLive -> d.id \notin DOMAIN v.candidates
    [] d.id # None /\ ~RowOf[d.code].holdsLive ->
         /\ d.id \in DOMAIN v.candidates /\ f.symbols[d.id].readOrWrite
         /\ v.candidates[d.id].production = 0 /\ v.candidates[d.id].test = 0
    [] d.decl # None ->
         \/ d.decl \notin DOMAIN v.candidates
         \/ ~f.symbols[d.decl].inTest /\ ~f.symbols[d.decl].support
         \/ v.candidates[d.decl].test > 0 /\ ~v.candidates[d.decl].unreferenced
    [] OTHER -> TRUE

\* The drafts of one kind: the candidates under its code, and the input's own.
emit(f, v, code) ==
  {Draft(code, s, testOnly(v.candidates[s])) : s \in
     {s \in DOMAIN v.candidates : IF code = ByDead THEN v.candidates[s].ofDeadCode
                                  ELSE codeOf(f, v, s) = code}}
  \union {d \in f.drafts : d.code = code /\ Emits(f, v, d)}
-----------------------------------------------------------------------------
(* The class and the confidence: classOf, capTestUsed, cohere *)

everyConsumerLoaded(f) == f.declared # {} /\ f.declared \subseteq f.loaded

\* A member of an unexported type no published name exposes.
hiddenMember(f, s) ==
  LET owners == within(f, s) \ {s}
      owner == {o \in owners : f.symbols[o].kind # "field"}
  IN /\ f.symbols[s].kind \in {"field", "interfaceMethod"}
     /\ \E o \in owner : ~f.symbols[o].exported /\ f.symbols[o].kind \in {"type", "interface"}
                           /\ ~f.symbols[o].exposed

\* The flag of the deepest unit the symbol's file is in.
unanalysedConsumer(f, s) ==
  LET units == {u \in DOMAIN f.units : IsPrefix(u, f.symbols[s].dir)} IN
  units # {} /\ f.units[CHOOSE u \in units : \A w \in units : Len(w) <= Len(u)]

unlinkedApplicationPackage(f, s) ==
  LET symbol == f.symbols[s] IN
  f.target = "application" /\ f.declared = {} /\ ~symbol.inTest /\ symbol.importable /\ symbol.unlinked

\* A type parameter of a function or a method.
typeParameterSubject(f, s) ==
  /\ f.symbols[s].kind = "typeParam" /\ container(f, s) # None
  /\ f.symbols[container(f, s)].kind \in {"func", "method"}

classOf(f, s) ==
  LET symbol == f.symbols[s] IN
  CASE unlinkedApplicationPackage(f, s) -> "possible"
    [] \/ ~symbol.exported \/ typeParameterSubject(f, s) \/ symbol.inTest
       \/ ~symbol.importable \/ hiddenMember(f, s) -> "certain"
    [] unanalysedConsumer(f, s) -> "possible"
    [] f.target # "library" \/ everyConsumerLoaded(f) -> "certain"
    [] f.declared # {} -> "probable"
    [] OTHER -> "possible"

\* What the sweep may not count a test of: an outside reader is possible.
Unseen(f) ==
  {s \in DOMAIN f.symbols : ~f.symbols[s].inTest /\ ~f.symbols[s].support /\ classOf(f, s) = "possible"}

aboutRow(d) == RowOf[d.code].shape = "row"
aboutDeclaration(d) == RowOf[d.code].shape = "declaration" /\ ~d.local
carriesLiveness(d) == aboutDeclaration(d) /\ ~RowOf[d.code].holdsLive

componentAt(v, s) ==
  LET at == {n \in DOMAIN v.components : s \in v.components[n].members} IN IF at = {} THEN 0 ELSE Min(at)

classes(d, capped, tested) ==
  LET shared == lower(capped, RowOf[d.code].most)
  IN [class |-> IF tested /\ d.code # ByDead THEN "possible" ELSE capped, shared |-> shared,
      confidence |-> IF tested THEN "possible" ELSE shared]

\* Production code only tests use: a candidate of the sweep's, or what the tests read of a
\* package only they reach.
capTestUsed(f, v, d) ==
  /\ d.id # None /\ ~d.local
  /\ \/ ~RowOf[d.code].holdsLive /\ d.id \in v.testUsed
     \/ d.testRead /\ d.id \in f.g.testReached

classify(f, v, d) ==
  classes(d,
    CASE d.id \in f.filled \union f.spelled -> "possible"
      [] d.id \notin f.filled \union f.spelled /\ aboutDeclaration(d) ->
           lower(classOf(f, d.id), IF d.unseen THEN "possible" ELSE "certain")
      [] OTHER -> "certain",
    capTestUsed(f, v, d))

\* The declarations listed with a finding of no component: it, and the dead below it.
fallen(f, v, s) ==
  LET below[n \in 0 .. Cardinality(DOMAIN f.symbols)] ==
        IF n = 0 THEN {s}
        ELSE below[n - 1] \union {c \in DOMAIN v.candidates : f.symbols[c].parents \intersect below[n - 1] # {}}
  IN IF s \notin DOMAIN v.candidates THEN {s} ELSE below[Cardinality(DOMAIN f.symbols)]

\* A finding: a draft with its class, severity, component and configurations.
completed(f, v, d, at, of, class) ==
  [draft |-> d, class |-> class.class, shared |-> class.shared, confidence |-> class.confidence,
   severity |-> f.severity[d.code], component |-> at,
   root |-> IF at = 0 THEN TRUE ELSE d.id \in v.components[at].roots,
   members |-> CASE at # 0 -> v.components[at].members
                 [] at = 0 /\ aboutDeclaration(d) -> fallen(f, v, d.id)
                 [] OTHER -> {},
   fixable |-> /\ of = None \/ ~f.symbols[of].generated
               /\ at # 0 => ~v.components[at].held,
   configs |-> CASE aboutRow(d) -> f.matrix
                 [] ~aboutRow(d) /\ of \in DOMAIN v.candidates /\ v.candidates[of].configs # {} ->
                      v.candidates[of].configs
                 [] OTHER -> f.symbols[of].configs]

complete(f, v, d) ==
  completed(f, v, d, IF aboutDeclaration(d) THEN componentAt(v, d.id) ELSE 0,
            IF d.id # None THEN d.id ELSE d.decl, classify(f, v, d))

\* Bug: a component's findings keep their own confidence.
cohereNone(findings) == findings

\* No finding of a component is more confident than its least confident root.
cohere(findings) ==
  LET roots(c) == {x \in findings : c # 0 /\ x.component = c /\ x.root}
      Capped(c, class) == classOrder[Min({rank(x.shared) : x \in roots(c)} \union {rank(class)})]
  IN {[x EXCEPT !.confidence = Capped(x.component, @), !.shared = Capped(x.component, @)] :
        x \in findings}
-----------------------------------------------------------------------------
(* The phase: every kind's drafts *)

key(d) == CASE d.decl # None -> <<"part", d.decl, d.at>>
            [] d.decl = None /\ d.id # None -> <<"declaration", d.id>>
            [] OTHER -> <<"row", d.code, d.at>>

\* A finding the framework refuses: one already reported, or one an exemption retained.
Refuses(v, drafts) ==
  \/ \E d, e \in drafts : d # e /\ key(d) = key(e)
  \/ \E d \in drafts : aboutDeclaration(d) /\ d.id \in v.retained

\* The drafts that stay are findings, apart from those about what a type error skips.
phased(f, v, drafts, kept) ==
  LET skips == {d \in kept : ~aboutRow(d) /\ skippedWithin(f, IF d.id # None THEN d.id ELSE d.decl)}
      done == {<<d, complete(f, v, d)>> : d \in kept}
  IN [refused |-> Refuses(v, drafts),
      findings |-> {p[2] : p \in {p \in done : p[1] \notin skips}},
      skipped |-> {p[2] : p \in {p \in done : p[1] \in skips}}]

phaseOf(f, v, drafts) == phased(f, v, drafts, {d \in drafts : d.id = None \/ d.id \notin f.falling})

phase(f, v, codes) == phaseOf(f, v, UNION {emit(f, v, code) : code \in codes})

\* The components whose root a dial withholds, and those the severity alone does.
dial(f, findings) ==
  LET roots == {x \in findings : x.root /\ x.component # 0}
      allowed == {x \in roots : x.severity = "allow"}
      below == {x \in roots : rank(x.shared) < rank(f.minimum)}
  IN [components |-> {x.component : x \in allowed \union below},
      allowed |-> {x.component : x \in allowed}]

withholds(f, dialed, x) ==
  \/ x.severity = "allow" \/ x.component \in dialed.allowed
  \/ rank(x.confidence) < rank(f.minimum)
  \/ x.component \in dialed.components
-----------------------------------------------------------------------------
(* The suppression ledger.  A record marks where it is bound and its kind judges liveness; *)
(* what the published ledger decides of it is given by the code that asks it. *)

MarksLive(r) == r.bound # None /\ RowOf[r.code].shape = "declaration" /\ ~RowOf[r.code].holdsLive
Marked(f) == {r.bound : r \in {r \in Range(f.marks) : MarksLive(r)}}

declarationOf(d) == IF d.id # None THEN d.id ELSE d.decl
Matches(r, x) == r.bound # None /\ x.draft.code = r.code /\ declarationOf(x.draft) = r.bound

\* Bug: the ledger is decided against what the marks left.
decideMarked(f, findings, skipped) ==
  LET dialed == dial(f, findings)
      Of(all, skips) == {[finding |-> x, withheld |-> skips \/ withholds(f, dialed, x)] : x \in all}
  IN Of(findings, FALSE) \union Of(skipped, TRUE)

\* What the run would find were no record there, and what of it a dial or a skip withholds.
heardOf(f, dialed, findings, skipped, live) ==
  {[finding |-> x, withheld |-> withholds(f, dialed, x)] :
     x \in {x \in findings : carriesLiveness(x.draft) = live}}
    \union {[finding |-> x, withheld |-> TRUE] : x \in {x \in skipped : carriesLiveness(x.draft) = live}}

universeOf(f, findings, skipped, would, wouldSkip) ==
  heardOf(f, dial(f, findings), findings, skipped, FALSE)
    \union heardOf(f, dial(f, would), would, wouldSkip, TRUE)

decide(f, findings, skipped) ==
  LET liveness == {c \in DOMAIN RowOf : RowOf[c].shape = "declaration" /\ ~RowOf[c].holdsLive}
      Unmarked(p) == universeOf(f, findings, skipped, cohere(p.findings), p.skipped)
  IN CASE f.marks = <<>> -> {}
       [] f.marks # <<>> /\ Marked(f) = {} -> universeOf(f, findings, skipped, findings, skipped)
       [] OTHER -> Unmarked(phase(f, [f.unmarked EXCEPT !.withdrawn = TRUE], liveness))

matched(r, universe) == {u \in universe : Matches(r, u.finding)}
inEffect(r, universe) == \E u \in matched(r, universe) : ~u.withheld
dormant(f, r, universe) ==
  ~inEffect(r, universe) /\ r.bound # None /\ (f.severity[r.code] = "allow" \/ matched(r, universe) # {})
isStale(f, r, universe) == ~inEffect(r, universe) /\ ~dormant(f, r, universe)
suppressed(f, universe, x) == \E r \in Range(f.marks) : inEffect(r, universe) /\ Matches(r, x)

\* One stale suppression per site whose every record is stale, and the other codes the
\* declarations it bound would report.
staleSites(f, universe) ==
  LET At(site) == {r \in Range(f.marks) : r.site = site}
      sites == {s \in {r.site : r \in Range(f.marks)} : \A r \in At(s) : isStale(f, r, universe)}
  IN {[site |-> s, names |-> {r.code : r \in At(s)},
       beside |-> {u.finding.draft.code : u \in {u \in universe :
                     /\ declarationOf(u.finding.draft) \in {r.bound : r \in At(s)} \ {None}
                     /\ u.finding.draft.code \notin {r.code : r \in At(s)}}}] : s \in sites}

\* The findings no dial withholds, and those the minimum alone does.
reportable(f, findings, universe) ==
  LET Of(dialed, heard) ==
        [kept |-> {x \in heard : ~withholds(f, dialed, x)},
         withheld |-> {x \in heard : x.severity # "allow" /\ x.component \notin dialed.allowed
                                        /\ withholds(f, dialed, x)}]
  IN Of(dial(f, findings), {x \in findings : ~suppressed(f, universe, x)})

\* A declared edge's own side is absent, live, or dead with the finding it makes pending.
evaluate(f, findings) ==
  LET About(s) == {x \in findings : s # None /\ x.draft.id = s}
  IN [kept |-> findings \ UNION {About(s) : s \in Range(f.edges)},
      evaluations |-> [n \in DOMAIN f.edges |->
        [state |-> CASE f.edges[n] = None -> "absent"
                     [] f.edges[n] # None /\ About(f.edges[n]) = {} -> "live"
                     [] OTHER -> "dead",
         pending |-> About(f.edges[n])]]]

\* Bug: the findings of no component are numbered as the sweep's components are.
mintFrom(held, findings) ==
  [i \in DOMAIN findings |-> IF findings[i].component = 0
     THEN [findings[i] EXCEPT !.component = i] ELSE findings[i]]

\* A finding of no component the sweep computed gets a number of its own past theirs.
mint(held, findings) ==
  [i \in DOMAIN findings |-> IF findings[i].component # 0 THEN findings[i]
     ELSE [findings[i] EXCEPT !.component =
             held + Cardinality({j \in 1 .. i : findings[j].component = 0})]]

\* What is reported of what no dial withholds and no record suppresses: the findings a
\* declared edge leaves, those it makes pending and those the minimum withheld, numbered in
\* that order.
number(f, evaluated, withheld, universe) ==
  LET pending == UNION {evaluated.evaluations[n].pending : n \in DOMAIN f.edges}
      minted(kept, rest) ==
        Range(SubSeq(mint(Len(f.sweep.components), SetToSeq(rest) \o SetToSeq(kept)),
                     Cardinality(rest) + 1, Cardinality(rest) + Cardinality(kept)))
  IN [findings |-> minted(evaluated.kept, {}),
      pending |-> minted(pending, evaluated.kept),
      withheld |-> minted(withheld, evaluated.kept \union pending),
      stale |-> staleSites(f, universe),
      inEffect |-> {r \in Range(f.marks) : inEffect(r, universe)}]

publish(f, split, universe) ==
  number(f, evaluate(f, split.kept), evaluate(f, split.withheld).kept, universe)

settle(f, findings, universe) == publish(f, reportable(f, findings, universe), universe)

compute(f, findings, skipped) == settle(f, findings, decide(f, findings, skipped))

\* The phase, the component cap, the ledger, the dials, the edges, in that order.
Compute(f) ==
  LET Of(first) == compute(f, cohere(first.findings), first.skipped) @@ [refused |-> first.refused]
  IN Of(phase(f, f.sweep, DOMAIN RowOf))
-----------------------------------------------------------------------------
(* A baseline write records a row per finding about a declaration *)

Recordable(x) == declarationOf(x.draft) # None
Row(mechanism, x) ==
  [code |-> x.draft.code, bound |-> declarationOf(x.draft),
   site |-> <<mechanism, x.draft.code, declarationOf(x.draft)>>]
=============================================================================
