# deadset-go in TLA+

`deadset-go` reports the declarations of a Go program that nothing needs. It loads every
build configuration of a target, type-checks it, extracts the references between its
declarations, merges the configurations, sweeps the merged graph for what is dead, groups
the dead into components that can be deleted together, and publishes a report. A wrong
answer is expensive in one direction only: a declaration reported dead that something
needs. The models therefore follow the parts that decide what is dead, and the concurrent
parts that must not change what is decided: the type checker, the caches, the memory
governor and the publication of the documents.

Every definition is translated from the Go code; `PROJECT.json` maps it to its lines.

## Inventory

| Part | State it keeps | Operations | What is hard about it |
|---|---|---|---|
| Reachability pass (`liveness/tier.go`: `pass`, `closure`, `callers`, `Path`) | a mark per symbol, a queue, the edge each symbol was reached by | seed, expand, retry a gate, mark called roots, walk a path back | an edge waits on several holders; the order of expansion must not change the answer |
| Sweep (`liveness/sweep.go`, `tier.go`) | the tier of each symbol, the judged views, what is suppressed and retained | label, judge, suppress, retain, withhold | four views of one graph under different marks and exemptions; tests of dead code are dead too |
| Dead components (`liveness/component.go`) | Tarjan's indexes and stack, the condensation | connect, order, cluster, group | recursion over cyclic graphs; joined clusters; positional members no edit may delete |
| Memory governor (`memory/governor.go`, `pressure.go`) | the pressure flag, the soft limit, the last readings | start, tick, shed, set the limit, judge, stop | a goroutine against the whole program; percentages; stopping in the middle of a tick |
| Configurations (`run/loads.go`) | the loaded configurations, their first digests | add, at, keep, drop | loads run outside the lock; shedding during a load; the tree edited between two loads |
| Package sources (`load/result.go`) | the readings under way and done | read, drop | one reading shared by many goroutines; shedding while one is made |
| Type checker (`load/check.go`) | counters of unchecked imports, claims, slots, a memo over loads | check, claim, follow, parse once, take a slot | everything concurrent, an error or a cancellation anywhere |
| Analyze verb (`cmd/deadset-go`, `run/run.go`, `load/all.go`) | the documents asked for, the loads, what is published | the stages, commit, write | a signal or the end of memory at any stage; a kill between two documents |
| Matrix merge (`liveness/merge.go`, `graph.go`) | one record per symbol and reference site | merge, pair, intersect | the union over configurations must not depend on their order |
| Carrier sweep (`liveness/carrier.go`) | the edges followed, what each declaration reaches | cut, follow, seed, search | what generated code does for the runtime is no use; what a handler answers is |
| Machine readings (`memory/cgroup.go`, `sources_*.go`) | none | read the headroom and the limit | unsigned arithmetic over files read at different moments |
| Matrix derivation (`matrix`, `buildconstraint`) | none | scan a header, walk the compiled files, one configuration per constraint atom | legacy lines, block comments; exponential choices cut to a list |
| Configuration (`config`) | the sources and their documents | resolve, rank, refuse | keyed members keep the source that alone supplies them |
| Scope and resolution (`scope`, `resolve`) | the modules of a scope, the roots of consumers | locate, own, hold | nested modules, links, a consumer's root inside the target's |
| Inventory (`inventory`) | a record per declaration, the variants of a package | walk a file, resolve receivers, depend | several variants check one file; two packages of one path |
| Facts (`facts`) | the references and indexes over the syntax | walk a file, classify a use, derive references | what is a write, who carries it, what no identifier spells |
| Roots (`roots`, `conventions`) | the roots of one configuration, test support | detect, classify, match patterns | type errors root what cannot be judged; support is a greatest set |
| Exemptions (`exempt`) | one record per fact and site | compute each class, keep the first | evidence of tests; value flows |
| Findings (`findings`) | the kinds' drafts, the components' numbers | one emitter per kind, resolve, class, dial, adjudicate | two kinds must not name one declaration; a narrower visibility must still build |
| Suppressions (`suppress`, `run/baseline.go`) | directives, entries, rows | place, match, decide what is stale, write a baseline | a write is a fixed point over sweeps |
| Dependencies and edges (`deps`, `edges`) | the module files, the declared edges | unused requirements and replacements, last uses | an answer must hold under every configuration |
| Loader (`load/load.go`, `topology.go`, `consumer.go`, `cgo.go`, ...) | the modules found | list, load, skip | calls of the Go command |
| Other verbs, report, notes, helpers | none to speak of | print | formatting |

How they meet: `analyze` runs the stages in one goroutine under a context the governor and
the signal handler may cancel. The load stage calls the type checker once for each
configuration (which starts goroutines of its own) and adds each to the configurations. The
passes and the merge build one graph. The sweep reads the graph and the policy (marks,
exemptions, test evidence) and calls the pass for each tier and view; the components read
the sweep. The governor's goroutine reads the memory, and under pressure sheds the
configurations and the sources through callbacks that take their locks, and raises the
flag the checker, the configurations and the sources look at.

## Modules

| Module | Models | Used by |
|---|---|---|
| `EdgeGraph` | the graph a pass reads, its seeds and rules, and the least set they close (`Answer`) | `Reachability`, `Pass`, `SweepRules` |
| `Reachability` | what a pass promises, marking symbols in any order | `Pass` implements it |
| `Pass` | one pass as written: queue, gates, two closures, called roots, path | |
| `Pressure` | what the governor promises the rest of the process | `Governor` implements it; `Loads`, `Sources` assume it |
| `Governor` | start, tick, shed, limit, judge, stop against a run that allocates | |
| `Loads` | the configurations, the run's goroutine and the governor's | |
| `Sources` | the shared reader and its goroutines | |
| `Checker` | the goroutines of packages and of tasks, over several loads of one memo | |
| `SweepRules` | the pure rules of the sweep over one graph and policy | `Sweep`, `Components`, `Verdict` |
| `Sweep` | the steps of one sweep | |
| `Components` | the walk of the dead subgraph and the grouping | `Verdict` |
| `Merge` | the merge of the configurations, the pairing of references, the index of the matrix, the unmatched strings | |
| `Analyze` | the stages of one invocation, a signal, a kill | |
| `Findings` | the framework: kinds of the dead, class and confidence, components' numbers, dials, ledger | `Verdict`, `Kinds` |
| `Verdict` | an author who edits, then a baseline written in rounds of sweep, components and findings | |
| `Settings` | the checks, sources and ranks of the configuration | `Plan` |
| `Matrix` | the header scan, the constraints, the walk, the atoms and the configurations | `Plan` |
| `Places` | scope documents, places of paths, owners of files, holders of positions | `Plan` |
| `Plan` | the headrooms and limits of control groups and machines, and one question of the three above or of these asked and answered | `Evidence` |
| `Inventoried` | the declarations of one loaded configuration | `Evidence` |
| `Referring` | the references one source file makes | `Evidence` |
| `Rooted` | the roots of one configuration, the packages only tests reach | `Evidence` |
| `Exempted` | the records of the exemption classes, enumerated types, the carrier sweep | `Evidence` |
| `Narrowing` | how far references and values reach | `Evidence` |
| `Kinds` | which kind reports each of the dead, and what falls with a write | `Evidence` |
| `Intrafunc` | the stores no read reaches, the parts of a declaration nothing reads | `Evidence` |
| `Artifacts` | requirements, replacements, files never built, packages never imported, last uses | `Evidence` |
| `Remarks` | directive comments and the literals that spell a name | `Evidence` |
| `Evidence` | one question of any of these asked of the program, and answered | |

`MC*` modules give a specification its small constants where a configuration file cannot.
`*_proofs` modules hold the theorems of the module they are named for, two apart: `Closure_proofs`
holds the lemmas on `SweepRules` that the proofs of `Sweep` and `Components` share, and `Memory_proofs`
the theorems of what memory pressure concerns (`Governor`, `Sources`, `Loads`, and the machine's
readings of `Plan`). It extends the four, whose names are told apart for that (`LoadsInit`,
`SourcesInit`).

State and actions are named after the code: `Seed`, `closure`, `admit`, `Retain`, `drop`,
`At`, `Keep`, `Claim`, `Follow`, `Judge`. One action stands for one handler or for the
part of a function that runs without releasing what the others see: `Loads` splits `at`
where it releases the lock and the load begins, returns and is kept; `Sources` splits
`read` at its lock; `Checker` splits a goroutine wherever it blocks or publishes;
`Governor` splits a tick at every reading, because the run allocates between two of them;
`Pass` splits the closure at every edge. Operators with `Bug` or `Mutant` in their comment
are altered forms of the definition that follows, used only to see that a property notices.

### Abstractions

* A symbol is a model value; a reference is an edge with its gate (the holders that must
  all be reached before it counts), whether a test makes it, and whether an exemption's
  holders hold it. Positions, kinds and names are left out, except the four kinds of root
  and three kinds of consumer the rules tell apart.
* In `Pass`, `Reachability` and `SweepRules`, whoever is in a gate has an edge of its own
  waiting on the gate (`GateHolders`): `using` builds the edges so, and `Sweep` checks that
  every pass it runs is given such a graph (`PassesAnswer`).
* In `SweepRules` (`SweepsAssumption`) the symbols are finitely many, code outside test files
  references nothing in one (the compiler refuses it), a package production code references is
  no test support (`roots/testsupport.go:68`), and only code outside test files has inferred
  uses.
* `Needed`, what `NothingDangles` and `DeletesWhole` say of the symbols that stay, leaves out two
  cases, in which the code reports more: under a production mode the pass roots a suite's method
  declared outside the test files and follows nothing it references (`SuiteMethods`), and what
  production code holds or uses by inference in a test file does not keep it from being a
  candidate there.
* Under a production mode no exemption is held by a test declaration (`SweepsAssumption`).
  The classes record such a use as test evidence and never as an exemption
  (`exempt/exempt.go`, `facts/derived.go`): an exemption whose site is in a test file is
  moved to the policy's evidence.
* In `Merge` an identifier and a position are numbers (only their order is read), a rule is
  part of a reference's kind, and what one configuration holds of an interface is a row per
  method. One step merges a configuration, one pairs a reference.
* In `Governor` memory is a natural number: what the run holds live, what its caches hold,
  the slack the collector leaves, and what the machine still has.
* `Loads`, `Sources` and `Checker` see the governor only through `Pressure` (`Checker`: its
  flag). `Governor` is proved to implement `Pressure`, so what they assume of it holds.
* In `Checker` the Go type checker answers a package's types whole, except for the packages
  in `Faults`, and parsing answers a tree. Two packages are the same where files and
  imports' types are.
* In `Analyze` a stage answers or returns an error of a class; what it computes is the other
  modules' business.
* In `Verdict` a sweep and its components are those of `SweepRules` and `Components`, a kind is
  a row of what the tables say of it, and a record names a site.
* In the modules `Evidence` asks, a position is a tuple of numbers, a file is a tree of the nodes
  the code tells apart, a type is what it is made of, and a name is a model value unless its
  characters are read (patterns, import paths, headers, which are sequences of letters or
  segments). What the Go type checker answers of a node (what it denotes, its type, whether a
  constant) is part of the node. An input has the form the code's callers give it, and what the
  compiler refuses (a type declared twice, a constant list without a first value) is no input.

## Runs

| Run | Distinct states | Bounds | Shows |
|---|---|---|---|
| `Pass` | 78,850 | four symbols, each at most two edges, one gate of two holders, every seeding, both modes | the queue never loses a symbol to a gate refused early (`ImplementsReachability`), a printed path ends at a seed (`PathsEnd`), the pass returns (`Terminates`) |
| `Governor` | 537,796 | two demands, two cache sizes, two slacks, three limits (105, whose abort line is no whole size), one headroom | the error is honest, no limit is above its share of the one the process started with, nor above the machine's default share outside pressure, and a stop restores the limit found (`HonestAndStopped`: `NeededAboveAvailable`, `LimitsKept`, `StopRestores`), it returns (`StopReturns`), the pressure cycle (`ImplementsPressure`) |
| `Loads` | 14,364 | three configurations, a tree of two states | at most one held under pressure (`OneUnderPressure`), one state of the tree (`SameAsFirst`), shedding waits for no load (`ShedNeverWaits`) |
| `Sources` | 211,098 | three goroutines, two packages, four readings | none held under pressure (`NoneUnderPressure`), no reading twice (`ReadOnce`), who waits is woken (`WaitersWake`) |
| `Checker` | 141,762 | six packages (three in two variants), four files, two slots, two loads, three sets of faulty packages | import order and whole answers (`LoadsComplete`), one tree per file and one type per key (`CheckedOnce`), no deadlock (`EveryLoadEnds`), pressure narrows the work (`OneMoreUnderPressure`) |
| `Sweep` | 103,740 | four symbols: two production, a test, a helper; every mark, exemption, mode and root of a list; a suite's method in production code and test-file declarations held by exemptions (`Suites`) | passes and labels (`TiersAnswer`), what is withheld by a mark or an exemption is exactly what is dead without it (`JudgedWithdrawn`), the report dangles nothing and what is withheld is closed (`DeletesSafely`) |
| `Components` | 89,410 | four symbols, one container, one dependent, a test or an entry that stays | the walk finds the cycles, in an order (`CyclesOrdered`); the grouping partitions, starts at roots, and an unheld component holds what depends on its members, is referenced by no other and needed by nothing reached that stays (`ComponentsDeletable`) |
| `Merge` | 39,343 | up to three configurations of a list, in every order, each list varying the declarations, the references, an interface's method, or the strings; an empty matrix and one past the bound | the merged matrix is the union, whatever the order, and a string is answered where no configuration matches it (`MergesWhole`), pairing keeps every configuration's count (`PairsEach`) |
| `Analyze` | 14,128 | up to two configurations, no or two renderings, two rounds of a baseline | a matrix is whole (`WholeMatrix`), documents are published whole or not at all and after the report (`PublishesWhole`), the exit names its cause (`NamesItsCause`), a cancellation ends the run (`CancelEnds`) |
| `Evidence` | 339,314 | one input of a family per question (below) | what each question is answered (below) |
| `Verdict` | 78,307 | a function, a type with a field and a helper or test; one edit of the author, a write of at most five rounds, every kind silenced or the minimum raised | no declaration is reported twice nor beside what withholds its root (`ReportsWhole`), a write settles (`SettlesUnlessHelped`), a record withholds what it names and one that is stale withheld nothing (`Adjudicated`) |
| `VerdictWrite` | violation | the same, with a helper that tests what a record keeps live | the disagreement below |

`Evidence` asks one question of one input and compares the answer the code's algorithm
computes with what the answer has to be, defined another way (a least or greatest set, a
quantifier over every chain, every path or every split, instead of the code's walk, queue or
fixed point). `MCEvidence` enumerates the inputs in families, one construct at a time:

| Property | Questions | Inputs |
|---|---|---|
| `SettingsRanked` | settings | a key of each role over flags, a repository's and a central document |
| `TargetRead` | headers, matrix, scope, paths, owners, holders | headers of up to five lines of every sort; trees of two units with test files and imports outside; three nested modules and their documents |
| `HeadroomHonest` | headroom, limit | two nested groups whose files change after each read, version 1 and 2 |
| `NarrowingsHold` | the narrower visibility | two packages of a type, a type of it, a function and a method |
| `ClaimsWhole` | the kinds | five declarations swept under every subset of nine references: reads, writes, tests, an interface and its implementation, cascades of writes |
| `BodiesRead` | stores, parts of a declaration | three blocks in a branch, a loop, a range or before a panic, each of a node of every sort; functions in two files and two configurations |
| `HeldLive` | patterns, test support, roots, exemptions, carriers | patterns over two letters and a star; three packages and their users; a program, a published package, type errors, directives; enumerated types decoded through others; eight declarations, hand-written and generated |
| `ProgramRead` | inventory, references | five files in up to four variants, four constants of a group; statements and literals in a store, groups of constants, conversions among six types, comparisons of structs |
| `ArtifactsHold` | module files, unbuilt files, packages, last uses | five packages of four modules, three files, two configurations |
| `RemarksHold` | directives, literals | two files whose first lines declare a type, a field and a function, with directives on every line; a literal in each place a declaration has |

Why the bounds are enough. A gate is refused too early only where its holders are reached
in different rounds of the queue, which two holders on different paths give. Four symbols
give a cycle of three with something outside it, two root cycles that join in one symbol,
and a test with what it tests, a helper and a bystander. A cache needs a second
configuration to hold one too many and a third to be dropped between two; a shared reading
needs a reader, one that joins and one that begins anew. For the functions `Evidence` asks, an
input has two of everything one can be mistaken for another of (two variants, two
configurations, two writes nested, two files, two packages of one path) and a chain long
enough that one step of it is not the whole. The checker needs two variants at
two levels to see a wrong identity propagate, two slots for two tasks to meet at the
second lock, and two loads to use the memo. The governor's numbers are chosen so that a run
fits, fits without its caches, or does not fit.

Every run but those of a finite job has `CHECK_DEADLOCK FALSE` for the reason that the
program ends: a pass returns, a governor stops, a run ends, a reader stops at its bound.

### Fairness

* `Pass`: one sequential function, so its next step is taken (`WF(Next)`).
* `Governor`: its goroutine is scheduled (weak fairness of each of its steps), and where a
  stop waits while ticks also fire, Go's `select` chooses among the ready cases at random,
  so the stop is chosen in the end (`SF` of `Leave` once stopped).
* `Loads`: comparing and storing are steps of a running goroutine (weak); `Keep` and `drop`
  want a lock others take and release for ever, and Go's mutex hands it to who waited
  (strong). A load has no fairness: it may take for ever.
* `Sources`: the same for its lock; a reading ends (file input), and a closed channel wakes.
  Nobody is made to ask for another package.
* `Checker`: the goroutines as a whole make progress (`WF(Step)`): the weakest assumption
  under which a load may be said to end; a stuck state would still show.
* `Analyze`: the run's goroutine takes its next step.

## Disagreements found

One is shown by a run. `VerdictWrite`: an unrooted declaration of a test file that references a
dead declaration is a test of dead code. Once the dead declaration is kept live by a directive,
or its kind silenced, the helper is reported as unused, a baseline write records a row for it,
and the next round finds the row stale, because liveness rows are judged against the pass with
every mark withdrawn (`findings/ledger.go:28`), in which the helper is still a test of dead
code. The write records and removes the row for ever (`run/baseline.go:17`), while
`docs/configuration.md:171-173` says it settles. `SettlesUnlessHelped` guards the case.

The others were met while modelling. The models follow the code, and the properties exclude the
case where it bites, by name:

* `liveness/sweep.go`, the comment on `TestUsed`: "no member references a candidate outside the
  set". `deadEdges` (`liveness/tier.go:292`) follows no edge into a test of dead code, so a
  helper of a withheld test stays a candidate. `WithheldClosed` speaks of production code.
* `liveness/sweep.go`, `admit` "reads the references the test makes"; `targetsOf`
  (`sweep.go:515`) also counts the uses an exemption makes the test hold. `RetainedWithdrawn`
  speaks of production declarations.
* `findings/kinds.go:691-737`: an unreferenced constant of an iota group in a test file whose
  initializer references only dead production declarations is claimed by `testOfDeadCode`
  (`declarations.go:63-81`) and by `unusedEnumMember` (`readwrite.go:116-135`), and the run is
  refused as an emitter's defect. `KindsClaim` leaves that constant out.
* `findings/readwrite_cascade.go:180-203` counts a use inside two nested write spans twice, so
  an import may be named as deletable though a use outside remains, against the comment at 166.
  `CascadesWhole` asks for imports whose uses lie in at most one span.
* `findings/intrafunc.go:978-992`: a case is subsumed by any one pair of types, where
  `docs/kinds.md:185-187` asks for every value, and nil is no subject. `PartsAgree` says what
  the code answers.
* `findings/intrafunc_stores.go:131` reads bare names: a pointer method selected on a part of a
  variable is not seen as an escape, nor a store before a recovered panic to a named result as
  read. `StoresUnread` excludes the selection; the recovery is not modelled.
* `facts/reference.go:1241`: an array field of pointers or slices counts as written through an
  element's element.
* `roots/typeerror.go:312`: the members rooted are the declared ones; a promoted field of an
  unexported embedded struct is not.
* `inventory/inventory.go:359-381`: a blank method gets an empty reference, where the comment at
  370 gives it its container's.
* `findings/nameliteral.go:28-32`: "outside the subject's own declaration", but a literal in a
  constant's own specification that spells the constant's type lowers the constant.
* `exempt/enum_group.go:15-17`: the first conversion method "in the Contract's order" is to be
  recorded; `record` keeps the one written first.
* `liveness/tier.go:217`: the closure assumes that "every holder of a gate has an edge waiting
  on it"; `Carriage.cut` may drop the edge of one holder and keep another's, and then what is
  reached depends on the order of expansion. `CarriersExact` asks for equality where no holder
  of a gate is cut, and for no more than the least set everywhere.

## Proofs

| Module | Theorems | Argument |
|---|---|---|
| `Pass_proofs` | `TypeCorrect`, `Implements`, `AbstractAnswers`, `AnswersOne`, `PathsBack` | an open edge of a reached symbol leads to a reached symbol or waits on a gate whose holders are still to be expanded (`Complete`); with `Seeded` and `Fresh` this is inductive, and at the end of a closure it says the closure is closed. `AbstractAnswers`: each stage of `Reachability` marks a subset of the least closed set (`MarksBounded`) and ends only when it marked a closed one; `AnswersOne` puts both together. `PathsBack`: every recorded symbol is some number of steps from a seed that holds (`Trailed`), and recording an edge changes no way back there already was |
| `Checker_proofs` | `TypeCorrect`, `ChecksComplete`, `ChecksOnce`, `OneMore` | the count a goroutine waits on is the number of imports it was not told of, and only who has ended tells (`Counted`), so what it passed is complete unless the load is cancelled (`Completed`, `Placed`, `Owned`, `Ended`); a tree held is the one in the cache (`Cached`); a key has one claim, and a dependency that claimed has the claim's types or its own (`Entered`), which the keys of its imports, once told, cannot change |
| `Sweep_proofs` | `TypeCorrect`, `AnswersTiers`, `WithdrawnJudged`, `ReportDeletes` | a pass is the least closed set and grows with what it is given (`PassGrows`), so a tier is that of the first pass to reach the symbol though the sweep skips passes (`Labels`); each view is kept as judged (`FullKept`, `UnmarkedKept`, `UnexemptedKept`); the graph without exemptions has the same references and no holder's edge (`BareGraph`), and its pass reaches nothing the view kept beside the exemptions misses (`BareReached`, `BareCounted`); the full view is the one the last tier's pass gives (`FullIsSwept`), which leaves nothing needed out (`NothingNeeded`) |
| `Components_proofs` | `TypeCorrect`, `CyclesFound`, `Deletable` | Tarjan's invariant: the stack ascends in the order reached (`Ascending`, `Indexed`), what the walk has closed references only what is closed and below it (`Apart`, `Followed`), every symbol on the stack reaches the next call's symbol (`Linked`), and a low link is one a path has, no higher than any edge followed gives (`Lows`); so what a return takes off the stack is one cycle (`Exact`). The depth of a cycle is above that of what references it and ranks order them (`Deeper`, `OrderLists`). The clusters are the classes of a symmetric closure (`LinkIs`, `ClustersPart`); the held set is the least closed one (`HeldLeast`), a component is held as a whole (`ComponentAlike`), and what an unheld one leaves out of the placed does not reference it, nor depend on a member (`UnheldWhole`), and no member is one that stays needs, tests of dead code aside (`DeadUnneeded`) |
| `Memory_proofs` of `Governor` | `TypeCorrect`, `LimitsHold`, `HonestAndRestored`, `Implements` | what each place of the tick knows (`IInv`): a tick that judges began under pressure, only a finished goroutine leaves a cause or a stopped governor, and a reading past the abort line of a ceiling needs more than the ceiling (`PastLineNeedsMore`); a ceiling read is under the limit the process started with and a share grows with what it is of (`CeilingCapped`, `ShareGrows`), so `LInv` is inductive |
| `Memory_proofs` of `Loads` | `LoadsTypeCorrect`, `HoldsOne`, `ReadsOneTree`, `Kept` | the lock is taken to store alone, and a store after a shedding finds nothing held (`LoadsShed`); what is kept is the first load or equal to it (`Carries`) |
| `Memory_proofs` of `Sources` | `SourcesTypeCorrect`, `HoldsNone`, `ReadsOnce`, `ReadsItsOwn` | the lock is held by the one reader inside (`Exclusive`); before pressure each reading begun is in the cache or about to be (`Cached`) |
| `Memory_proofs` of `Plan` | `HeadroomTrue` | a difference of two readings does not wrap, because the working set is cut to the usage and to the limit (`Remains`, `RoomIs`); the least of finitely many rooms is one of them (`LeastIs`), and a file read is what it held before the change or after (`ReadIs`) |
| `Closure_proofs` | (lemmas) | a closure computed in rounds is the least set that holds the seeds and what the edges lead to (`ClosureLeast`), so a pass is its least closed set (`PassAnswers`); what the last tier's pass reaches and the full view does not judge dead has its callers' seeds or their reach (`StaysCalled`), so that what it needs is reached and counted (`NothingNeeded`) |
| `Merge_proofs` | `PairsKeepCounts` | each step adds one to what its configuration made of a class and one to what is kept of it, and nothing elsewhere (`Counts`); a reference joins the first kept one alike that its configuration lacks, so those before it hold the configuration (`Nested`) |
| `Analyze_proofs` | `Documented`, `CoversMatrix`, `CauseNamed` | while it writes, the documents published are exactly those before the next (`IInv`); while it loads, each configuration before the next is kept or dropped, dropped only where its own load failed (`LoadInv`) |

They hold for every set of symbols, graph, policy, matrix, import graph, number of configurations,
slots and loads, set of goroutines, memory size, tree of control groups and width of its numbers,
and list of renderings, under the named assumptions of the modules, which are those the code
gives: inputs of the graph's type whose gates have their holders' edges, finite sets of packages
and symbols, what may reference what (above), containers that enclose what they contain, so that the way out of them ends
(`ContainersAssumption`), readings that fit their width (`MachineAssumption`), positive sizes, and
model values outside the sets they are told apart from.

The recursive functions of `Pass`, `SweepRules` and `Components` (a way back, a round of a
closure, the depth of a cycle) are unfolded by induction over sets of numbers: a set that holds 0
and each successor holds every number, from the least number outside it (`Induction`). The proof system has no usable induction over an
operator, so a property that rests on folds over sequences and bags has no proof; where the code
sorts (`order` of the cycles), the model places an element by the number of those before it
(`Sorted`), which has one.

Model-checked only:

* every liveness property (`Terminates`, `StopReturns`, `ShedNeverWaits`, `WaitersWake`,
  `EveryLoadEnds`, `CancelEnds`);
* `MergesWhole` of `Merge`, which rests on folds and sorts of sequences;
* `SettingsRanked` and `TargetRead` of `Plan`, and what `Evidence` and `Verdict` claim: their
  modules compute recursively over documents, syntax, types and graphs, by folds or by `RECURSIVE`
  definitions, in which the proof system proves nothing.

## Not modelled, and the plan

Left out of the modelled parts: the counts a candidate carries (`settle`), the carried
declarations and the kept-by-tests label of a sweep; positions and spans; the digests'
contents in the configurations; the text of every message.

Of the parts modelled in part:

* `facts`: the derived references (`derived.go`, `chains`), the bindings of what a repository
  publishes or a consumer reads (`bindings.go`, `schema_*.go`, `published.go`), and the
  structural identity of types. They read the type checker's answers in the detail of Go's
  types, and are inputs here: `Referring` takes what a selection or an identifier denotes.
* `exempt`: the classes other than enumerated types (encoding and reflection, templates, format
  verbs, interface stores) follow values through the syntax and through strings of other
  languages. `Exempted` takes their records as they come, and the sweep any exemptions.
* `findings`: the declarations filled from outside, the edges between repositories, and the
  spelling of the document.
* `resolve`: the spelling of types and references.
* The loader calls the Go command and reads its answers; the other verbs, the report and the
  notes print what the stages answer; the small helpers keep no state.

Next, in this order:

1. The bindings of `facts` and the edges between repositories, with a carrier on both sides.
2. The value flow the exemption classes share (`value_flow.go`, `destinations.go`), as one
   module over stores, calls and returns.
3. The consumer scope of the loader.
4. A proof of the union `Merge` builds.
