----------------------------- MODULE Intrafunc -----------------------------
(***************************************************************************)
(* The kinds that read one function body (internal/findings/intrafunc.go,  *)
(* intrafunc_stores.go, twins.go and the locals of declarations.go): the   *)
(* stores no read reaches, by a walk over the body's control-flow graph,   *)
(* and the parts of a declaration nothing reads, held per configuration.   *)
(***************************************************************************)
EXTENDS FiniteSetsExt, SequencesExt

CONSTANT None  \* the nil of a type switch

blankName == "_"
-----------------------------------------------------------------------------
(***************************************************************************)
(* A body: what it declares, the names of its signature, and the blocks of *)
(* its graph, each with its nodes, its successors and, where it begins the *)
(* body of a range statement, the key and value that statement stores.     *)
(* A node is an assignment (a type switch's guard apart), an increment, a  *)
(* return, a declaration with values or any other; an expression a name, a *)
(* function literal, an address taken, a pointer method selected, a part   *)
(* of a value (selector, index or dereference), or any other of its parts. *)
(***************************************************************************)
RECURSIVE within(_)
within(e) == {e} \union UNION {within(p) : p \in ToSet(e.parts)}

subexpressions(fn) ==
  LET Of(exprs) == UNION {within(e) : e \in ToSet(exprs)} IN
  UNION {Of(b.ranges) \union UNION {Of(n.targets) \union Of(n.values) : n \in ToSet(b.nodes)} :
         b \in ToSet(fn.blocks)}

\* The variables a body declares, but for what a switch binds and an inner signature names.
localVariables(fn) == {d.var : d \in {d \in fn.declares : d.how = "local"}} \ {blankName}

RECURSIVE addressed(_)
addressed(e) == IF e.op = "part" THEN addressed(Head(e.parts)) ELSE e

\* Mutant of escaped: a pointer method leaves its receiver in the graph's sight.
escapedByAddress(fn, subjects) ==
  {v \in subjects : \E e \in subexpressions(fn) :
     LET held == addressed(Head(e.parts)) IN e.op = "address" /\ held.op = "name" /\ held.var = v}

\* The variables whose address is taken, by the operator or by a pointer method selected.
escaped(fn, subjects) ==
  {v \in subjects : \E e \in subexpressions(fn) :
     \/ /\ e.op = "address"
        /\ LET held == addressed(Head(e.parts)) IN held.op = "name" /\ held.var = v
     \/ e.op = "method" /\ Head(e.parts).op = "name" /\ Head(e.parts).var = v}

population(fn) ==
  LET subjects == localVariables(fn) \union ((ToSet(fn.received) \union ToSet(fn.results)) \ {blankName})
  IN subjects \ escaped(fn, subjects)

Read(var, capture) == [object |-> var, store |-> FALSE, capture |-> capture]
Stored(var) == [object |-> var, store |-> TRUE, capture |-> FALSE]

\* A literal captures what it names, unless it runs where it is written.
RECURSIVE readsInside(_, _, _)
readsInside(subjects, e, inside) ==
  LET captured == inside \/ (e.op = "literal" /\ e.called # "here")
  IN (IF e.op = "name" /\ e.var \in subjects THEN <<Read(e.var, captured)>> ELSE <<>>)
       \o FlattenSeq([i \in DOMAIN e.parts |-> readsInside(subjects, e.parts[i], captured)])

reads(subjects, exprs) == FlattenSeq([i \in DOMAIN exprs |-> readsInside(subjects, exprs[i], FALSE)])

\* A target that is no bare name reads the value it writes into.
store(subjects, target) ==
  CASE target.op # "name" -> readsInside(subjects, target, FALSE)
    [] target.var \in subjects -> <<Stored(target.var)>>
    [] OTHER -> <<>>

stores(subjects, targets) == FlattenSeq([i \in DOMAIN targets |-> store(subjects, targets[i])])

\* What one node of a block reads and stores, in the order the language evaluates it.
nodeAccesses(fn, subjects, n) ==
  LET values == reads(subjects, n.values)
      compound == IF n.tok = "compound" THEN reads(subjects, n.targets) ELSE <<>>
      results == SelectSeq(fn.results, LAMBDA r : r \in subjects)
  IN CASE n.op = "switch" -> values
       [] n.op = "assign" -> compound \o values \o stores(subjects, n.targets)
       [] n.op = "incdec" -> reads(subjects, n.targets) \o stores(subjects, n.targets)
       [] n.op = "spec" -> IF n.values = <<>> THEN <<>> ELSE values \o stores(subjects, n.targets)
       [] n.op = "return" /\ n.values = <<>> -> [i \in DOMAIN results |-> Read(results[i], FALSE)]
       [] OTHER -> values

\* The accesses of each block, a range's key and value stored first.
newFlow(fn, subjects) ==
  [b \in DOMAIN fn.blocks |->
     LET nodes == fn.blocks[b].nodes
         At(accesses, n) == [i \in DOMAIN accesses |-> [node |-> n] @@ accesses[i]]
     IN At(stores(subjects, fn.blocks[b].ranges), 0)
          \o FlattenSeq([n \in DOMAIN nodes |-> At(nodeAccesses(fn, subjects, nodes[n]), n)])]

\* A read makes a variable live, a store before it kills it.
transfer(accesses, live) ==
  FoldRight(LAMBDA a, held : IF a.store THEN held \ {a.object} ELSE held \union {a.object}, accesses, live)

liveOut(fn, liveIn, b) == UNION {liveIn[next] : next \in fn.blocks[b].succs}

RECURSIVE settle(_, _, _)
settle(fn, accesses, liveIn) ==
  LET next == [b \in DOMAIN liveIn |-> transfer(accesses[b], liveOut(fn, liveIn, b))]
  IN IF next = liveIn THEN liveIn ELSE settle(fn, accesses, next)

Captured(accesses) == {a.object : a \in {a \in ToSet(accesses) : a.capture}}

\* What a literal has named on entering each block, by some path.
RECURSIVE settleCaptures(_, _, _)
settleCaptures(fn, accesses, capturedIn) ==
  LET next == [b \in DOMAIN capturedIn |->
                 UNION {capturedIn[p] \union Captured(accesses[p]) : p \in {p \in DOMAIN capturedIn : b \in fn.blocks[p].succs}}]
  IN IF next = capturedIn THEN capturedIn ELSE settleCaptures(fn, accesses, next)

\* The stores no read reaches, and no capture of their variable precedes.
dead(fn, accesses, liveIn, capturedIn) ==
  UNION {LET made == accesses[b]
             live(i) == transfer(SubSeq(made, i + 1, Len(made)), liveOut(fn, liveIn, b))
             shielded(i) == made[i].object \in capturedIn[b] \union Captured(SubSeq(made, 1, i - 1))
         IN {[block |-> b, node |-> made[i].node, var |-> made[i].object] :
               i \in {i \in DOMAIN made : made[i].store /\ made[i].object \notin live(i) /\ ~shielded(i)}} :
         b \in DOMAIN accesses}

deadStoresIn(fn) ==
  LET nothing == [b \in DOMAIN fn.blocks |-> {}]
      Of(accesses) == dead(fn, accesses, settle(fn, accesses, nothing), settleCaptures(fn, accesses, nothing))
  IN Of(newFlow(fn, population(fn)))
-----------------------------------------------------------------------------
(***************************************************************************)
(* The parts of a declaration.  An input holds what the framework knows of *)
(* each declaration, and per configuration the files it compiles, what it  *)
(* walks (declared functions and initializers, each with its literals,     *)
(* switches and local declarations), the calls it makes and the statements *)
(* the toolchain's pass finds unreachable.                                 *)
(***************************************************************************)
foreignRoots == {"linkname", "cgoExport", "test", "typeError", "fuzz"}

foreign(p, id) == \E r \in p.roots : r.at = id /\ r.kind \in foreignRoots
programmed(p, id) == [at |-> id, kind |-> "program"] \in p.roots
valued(p, id) == \E r \in p.refs : r.to = id /\ r.kind # "call"

freeSignature(p, fn) ==
  /\ fn.id \notin p.exempted \union p.testEvidence \union p.fixed
  /\ ~valued(p, fn.id) /\ ~foreign(p, fn.id)
  /\ ~fn.stub

\* The files that declare a function of one package, receiver and name, ignored ones included.
twins(p, key) ==
  UNION {{fn.file : fn \in {fn \in one.functions : fn.declared /\ fn.key = key}} \union
         {i.file : i \in {i \in one.ignored : i.package = i.declaring /\ i.key = key}} : one \in ToSet(p.configurations)}
twinned(p, fn) == fn.key # blankName /\ Cardinality(twins(p, fn.key)) > 1

callersUnknown(p, fn) ==
  LET symbol == p.symbols[fn.id] IN
  \/ programmed(p, fn.id)
  \/ /\ symbol.exported /\ symbol.importable /\ p.library
     /\ ~(p.complete /\ p.declared \subseteq p.loaded)

Part(code, fn, at) == [code |-> code, decl |-> fn.id, file |-> fn.file, at |-> at]

\* The named identifiers of a field list its body names nowhere.
unread(code, fn, fields, read) ==
  {Part(code, fn, <<code, name>>) : name \in ToSet(fields) \ ({blankName} \union read)}

calledWhereWritten(lit) == ~lit.stub /\ lit.called = "here"

\* A literal that initializes a local variable the body only calls.
calledByName(lit) == ~lit.stub /\ lit.called = "name" /\ "value" \notin lit.uses

parametersOf(p, fn) ==
  LET literals == {lit \in fn.literals : calledWhereWritten(lit) \/ (fn.declared /\ calledByName(lit))}
      free == fn.declared /\ freeSignature(p, fn) /\ ~twinned(p, fn)
  IN (IF free THEN unread("unused-parameter", fn, fn.params, fn.read) ELSE {})
       \union UNION {unread("unused-parameter", fn, lit.params, lit.read) : lit \in literals}

\* A call in statement position discards, an assignment of one target per result discards to
\* the blank name, and any other context uses.
uses(site, index, count) ==
  CASE site.parent \in {"statement", "go", "defer"} -> FALSE
    [] site.parent = "assign" -> Len(site.targets) # count \/ site.targets[index] # blankName
    [] OTHER -> TRUE

usedAtAnySite(one, fn, index) ==
  \E site \in one.calls : site.to = fn.id /\ uses(site, index, Len(fn.results))

resultsOf(p, one, fn) ==
  IF ~freeSignature(p, fn) \/ callersUnknown(p, fn) THEN {}
  ELSE {Part("unused-result", fn, <<"result", i>>) : i \in {i \in DOMAIN fn.results : ~usedAtAnySite(one, fn, i)}}

subsumes(p, first, second) ==
  p.types[first].interface /\ ~p.types[first].parameter /\ first \in p.types[second].implements

\* An earlier clause names an interface that a type the clause names implements.
subsumedByEarlier(p, clauses, at) ==
  \E i \in 1 .. at - 1 : \E first \in clauses[i] \ {None}, second \in clauses[at] \ {None} :
    subsumes(p, first, second)

casesOf(p, fn) ==
  UNION {{Part("unreachable-case", fn, <<"case", s, at>>) :
            at \in {at \in DOMAIN fn.switches[s] : subsumedByEarlier(p, fn.switches[s], at)}} : s \in DOMAIN fn.switches}

\* The constants and types a body declares and names only in their own specification.
localsOf(fn) ==
  {Part("unused-unexported", fn, <<"local", d.name>>) : d \in {d \in fn.locals : d.name # blankName /\ ~d.named}}

\* What one configuration finds.
answer(p, one) ==
  UNION {parametersOf(p, fn) \union localsOf(fn)
           \union (IF fn.declared THEN unread("unused-receiver", fn, fn.receiver, fn.read)
                                        \union resultsOf(p, one, fn) \union casesOf(p, fn) ELSE {}) : fn \in one.functions}
    \union one.unreachable

unjudged(p, id) ==
  /\ id \in DOMAIN p.candidates /\ (p.symbols[id].inTest \/ p.symbols[id].support)
  /\ p.candidates[id].test = 0 \/ p.candidates[id].unreferenced

\* Mutant of findings: a part is held once any configuration finds it.
findingsOfAny(p, held) == {part \in UNION ToSet(held) : ~unjudged(p, part.decl)}

\* A part is reported where every configuration that compiles its file found it; a result,
\* where some configuration calls its function.
findings(p, held) ==
  {part \in UNION ToSet(held) :
     /\ \A c \in DOMAIN held : part.file \in p.configurations[c].files => part \in held[c]
     /\ part.code = "unused-result" => \E one \in ToSet(p.configurations) : \E site \in one.calls : site.to = part.decl
     /\ ~unjudged(p, part.decl)}

PartsFound(p) == findings(p, [c \in DOMAIN p.configurations |-> answer(p, p.configurations[c])])
=============================================================================
