------------------------------- MODULE Kinds -------------------------------
(***************************************************************************)
(* Which kind reports each declaration of a sweep: the interface kinds,    *)
(* the read-or-write kinds with what falls with them, the exports nothing  *)
(* can reach, and the rest by the classifier of Findings                   *)
(* (internal/findings: interfaces, readwrite, readwrite_cascade,           *)
(* narrowing).                                                             *)
(***************************************************************************)
EXTENDS Findings

(***************************************************************************)
(* An input is one of Findings, with the references of every configuration *)
(* in order, the mode, the declarations an exemption speaks for, and per   *)
(* configuration its interfaces, its blank declarations and its constant   *)
(* blocks.                                                                 *)
(***************************************************************************)
testCode(f, r) == r.test /\ (r.build # "consumer" \/ ~f.consumerTests)
Uncounted(f, r) == f.production /\ testCode(f, r)

To(f, s) == {r \in Range(f.refs) : r.to = s}
referenced(f, s) == To(f, s) # {}
-----------------------------------------------------------------------------
(* The interface kinds *)

Selects(r) == r.kind \in {"call", "read"}
namesAsType(r) == r.kind \in {"type", "embed", "assert", "conversion"}

reached(f, s) == \E r \in To(f, s) : Selects(r) /\ ~Uncounted(f, r)
typeUsedBy(f, i) == {r.from : r \in {r \in To(f, i) : namesAsType(r)}}

\* The blank names a package's variable specification declares with a type and a value each.
blanksOf(spec) ==
  {[var |-> spec.names[i].id, type |-> spec.type, value |-> spec.values[i]] : i \in
     {i \in DOMAIN spec.names : /\ spec.type # None /\ Len(spec.values) = Len(spec.names)
                                /\ spec.names[i].blank}}

\* The assertions a configuration compiles: a blank declaration typed as an interface of
\* the target, with a concrete value that satisfies it.
assertionsIn(f, one) ==
  {[var |-> b.var, iface |-> b.type, concrete |-> b.value.type] : b \in
     {b \in UNION {blanksOf(spec) : spec \in one.specs} :
        /\ b.type \in DOMAIN f.symbols /\ f.symbols[b.type].kind = "interface"
        /\ b.value.concrete /\ b.type \in b.value.satisfies /\ b.var \in DOMAIN f.symbols}}

asserted(f) == UNION {assertionsIn(f, one) : one \in f.configurations}
usedAsType(f, i) == \E by \in typeUsedBy(f, i) : ~\E a \in asserted(f) : a.var = by /\ a.iface = i

interfaceExempt(f, s) == reached(f, s) \/ s \in f.fixedMethods

fallsWithInterface(f, v, s) ==
  LET owner == container(f, s) IN ~v.withdrawn /\ owner # None /\ owner \in DOMAIN v.candidates

testCalledInterfaceMethod(f, v, s) ==
  /\ f.symbols[s].kind = "interfaceMethod" /\ testOnly(v.candidates[s])
  /\ ~fallsWithInterface(f, v, s) /\ ~interfaceExempt(f, s)

interfaceSubject(f, s, kind) == f.symbols[s].kind = kind /\ ~f.symbols[s].inTest

unusedInterface(f, v) == {s \in DOMAIN v.candidates : interfaceSubject(f, s, "interface")}

uncalledInterfaceMethod(f, v) ==
  {s \in DOMAIN v.candidates :
     /\ interfaceSubject(f, s, "interfaceMethod")
     /\ ~fallsWithInterface(f, v, s) /\ ~interfaceExempt(f, s) /\ ~testOnly(v.candidates[s])}

publishedAPI(f, s) ==
  LET symbol == f.symbols[s] IN
  f.target = "library" /\ symbol.exported /\ ~symbol.inTest /\ symbol.importable

\* An alternative keeps an assertion where something else names it, or where both sides are
\* a library's published promise.
assertionKept(f, var) ==
  \E a \in {a \in asserted(f) : a.var = var} :
    \/ usedAsType(f, a.iface)
    \/ publishedAPI(f, a.iface) /\ a.concrete \in DOMAIN f.symbols /\ publishedAPI(f, a.concrete)

unusedSatisfactionAssertion(f, v) ==
  {var \in {a.var : a \in asserted(f)} :
     ~f.symbols[var].inTest /\ var \notin v.retained /\ ~assertionKept(f, var)}
-----------------------------------------------------------------------------
(* The read-or-write kinds *)

\* The constants of the types an iota group of one configuration declares constants of,
\* wherever a block of that configuration declares them.
enumMembers(one) ==
  LET Typed(block) == {c \in block.constants : ~c.blank /\ c.type # None}
      owners == UNION {{c.type : c \in Typed(b)} : b \in {b \in one.blocks : b.iota}}
  IN {c.id : c \in {c \in UNION {Typed(b) : b \in one.blocks} : c.type \in owners}}

enumMember(f, s) == s \in UNION {enumMembers(one) : one \in f.configurations}

readOrWriteSubject(f, v, s) ==
  /\ v.candidates[s].production = 0 /\ v.candidates[s].test = 0
  /\ enumMember(f, s) \/ typeParameterSubject(f, s)

unusedEnumMember(f, v) ==
  {s \in DOMAIN v.candidates : enumMember(f, s) /\ readOrWriteSubject(f, v, s) /\ ~referenced(f, s)}

unusedTypeParameter(f, v) ==
  {s \in DOMAIN v.candidates : typeParameterSubject(f, s) /\ ~referenced(f, s) /\ ~deadParent(f, v, s)}

\* A read by what nothing references, dead for certain, is no read.
deadReader(f, v, r) ==
  /\ r.build = "target" /\ r.from # None /\ r.from # r.to
  /\ r.from \in DOMAIN v.candidates
  /\ v.candidates[r.from].relation = "counting" /\ classOf(f, r.from) = "certain"

\* The counted references to a declaration: what writes it, each byte once, and what reads it,
\* a write of another build being a read.
uses(f, v, s) ==
  LET counted == {r \in To(f, s) : ~Uncounted(f, r)}
      dead == {r \in counted : r.kind # "write" /\ deadReader(f, v, r)}
      writes == {r \in counted : r.kind = "write" /\ r.build = "target"}
  IN [writes |-> {r.site : r \in writes},
      spans |-> [site \in {r.site : r \in {r \in writes : r.span # None}} |->
                   (CHOOSE r \in writes : r.site = site).span],
      reads |-> counted \ (dead \union writes),
      deadReads |-> dead, liveWrites |-> {r \in writes : ~deadReader(f, v, r)}]

writableSubject(f, s) ==
  LET symbol == f.symbols[s]
      owner == container(f, s)
  IN /\ ~symbol.blank
     /\ \/ symbol.kind = "var" /\ (owner = None \/ f.symbols[owner].kind = "package")
        \/ symbol.kind = "field"

writtenOnly(u) ==
  u.writes # {} /\ u.reads = {} /\ (u.deadReads # {} => u.liveWrites # {})

writeOnlySubjects(f, v) ==
  {s \in DOMAIN f.symbols \ (f.exempted \union DOMAIN v.candidates) :
     writableSubject(f, s) /\ writtenOnly(uses(f, v, s))}

\* The chains of carriers of what each counted reference to a declaration has one for.
carried(f, s) ==
  LET counted == {r \in To(f, s) : ~Uncounted(f, r)} IN
  IF \E r \in counted : r.carriers = <<>> THEN {} ELSE {r.carriers : r \in counted}

\* The innermost subject of each chain, and none where a chain holds none.
innermostSubjects(chains, subjects) ==
  IF \E c \in chains : Range(c) \intersect subjects = {} THEN {}
  ELSE {c[Min({i \in DOMAIN c : c[i] \in subjects})] : c \in chains}

fallsWithAnnotation(f, s) ==
  /\ f.symbols[s].kind \notin {"package", "file", "field", "typeParam", "method", "interfaceMethod"}
  /\ classOf(f, s) = "certain"

writeFalls(f, subjects) ==
  {s \in DOMAIN f.symbols \ subjects :
     fallsWithAnnotation(f, s) /\ innermostSubjects(carried(f, s), subjects) # {}}
-----------------------------------------------------------------------------
(* What else the deletion of a write-only subject deletes *)

\* Mutant of paramsUsedOnlyIn: the type parameters the field names at all.
paramsUsedIn(spec, field) ==
  {p \in spec.params : \E u \in Range(spec.uses) : u.of = p /\ u.field = field}

\* The type parameters whose every use in a type's declaration the field alone holds.
paramsUsedOnlyIn(spec, field) ==
  LET usesOf(p) == {u \in Range(spec.uses) : u.of = p}
  IN {p \in spec.params : usesOf(p) # {} /\ \A u \in usesOf(p) : u.field = field}

\* How many of the spans hold a byte, nested spans each counted.
holding(at, spans) == Cardinality({k \in DOMAIN spans : spans[k].from <= at /\ at < spans[k].to})

importsOnlyIn(file, spans) ==
  LET total(m) == {u \in file.uses : u.of = m}
      inside(m) == MapThenSumSet(LAMBDA u : holding(u.at, spans), total(m))
  IN {m \in file.imports : inside(m) > 0 /\ inside(m) = Cardinality(total(m))}

\* The first file that declares a field's type decides its parameters; a field declared on
\* one line with another has none.  Each file decides its own imports.
writeCascade(f, s, u) ==
  LET declaring == SelectSeq(f.files, LAMBDA file : container(f, s) \in DOMAIN file.types)
      spec == Head(declaring).types[container(f, s)]
      isField == f.symbols[s].kind = "field" /\ container(f, s) # None
      Spans(file) == Restrict(u.spans, {site \in DOMAIN u.spans : u.spans[site].file = file.name})
  IN [params |-> IF isField /\ declaring # <<>> /\ s \in spec.alone THEN paramsUsedOnlyIn(spec, s) ELSE {},
      imports |-> UNION {{[file |-> file.name, path |-> m] : m \in importsOnlyIn(file, Spans(file))} :
                           file \in Range(f.files)}]

-----------------------------------------------------------------------------
(* The exports nothing outside can import *)

unreferencedTestExport(f, v, s) ==
  /\ f.symbols[s].kind \notin {"field", "interface", "interfaceMethod"}
  /\ ~deadParent(f, v, s) /\ ~readOrWriteSubject(f, v, s)

\* Mutant of unreachableExport: a test of dead code is one of them.
reachesTests(f, v, s) ==
  LET symbol == f.symbols[s]
      c == v.candidates[s]
  IN /\ symbol.exported
     /\ IF c.unreferenced THEN unreferencedTestExport(f, v, s)
        ELSE /\ ~symbol.importable
             /\ unreferencedTestExport(f, v, s)
             /\ ~(c.production = 0 /\ symbol.deprecated) /\ ~testKept(c)

unreachableExport(f, v, s) ==
  LET symbol == f.symbols[s]
      c == v.candidates[s]
  IN /\ symbol.exported
     /\ IF c.unreferenced THEN unreferencedTestExport(f, v, s)
        ELSE /\ ~symbol.importable /\ ~c.ofDeadCode /\ ~symbol.inTest
             /\ unreferencedTestExport(f, v, s)
             /\ ~(c.production = 0 /\ symbol.deprecated) /\ ~testKept(c)
-----------------------------------------------------------------------------
(* Every kind's claims *)

Claim(code, s) == [code |-> code, id |-> s]
Claims(code, subjects) == {Claim(code, s) : s \in subjects}

\* The input as the classifier reads it.
classified(f, v) ==
  [f EXCEPT !.symbols = [s \in DOMAIN f.symbols |->
     [f.symbols[s] EXCEPT
        !.readOrWrite = s \in DOMAIN v.candidates /\ readOrWriteSubject(f, v, s),
        !.testCalled = s \in DOMAIN v.candidates /\ testCalledInterfaceMethod(f, v, s)]]]

unusedByCode(f, v) ==
  {Claim(codeOf(f, v, s), s) : s \in {s \in DOMAIN v.candidates : codeOf(f, v, s) # None}}

claimed(f, v, writeOnly, falling) ==
  LET claims ==
        unusedByCode(classified(f, v), v)
        \union Claims(ByDead, {s \in DOMAIN v.candidates : v.candidates[s].ofDeadCode})
        \union Claims("unused-interface", unusedInterface(f, v))
        \union Claims("uncalled-interface-method", uncalledInterfaceMethod(f, v))
        \union Claims("unused-satisfaction-assertion", unusedSatisfactionAssertion(f, v))
        \union Claims("unused-enum-member", unusedEnumMember(f, v))
        \union Claims("unused-type-parameter", unusedTypeParameter(f, v))
        \union Claims("unreachable-export", {s \in DOMAIN v.candidates : unreachableExport(f, v, s)})
        \union Claims("write-only-symbol", writeOnly)
  IN [claims |-> {c \in claims : c.id \notin falling}, falling |-> falling,
      cascades |-> [s \in writeOnly |-> writeCascade(f, s, uses(f, v, s))]]

Claimed(f) ==
  LET Of(writeOnly) == claimed(f, f.sweep, writeOnly, writeFalls(f, writeOnly))
  IN Of(writeOnlySubjects(f, f.sweep))
=============================================================================
