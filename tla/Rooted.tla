------------------------------- MODULE Rooted -------------------------------
(***************************************************************************)
(* The roots of one loaded configuration, each for the reason it is one,   *)
(* and the packages only tests reach (internal/roots).                     *)
(***************************************************************************)
EXTENDS FiniteSetsExt, SequencesExt

CONSTANT None  \* no declaration, no type, no package

\* Whether a configured pattern names a reference: a star keeps the place it last stood at.
RECURSIVE globFrom(_, _, _, _, _, _)
globFrom(pattern, ref, next, at, star, resume) ==
  CASE at > Len(ref) -> \A i \in next .. Len(pattern) : pattern[i] = "*"
    [] next <= Len(pattern) /\ pattern[next] \in {"?", ref[at]} -> globFrom(pattern, ref, next + 1, at + 1, star, resume)
    [] next <= Len(pattern) /\ pattern[next] = "*" -> globFrom(pattern, ref, next + 1, at, next, at)
    [] star > 0 -> globFrom(pattern, ref, star + 1, resume + 1, star, resume + 1)
    [] OTHER -> FALSE
matchGlob(pattern, ref) == globFrom(pattern, ref, 1, 1, 0, 1)

isPattern(pattern) == ToSet(pattern) \intersect {"*", "?"} # {}

matchRef(pattern, ref) == IF isPattern(pattern) THEN matchGlob(pattern, ref) ELSE pattern = ref
-----------------------------------------------------------------------------
(* The words of a go:generate directive: a flag has a name and may join a value to it. *)
takesValue(args, boolean, i) ==
  /\ args[i].flag /\ ~args[i].joined /\ args[i].name \notin boolean
  /\ i < Len(args) /\ ~args[i + 1].flag

\* The words the scan stops at: those no flag before them takes.
RECURSIVE stops(_, _, _)
stops(args, boolean, i) ==
  IF i > Len(args) THEN <<>>
  ELSE <<i>> \o stops(args, boolean, IF takesValue(args, boolean, i) THEN i + 2 ELSE i + 1)

flagValue(args, name, boolean) ==
  LET Sets(i) == args[i].flag /\ args[i].name = name /\ name \notin boolean
      at == SelectSeq(stops(args, boolean, 1), Sets)
  IN IF at = <<>> THEN ""
     ELSE IF takesValue(args, boolean, at[1]) THEN args[at[1] + 1].name ELSE args[at[1]].value

positionalArgs(args, boolean) ==
  LET at == SelectSeq(stops(args, boolean, 1), LAMBDA i : ~args[i].flag) IN [i \in DOMAIN at |-> args[at[i]].name]

\* The program a directive runs, behind go run and its flags, and the words it passes.
goValueFlags == {"tags", "C", "mod", "ldflags"}
generatorOf(words) ==
  LET behind == Len(words) > 2 /\ words[1].name = "go" /\ words[2].name \in {"run", "tool"}
      Flags(i) == words[i].flag /\ words[i].name \in goValueFlags /\ ~words[i].joined
      rest[i \in Nat] == IF i <= Len(words) /\ words[i].flag THEN rest[IF Flags(i) THEN i + 2 ELSE i + 1] ELSE i
      at == IF behind THEN rest[3] ELSE 1
  IN IF at > Len(words) THEN <<>> ELSE SubSeq(words, at, Len(words))

\* What a directive names as an input: the file of a flag, or names of a package.
Inputs(words, rule) ==
  LET run == generatorOf(words)
      args == Tail(run)
      positional == positionalArgs(args, rule.boolean)
      source == flagValue(args, "source", rule.boolean)
  IN IF run = <<>> \/ run[1].name # rule.program THEN <<>>
     ELSE CASE rule.select = "type" -> <<[file |-> "", package |-> ".", names |-> <<flagValue(args, "type", {})>>]>>
            [] source # "" -> <<[file |-> source, package |-> "", names |-> <<>>]>>
            [] Len(positional) < 2 -> <<>>
            [] OTHER -> <<[file |-> "", package |-> positional[Len(positional) - 1], names |-> <<Last(positional)>>]>>
-----------------------------------------------------------------------------
(***************************************************************************)
(* Test support.  Each configuration holds the packages it loads, those    *)
(* that could be test support, those carrying test evidence, those that    *)
(* declare a root, and what names what: a package of the target (None for  *)
(* a consumer), from a file that is test code or is not.                   *)
(***************************************************************************)
testUser == "test"
outsideUser == "consumer"

supportCandidate(p, library) ==
  ~p.test /\ p.name # "main" /\ ~p.external /\ (library => p.internal)

rootedPackages(one) == {r.package : r \in {r \in one.roots : r.kind \notin {"init", "blank", "test"}}}

usersOf(one, candidates) ==
  LET User(u) == IF u.test THEN testUser ELSE IF u.from = None THEN outsideUser ELSE u.from
  IN [k \in candidates |-> {User(u) : u \in {u \in one.uses : u.to = k}} \ {k}]

hasOutsideUser(users, support) == users \ (support \union {testUser}) # {}

RECURSIVE reachedFrom(_, _, _)
reachedFrom(support, users, reached) ==
  LET next == reached \union {k \in support : users[k] \intersect ({testUser} \union reached) # {}}
  IN IF next = reached THEN reached ELSE reachedFrom(support, users, next)
reachedByTests(support, users) == reachedFrom(support, users, {})

\* A pass drops what something outside uses until nothing more is, in whatever order the set
\* is walked, then what no test reaches.
droppedOutside(support, users) == {k \in support : ~hasOutsideUser(users[k], support)}
RECURSIVE largestSupport(_, _)
largestSupport(support, users) ==
  LET inside == droppedOutside(support, users)
      next == reachedByTests(inside, users)
  IN IF next = support THEN support ELSE largestSupport(next, users)

\* Mutant of classify: a package is judged by what uses it, not by what uses those.
classifyOnce(one, library) ==
  LET held == {k \in one.loaded : supportCandidate(one.packages[k], library)} \ rootedPackages(one)
      users == usersOf(one, held)
      Once(some) == reachedByTests(droppedOutside(some, users), users)
      support == Once(held \intersect one.evidenced)
  IN [Support |-> support, Reached |-> Once(held) \ support, Loaded |-> one.loaded]

classify(one, library) ==
  LET held == {k \in one.loaded : supportCandidate(one.packages[k], library)} \ rootedPackages(one)
      users == usersOf(one, held)
      support == largestSupport(held \intersect one.evidenced, users)
  IN [Support |-> support, Reached |-> largestSupport(held, users) \ support, Loaded |-> one.loaded]

\* A package is so under the matrix where every configuration that loads it says so.
MatrixTests(per) ==
  LET loaded == UNION {one.Loaded : one \in ToSet(per)}
      support == {k \in loaded : \A one \in ToSet(per) : k \in one.Loaded => k \in one.Support}
      either == {k \in loaded : \A one \in ToSet(per) : k \in one.Loaded => k \in one.Support \union one.Reached}
  IN [Support |-> support, Reached |-> either \ support, Loaded |-> loaded]

ClassifyTestSupport(m) ==
  LET per == [c \in DOMAIN m.configurations |-> classify(m.configurations[c], m.library)]
  IN [per |-> per, matrix |-> MatrixTests(per)]
-----------------------------------------------------------------------------
(***************************************************************************)
(* The roots.  An input r holds the inventory's declarations; the package  *)
(* variants by import path and directory, each with the packages it        *)
(* imports, its scope, its type errors and its files; the types of the     *)
(* scopes, each with what it declares and embeds; the programs; the        *)
(* packages consumers load; the packages other configurations check clean; *)
(* and the configured patterns.                                            *)
(***************************************************************************)
Root(kind, ids) == {[at |-> id, kind |-> kind, source |-> <<>>] : id \in ids \ {None}}

variants(r) == UNION {ToSet(g.variants) : g \in ToSet(r.groups)}
typedOf(r, path) == {p \in UNION {ToSet(g.variants) : g \in {g \in ToSet(r.groups) : g.path = path}} : p.typed}

published(g) ==
  LET checked == SelectSeq(g.variants, LAMBDA p : p.typed)
  IN ~(checked # <<>> /\ checked[1].name = "main") /\ "internal" \notin ToSet(g.path)
isMain(g) == \E checked \in {SelectSeq(g.variants, LAMBDA p : p.typed)} : checked # <<>> /\ checked[1].name = "main"

\* The group of a declaration; where two share its path, the one whose directory holds it.
classOf(r, s) ==
  LET of == {g \in ToSet(r.groups) : g.path = s.path}
  IN IF Cardinality(of) = 1 THEN of ELSE {g \in of : g.dir = s.dir}

usedByPrograms(r) == UNION {q.imports \union {u.path : u \in q.uses} : q \in r.programs}

RECURSIVE visited(_, _)
visited(r, some) ==
  LET next == some \union {p \in variants(r) : \E q \in some : p.id \in q.imports}
  IN IF next = some THEN some ELSE visited(r, next)

\* The packages of modules read whole that no binary, program or consumer links.
UnlinkedPackages(r) ==
  LET seeds == {p \in variants(r) : p.name = "main" \/ p.forTest \/ p.path \in usedByPrograms(r) \/ p.id \in r.consumed}
      linked == {p.key : p \in visited(r, seeds)}
  IN {p.key : p \in {p \in variants(r) : p.ofTarget /\ p.whole /\ p.goFiles}} \ linked

testSignature(fn, param) == fn.takes = <<param>> /\ fn.results = 0
testFunction(fn) ==
  /\ fn.body /\ ~fn.generic
  /\ CASE fn.family = "TestMain" -> testSignature(fn, "M") \/ testSignature(fn, "T")
       [] fn.family = "Example" -> fn.takes = <<>> /\ fn.results = 0
       [] fn.family \in {"T", "B", "F"} -> testSignature(fn, fn.family)
       [] OTHER -> FALSE

functionRoots(file) ==
  LET plain == {fn \in file.functions : ~fn.method}
      tests == {fn \in plain : file.test /\ testFunction(fn)}
  IN Root("test", {fn.id : fn \in tests})
       \union Root("cgoExport", {fn.id : fn \in {fn \in plain \ tests : "C" \in file.imports /\ fn.exports}})

Lookup(scope, name) == IF name \in DOMAIN scope THEN {scope[name]} ELSE {}

\* What a directive joins: a name of the file's package, and a name of every variant of the
\* package its qualified name spells.
joined(r, p, words) ==
  Lookup(p.scope, words[2]) \union
    (IF Len(words) < 3 THEN {} ELSE UNION {Lookup(q.scope, words[3].name) : q \in typedOf(r, words[3].path)})

linknameDirective(words) == Len(words) \in 2 .. 3 /\ words[1] \in {"//go:linkname", "//go:linknamestd"}

linknames(r, p, file) ==
  LET binds == {words \in file.comments : linknameDirective(words)}
  IN IF ~p.typed \/ "unsafe" \notin file.imports THEN {}
     ELSE Root("linkname", {o.id : o \in {o \in UNION {joined(r, p, words) : words \in binds} : o.sort \in {"func", "var"}}})

docDirective(file) ==
  UNION {UNION {Root(kind, d.names \union (IF d.form = "func" THEN {} ELSE d.fields)) :
                  kind \in {k \in d.directives : d.form = "func" \/ k = "swagger"}} : d \in file.decls}

\* What a generator reads, and each method of an interface it reads.
generatorInputs(r, p, file, named) ==
  LET scopes == IF named.package = "." THEN {p} ELSE typedOf(r, <<named.package>>)
      objs == IF named.file # "" THEN UNION {f.interfaces : f \in {f \in ToSet(p.files) : f.name = named.file}}
              ELSE UNION {Lookup(q.scope, name) : q \in scopes, name \in ToSet(named.names)}
  IN Root("generate", {o.id : o \in objs} \union UNION {o.explicit : o \in objs})
generateDirectives(r, p, file) ==
  IF ~p.typed THEN {}
  ELSE UNION {UNION {generatorInputs(r, p, file, named) : named \in ToSet(Inputs(words, rule))} :
                words \in file.generates, rule \in r.generators}

\* The methods a suite runner calls, of a value whose type is no interface.
suiteMethods(file) ==
  Root("test", UNION {{m.id : m \in {m \in suite.methods : m.exported /\ m.called}} :
                        suite \in {suite \in file.suites : ~suite.interface}})
taggedEntries(file) == IF file.fuzzed THEN Root("fuzz", {fn.id : fn \in {fn \in file.functions : fn.entry}}) ELSE {}

walkFile(r, p, file) ==
  linknames(r, p, file) \union functionRoots(file) \union docDirective(file)
    \union generateDirectives(r, p, file) \union suiteMethods(file) \union taggedEntries(file)

RECURSIVE exportedContainers(_, _)
exportedContainers(r, parents) ==
  \A c \in parents \ {None} :
    \/ r.symbols[c].kind \in {"package", "file"}
    \/ r.symbols[c].exported /\ exportedContainers(r, r.symbols[c].parents)

\* Mutant of publishedAPI: the container alone is read, not those above it.
publishedNear(r) ==
  {s \in DOMAIN r.symbols :
     LET of == r.symbols[s] IN
     /\ of.exported /\ of.kind # "typeParam" /\ ~of.inTest /\ \E g \in classOf(r, of) : published(g)
     /\ \A c \in of.parents \ {None} : r.symbols[c].exported \/ r.symbols[c].kind \in {"package", "file"}}

publishedAPI(r) ==
  {s \in DOMAIN r.symbols :
     LET of == r.symbols[s] IN
     /\ of.exported /\ of.kind # "typeParam" /\ ~of.inTest /\ \E g \in classOf(r, of) : published(g)
     /\ exportedContainers(r, of.parents)}

\* The methods a value selects through embedded fields: the shallowest of each name.
RECURSIVE selected(_, _, _)
selected(r, types, hidden) ==
  LET methods == UNION {r.types[t].methods : t \in types}
      alone == {m \in methods : m.name \notin hidden /\ ~\E n \in methods : n.name = m.name /\ n # m}
      deeper == UNION {r.types[t].embeds : t \in types}
  IN IF types = {} THEN {} ELSE alone \union selected(r, deeper, hidden \union {m.name : m \in methods})

promoted(r) ==
  UNION {LET t == r.types[o.type] IN
         {m.id : m \in {m \in selected(r, t.embeds, {m.name : m \in t.methods}) : m.exported}} :
         o \in {o \in UNION {UNION {Range(p.scope) : p \in {p \in ToSet(g.variants) : p.typed}} :
                               g \in {g \in ToSet(r.groups) : published(g)}} :
                  o.sort = "type" /\ o.exported /\ ~r.types[o.type].interface}}

generatorPackageInputs(r) ==
  {s \in DOMAIN r.symbols :
     LET of == r.symbols[s] IN
     of.dir \in r.inputDirs /\ of.exported /\ of.kind # "typeParam" /\ ~of.inTest /\ exportedContainers(r, of.parents)}

declared(r) ==
  LET unlinked == IF r.library THEN {} ELSE UnlinkedPackages(r)
      linked == {s \in DOMAIN r.symbols : r.symbols[s].package \notin unlinked}
      Named(name) == {s \in DOMAIN r.symbols : r.symbols[s].kind = "func" /\ r.symbols[s].name = name}
  IN Root("blank", {s \in linked : r.symbols[s].blank})
       \union Root("init", linked \intersect Named("init"))
       \union Root("main", {s \in Named("main") : \E g \in classOf(r, r.symbols[s]) : isMain(g)})

\* The declarations each configured string names; a blank one has no reference of its own.
configuredBy(r, pattern) == {s \in DOMAIN r.symbols : ~r.symbols[s].blank /\ matchRef(pattern, r.symbols[s].ref)}
configured(r) ==
  UNION {{[at |-> s, kind |-> IF isPattern(pattern) THEN "pattern" ELSE "configured", source |-> pattern] :
            s \in configuredBy(r, pattern)} : pattern \in ToSet(r.patterns)}
unmatched(r) == {pattern \in ToSet(r.patterns) : configuredBy(r, pattern) = {}}
-----------------------------------------------------------------------------
(* What a type error leaves unresolved.  A type is invalid, named, a pointer, a function, a *)
(* container or any other; a flow takes values to destinations. *)
typeFailed(r) == {p.key : p \in {p \in variants(r) : p.ofTarget /\ p.errors # {}}}
checkedElsewhere(r) == typeFailed(r) \intersect r.clean
skippedDecls(r) ==
  UNION {p.errors : p \in {p \in variants(r) : p.ofTarget /\ p.key \notin checkedElsewhere(r)}}

unresolved(t) == t.op = "invalid"
elementOf(t) == IF t.op = "container" THEN t.of ELSE t

\* Every method and field the type declares, through one pointer.
rootMembers(r, t) ==
  LET of == IF t.op = "pointer" THEN t.of ELSE t IN
  IF of.op = "named" THEN {m.id : m \in r.types[of.name].methods} \union r.types[of.name].fields ELSE {}
rootReached(r, t) == IF t.op = "func" THEN UNION {rootMembers(r, one) : one \in ToSet(t.results)} ELSE rootMembers(r, t)

ParameterType(sig, i, spread) ==
  LET n == Len(sig.params) IN
  CASE n = 0 -> None
    [] i < n -> sig.params[i]
    [] sig.variadic /\ ~spread /\ sig.params[n].op = "container" -> sig.params[n].of
    [] sig.variadic \/ i = n -> sig.params[n]
    [] OTHER -> None

rootInto(r, to, values) ==
  IF Len(to) # Len(values) THEN {}
  ELSE UNION {rootReached(r, values[i]) : i \in {i \in DOMAIN to : unresolved(to[i])}}

rootArguments(r, flow) ==
  IF flow.conversion THEN rootInto(r, <<flow.fun>>, flow.values)
  ELSE UNION {rootReached(r, flow.values[i]) : i \in {i \in DOMAIN flow.values :
         \/ unresolved(flow.fun)
         \/ flow.fun.op = "func" /\ LET to == ParameterType(flow.fun, i, flow.spread) IN to # None /\ unresolved(to)}}

\* Mutant of rootFlow: an argument is read as an assigned value is.
rootFlowPaired(r, flow) ==
  CASE flow.form = "into" -> rootInto(r, flow.to, flow.values)
    [] flow.form = "call" -> IF flow.fun.op = "func" THEN rootInto(r, flow.fun.params, flow.values) ELSE rootArguments(r, flow)
    [] flow.form = "elements" -> IF unresolved(flow.of) \/ unresolved(elementOf(flow.of))
                                 THEN UNION {rootReached(r, v) : v \in ToSet(flow.values)} ELSE {}

\* A result, an assigned name, a declared variable, an argument or an element of a literal.
rootFlow(r, flow) ==
  CASE flow.form = "into" -> rootInto(r, flow.to, flow.values)
    [] flow.form = "call" -> rootArguments(r, flow)
    [] flow.form = "elements" -> IF unresolved(flow.of) \/ unresolved(elementOf(flow.of))
                                 THEN UNION {rootReached(r, v) : v \in ToSet(flow.values)} ELSE {}

typeErrors(r) ==
  UNION {Root("typeError", e.names \union UNION {rootMembers(r, t) : t \in e.selections}
                                   \union UNION {rootFlow(r, flow) : flow \in e.flows}) :
         e \in {e \in skippedDecls(r) : e.declares}}
-----------------------------------------------------------------------------
Roots(r) ==
  UNION {UNION {walkFile(r, p, file) : file \in ToSet(p.files)} : p \in variants(r)}
    \union typeErrors(r)
    \union Root("program", UNION {{u.id : u \in q.uses} : q \in r.programs})
    \union declared(r)
    \union Root("generate", generatorPackageInputs(r))
    \union (IF r.library THEN Root("publishedAPI", publishedAPI(r) \union promoted(r)) ELSE {})
    \union configured(r)

RootsOf(r) == [roots |-> Roots(r), unmatched |-> unmatched(r), unlinked |-> UnlinkedPackages(r)]
=============================================================================
