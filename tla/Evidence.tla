------------------------------ MODULE Evidence ------------------------------
(***************************************************************************)
(* What a run decides from what it loaded, before and after the sweep:     *)
(* the questions of Plan, and those the loaded program answers.  Each      *)
(* behaviour asks one.                                                     *)
(***************************************************************************)
EXTENDS Plan

CONSTANTS
  None,    \* no declaration
  Symbol,  \* the declarations a sweep judges
  Outside  \* an identifier the inventory does not hold

Narrow == INSTANCE Narrowing
Reported == INSTANCE Kinds WITH RowOf <- <<>>
Swept(judged) == INSTANCE SweepRules WITH Sweeps <- {}, in <- judged

Body == INSTANCE Intrafunc
Rooting == INSTANCE Rooted
Refer == INSTANCE Referring
Inventory == INSTANCE Inventoried
Artifact == INSTANCE Artifacts
Remark == INSTANCE Remarks
Exempting == INSTANCE Exempted

NarrowExports == Asked("narrow") /\ out' = Narrow!Narrowed(in.of)

\* The graph of what the target's references name and the consumers' do.
GraphOf(of) ==
  LET From(s) == SelectSeq(of.refs, LAMBDA r : r.from = s)
      Consumed(s) == \E r \in Range(of.refs) : r.to = s /\ r.from = None
  IN [refs |-> [s \in Symbol |-> [i \in DOMAIN From(s) |-> From(s)[i].to]],
      uses |-> [s \in Symbol |-> <<>>], support |-> {}, subject |-> Symbol, testReached |-> {},
      inTestFile |-> {s \in Symbol : of.symbols[s].inTest}, parents |-> [s \in Symbol |-> {}],
      rooted |-> of.roots,
      consumers |-> [s \in Symbol |-> IF Consumed(s) THEN {"production"} ELSE {}]]

Ruled(of) ==
  [exempt |-> {}, marked |-> {}, unseen |-> {}, tested |-> {}, production |-> of.production,
   consumerTests |-> of.consumerTests]

\* The candidates of a sweep, and the kinds that report them.
Judged(input) ==
  UNION {{[candidates |-> [s \in judged.dead |-> Swept(input)!Candidate(v, judged, s)],
           withdrawn |-> FALSE, retained |-> {}] : judged \in {Swept(input)!judge(v)}} :
         v \in {[exemptions |-> TRUE, marked |-> {}, reached |-> Swept(input)!PassOf(3)]}}

ClaimKinds ==
  /\ Asked("kinds")
  /\ \E input \in {[g |-> GraphOf(in.of), p |-> Ruled(in.of)]} : \E v \in Judged(input) :
       out' = Reported!Claimed(in.of @@ [sweep |-> v]) @@ [sweep |-> v]

ReadStores == Asked("stores") /\ out' = Body!deadStoresIn(in.of)
ReadParts == Asked("parts") /\ out' = Body!PartsFound(in.of)

MatchPattern == Asked("glob") /\ out' = Rooting!matchRef(in.of.pattern, in.of.ref)
ClassifyTests == Asked("support") /\ out' = Rooting!ClassifyTestSupport(in.of)
DetectRoots == Asked("roots") /\ out' = Rooting!RootsOf(in.of)
ReadReferences == Asked("references") /\ out' = Refer!walkFile(in.of)
Enumerate == Asked("inventory") /\ out' = [i \in DOMAIN in.of |-> Inventory!Of(in.of[i])]
ReadArtifacts == Asked("artifacts") /\ out' = Artifact!Of(in.of)
ReadDirectives == Asked("directives") /\ out' = Remark!Inline(in.of)
ReadLiterals == Asked("literals") /\ out' = Remark!capNameLiterals(in.of)
ComputeExemptions == Asked("exemptions") /\ out' = Exempting!Compute(in.of)
SweepCarriers == Asked("carriers") /\ out' = Exempting!Carry(in.of)

EvidenceNext ==
  \/ Next \/ NarrowExports \/ ClaimKinds \/ ReadStores \/ ReadParts
  \/ MatchPattern \/ ClassifyTests \/ DetectRoots \/ ReadReferences \/ Enumerate
  \/ ReadArtifacts \/ ReadDirectives \/ ReadLiterals
  \/ ComputeExemptions \/ SweepCarriers

EvidenceSpec == Init /\ [][EvidenceNext]_vars
-----------------------------------------------------------------------------
(* Properties *)

\* An export is reported for the least visibility that keeps the program building: every
\* reference to it stays inside, and no code outside reaches its values through any chain of
\* the types of its package. Nothing narrowable so is lost, and nothing is reported twice.
NarrowingsHold ==
  Answered("narrow") =>
    LET n == in.of
        carriers == Narrow!readCarriers(n)
        types == {<<c.by, c.type>> : c \in {c \in carriers : c.isType}}
        chains == FoldSet(LAMBDA s, paths : paths \union
                    {<<a, b>> \in {p[1] : p \in paths} \X {p[2] : p \in paths} : <<a, s>> \in paths /\ <<s, b>> \in paths},
                    types \union {<<s, s>> : s \in DOMAIN n.symbols}, DOMAIN n.symbols)
        Scopes(s, r) == Narrow!scopeOf(n, n.symbols[s], r)
        ReferredFrom(s) == {Scopes(s, r) : r \in Narrow!ReferencesTo(n, s)}
        ReachedFrom(s) == UNION {ReferredFrom(c.by) : c \in {c \in carriers : <<c.type, s>> \in chains}}
        Narrowest(s) == \E x \in out : x.id = s
    IN /\ \A x \in out :
            LET kept == {v \in 0 .. 2 : Narrow!Visibility[v + 1] = x.visibility} IN
            \A v \in kept :
              /\ v \in ReferredFrom(x.id) \/ v = 0
              /\ \A w \in ReferredFrom(x.id) : w <= v
              /\ \A w \in ReachedFrom(x.id) : w <= Max({v, Narrow!scopePackage})
       /\ \A x, y \in out : x.id = y.id => x = y
       /\ \A s \in DOMAIN n.symbols :
            Narrow!narrowable(n, s)
              /\ \/ \A w \in ReferredFrom(s) \union ReachedFrom(s) : w < Narrow!scopeModule
                 \/ /\ n.symbols[s].importable /\ Narrow!scopeModule \in ReferredFrom(s)
                    /\ \A w \in ReferredFrom(s) \union ReachedFrom(s) : w < Narrow!scopeOutside
            => Narrowest(s)

\* No declaration is reported under two kinds, but for a constant of an iota group that a
\* test file declares of dead code, which two kinds claim.  Nothing dead is lost: what no
\* kind reports falls with what declares it or with a field only written, is reached by the
\* tests, asserts an interface, or is a method of an interface something still calls.  What
\* is only written is live, the target alone writes it, and no counted reference reads it but
\* from what is dead.
KindsClaim ==
  Answered("kinds") =>
    LET f == in.of
        v == out.sweep
        dead == DOMAIN v.candidates
        Claimed == {c.id : c \in out.claims}
        Is(s, kinds) == f.symbols[s].kind \in kinds
        ConstantOfDeadCode(s) == v.candidates[s].ofDeadCode /\ Reported!enumMember(f, s)
        CountedTo(s) == {r \in Range(f.refs) : r.to = s /\ (f.production => ~r.test)}
        Spared(s) ==
          \/ s \in out.falling
          \/ f.symbols[s].parents # {} /\ f.symbols[s].parents \subseteq dead
          \/ f.symbols[s].inTest /\ ~v.candidates[s].unreferenced
          \/ f.symbols[s].blank
          \/ Is(s, {"interfaceMethod"}) /\ \E r \in Range(f.refs) : r.to = s
          \/ Is(s, {"interface", "interfaceMethod"}) /\ f.symbols[s].inTest
    IN /\ \A c, d \in out.claims : c.id = d.id => c = d \/ ConstantOfDeadCode(c.id)
       /\ \A s \in dead \ Claimed : Spared(s)
       /\ \A c \in {c \in out.claims : c.code = "write-only-symbol"} :
            /\ c.id \notin dead
            /\ \A r \in CountedTo(c.id) : r.from # None /\ (r.kind # "write" => r.from \in dead)
       /\ \A s \in out.falling : \A r \in CountedTo(s) :
            \E c \in out.claims : c.code = "write-only-symbol" /\ c.id \in Range(r.carriers)

\* What a write-only finding says its deletion deletes too is used nowhere else: the field is
\* every use of the type parameter, and each use of the import is in what the writes delete,
\* where no write is inside another.
CascadesWhole ==
  Answered("kinds") =>
    \A s \in DOMAIN out.cascades :
      LET u == Reported!uses(in.of, out.sweep, s)
          held(file, at) == {site \in DOMAIN u.spans : u.spans[site].file = file.name
                               /\ u.spans[site].from <= at /\ at < u.spans[site].to}
      IN /\ \A p \in out.cascades[s].params : \A file \in Range(in.of.files) : \A t \in DOMAIN file.types :
              \A use \in Range(file.types[t].uses) : use.of = p => use.field = s
         /\ \A file \in Range(in.of.files) : \A m \in {m.path : m \in {m \in out.cascades[s].imports : m.file = file.name}} :
              (\A use \in file.uses : Cardinality(held(file, use.at)) <= 1)
                => \A use \in file.uses : use.of = m => held(file, use.at) # {}

\* The kinds divide the dead between them, and what is only written takes along what only it uses.
ClaimsWhole == KindsClaim /\ CascadesWhole

\* A store reported dead is read on no path, whoever holds the variable: no read follows it
\* before the next store, and no pointer and no literal that could read it later was made
\* before it. A store of a variable nothing points to that no path reads is reported. (A
\* pointer method selected on a part of the variable is not seen: escape reads bare names.)
StoresUnread ==
  Answered("stores") =>
    LET fn == in.of
        Places == UNION {{<<b, n>> : n \in 0 .. Len(fn.blocks[b].nodes)} : b \in DOMAIN fn.blocks}
        Node(m) == fn.blocks[m[1]].nodes[m[2]]
        Bare(targets) == {e.var : e \in {e \in ToSet(targets) : e.op = "name"}}
        Named(es) == {e.var : e \in {e \in UNION {Body!within(e) : e \in es} : e.op = "name"}}
        Values(m) == IF m[2] = 0 THEN {} ELSE ToSet(Node(m).values)
        Targets(m) == IF m[2] = 0 THEN ToSet(fn.blocks[m[1]].ranges) ELSE ToSet(Node(m).targets)
        Writes(m) ==
          IF m[2] = 0 THEN Bare(fn.blocks[m[1]].ranges)
          ELSE IF Node(m).op \in {"assign", "incdec"} \/ (Node(m).op = "spec" /\ Node(m).values # <<>>)
               THEN Bare(Node(m).targets) ELSE {}
        Uses(m) ==
          Named(Values(m) \union {e \in Targets(m) : e.op # "name"})
            \union (IF m[2] = 0 THEN {}
                    ELSE CASE Node(m).op = "incdec" \/ Node(m).tok = "compound" -> Named(Targets(m))
                           [] Node(m).op = "return" /\ Node(m).values = <<>> -> ToSet(fn.results)
                           [] OTHER -> {})
        Holds(m) ==
          {v \in Named(Values(m)) :
             \E e \in UNION {Body!within(e) : e \in Values(m)} :
               \/ e.op = "literal" /\ e.called # "here" /\ v \in Named({e})
               \/ e.op = "address" /\ Body!addressed(Head(e.parts)).op = "name" /\ v \in Named(ToSet(e.parts))
               \/ e.op = "method" /\ Head(e.parts).op = "name" /\ v = Head(e.parts).var}
        Follow(ms) ==
          UNION {IF m[2] < Len(fn.blocks[m[1]].nodes) THEN {<<m[1], m[2] + 1>>}
                 ELSE {<<b, 0>> : b \in fn.blocks[m[1]].succs} : m \in ms}
        From(ms, v, kept) ==
          FoldSet(LAMBDA i, seen : seen \union Follow({m \in seen : kept \/ v \notin Writes(m)}), ms, 1 .. Cardinality(Places))
        Observed(m, v) ==
          \/ \E after \in From(Follow({m}), v, FALSE) : v \in Uses(after)
          \/ m \in From({before \in Places : v \in Holds(before)}, v, TRUE)
        Pointed(v) == \E m \in Places : \E e \in UNION {Body!within(e) : e \in Values(m)} :
                        e.op \in {"address", "method"} /\ v \in Named({e})
        IsReported(m, v) == [block |-> m[1], node |-> m[2], var |-> v] \in out
    IN \A v \in ToSet(fn.results) \union ToSet(fn.received) \union {d.var : d \in fn.declares} :
         \A m \in {m \in Places : v \in Writes(m)} :
           /\ IsReported(m, v) => ~Observed(m, v) \/ \E e \in UNION {Body!within(e) : e \in UNION {Values(k) : k \in Places}} :
                                                     e.op = "method" /\ Head(e.parts).op = "part" /\ v \in Named({e})
           /\ ~Pointed(v) /\ ~Observed(m, v) => IsReported(m, v)

\* What is reported of a declaration is so under every configuration: no configuration that
\* compiles its file reads the name or uses the result, a signature a value, another file or
\* an unseen caller fixes has no unused part, and a clause of one type that is reported is
\* what no value matches first. A result every site discards is reported.
PartsAgree ==
  Answered("parts") =>
    LET p == in.of
        Functions(x) == {fn \in UNION {one.functions : one \in ToSet(p.configurations)} : fn.id = x.decl}
        Sites(id) == {site \in UNION {one.calls : one \in ToSet(p.configurations)} : site.to = id}
        Discards(site, i) ==
          /\ site.parent # "other"
          /\ site.parent = "assign" =>
               site.targets[i] = "_" /\ \A one \in ToSet(p.configurations) : \A fn \in one.functions :
                                         fn.id = site.to => Len(fn.results) = Len(site.targets)
        Fixed(fn) == \/ \E r \in p.refs : r.to = fn.id /\ r.kind # "call"
                     \/ \E one \in ToSet(p.configurations) : \E g \in one.functions : g.key = fn.key /\ g.file # fn.file
        Matches(value, t) == t = value \/ (t # None /\ p.types[t].interface /\ t \in p.types[value].implements)
    IN /\ \A x \in out : x.code \in {"unused-parameter", "unused-receiver"} =>
            \A fn \in Functions(x) :
              LET lists == {[named |-> fn.params, read |-> fn.read], [named |-> fn.receiver, read |-> fn.read]} \union
                           {[named |-> lit.params, read |-> lit.read] : lit \in fn.literals}
              IN /\ \E list \in lists : x.at[2] \in ToSet(list.named) \ list.read
                 /\ x.code = "unused-parameter" /\ fn.literals = {} => ~Fixed(fn)
       /\ \A x \in out : x.code = "unused-result" =>
            /\ \A site \in Sites(x.decl) : Discards(site, x.at[2])
            /\ Sites(x.decl) # {}
       /\ \A x \in out : x.code = "unreachable-case" =>
            \A fn \in Functions(x) :
              LET clauses == fn.switches[x.at[2]] IN
              Cardinality(clauses[x.at[3]]) = 1 =>
                \A value \in {t \in DOMAIN p.types : ~p.types[t].interface} :
                  (\E t \in clauses[x.at[3]] : Matches(value, t)) =>
                    \E i \in 1 .. x.at[3] - 1 : \E t \in clauses[i] : Matches(value, t)
       /\ \A one \in ToSet(p.configurations) : \A fn \in one.functions : \A i \in DOMAIN fn.results :
            /\ p.refs \subseteq {[to |-> fn.id, kind |-> "call"]} /\ p.roots = {} /\ ~p.library /\ ~fn.stub
            /\ fn.declared /\ fn.id \notin p.exempted \union p.testEvidence \union p.fixed
            /\ Sites(fn.id) # {} /\ (\A site \in Sites(fn.id) : Discards(site, i)) /\ p.candidates = <<>>
            => Body!Part("unused-result", fn, <<"result", i>>) \in out

\* What is said of a body holds however control flows and whatever configuration compiles it.
BodiesRead == StoresUnread /\ PartsAgree

\* A pattern names the references it spells, each star standing for some run of characters.
RECURSIVE Spells(_, _)
Spells(pattern, ref) ==
  IF pattern = <<>> THEN ref = <<>>
  ELSE IF Head(pattern) = "*" THEN \E i \in 0 .. Len(ref) : Spells(Tail(pattern), SubSeq(ref, i + 1, Len(ref)))
  ELSE ref # <<>> /\ Head(pattern) \in {"?", Head(ref)} /\ Spells(Tail(pattern), Tail(ref))
PatternsName == Answered("glob") => out = Spells(in.of.pattern, in.of.ref)

\* "Support is the largest set of ... packages carrying test evidence that only test files and
\* members import or reference" (the comment on ClassifyTestSupport): the union of every set
\* no one outside uses but tests, each part of which a test or the rest of the set uses. The
\* matrix holds a package only as every configuration that loads it does.
SupportLargest ==
  Answered("support") =>
    LET Candidates(one) ==
          {k \in one.loaded : Rooting!supportCandidate(one.packages[k], in.of.library) /\ k \notin Rooting!rootedPackages(one)}
        UsesOf(one, k) == {u \in one.uses : u.to = k /\ (u.test \/ u.from # k)}
        Closed(one, some) ==
          /\ \A k \in some : \A u \in UsesOf(one, k) : u.test \/ u.from \in some
          /\ \A part \in SUBSET some \ {{}} :
               \E k \in part : \E u \in UsesOf(one, k) : u.test \/ u.from \in some \ part
        Largest(one, candidates) == UNION {some \in SUBSET candidates : Closed(one, some)}
        confs == in.of.configurations
    IN /\ \A c \in DOMAIN confs :
            /\ out.per[c].Support = Largest(confs[c], Candidates(confs[c]) \intersect confs[c].evidenced)
            /\ out.per[c].Support \union out.per[c].Reached = Largest(confs[c], Candidates(confs[c]))
       /\ out.matrix.Support \intersect out.matrix.Reached = {}
       /\ \A c \in DOMAIN confs :
            /\ out.matrix.Support \intersect confs[c].loaded \subseteq out.per[c].Support
            /\ \A k \in (out.matrix.Support \union out.matrix.Reached) \intersect confs[c].loaded :
                 \A u \in UsesOf(confs[c], k) : u.test \/ u.from \in Candidates(confs[c])

\* What a consumer can name is rooted for a library and nothing else is, an init or a blank
\* declaration runs where some build links its package, and what a type error left unresolved
\* could reach is withheld unless another configuration checks the package.
RootsFound ==
  Answered("roots") =>
    LET r == in.of
        RootedFor(kinds) == {x.at : x \in {x \in out.roots : x.kind \in kinds}}
        open == FoldSet(LAMBDA i, held : held \union {s \in DOMAIN r.symbols :
                          (r.symbols[s].exported /\ r.symbols[s].parents \subseteq held \union {None})}, {}, DOMAIN r.symbols)
        Importable(s) == \E g \in ToSet(r.groups) : g.path = r.symbols[s].path /\ "internal" \notin ToSet(g.path)
                            /\ (g.dir = r.symbols[s].dir \/ \A h \in ToSet(r.groups) : h.path = g.path => h = g)
                            /\ ToSet(g.variants) # {} /\ g.variants[1].name # "main"
        Nameable == {s \in open : Importable(s) /\ ~r.symbols[s].inTest /\ r.symbols[s].kind # "typeParam"}
        imports == {<<p.id, q>> : p \in Rooting!variants(r), q \in {q.id : q \in Rooting!variants(r)}}
        ids == {p.id : p \in Rooting!variants(r)}
        edges == {e \in imports : \E p \in Rooting!variants(r) : p.id = e[1] /\ e[2] \in p.imports} \union {<<i, i>> : i \in ids}
        chains == FoldSet(LAMBDA k, paths : paths \union {e \in ids \X ids : <<e[1], k>> \in paths /\ <<k, e[2]>> \in paths}, edges, ids)
        Built(p) == p.name = "main" \/ p.forTest \/ p.id \in r.consumed
                      \/ \E q \in r.programs : p.path \in q.imports \/ \E u \in q.uses : u.path = p.path
        Links(s) == \E p, q \in Rooting!variants(r) : Built(p) /\ <<p.id, q.id>> \in chains /\ q.key = r.symbols[s].package
        Withheld == {p \in Rooting!variants(r) : p.key \notin r.clean}
        Methods(t) == IF t.op = "named" THEN {m.id : m \in r.types[t.name].methods}
                      ELSE IF t.op = "pointer" THEN {m.id : m \in r.types[t.of.name].methods} ELSE {}
        Called(v) == IF v.op = "func" THEN UNION {Methods(t) : t \in ToSet(v.results)} ELSE Methods(v)
        Received(flow) ==
          CASE flow.form = "into" -> flow.to
            [] flow.form = "call" /\ flow.fun.op = "func" ->
                 IF flow.fun.variadic /\ ~flow.spread /\ flow.fun.params # <<>> /\ Last(flow.fun.params).op = "container"
                 THEN Front(flow.fun.params) \o [i \in 1 .. Len(flow.values) |-> Last(flow.fun.params).of]
                 ELSE flow.fun.params
            [] OTHER -> <<>>
    IN /\ r.library => /\ Nameable \subseteq RootedFor({"publishedAPI"})
                       /\ \A s \in RootedFor({"publishedAPI"}) \ Nameable :
                            r.symbols[s].kind = "method" /\ \E t \in DOMAIN r.types : \E e \in r.types[t].embeds :
                              s \in {m.id : m \in r.types[e].methods}
       /\ \A s \in DOMAIN r.symbols : r.symbols[s].blank \/ r.symbols[s].name = "init" =>
            /\ Links(s) => s \in RootedFor({"blank", "init"})
            /\ s \in RootedFor({"blank", "init"}) =>
                 r.library \/ Links(s) \/ \E p \in Rooting!variants(r) : p.key = r.symbols[s].package /\ ~p.whole
       /\ \A p \in Withheld : \A e \in {e \in p.errors : e.declares} :
            /\ e.names \subseteq RootedFor({"typeError"})
            /\ \A flow \in e.flows : \A i \in DOMAIN flow.values \intersect DOMAIN Received(flow) :
                 (flow.form = "into" => Len(flow.to) = Len(flow.values)) /\ Received(flow)[i].op = "invalid"
                   => Called(flow.values[i]) \subseteq RootedFor({"typeError"})
       /\ Withheld = {} => RootedFor({"typeError"}) = {}

\* What is kept is what the build, the tests and the configuration keep.
RootsHold == PatternsName /\ SupportLargest /\ RootsFound
\* A store reads the fields whose value finds the place it stores into, and writes the
\* others: a pointer, a slice or a map on the way is loaded, a struct or an array is not. (An
\* array of pointers is marked written though the store reads it; it is left out.)
RECURSIVE LoadedBy(_, _)
LoadedBy(f, place) ==
  LET holder == Refer!of(place)
      Loads == {e \in Refer!within(holder) : e.op = "sel"}
      kind == CASE holder.op \in {"ident", "sel"} -> f.symbols[holder.to].holds
                [] holder.op = "index" -> f.symbols[Refer!of(holder).to].elements
                [] OTHER -> "struct"
  IN CASE place.op = "ident" -> {}
       [] place.op = "star" -> Loads
       [] place.op = "sel" -> IF kind = "pointer" THEN Loads ELSE LoadedBy(f, holder)
       [] place.op = "index" -> IF kind = "array" THEN LoadedBy(f, holder) ELSE Loads
StatementsOf(f) == UNION {UNION {Refer!within(n) : n \in ToSet(d.nodes)} : d \in {d \in ToSet(f.decls) : d.op = "func" /\ Refer!Owns(f, d.id)}}
StoresLocated(f) ==
  \A n \in {n \in StatementsOf(f) : n.op \in {"assign", "incdec", "range"}} : \A i \in 1 .. n.lhs :
    LET fields == {e \in Refer!within(n.parts[i]) : e.op = "sel"} IN
    (\A e \in fields : f.symbols[e.to].holds = "array" => f.symbols[e.to].elements # "pointer") =>
      \A e \in fields : \A r \in {r \in out : r.site = e.at /\ r.to = e.to /\ r.via = "identifier"} :
        (r.kind = "write") = (e \notin LoadedBy(f, n.parts[i]))

\* "carriers" are the declarations whose deletion takes a reference along: the declaration
\* whose annotation holds it, then what each write around it stores into, innermost first.
CarriersHold(f) ==
  \A r \in out :
    LET around == {w \in out : w.span # None /\ w.to # r.to /\ w.span.from <= r.site /\ r.site < w.span.till}
        Extent(to) == Min({w.span.till - w.span.from : w \in {w \in around : w.to = to}})
        written == {i \in DOMAIN r.carriers : r.carriers[i] # r.from}
    IN /\ ToSet(r.carriers) \ {r.from} = {w.to : w \in around} \ {r.from}
       /\ \A i, j \in written : i < j => Extent(r.carriers[i]) <= Extent(r.carriers[j])

\* A constant of an omitted list references all that the list it repeats gives it.
GroupsReferenced(f) ==
  \A d \in {d \in ToSet(f.decls) : d.op = "gen" /\ d.const} : \A i \in DOMAIN d.specs : \A k \in DOMAIN d.specs[i].names :
    LET own == d.specs[i].names[k]
        list == d.specs[Max({1} \union {j \in 1 .. i : d.specs[j].values # <<>>})]
        Named(nodes) == {e.to : e \in UNION {Refer!named(n) : n \in ToSet(nodes)}}
        Made == {r.to : r \in {r \in out : r.from = own /\ r.via # "literal-twin"}}
    IN own # None /\ Len(list.values) = Len(list.names) /\ Len(d.specs[i].names) = Len(list.names)
         /\ None \notin ToSet(d.specs[i].names) =>
         /\ Named(<<list.values[k]>> \o list.type) \subseteq Made
         /\ Made \subseteq Named(list.values \o list.type)

\* No conversion is broken by deleting what nothing references: without any one field it
\* embeds, or method its interface declares, that is not referenced, the value still satisfies.
ConversionsKept(f) ==
  \A d \in {d \in ToSet(f.decls) : d.op \in {"func", "gen"}} : \A c \in {c \in d.conversions : Refer!Owns(f, c.from)} :
    LET types == f.satisfying
        Without(id) ==
          [t \in DOMAIN types |->
             [types[t] EXCEPT !.embeds = {e \in types[t].embeds : e.id # id},
                              !.methods = [m \in {m \in DOMAIN types[t].methods : types[c.of].interface => types[t].methods[m] # id}
                                             |-> types[t].methods[m]]]]
        ids == UNION {{e.id : e \in types[t].embeds} \union ToSet(types[t].methods) : t \in DOMAIN types}
    IN Refer!Satisfies(types, c.of, c.to) =>
         \A id \in ids \ {r.to : r \in {r \in out : r.from = Refer!From(f, c.from) /\ r.site = c.site}} :
           Refer!Satisfies(Without(id), c.of, c.to)

\* A comparison reads every field the values compared hold, through structs and arrays alone.
ComparisonsRead(f) ==
  LET HeldBy(types) == UNION {
        CASE f.types[t].op = "array" -> {[id |-> None, type |-> f.types[t].of]}
          [] f.types[t].op = "struct" -> ToSet(f.types[t].fields)
          [] OTHER -> {} : t \in types \ {None}}
      Closure(types) == FoldSet(LAMBDA i, seen : seen \union {h.type : h \in HeldBy(seen)}, types, 1 .. Cardinality(DOMAIN f.types))
  IN \A n \in {n \in StatementsOf(f) : n.op = "eq"} :
       {r.to : r \in {r \in out : r.via = "comparison" /\ r.site = n.from}}
         = {h.id : h \in HeldBy(Closure({p.type : p \in ToSet(n.parts)}))} \ {None}

\* What is read, what falls with a write and what must stay for the program to build.
ReferencesHold ==
  Answered("references") =>
    StoresLocated(in.of) /\ CarriersHold(in.of) /\ GroupsReferenced(in.of) /\ ConversionsKept(in.of) /\ ComparisonsRead(in.of)

\* A declaration is one declaration whichever variants check its file and whichever
\* configuration compiles it: its identifier and its reference are the same under both, a
\* package's too, what declares it leads to its package, and a method is declared in its
\* receiver's type wherever that is written. (A blank method takes no reference.)
Enumerated(v, symbols) ==
  /\ \A s, t \in symbols : s.id = t.id \/ s.at = t.at => s = t
  /\ \A s \in symbols :
       LET up == FoldSet(LAMBDA i, seen : seen \union {t \in symbols : \E u \in seen : u.parent = t.at}, {s}, 1 .. 5) IN
       /\ s.kind = "package" \/ (\E t \in up : t.kind = "package" /\ t.package = s.package)
            \/ \E t \in up : t.kind = "method" /\ t.parent = None
       /\ s.kind = "method" /\ ~s.blank =>
            LET types == {t \in symbols : ~t.blank /\ t.package = s.package /\ t.ref = <<s.ref[1], Last(s.ref)>>}
            IN {s.parent} = IF types = {} THEN {None} ELSE {t.at : t \in types}
       /\ s.blank /\ s.kind # "method" => \E t \in symbols : t.at = s.parent /\ t.ref = s.ref

SameUnder(v, w, symbols, others) ==
  \A s \in symbols : \A key \in Inventory!Groups(w) :
    (IF s.kind = "package" THEN \E p \in v.packages : p.id = s.package /\ Inventory!keyOf(p) = key ELSE \E p \in ToSet(Inventory!Variants(w, key)) : s.at[1] \in p.files) =>
      \E t \in others : t.id = s.id /\ t.ref = s.ref /\ t.kind = s.kind /\ t.inTest = s.inTest /\ t.dependents = s.dependents

\* A constant's dependents are those of its group whose value changes, or is left without
\* one, when its specification is deleted, and the names that repeat a list beside it.
DependentsExact(specs, symbols) ==
  LET Value(some, j, k) ==
        LET lists == {l \in 1 .. j : some[l].writes} IN
        IF lists = {} \/ Len(some[Max(lists)].names) # Len(some[j].names) THEN <<>>
        ELSE <<some[Max(lists)].names[k].at, IF some[Max(lists)].mentionsIota THEN j ELSE 0>>
      Disturbed(i) ==
        UNION {{specs[j].names[k].at : k \in {k \in DOMAIN specs[j].names :
                  specs[j].names[k].name # "_" /\ Value(specs, j, k) # Value(RemoveAt(specs, i), j - 1, k)}} : j \in i + 1 .. Len(specs)}
      Beside(i) == IF specs[i].writes THEN {} ELSE Inventory!namedIn(specs[i])
  IN \A i \in DOMAIN specs : \A s \in symbols :
       s.at \in Inventory!namedIn(specs[i]) => s.dependents = (Disturbed(i) \union Beside(i)) \ {s.at}

\* What is declared is the same however it is loaded, and knows what falls with it.
DeclarationsHold ==
  Answered("inventory") =>
    \A i \in DOMAIN in.of :
      /\ Enumerated(in.of[i], out[i])
      /\ \A j \in DOMAIN in.of : SameUnder(in.of[i], in.of[j], out[i], out[j])
      /\ \A specs \in Inventory!groupsOf(in.of[i]) : DependentsExact(specs, out[i])
\* A requirement or a replacement is reported where every configuration loads the module
\* file's unit and deleting the directive would change none of them: no package of the unit
\* imports the module, and no chain of imports nor any tool reaches what is replaced. A
\* configuration that does not load the unit is no agreement.
DirectivesIdle(a, m, requires, replaces) ==
  LET Loaded == \A c \in ToSet(a.configs) : m.dir \in DOMAIN c.units
      Provides(c, id, path) == c.packages[id].module # None /\ c.packages[id].module.path = path
      Chains(c) == FoldSet(LAMBDA id, pairs : pairs \union
                     {<<x, y>> \in (DOMAIN c.packages) \X (DOMAIN c.packages) : <<x, id>> \in pairs /\ <<id, y>> \in pairs},
                     {<<x, y>> \in (DOMAIN c.packages) \X (DOMAIN c.packages) : x = y \/ y \in c.packages[x].imports}, DOMAIN c.packages)
      Redirects(old, c) == \E pair \in Chains(c) :
        /\ pair[1] \in c.units[m.dir] /\ Provides(c, pair[2], old.path)
        /\ old.version \in {None, c.packages[pair[2]].module.version}
      Builds(tool, path) == IsPrefix(path, tool) /\
        \A n \in Len(path) + 1 .. Len(tool) : \A r \in ToSet(m.requires) : r.path # SubSeq(tool, 1, n)
  IN /\ ToSet(requires) = {r \in ToSet(m.requires) : ~r.indirect /\ Loaded /\
           \A c \in ToSet(a.configs) : \A id \in c.units[m.dir] : \A to \in c.packages[id].imports : ~Provides(c, to, r.path)}
     /\ ToSet(replaces) = {old \in ToSet(m.replaces) : Loaded /\ (\A c \in ToSet(a.configs) : ~Redirects(old, c)) /\
           ~\E tool \in m.tools : old.path \in {r.path : r \in ToSet(m.requires)} /\ Builds(tool, old.path)}

\* Under a complete listed matrix, a file no configuration builds is reported once, under its
\* tested package, unless no configuration could decide it; a directory some configuration
\* holds no package of is out of reach.
FilesUnbuilt(a, built) ==
  ~built.failed =>
    built.found =
      {[file |-> file, path |-> a.home] : file \in {file \in DOMAIN a.built :
         /\ a.complete /\ a.listed /\ a.built[file] = {} /\ a.constraint[file] # "ignore"
         /\ \A i \in DOMAIN a.configs : a.home \in {p.path : p \in Artifact!Target(a.configs[i])} /\ file \notin a.configs[i].excludedByCgo}}

\* A file falls with its package where, whatever the configuration, no other package imports
\* the one in its directory, it is no main package, and everything declared in it is dead and
\* named by no root. Another module's package of the same path is another package.
PackagesUnreached(a, found) ==
  \A s \in {s \in a.symbols : s.kind = "file"} :
    s.id \in found <=>
      /\ \A c \in ToSet(a.configs) : \A p \in Artifact!Target(c) : \A to \in p.imports :
           c.packages[to].path = s.path /\ c.packages[to].dir = s.dir => p.path = s.path /\ p.dir = s.dir
      /\ \A c \in ToSet(a.configs) : \A p \in Artifact!Target(c) : p.path = s.path /\ p.dir = s.dir => ~p.main
      /\ \A t \in a.symbols : t.path = s.path /\ t.dir = s.dir =>
           t.id \notin a.roots /\ (t.kind \notin {"file", "package"} => t.id \in a.candidates)

\* A deletion is said to remove the last use of a module exactly where, in a unit of some
\* configuration, what the declaration itself writes is all that uses the module: without it
\* nothing in the unit does.
RECURSIVE Without(_, _, _, _)
Without(held, nodes, gone, within) ==
  UNION {LET inner == nodes[i].names \intersect held
             stripped == IF inner = {} THEN within ELSE inner = gone
         IN (IF stripped THEN {} ELSE nodes[i].uses) \union Without(held, nodes[i].inner, gone, stripped) : i \in DOMAIN nodes}

LastUsesRemoved(a, lastUses) ==
  LET Modules(c, unit, gone) ==
        {c.packages[id].module.path : id \in {id \in DOMAIN c.packages : c.packages[id].module # None /\ ~c.packages[id].module.main /\
           c.packages[id].path \in UNION {Without(a.held, c.packages[u].files, gone, FALSE) : u \in unit}}}
  IN \A i \in DOMAIN a.findings :
       lastUses[i] = IF ~a.findings[i].deletable THEN {} ELSE
         UNION {UNION {Modules(c, unit, {}) \ Modules(c, unit, {a.findings[i].id}) : unit \in Range(c.units)} : c \in ToSet(a.configs)}

\* What a finding says of a whole file or of a module file holds under every configuration.
ArtifactsHold ==
  Answered("artifacts") =>
    /\ \A i \in DOMAIN in.of.modules : DirectivesIdle(in.of, in.of.modules[i], out.requires[i], out.replaces[i])
    /\ FilesUnbuilt(in.of, out.built)
    /\ PackagesUnreached(in.of, out.imported)
    /\ LastUsesRemoved(in.of, out.lastUses)

\* What is read of the program: what it declares, and what refers to it.
ProgramRead == DeclarationsHold /\ ReferencesHold

\* A directive is about the declarations that begin on its own line where code precedes it
\* there, and on the next otherwise, and about a function one of whose signature's lines that
\* is. Each of its codes is recorded once for each of them, under whichever configuration
\* compiles it, and whatever order the configurations are read in; the malformed directive
\* that ends the read is the first in the order they render, whichever file it is found in.
DirectivesBind(d, answer) ==
  LET Compiled == UNION {ToSet(d.configurations[i].files) : i \in DOMAIN d.configurations}
      All(verdict) == UNION {{<<f, k>> : k \in {k \in d.content[f].comments : k.verdict = verdict}} : f \in Compiled}
      Place(f, k) == k.at \o <<f, k.offset>>
      Earlier(p, q) == \E i \in DOMAIN p : p[i] < q[i] /\ SubSeq(p, 1, i - 1) = SubSeq(q, 1, i - 1)
      After(f, k) == \E n \in d.content[f].nodes :
        \/ n.line = k.line /\ n.from < k.offset
        \/ n.lastLine = k.line /\ n.last < k.offset
      About(f, k) == {s.id : s \in {s \in UNION {ToSet(d.configurations[i].symbols) : i \in {i \in DOMAIN d.configurations : f \in ToSet(d.configurations[i].files)}} :
        LET line == IF After(f, k) THEN k.line ELSE k.line + 1 IN
        s.kind \notin {"file", "package"} /\ s.file = f /\
          (s.line = line \/ \E fn \in d.content[f].functions : fn.id = s.id /\ line \in fn.fieldLines)}}
      Unrendered == \E v \in {"well", "reasonless", "malformed"} : \E fk \in All(v) : ~fk[2].renders
      Recorded == UNION {{[code |-> code, site |-> <<fk[1], fk[2].offset>>, bound |-> id] :
                            code \in ToSet(fk[2].codes), id \in IF About(fk[1], fk[2]) = {} THEN {None} ELSE About(fk[1], fk[2])} : fk \in All("well")}
      again == Remark!Inline([d EXCEPT !.configurations = Reverse(@)])
  IN /\ answer.fault = <<>> <=> Unrendered
     /\ ~Unrendered => (answer.fault # None <=> All("malformed") # {})
     /\ ~Unrendered /\ All("malformed") # {} =>
          \E fk \in All("malformed") : answer.fault = <<fk[1], fk[2].offset>> /\
            \A other \in All("malformed") \ {fk} : Earlier(Place(fk[1], fk[2]), Place(other[1], other[2]))
     /\ answer.fault = None =>
          /\ ToSet(answer.records) = Recorded /\ Len(answer.records) = Cardinality(Recorded)
          /\ ToSet(answer.refusals) = UNION {{[code |-> code, site |-> <<fk[1], fk[2].offset>>] : code \in ToSet(fk[2].codes)} : fk \in All("reasonless")}
     /\ again.fault = answer.fault /\ again.refusals = answer.refusals /\ ToSet(again.records) = ToSet(answer.records)

\* A finding is lowered, and the first literal named, exactly where a production file some
\* configuration compiles spells the name of a package-level declaration, or of the type its
\* constant has, outside that one's own declaration: the literals beside it in a group count,
\* and what imports a package or tags a field does not.
RECURSIVE Spelled(_, _)
Spelled(nodes, name) ==
  UNION {LET n == nodes[i] IN
         CASE n.op = "literal" -> IF n.value = name THEN {n.at} ELSE {}
           [] n.op = "field" -> Spelled(n.type, name)
           [] n.op = "import" -> {}
           [] OTHER -> Spelled(n.inner, name) : i \in DOMAIN nodes}

LiteralsLower(d, answer) ==
  LET Compiled == UNION {ToSet(d.configurations[i].files) : i \in DOMAIN d.configurations}
      Production == {f \in Compiled : d.content[f].target /\ ~d.content[f].test}
      specs == UNION {UNION {ToSet(decl.specs) : decl \in ToSet(d.content[f].decls)} : f \in Production}
      Of(id) == CHOOSE s \in UNION {ToSet(d.configurations[i].symbols) : i \in DOMAIN d.configurations} : s.id = id
      Around(s) == UNION {Spelled(<<spec>>, s.name) : spec \in {spec \in specs : s.id \notin ToSet(spec.names)}}
      First(places) == IF places = {} THEN None
                       ELSE CHOOSE p \in places : \A q \in places \ {p} : \E i \in DOMAIN p : p[i] < q[i] /\ SubSeq(p, 1, i - 1) = SubSeq(q, 1, i - 1)
      Top(s) == \E parent \in s.parents : s.parents = {parent} /\ Of(parent).kind \in {"package", "file"}
      TypeOf(s) == {Of(d.configurations[i].constTypes[s.id]) : i \in {i \in DOMAIN d.configurations : s.id \in DOMAIN d.configurations[i].constTypes}}
  IN \A i \in DOMAIN d.findings :
       LET s == Of(d.findings[i].id)
           typed == {t \in TypeOf(s) : s.kind = "const" /\ Top(t)}
       IN answer[i] = IF ~d.findings[i].lowered \/ ~Top(s) THEN None
                      ELSE IF Around(s) # {} THEN First(Around(s)) ELSE First(UNION {Around(t) : t \in typed})

\* What the text says of a declaration is said of that one.
RemarksHold ==
  /\ Answered("directives") => DirectivesBind(in.of, out)
  /\ Answered("literals") => LiteralsLower(in.of, out)

\* What a class finds holds a symbol exactly where some file the mode counts has its evidence,
\* once for each fact and at the first place it renders; what only a test shows is evidence
\* of a test and never holds, and what may be filled from outside is of no held symbol.
RecordsKept(x, answer) ==
  LET enums == UNION {Exempting!membersOf(x, t) : t \in Exempting!Enumerated(x)}
      found == {r \in x.records : r.class \notin x.disabled}
      counted(r) == ~(x.production /\ r.test)
      Distinct(records) == \A r, s \in records : Exempting!FactOf(r) = Exempting!FactOf(s) => r = s
      Kept(records) == {r \in records : r.class # "enum"}
  IN /\ \A r \in found : ~r.possible =>
          \E k \in IF counted(r) THEN answer.held ELSE answer.evidence :
            Exempting!FactOf(k) = Exempting!FactOf(r) /\ (k.site = r.site \/ Exempting!Precedes(k.site, r.site))
     /\ Kept(answer.held \union answer.evidence) \subseteq {r \in found : ~r.possible} /\ Kept(answer.filled) \subseteq found
     /\ \A k \in answer.held : counted(k) /\ Distinct(answer.held) /\ Distinct(answer.evidence) /\ Distinct(answer.filled)
     /\ \A k \in answer.evidence : ~counted(k)
     /\ {k.of : k \in answer.filled} =
          {r.of : r \in {r \in found : r.possible /\ (counted(r) \/ r.of \in x.testDeclared)}} \ {k.of : k \in answer.held}

\* A constant of an enumerated type is held where some value of the type arrives unnamed in
\* code the mode counts, even where a test shows it first and by a stronger rule.
EnumsHeld(x, answer) ==
  LET InGroup(t) == \E i \in DOMAIN x.blocks : \E n \in x.blocks[i].names : x.blocks[i].iota /\ ~n.blank /\ n.type = t
      chains == FoldSet(LAMBDA u, pairs : pairs \union {<<a, b>> \in (DOMAIN x.types) \X (DOMAIN x.types) : <<a, u>> \in pairs /\ <<u, b>> \in pairs},
                        {<<a, b>> \in (DOMAIN x.types) \X (DOMAIN x.types) : a = b \/ b \in x.types[a].parts}, DOMAIN x.types)
      Unnamed(t, test) ==
        \/ \E m \in x.types[t].methods : m.name \in {"String", "MarshalText", "UnmarshalText", "MarshalJSON", "UnmarshalJSON"} /\ m.test = test
        \/ \E k \in x.calls : k.test = test /\
             \/ k.converts = t /\ k.integer /\ ~k.memberOfIt
             \/ k.decodes /\ \E a \in k.args : <<a, t>> \in chains
      Held(records) == {k.of : k \in {k \in records : k.class = "enum"}}
  IN \A i \in DOMAIN x.blocks : \A n \in x.blocks[i].names :
       n.type # None /\ ~n.blank =>
         LET enumerated == x.types[n.type].inside /\ InGroup(n.type)
             held == Unnamed(n.type, FALSE) \/ (~x.production /\ Unnamed(n.type, TRUE))
         IN /\ n.id \in Held(answer.held) <=> enumerated /\ held
            /\ n.id \in Held(answer.evidence) <=> enumerated /\ ~held /\ Unnamed(n.type, TRUE)

\* The carrier sweep reaches what some chain from hand-written code does: never what only a
\* generated file roots, exempts, registers, lays out or serves, nor a oneof's wrapper that
\* none asserts; what answers a served method is reached through the method alone. (A use of
\* several holders is followed whichever is reached last where none of them is cut.)
CarriersExact(c, answer) ==
  LET hand(s) == ~c.symbols[s].generated
      server(s) == \E m \in DOMAIN c.implementers : s \in c.symbols[m].parents
      counts(e) == ~e.generated /\ ~(e.satisfies /\ \E s \in c.symbols[e.via].parents : server(s))
      Passed(e) == e.from \notin c.registrations /\ ~e.test /\ e.kind # "write" /\
        /\ e.to \in DOMAIN c.implementers \/ c.oneof[e.to] # None \/ e.layout => hand(e.from)
        /\ c.oneof[e.to] = "wrapper" => e.kind = "assert"
        /\ server(e.to) => e.kind # "conversion" /\ ~c.symbols[e.from].blank
      UseBy(h, e) == h \notin c.registrations /\ ~c.symbols[h].inTest /\ (e.of \in DOMAIN c.implementers \/ c.oneof[e.of] # None => hand(h))
      Closed(S) ==
        /\ \A r \in c.roots : hand(r.at) /\ r.kind # "test" /\ (r.kind = "blank" => ~\E e \in c.exempt : counts(e) /\ e.of = r.at /\ e.holders # {}) => r.at \in S
        /\ c.consumed \subseteq S /\ \A r \in c.reads : (IF r.from = None THEN TRUE ELSE r.from \in S /\ ~c.symbols[r.from].inTest) => r.to \in S
        /\ \A e \in c.refs : e.from \in S /\ Passed(e) => e.to \in S
        /\ \A e \in c.exempt : counts(e) /\ e.holders \subseteq S /\ (e.holders = {} \/ \E h \in e.holders : UseBy(h, e)) => e.of \in S
        /\ \A m \in DOMAIN c.implementers : m \in S => c.implementers[m] \subseteq S
      least == {s \in DOMAIN c.symbols : \A S \in SUBSET DOMAIN c.symbols : Closed(S) => s \in S}
      whole == \A e \in c.exempt : Cardinality(e.holders) > 1 => \A h \in e.holders : UseBy(h, e)
  IN answer.hand \subseteq least /\ (whole => answer.hand = least)

\* What holds a declaration live beside what refers to it: roots, exemptions, carriers.
HeldLive ==
  /\ RootsHold
  /\ Answered("exemptions") => RecordsKept(in.of, out) /\ EnumsHeld(in.of, out)
  /\ Answered("carriers") => CarriersExact(in.of, out)
=============================================================================
