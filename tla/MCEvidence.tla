----------------------------- MODULE MCEvidence -----------------------------
(***************************************************************************)
(* The cases of each question, exhaustive over small programs: headers of  *)
(* up to four lines, trees of one file per directory, three documents over *)
(* a key of each role, groups two deep whose files change after each read; *)
(* two packages of a type, a type of it and a function that holds either;  *)
(* eight declarations of every kind, swept; bodies of three blocks; and    *)
(* for every other question the syntax it reads, one construct at a time.  *)
(***************************************************************************)
EXTENDS Evidence

MCTagOrder == <<"arm", "cgo", "e2e", "ignore", "linux", "plan9", "wasm">>
MCSystem == {"linux", "plan9"}
MCArch == {"arm", "wasm"}
MCPlatforms == {<<"linux", "arm">>, <<"plan9", "arm">>, <<"linux", "wasm">>}

No(tag) == {[pos |-> {}, neg |-> {tag}]}
Line(kind, says) == [kind |-> kind, says |-> says]
Plainly(kind) == Line(kind, Unconstrained)

Lines ==
  {Plainly(k) : k \in {"blank", "comment", "open", "close", "inline", "code", "closeCode"}}
  \union {Line("goBuild", Atom("e2e")), Line("goBuild", Unparsed), Line("plusBuild", Unparsed),
          Line("plusBuild", Atom("linux")), Line("plusBuild", No("arm"))}
Headers == SeqOf(Lines, 4)

\* The unit's file and a test file, a skipped package two of whose files are read, one
\* below it, another skipped and one that roots a module of its own.
File(test, name, expr, imports) ==
  [test |-> test, name |-> name, imports |-> imports,
   lines |-> IF expr = Unconstrained THEN <<>> ELSE <<Line("goBuild", expr), Plainly("code")>>]
S == <<"s">>
T == <<"s", "t">>
U == <<"u">>
M == <<"m">>
Exprs ==
  {Unconstrained, Unparsed, Atom("e2e"), No("linux"), Atom("cgo"), Atom("ignore"),
   Atom("e2e") \union Atom("ignore")}
Tree(of, tested, from, under) ==
  [dirs |-> <<[path |-> <<>>, files |-> <<of, File(TRUE, <<"x", "test">>, tested, {U})>>],
              [path |-> S, files |-> <<from, File(TRUE, <<"s", "test">>, Atom("plan9"), {U})>>],
              [path |-> T, files |-> <<File(FALSE, <<"t", "wasm">>, under, {S})>>],
              [path |-> U, files |-> <<File(FALSE, <<"u", "plan9", "arm">>, Unconstrained, {})>>],
              [path |-> M, files |-> <<File(FALSE, <<"m">>, Atom("linux"), {})>>]>>,
   skips |-> {S, U}, roots |-> {M}]
Trees ==
  {Tree(File(FALSE, name, e, {S, M}), e2, File(FALSE, <<"linux">>, e3, imports), e4) :
     name \in {<<"x">>, <<"x", "linux", "wasm">>}, e \in Exprs, e2 \in {Unconstrained, Atom("arm")},
     e3 \in Exprs, imports \in {{}, {T}, {T, U, <<>>}}, e4 \in {Unconstrained, Unparsed, Atom("e2e")}}

MCKeyOrder == <<"fail_on", "limits", "rust", "severity", "target_kind", "x">>
Row(role, read, option, default, perLanguage, members) ==
  [role |-> role, read |-> read, option |-> option, default |-> default,
   perLanguage |-> perLanguage, members |-> members]
MCRowOf ==
  [fail_on |-> Row("setting", TRUE, TRUE, "deny", FALSE, {}),
   limits |-> Row("section", TRUE, FALSE, Unset, FALSE, {}),
   rust |-> Row("setting", FALSE, FALSE, Unset, FALSE, {}),
   severity |-> Row("keyed", TRUE, FALSE, Unset, FALSE, {"DA001", "kinds"}),
   target_kind |-> Row("setting", TRUE, TRUE, Unset, TRUE, {})]

Plain(v) == Config!Plain(v)
Object(members) == Config!Object(members)

Named(doc) == [carried |-> TRUE, named |-> TRUE, doc |-> doc]
Documents ==
  {<<>>, [fail_on |-> Plain("warn")], [target_kind |-> Plain("library")], [x |-> Plain("warn")],
   [target_kind |-> Object([go |-> "program", rust |-> Bad]), rust |-> Config!Fraction],
   [target_kind |-> Object([go |-> "library", other |-> "library"])],
   [severity |-> Object([DA001 |-> "warn", kinds |-> "deny"])],
   [severity |-> Object([DA001 |-> "allow"]), limits |-> Object(<<>>), fail_on |-> Plain(Bad)],
   [severity |-> Object([DA001 |-> "allow"]), target_kind |-> Plain("program")],
   [severity |-> Object(<<>>), limits |-> Plain("warn")],
   [severity |-> Object(<<>>), target_kind |-> Plain("hybrid"), fail_on |-> Plain("warn")]}
Flags ==
  {<<>>, [fail_on |-> Plain("deny")], [target_kind |-> Plain("program"), fail_on |-> Plain("warn")],
   [severity |-> Object(<<>>)]}
Invocations ==
  {[flags |-> Named(f), repository |-> r, central |-> c] :
     f \in Flags, r \in {Config!Absent, [Named(<<>>) EXCEPT !.named = FALSE]} \union {Named(d) : d \in Documents},
     c \in {Config!Absent} \union {Named(d) : d \in Documents}}

Dirs == {<<>>, <<"a">>, <<"a", "b">>, <<"a", "b", "c">>, <<"d">>}
Listings ==
  {<<>>, (<<>> :> <<<<"a">>, <<"d">>, <<"a", "b">>>>), (<<>> :> <<<<"a", "b", "c">>, <<>>, <<"d">>>>),
   (<<>> :> <<<<"d">>, <<"a", "b">>, <<"e">>>>) @@ (<<"a">> :> <<<<"a">>, <<"d">>, <<"a", "b", "c">>>>)}
Written ==
  [dir |-> <<"a">>, workspace |-> <<[rooted |-> FALSE, names |-> <<"w">>]>>,
   target |-> [rooted |-> FALSE, names |-> <<"t">>],
   consumers |-> <<[rooted |-> TRUE, names |-> <<"t">>], [rooted |-> FALSE, names |-> <<"t", "u">>]>>]
Scopes ==
  {[dirs |-> Dirs, listed |-> l, dir |-> d, doc |-> doc] :
     l \in Listings, d \in Dirs \union {<<"e">>}, doc \in {<<>>, <<Written>>}}

Linked ==
  {[links |-> l, absent |-> a, dir |-> d, path |-> p] :
     l \in {<<>>, (<<"l">> :> <<"d">>), (<<"l">> :> <<"d">>) @@ (<<"d", "k">> :> <<"o">>),
            (<<"l">> :> <<"d", "k">>) @@ (<<"d", "k">> :> <<"o">>)},
     a \in {{}, {<<"d", "x">>}, {<<"o">>}}, d \in {<<"d">>, <<"l">>, <<"d", "x">>, <<"o">>},
     p \in SeqOf({"d", "l", "k", "o", "x"}, 3)}

Ownings ==
  {[root |-> root, units |-> {"t", "u"}, file |-> f,
    consumers |-> <<[module |-> n, root |-> r1], [module |-> "c", root |-> r2]>>] :
     root \in {<<>>, <<"a">>, <<"d">>}, n \in {"b", "u", ""}, r1 \in Dirs, r2 \in Dirs,
     f \in {d \o <<"f">> : d \in Dirs}}
Span(from, to) == [from |-> from, to |-> to]
Holders ==
  {[spans |-> s, pos |-> p] : p \in 0 .. 7,
     s \in {<<>>, <<Span(2, 4)>>, <<Span(1, 3), Span(3, 4), Span(6, 7)>>, <<Span(0, 1), Span(2, 5)>>}}

Group(max, high, current, inactive) == [max |-> max, high |-> high, current |-> current, inactive |-> inactive]
Groups ==
  {Group(m, h, c, s) : m \in {NoFile, 4, 20}, h \in {NoFile, 9}, c \in {NoFile, 3, 25}, s \in {NoFile, 2, 25}}
Dir(before, after) == [before |-> before, after |-> after]
Above9 == Dir(Group(9, NoFile, 6, 8), Group(9, NoFile, 12, 2))
MachineOf(dirs, after, v2) ==
  [dirs |-> dirs, changesAfter |-> after, v2 |-> v2, v1 |-> TRUE, total |-> 3, available |-> 2]
Machines ==
  {MachineOf(<<Dir(p[1], p[2])>> \o above, n, TRUE) :
     p \in {p \in Groups \X Groups : p[2] \in {p[1], [p[2] EXCEPT !["max"] = 4]}},
     above \in {<<>>, <<Above9>>}, n \in {0, 2, 3, 5, 8}}
  \union {MachineOf(<<Dir(g, g)>>, 0, FALSE) : g \in Groups}

MCCases ==
  [header |-> <<Headers>>, matrix |-> <<Trees>>, settings |-> <<Invocations>>, scope |-> <<Scopes>>,
   within |-> <<Linked>>, owner |-> <<Ownings>>, holder |-> <<Holders>>, headroom |-> <<Machines>>,
   limit |-> <<Machines>>]

(* Narrowing: a type 1, a type 2, a function 3, a method 4 of the type and, in the other *)
(* package, a type 5. *)
Thing(kind, package, file, importable) ==
  [kind |-> kind, package |-> package, file |-> file, importable |-> importable,
   exported |-> TRUE, support |-> FALSE]
Things(importable) ==
  <<Thing("type", "p", "f", importable), Thing("type", "p", "g", importable),
    Thing("func", "p", "f", importable), Thing("method", "p", "f", importable),
    Thing("type", "q", "h", TRUE)>>

Ref(from, to, build) == [from |-> from, to |-> to, build |-> build, test |-> build = "test"]
Reaches(s) ==
  {{}} \union {{r} : r \in {Ref(1, s, "target"), Ref(2, s, "target"), Ref(5, s, "target")}}
    \union {{Ref(None, s, "test")}, {Ref(None, s, "consumer")},
            {Ref(1, s, "target"), Ref(None, s, "test")}}

Some(s) == {{}, {Ref(1, s, "target")}, {Ref(5, s, "target")}, {Ref(None, s, "consumer")}}

NamedType(name, args) == [op |-> "named", name |-> name, args |-> args]
Basic == [op |-> "basic"]
Held(id, exported, type) == [id |-> id, exported |-> exported, type |-> type]
Object3(id, sort, alias, type, methods) ==
  [id |-> id, sort |-> sort, alias |-> alias, exported |-> TRUE, type |-> type, methods |-> methods]
Struct(members) == [op |-> "struct", members |-> members]
Composite(parts) == [op |-> "composite", parts |-> parts]
OfType(one) ==
  {Composite({one}), Struct({Held(None, TRUE, Struct({Held(None, TRUE, one)}))}),
   Struct({Held(None, FALSE, one)}), NamedType(5, {one}),
   [op |-> "interface", members |-> {Held(None, TRUE, Composite({one}))}, embedded |-> {}]}
Packages ==
  {{{Object3(1, "type", FALSE, Struct({}), {Held(4, TRUE, m)}), Object3(2, "type", a, t, {}),
     Object3(3, "func", FALSE, u, {})}} :
     m \in {Basic}, a \in {FALSE}, t \in {Basic} \union OfType(NamedType(1, {})),
     u \in {Basic, Composite({NamedType(2, {})}), NamedType(1, {})}}
  \union {{{Object3(1, "type", FALSE, Basic, {}), Object3(2, "type", TRUE, NamedType(1, {}), {}),
            Object3(3, "func", FALSE, [op |-> "alias", name |-> 2, of |-> NamedType(1, {})], {})}}}

Narrowings ==
  <<{[symbols |-> Things(i), references |-> r1 \union r2 \union r3 \union r4, exempted |-> x, fixed |-> {},
    writeOnly |-> {}, interfaces |-> {[usedBy |-> {3}, implementors |-> {4}]},
    complete |-> TRUE, declared |-> {"c"}, loaded |-> l, candidates |-> {}, packages |-> p] :
     i \in BOOLEAN, r1 \in Reaches(1), r2 \in Some(2), r3 \in Some(3), r4 \in {{}, {Ref(5, 4, "target")}},
     x \in {{}}, l \in {{"c"}}, p \in Packages},
    {[symbols |-> Things(TRUE), references |-> r1 \union r2, exempted |-> x, fixed |-> {},
    writeOnly |-> {2}, interfaces |-> {}, complete |-> c, declared |-> {"c"}, loaded |-> l,
    candidates |-> {3}, packages |-> {}] :
     r1 \in Reaches(1), r2 \in Reaches(2), x \in {{}, {1}}, c \in BOOLEAN, l \in {{}, {"c"}}}>>
-----------------------------------------------------------------------------
(* Kinds: a function 1, a variable 2, a declaration 3 of a test file, a type 4 and a type *)
(* parameter 5 of the function; or a function 1, an interface 2 and its method 3, an *)
(* assertion 4 and a declaration 5 of a test file. *)
Of == 1 .. 5

OfKind(kind, exported, parents) ==
  [kind |-> kind, exported |-> exported, importable |-> FALSE, inTest |-> FALSE, support |-> FALSE,
   blank |-> FALSE, parents |-> parents, dir |-> <<>>, unlinked |-> FALSE, exposed |-> FALSE,
   deprecated |-> FALSE, readOrWrite |-> FALSE, testCalled |-> FALSE, generated |-> FALSE, configs |-> {1}]
InTest(kind, exported) == [OfKind(kind, exported, {}) EXCEPT !.inTest = TRUE]

Names(from, to, kind) ==
  [from |-> from, to |-> to, kind |-> kind, carriers |-> <<>>, test |-> FALSE,
   build |-> "target", site |-> <<from, to, kind>>, span |-> None]
Tests(from, to, kind) == [Names(from, to, kind) EXCEPT !.test = TRUE]
Annotates(from, to) == [Names(from, to, "type") EXCEPT !.carriers = <<from>>]
Outsider == [Names(None, 2, "write") EXCEPT !.build = "consumer"]

Writes(from, to, at, till) ==
  [Names(from, to, "write") EXCEPT !.site = <<from, to, at>>, !.span = [file |-> "f", from |-> at, to |-> till]]

Family(symbols, refs, roots, one, files) ==
  [symbols |-> symbols, refs |-> refs, roots |-> roots, one |-> one, files |-> files]
Value(type, concrete, satisfies) == [type |-> type, concrete |-> concrete, satisfies |-> satisfies]
Assertion ==
  [interfaces |-> {[id |-> 2, concretes |-> {1}]}, blocks |-> {},
   specs |-> {[type |-> 2, names |-> <<[id |-> 4, blank |-> TRUE]>>, values |-> <<Value(1, TRUE, {2})>>]}]
Block(constants) == [iota |-> TRUE, constants |-> {[id |-> c, blank |-> FALSE, type |-> 4] : c \in constants}]
Grouped(constants) == [interfaces |-> {}, specs |-> {}, blocks |-> {Block(constants)}]

\* A file that declares the type 2 of the parameter 4, and uses an import at two places.
Use(of, field) == [of |-> of, field |-> field]
FileOf(uses, at) ==
  [name |-> "f", imports |-> {"m"}, uses |-> {[of |-> "m", at |-> a] : a \in at},
   types |-> 2 :> [params |-> {4}, uses |-> uses, alone |-> {3}]]

Families ==
  {Family(<<OfKind("func", e, {}), OfKind("var", FALSE, {}), InTest(k, e), OfKind("type", FALSE, {}),
            OfKind("typeParam", FALSE, {1})>>,
          <<Names(1, 2, "write"), Names(1, 2, "read"), Tests(3, 1, "call"), Tests(3, 2, "read"), Names(1, 4, "type"),
            Annotates(2, 4), Names(1, 5, "type"), Outsider, Names(2, 1, "call")>>,
          {[at |-> 2, kind |-> "entry"]}, Grouped(IF k = "const" THEN {3} ELSE {}), <<>>) :
     e \in BOOLEAN, k \in {"func", "const"}}
  \union
  {Family(<<OfKind("func", e, {}), OfKind("interface", e, {}), OfKind("interfaceMethod", TRUE, {2}),
            [OfKind("var", FALSE, {}) EXCEPT !.blank = TRUE], InTest("func", FALSE)>>,
          <<Names(1, 2, "type"), Names(1, 3, "call"), Names(4, 2, "type"), Names(4, 1, "call"), Tests(5, 2, "type"),
            Tests(5, 3, "call"), Tests(5, 1, "call")>>,
          {[at |-> 4, kind |-> "blank"]}, Assertion, <<>>) : e \in BOOLEAN}
  \union
  {Family(<<OfKind("func", TRUE, {}), OfKind("type", FALSE, {}), OfKind("field", FALSE, {2}),
            OfKind("typeParam", FALSE, {2}), InTest("func", FALSE)>>,
          <<Names(1, 2, "type"), Writes(1, 3, 1, 3), Writes(1, 3, 4, 8), Writes(1, 3, 5, 7), Names(1, 3, "read"),
            Tests(5, 3, "read")>>,
          {[at |-> 1, kind |-> "entry"]}, Grouped({}), <<FileOf(uses, at)>>) :
     uses \in {<<>>, <<Use(4, 3)>>, <<Use(4, 3), Use(4, None)>>, <<Use(4, None)>>},
     at \in {{2}, {2, 9}, {4, 6}, {2, 4}}}

\* The references of a family a case keeps, by their places.
Picked(family, some) ==
  LET kept == SelectSeq([i \in DOMAIN family.refs |-> i], LAMBDA i : i \in some)
  IN [i \in DOMAIN kept |-> family.refs[kept[i]]]

ClaimsOf(family, refs, roots, production) ==
  [symbols |-> family.symbols, target |-> "application", declared |-> {}, loaded |-> {}, units |-> <<>>,
   refs |-> refs, production |-> production, consumerTests |-> FALSE, exempted |-> {}, fixedMethods |-> {},
   configurations |-> {family.one}, files |-> family.files, roots |-> roots \union family.roots]
Tested(family) == {s \in Of : family.symbols[s].inTest /\ family.symbols[s].kind = "func"}
RootedBy(family, by) ==
  CASE by = "none" -> {}
    [] by = "entry" -> {[at |-> 1, kind |-> "entry"]}
    [] OTHER -> {[at |-> s, kind |-> "test"] : s \in Tested(family)}
Claimings ==
  {ClaimsOf(family, Picked(family, some), RootedBy(family, by), TRUE) :
     family \in Families, some \in SUBSET (1 .. 9), by \in {"none", "entry", "test"}}

-----------------------------------------------------------------------------
(* Bodies: three blocks about the variable x, in order, in a branch, in a range loop or *)
(* before a call that panics. *)
Expr(op, parts) == [op |-> op, var |-> "", called |-> "", parts |-> parts]
Var(v) == [Expr("name", <<>>) EXCEPT !.var = v]
Literal(called, parts) == [Expr("literal", parts) EXCEPT !.called = called]
Part == Expr("part", <<Var("x")>>)
NodeOf(op, tok, targets, values) == [op |-> op, tok |-> tok, targets |-> targets, values |-> values]
Uses(e) == NodeOf("expr", "", <<>>, <<e>>)
Sets(values) == NodeOf("assign", "=", <<Var("x")>>, values)

Nodes ==
  {Sets(<<>>), Sets(<<Var("x")>>), NodeOf("assign", "compound", <<Var("x")>>, <<>>),
   NodeOf("incdec", "", <<Var("x")>>, <<>>), NodeOf("assign", "=", <<Part>>, <<>>),
   NodeOf("spec", "", <<Var("x")>>, <<>>), NodeOf("switch", "", <<Var("x")>>, <<Var("y")>>),
   NodeOf("return", "", <<>>, <<>>), Uses(Var("x")), Uses(Var("y")),
   Uses(Expr("address", <<Part>>)), Uses(Expr("method", <<Var("x")>>)), Uses(Expr("method", <<Part>>)),
   Uses(Expr("other", <<Literal("here", <<Var("x")>>)>>)), Uses(Literal("go", <<Literal("here", <<Var("x")>>)>>)),
   Sets(<<Literal("value", <<Var("x")>>)>>)}

BlockOf(nodes, succs, ranges) == [nodes |-> nodes, succs |-> succs, ranges |-> ranges]
Shapes ==
  {<<{2, 3}, {3}, {}, <<>>>>, <<{2, 3}, {2, 3}, {}, <<Part, Var("x")>>>>, <<{2, 3}, {}, {}, <<>>>>, <<{3}, {3}, {2}, <<>>>>}
GraphOf3(s, a, b, c) ==
  <<BlockOf(<<Sets(<<>>), a>>, s[1], <<>>), BlockOf(b, s[2], s[4]), BlockOf(<<c>>, s[3], <<>>)>>
BodyOf(blocks, result) ==
  [blocks |-> blocks, received |-> <<>>, results |-> IF result THEN <<"x">> ELSE <<>>,
   declares |-> (IF result THEN {} ELSE {[var |-> "x", how |-> "local"]}) \union {[var |-> "y", how |-> "switch"]}]
Storings ==
  {BodyOf(GraphOf3(s, a, b, c), r) :
     s \in Shapes, a \in Nodes \ {Uses(Var("y")), NodeOf("incdec", "", <<Var("x")>>, <<>>)}, b \in {<<>>} \union {<<n>> : n \in Nodes},
     c \in {Sets(<<Var("x")>>), NodeOf("assign", "=", <<Part>>, <<>>), NodeOf("switch", "", <<Var("x")>>, <<Var("y")>>), NodeOf("return", "", <<>>, <<>>),
             Uses(Var("x")), Uses(Expr("address", <<Part>>)), Uses(Expr("method", <<Part>>)), Uses(Literal("go", <<Literal("here", <<Var("x")>>)>>))}, r \in BOOLEAN}
-----------------------------------------------------------------------------
(* Parts: a function 1 of the file a, another of the file b, in two configurations. *)
FunctionOf(id, file, key) ==
  [id |-> id, file |-> file, key |-> key, declared |-> TRUE, stub |-> FALSE, params |-> <<>>, receiver |-> <<>>,
   read |-> {}, results |-> <<>>, literals |-> {}, switches |-> <<>>, locals |-> {}]
ConfigurationOf(functions, calls) ==
  [files |-> {fn.file : fn \in functions}, functions |-> functions, calls |-> calls, ignored |-> {}, unreachable |-> {}]
Exported == [exported |-> TRUE, importable |-> TRUE, inTest |-> FALSE, support |-> FALSE]
PartsOf(configurations, refs) ==
  [configurations |-> configurations, refs |-> refs, roots |-> {}, exempted |-> {}, testEvidence |-> {}, fixed |-> {},
   symbols |-> <<Exported, Exported>>,
   library |-> FALSE, complete |-> FALSE, declared |-> {}, loaded |-> {}, candidates |-> <<>>, types |-> <<>>]

Resulting(results) == [FunctionOf(1, "a", "f") EXCEPT !.results = results]
Sites ==
  {[to |-> 1, parent |-> s[1], targets |-> s[2]] :
     s \in {<<"statement", <<>>>>, <<"other", <<>>>>, <<"assign", <<"_", "v">>>>, <<"assign", <<"_", "_">>>>}}
Compiles(results) == {<<{Resulting(results)}, c>> : c \in {{}} \union {{s} : s \in Sites}} \union {<<{}, {}>>}
ResultPartsOf(rs) ==
  {[PartsOf(<<ConfigurationOf({Resulting(rs)}, c1), ConfigurationOf(c2[1], c2[2])>>, refs)
      EXCEPT !.library = l, !.complete = l, !.declared = {"c"}, !.loaded = IF o THEN {"c"} ELSE {}, !.roots = roots] :
     c1 \in {{}} \union {{s} : s \in Sites}, c2 \in Compiles(rs), l \in BOOLEAN, o \in BOOLEAN,
     refs \in {{}, {[to |-> 1, kind |-> "call"]}, {[to |-> 1, kind |-> "read"]}},
     roots \in {{}, {[at |-> 1, kind |-> "program"]}, {[at |-> 1, kind |-> "test"]}}}
LiteralOf(called, uses, read) ==
  [params |-> <<"q">>, read |-> read, stub |-> FALSE, called |-> called, uses |-> uses]
Reading(read, literals, receiver) ==
  [FunctionOf(1, "a", "f") EXCEPT !.params = <<"p", "_">>, !.receiver = receiver, !.read = read, !.literals = literals,
     !.locals = {[name |-> "T", named |-> FALSE], [name |-> "C", named |-> TRUE]}]
NameParts ==
  {[PartsOf(<<ConfigurationOf({Reading(r1, lits, recv)}, {}),
              [ConfigurationOf(f2, {}) EXCEPT !.ignored = ignored]>>, refs)
      EXCEPT !.candidates = cand, !.symbols[1].inTest = t, !.exempted = x] :
     r1 \in {{}, {"p"}}, lits \in {{}} \union {{LiteralOf(c, u, r)} : c \in {"name", "here"}, u \in {{"call"}, {"call", "value"}}, r \in {{}, {"q"}}},
     recv \in {<<>>, <<"s">>},
     f2 \in {{}, {FunctionOf(2, "b", "f")}, {Reading({"p"}, {}, <<>>)}, {Reading({}, {}, <<"s">>)}},
     ignored \in {{}, {[package |-> "p", declaring |-> "p", key |-> "f", file |-> "c"]}},
     refs \in {{}, {[to |-> 1, kind |-> "type"]}},
     cand \in {<<>>, 1 :> [test |-> 0, unreferenced |-> FALSE], 1 :> [test |-> 1, unreferenced |-> FALSE]}, t \in BOOLEAN,
     x \in {{}, {1}}}

\* A concrete type that implements two interfaces, one that implements the first, and these.
TypeTable ==
  ("I" :> [interface |-> TRUE, parameter |-> FALSE, implements |-> {"I"}])
  @@ ("J" :> [interface |-> TRUE, parameter |-> FALSE, implements |-> {"I", "J"}])
  @@ ("T" :> [interface |-> TRUE, parameter |-> TRUE, implements |-> {}])
  @@ ("a" :> [interface |-> FALSE, parameter |-> FALSE, implements |-> {"I", "J"}])
  @@ ("b" :> [interface |-> FALSE, parameter |-> FALSE, implements |-> {"I"}])
Clauses == {{}, {"I"}, {"J"}, {"T"}, {"a"}, {"b"}, {"a", "b"}, {"J", None}}
CaseParts ==
  {[PartsOf(<<ConfigurationOf({[FunctionOf(1, "a", "f") EXCEPT !.switches = <<<<c1, c2, c3>>>>]}, {})>>, {})
      EXCEPT !.types = TypeTable] : c1 \in Clauses, c2 \in Clauses, c3 \in Clauses}

Partings == <<NameParts, ResultPartsOf(<<"r", "err">>), ResultPartsOf(<<"n">>), CaseParts>>
-----------------------------------------------------------------------------
(* Roots: patterns over two letters; three packages of two configurations; a type 1, its *)
(* method 2, a field 3, a type 4 it embeds with the method 5 and a function 6. *)
Globs ==
  {[pattern |-> pattern, ref |-> ref] : pattern \in SeqOf({"a", "b", "*", "?"}, 4), ref \in SeqOf({"a", "b"}, 4)}

PackageOf(name, internal) == [test |-> FALSE, name |-> name, external |-> FALSE, internal |-> internal]
UsedBy(to, from, test) == [to |-> to, from |-> from, test |-> test]
Users(to, froms) == {{}, {UsedBy(to, "p", TRUE)}} \union {{UsedBy(to, f, FALSE)} : f \in froms}
                      \union {{UsedBy(to, f, FALSE), UsedBy(to, "p", TRUE)} : f \in froms}
Loaded(loaded, evidenced, roots, uses) ==
  [loaded |-> loaded, evidenced |-> evidenced, roots |-> roots, uses |-> uses,
   packages |-> [p |-> PackageOf("p", TRUE), q |-> PackageOf("q", FALSE), r |-> PackageOf("main", TRUE)]]
Three == {"p", "q", "r"}
Supports ==
  {[library |-> FALSE, configurations |-> <<Loaded(Three, e, {[package |-> "p", kind |-> k]}, u1 \union u2)>>
      \o (IF second = {} THEN <<>> ELSE <<Loaded(second, {"p", "q"}, {}, u1 \union {UsedBy("q", None, TRUE)})>>)] :
     e \in {{"p", "q"}, {"q"}}, k \in {"init", "main"}, u1 \in Users("p", {"q", "r", None}), u2 \in Users("q", {"p", "r", None}),
     second \in {{}, {"p"}, {"p", "q"}}}
  \union
  {[library |-> l, configurations |-> <<[Loaded(Three, Three, {}, u1 \union u2 \union u3)
      EXCEPT !.packages = [p |-> PackageOf("p", TRUE), q |-> PackageOf("q", TRUE), r |-> PackageOf("r", ~l)]]>>] :
     l \in BOOLEAN, u1 \in Users("p", {"q", None}), u2 \in Users("q", {"r"}), u3 \in Users("r", {"p", "q", None})}

SymbolOf(kind, parents) ==
  [kind |-> kind, name |-> kind, path |-> <<"p">>, dir |-> "d", package |-> "p", exported |-> TRUE, blank |-> FALSE,
   inTest |-> FALSE, parents |-> parents, ref |-> <<"a", kind>>]
Symbols ==
  <<SymbolOf("type", {None}), SymbolOf("method", {1}), SymbolOf("field", {1}), SymbolOf("type", {None}),
    SymbolOf("method", {4}), SymbolOf("func", {})>>
MethodOf(id, name) == [id |-> id, name |-> name, exported |-> TRUE]
TypeOf3(methods, embeds) == [methods |-> methods, fields |-> {3}, embeds |-> embeds, interface |-> FALSE]
ScopeObject(id, sort, type) == [id |-> id, sort |-> sort, exported |-> TRUE, type |-> type, explicit |-> {5}]
FileNamed(name) ==
  [name |-> name, test |-> FALSE, imports |-> {}, functions |-> {}, comments |-> {}, decls |-> {}, generates |-> {},
   suites |-> {}, fuzzed |-> FALSE, interfaces |-> {}]
Variant(id, files) ==
  [id |-> id, key |-> id, path |-> <<id>>, name |-> id, forTest |-> FALSE, ofTarget |-> TRUE, whole |-> TRUE, typed |-> TRUE,
   goFiles |-> TRUE, imports |-> {}, scope |-> [X |-> ScopeObject(1, "type", "T"), Y |-> ScopeObject(6, "func", None)],
   errors |-> {}, files |-> files]
GroupAt(path, dir, found) == [path |-> path, dir |-> dir, variants |-> found]
RootsOver(symbols, groups) ==
  [library |-> FALSE, symbols |-> symbols, groups |-> groups, programs |-> {}, consumed |-> {}, clean |-> {},
   patterns |-> <<>>, inputDirs |-> {}, generators |-> {},
   types |-> [T |-> TypeOf3({MethodOf(2, "M")}, {"E"}), E |-> TypeOf3({MethodOf(5, "N")}, {})]]

Publications ==
  {[RootsOver([Symbols EXCEPT ![1].exported = e1, ![2].exported = e2, ![2].inTest = t, ![3].parents = c, ![4].exported = e4],
              <<GroupAt(path, "d", <<Variant("p", <<>>)>>)>> \o more)
      EXCEPT !.library = l, !.types["E"].methods = n, !.inputDirs = d, !.patterns = <<<<"a", "*">>, <<"a", "?", "b">>>>] :
     e1 \in BOOLEAN, e2 \in BOOLEAN, e4 \in BOOLEAN, t \in BOOLEAN, c \in {{1}, {2}, {2, 4}}, path \in {<<"p">>, <<"p", "internal">>},
     more \in {<<>>, <<GroupAt(<<"p">>, "e", <<[Variant("p", <<>>) EXCEPT !.name = "main"]>>)>>},
     l \in BOOLEAN, n \in {{MethodOf(5, "N")}, {MethodOf(5, "M")}}, d \in {{}, {"d"}}}

Initial(package) == [SymbolOf("func", {}) EXCEPT !.name = "init", !.package = package]
Linkings ==
  {[RootsOver(<<Initial("p"), Initial("q"), [Initial("r") EXCEPT !.blank = TRUE]>>,
      <<GroupAt(<<"p">>, "d", <<[Variant("p", <<>>) EXCEPT !.imports = i1, !.name = n]>>),
        GroupAt(<<"q">>, "e", <<[Variant("q", <<>>) EXCEPT !.imports = i2, !.forTest = t]>>),
        GroupAt(<<"r">>, "f", <<[Variant("r", <<>>) EXCEPT !.imports = i3, !.whole = w]>>)>>)
      EXCEPT !.consumed = c, !.programs = q] :
     i1 \in SUBSET {"q", "r"}, i2 \in SUBSET {"p", "r"}, i3 \in SUBSET {"p", "q"}, n \in {"p", "main"}, t \in BOOLEAN, w \in BOOLEAN,
     c \in {{}, {"r"}}, q \in {{}, {[imports |-> {<<"q">>}, uses |-> {[id |-> 1, path |-> <<"p">>]}]}}}

T3 == [op |-> "named", name |-> "T"]
Kinds3 == {T3, [op |-> "pointer", of |-> T3], [op |-> "func", params |-> <<>>, results |-> <<T3>>, variadic |-> FALSE], Basic}
Invalid == [op |-> "invalid"]
Destinations == {Invalid, Basic}
Lists == SeqOf(Destinations \union {[op |-> "container", of |-> Invalid]}, 2)
FlowInto(to, values) == [form |-> "into", to |-> to, values |-> values]
FlowCall(fun, values, conversion, spread) ==
  [form |-> "call", fun |-> fun, values |-> values, conversion |-> conversion, spread |-> spread]
Signature(params, variadic) == [op |-> "func", params |-> params, results |-> <<>>, variadic |-> variadic]
Flows ==
  {FlowInto(to, <<Basic, v>>) : to \in SeqOf(Destinations, 3), v \in Kinds3}
  \union {FlowCall(Signature(params, variadic), <<Basic, v>>, FALSE, spread) :
            params \in Lists, variadic \in BOOLEAN, v \in Kinds3, spread \in BOOLEAN}
  \union {FlowCall(fun, <<v>>, c, FALSE) : fun \in Destinations, v \in Kinds3, c \in BOOLEAN}
  \union {[form |-> "elements", of |-> of, values |-> <<v>>] :
            of \in {Invalid, Basic, [op |-> "container", of |-> Invalid], [op |-> "container", of |-> Basic]}, v \in Kinds3}
Skipped(declares, names, selections, flows) ==
  [declares |-> declares, names |-> names, selections |-> selections, flows |-> flows]
Errors ==
  {[RootsOver(Symbols, <<GroupAt(<<"p">>, "d", <<[Variant("p", <<>>) EXCEPT
      !.errors = {Skipped(declares, IF declares THEN {6} ELSE {}, sel, {flow})}]>>)>>) EXCEPT !.clean = clean] :
     declares \in BOOLEAN, sel \in {{}, {[op |-> "named", name |-> "E"]}}, flow \in Flows, clean \in {{}, {"p"}}}

FunctionAs(family, takes, results, exports) ==
  [id |-> 6, method |-> FALSE, body |-> TRUE, generic |-> FALSE, family |-> family, takes |-> takes, results |-> results,
   exports |-> exports, entry |-> TRUE]
Word(name) == [flag |-> FALSE, name |-> name, joined |-> FALSE, value |-> ""]
Flag(name) == [Word(name) EXCEPT !.flag = TRUE]
JoinedFlag(name, value) == [flag |-> TRUE, name |-> name, joined |-> TRUE, value |-> value]
Directives3 ==
  {<<Word("gen"), Flag("type"), Word("X")>>, <<Word("gen"), Flag("typed"), Word("X")>>, <<Word("gen"), Word("p"), Word("X")>>,
   <<Word("gen"), JoinedFlag("source", "f")>>, <<Word("go"), Word("run"), Flag("tags"), Word("gen"), Word("X")>>,
   <<Word("go"), Word("run"), JoinedFlag("tags", "t"), Word("gen"), Flag("type"), Word("X")>>, <<Word("go"), Word("run"), Flag("mod")>>}
Generators == {[program |-> "gen", select |-> s, boolean |-> b] : s \in {"type", "source"}, b \in {{}, {"typed"}}}
Files3 ==
  {[FileNamed("f") EXCEPT !.test = t, !.imports = i, !.functions = {fn}, !.comments = {c}, !.fuzzed = t] :
     t \in BOOLEAN, i \in {{}, {"C"}, {"unsafe"}},
     fn \in {FunctionAs(f, takes, r, x) : f \in {"TestMain", "Example", "T", "none"}, takes \in {<<>>, <<"T">>, <<"M">>}, r \in 0 .. 1,
                                         x \in BOOLEAN},
     c \in {<<"//go:linkname", "Y">>, <<"//go:linkname", "X", [path |-> <<"q">>, name |-> "Y"]>>, <<"//go:other", "Y">>}}
  \union
  {[FileNamed("f") EXCEPT !.decls = {[form |-> form, names |-> {1}, fields |-> {3}, directives |-> d]}, !.generates = {words},
      !.interfaces = {ScopeObject(4, "type", "E")}, !.suites = {[interface |-> form = "func", methods |-> {[id |-> 2, exported |-> TRUE, called |-> TRUE]}]}] :
     form \in {"func", "gen"}, d \in {{}, {"swagger"}, {"swagRoute"}}, words \in Directives3}
Filed ==
  {[RootsOver(Symbols, <<GroupAt(<<"p">>, "d", <<Variant("p", <<file>>)>>), GroupAt(<<"q">>, "e", <<Variant("q", <<>>)>>)>>)
      EXCEPT !.generators = {g}] : file \in Files3, g \in Generators}

Rootings == <<Publications, Linkings, Errors, Filed>>

-----------------------------------------------------------------------------
(* References: a declaration 1 (and 2) of a variable 20 of a type whose fields are a struct, *)
(* a pointer, an array, a slice, a map, an array of pointers and a value. *)
Field(holding, elements) == [field |-> TRUE, holds |-> holding, elements |-> elements, type |-> FALSE, twins |-> {}]
Plain3 == [field |-> FALSE, holds |-> "struct", elements |-> "none", type |-> FALSE, twins |-> {}]
Members == 30 :> Field("struct", "none") @@ 31 :> Field("pointer", "none") @@ 32 :> Field("array", "struct")
           @@ 33 :> Field("slice", "struct") @@ 34 :> Field("map", "pointer") @@ 35 :> Field("array", "pointer")
           @@ 36 :> [Field("basic", "none") EXCEPT !.twins = {37}] @@ 37 :> Field("basic", "none")
Referable == Members @@ [s \in 1 .. 9 |-> Plain3] @@ [s \in 20 .. 24 |-> [Plain3 EXCEPT !.type = s = 24]]
FileOver(consumer, decls) ==
  [consumer |-> consumer, file |-> 9, build |-> "target", testFile |-> FALSE, support |-> FALSE, symbols |-> Referable,
   types |-> <<>>, satisfying |-> <<>>, decls |-> decls]

At(op, at, to, parts) ==
  [op |-> op, at |-> at, to |-> to, type |-> None, parts |-> parts, from |-> at, till |-> at + 1, lhs |-> 0, path |-> <<>>,
   builtin |-> None, comparable |-> {}]
IdentAt(at, to) == At("ident", at, to, <<>>)
SelAt(at, to, holder) == At("sel", at, to, <<holder>>)
Built(name, parts) == At("call", 0, None, <<[At("ident", 0, None, <<>>) EXCEPT !.builtin = name]>> \o parts)
Spanning(op, lhs, from, till, parts) == [At(op, from, None, parts) EXCEPT !.till = till, !.lhs = lhs]
Walker(id, nodes) ==
  [op |-> "func", id |-> id, nodes |-> nodes, conversions |-> {},
   typeParams |-> <<[names |-> <<None, 3>>, constraint |-> [IdentAt(2, 24) EXCEPT !.comparable = {}]]>>]

\* The places one step below a place, and those a store may name.
Holding(place) ==
  CASE place.op \in {"ident", "sel"} -> Referable[place.to].holds
    [] place.op = "index" -> Referable[place.parts[1].to].elements
    [] OTHER -> "struct"
Deeper(place, at) ==
  LET kind == Holding(place)
  IN CASE kind \in {"struct", "pointer"} ->
            {SelAt(at, to, place) : to \in DOMAIN Members \ {37}} \union {At("star", at, None, <<p>>) : p \in {p \in {place} : kind = "pointer"}}
       [] kind \in {"array", "slice", "map"} -> {At("index", at, None, <<place, IdentAt(at + 5, 21)>>)}
       [] OTHER -> {}
PlacesAt(at) ==
  LET one == Deeper(IdentAt(at, 20), at + 1)
      two == UNION {Deeper(p, at + 2) : p \in one}
  IN {IdentAt(at, 20)} \union one \union two \union UNION {Deeper(p, at + 3) : p \in two}
Stored(op, lhs, places) == Spanning(op, lhs, 10, 30, places)
StoresRead ==
  {FileOver(c, <<Walker(id, <<n>>)>>) :
     c \in BOOLEAN, id \in {1, None},
     n \in UNION {{Stored("assign", 1, <<p, IdentAt(20, 22)>>), Stored("assign", 2, <<IdentAt(20, 22), p, IdentAt(21, 22)>>),
                   Stored("range", 1, <<p, IdentAt(20, 22)>>)}
                  \union CASE Holding(p) = "basic" -> {Stored("incdec", 1, <<p>>)}
                           [] Holding(p) = "map" -> {Stored("stmt", 0, <<Built("delete", <<p, IdentAt(20, 22)>>)>>)}
                           [] Holding(p) = "slice" -> {Stored("assign", 1, <<p, Built("append", <<p, IdentAt(20, 22)>>)>>)}
                           [] OTHER -> {} : p \in PlacesAt(10)}}

\* Two statements of a body, or of a literal in a store, and a type and a variable around them.
Inner(at, to, value) == Spanning("assign", 1, at, at + 6, <<SelAt(at + 1, to, IdentAt(at, 20)), value>>)
LiteralAt(at, key, value) ==
  At("lit", at, 24, <<IdentAt(at, 24), Spanning("keyed", 0, at + 1, at + 4, <<IdentAt(at + 1, key), value>>)>>)
StatementsAt(at) ==
  {IdentAt(at, 21), Inner(at, 36, IdentAt(at + 3, 21)), Inner(at, 30, IdentAt(at + 3, 22)),
   Spanning("assign", 1, at, at + 8, <<SelAt(at + 1, 31, IdentAt(at, 20)), LiteralAt(at + 3, 36, IdentAt(at + 5, 21))>>),
   Spanning("assign", 1, at, at + 9, <<IdentAt(at, 22), At("func", 0, None, <<Inner(at + 2, 30, IdentAt(at + 5, 22))>>)>>),
   Spanning("assign", 1, at, at + 9, <<IdentAt(at, 22), At("func", 0, None, <<Inner(at + 2, 36, LiteralAt(at + 4, 36, IdentAt(at + 6, 22)))>>)>>),
   Spanning("incdec", 1, at, at + 3, <<IdentAt(at, 21)>>), Built("delete", <<IdentAt(at, 22), IdentAt(at + 1, 21)>>),
   At("assert", at, None, <<IdentAt(at, 21), At("star", 0, None, <<IdentAt(at + 1, 24)>>)>>),
   At("typeSwitch", at, None, <<IdentAt(at, 21), IdentAt(at + 1, 24)>>),
   At("call", at, None, <<At("index", at, None, <<IdentAt(at, 23), IdentAt(at + 1, 24)>>)>>), At("call", at, None, <<IdentAt(at, 24)>>),
   [SelAt(at + 1, 36, IdentAt(at, 20)) EXCEPT !.path = <<30, 31>>]}
TypeDecl(id) ==
  [op |-> "type", id |-> id, nodes |-> <<IdentAt(80, 24)>>,
   fields |-> <<[embedded |-> TRUE, names |-> <<30>>, inner |-> <<>>,
                 type |-> At("index", 0, None, <<SelAt(83, 24, IdentAt(82, None)), IdentAt(84, 23)>>)],
                [embedded |-> FALSE, names |-> <<31, 32>>, type |-> At("struct", 0, None, <<IdentAt(85, 23)>>),
                 inner |-> <<[embedded |-> FALSE, names |-> <<33, None>>, type |-> IdentAt(85, 23), inner |-> <<>>]>>]>>,
   methods |-> <<[id |-> None, embedded |-> TRUE, type |-> At("index", 0, None, <<IdentAt(87, 24), IdentAt(88, 23)>>)],
                [id |-> 4, embedded |-> FALSE, type |-> IdentAt(89, 23)]>>]
ImportDecl(to) == [op |-> "import", to |-> to, at |-> 5]
CarriersRead ==
  {[FileOver(c, <<ImportDecl(None), ImportDecl(8), Walker(1, <<a, b>>), TypeDecl(id)>>) EXCEPT !.support = x, !.testFile = id = None] :
     c \in BOOLEAN, a \in StatementsAt(40), b \in StatementsAt(60), id \in {2, None}, x \in BOOLEAN}

\* Groups of constants.
SpecAt(at, names, values, types) ==
  [at |-> at, names |-> names, values |-> [i \in DOMAIN values |-> IdentAt(at + i, values[i])],
   type |-> [i \in DOMAIN types |-> IdentAt(at + 8, types[i])]]
Listed(at, names, lists) == {SpecAt(at, names, values, types) : values \in lists, types \in {<<>>, <<24>>}}
Constants(at, names, list) == Listed(at, names, {list}) \union {SpecAt(at, names, <<>>, <<>>)}
Named3(some) == {<<some[1]>>, some, <<None, some[2]>>, <<some[1], None>>}
GroupOver(const, specs) == FileOver(FALSE, <<[op |-> "gen", const |-> const, conversions |-> {}, specs |-> specs]>>)
GroupsRead ==
  {GroupOver(FALSE, <<a>>) : a \in UNION {Listed(40, names, {<<>>, <<20>>, <<21, 22>>}) : names \in Named3(<<1, 2>>)}}
  \union UNION {UNION {{GroupOver(TRUE, <<a, b, d>>) : a \in Listed(40, names, {lists[1]}), b \in Constants(50, second, lists[1]), d \in Constants(60, third, lists[2])} :
                     names \in Named3(<<1, 2>>) \ {<<1>>}, second \in Named3(<<3, 4>>) \ {<<3>>}, third \in Named3(<<5, 6>>) \ {<<5>>}} :
             lists \in {<<<<20, 21>>, <<22, 20>>>>, <<<<20, 20>>, <<20, 21>>>>}}
  \union {GroupOver(TRUE, <<a, b, d>>) : a \in Listed(40, <<1>>, {<<20>>}), b \in Constants(50, <<3>>, <<21>>), d \in Constants(60, <<5>>, <<22>>)}

\* Conversions: a type that embeds two, one of which embeds a third, and two interfaces.
Methodic(interface, methods, embeds) == [interface |-> interface, methods |-> methods, embeds |-> embeds]
Embeds(id, type) == [id |-> id, type |-> type]
Satisfying ==
  {[A |-> Methodic(FALSE, a, ea), B |-> Methodic(FALSE, b, eb), C |-> Methodic(FALSE, c, {}), D |-> Methodic(TRUE, d, {}),
    J |-> Methodic(TRUE, j, {}), I |-> Methodic(TRUE, [M |-> 1, N |-> 2], {})] :
     a \in {<<>>, [N |-> 3]}, ea \in SUBSET {Embeds(30, "B"), Embeds(31, "C")}, b \in {<<>>, [M |-> 4], [N |-> 4]},
     eb \in {{}, {Embeds(32, "D")}}, c \in {<<>>, [M |-> 5]}, d \in {<<>>, [M |-> 6], [M |-> 6, N |-> 7]},
     j \in {[M |-> 1], [M |-> 1, N |-> 8], [M |-> 9, N |-> 8]}}
ConversionsRead ==
  {[FileOver(to = "D", <<[Walker(1, <<>>) EXCEPT !.conversions = {[from |-> IF of = "A" THEN 1 ELSE None, of |-> of, to |-> to, site |-> 40]}]>>)
      EXCEPT !.satisfying = types] :
     of \in {"A", "B", "J"}, to \in {"I", "D"}, types \in Satisfying}

Typed(at, type) == [IdentAt(at, 21) EXCEPT !.type = type]
\* Comparisons of structs within structs, arrays and pointers.
FieldsRead(types) == [op |-> "struct", fields |-> [i \in DOMAIN types |-> [id |-> types[i][1], type |-> types[i][2]]], of |-> None]
ComparisonsMade ==
  {[FileOver(FALSE, <<Walker(1, <<IdentAt(11, 20), At("eq", 12, None, <<Typed(13, t), Typed(14, u)>>), At("switch", 15, None, <<Typed(16, t)>>),
                                  At("mapType", 17, None, <<Typed(18, u)>>), At("index", 19, None, <<Typed(20, "M"), Typed(21, t)>>),
                                  [IdentAt(23, 23) EXCEPT !.comparable = {u}]>>)>>)
      EXCEPT !.types = [S |-> FieldsRead(<<<<30, s>>, <<31, t>>>>), T |-> FieldsRead(<<<<32, "P">>, <<33, v>>>>), V |-> FieldsRead(<<<<36, None>>>>),
                        L |-> [op |-> "array", fields |-> <<>>, of |-> w], P |-> [op |-> "pointer", fields |-> <<>>, of |-> "S"],
                        M |-> [op |-> "map", fields |-> <<>>, of |-> None]]] :
     s \in {"T", "L", "P", None}, v \in {"V", "P", None}, w \in {"T", "V", None}, t \in {"T", "V", "P"}, u \in {"S", "L", "P", None}}

Referrings == <<StoresRead, CarriersRead, GroupsRead, ConversionsRead, ComparisonsMade>>

-----------------------------------------------------------------------------
(* Inventories: the files 1 and 2 and the test file 3 of a package, its external test's 4, *)
(* and 5 of another directory, under two configurations. *)
Name3(at, name) == [at |-> at, name |-> name]
TypeExpr(op, inner) == [op |-> op, of |-> inner, name |-> None, at |-> None, fields |-> <<>>]
Naming(at, name) == [TypeExpr("ident", None) EXCEPT !.name = name, !.at = at]
FieldGroup(names, type) == [names |-> names, type |-> type]
StructOf(fields) == [TypeExpr("struct", None) EXCEPT !.fields = fields]
TypeNamed(at, name, fields, methods) == [at |-> at, name |-> name, fields |-> fields, methods |-> methods]
Declaring(tok, paren, specs) == [form |-> "gen", tok |-> tok, paren |-> paren, specs |-> specs]
FuncNamed(at, name, recv, params) == [form |-> "func", at |-> at, name |-> name, recv |-> recv, params |-> params]
Spec3(names, writes, mentions) == [names |-> names, writes |-> writes, mentionsIota |-> mentions]
Content(base, decls) == [base |-> base, test |-> base = "a_test", decls |-> decls]
Checked(id, path, dir, files) == [id |-> id, path |-> path, dir |-> dir, typed |-> TRUE, files |-> files, interfaces |-> {"I"}]

TypesAt(n, name) ==
  Declaring("type", FALSE, <<
    IF name = "I" THEN TypeNamed(<<n, 10>>, name, <<>>, <<[names |-> <<>>], [names |-> <<Name3(<<n, 16>>, "M")>>]>>)
    ELSE TypeNamed(<<n, 10>>, name,
           <<FieldGroup(<<>>, TypeExpr("star", TypeExpr("index", Naming(<<n, 11>>, "E")))),
             FieldGroup(<<Name3(<<n, 12>>, "x"), Name3(<<n, 13>>, "_")>>,
                        TypeExpr("map", StructOf(<<FieldGroup(<<Name3(<<n, 14>>, "_")>>, Naming(<<n, 15>>, "int"))>>)))>>, <<>>)>>)
MethodsAt(n, name, of) ==
  FuncNamed(<<n, 20>>, name, TypeExpr("star", TypeExpr("index", Naming(<<n, 21>>, of))), <<[names |-> <<Name3(<<n, 22>>, "P")>>]>>)
Contents ==
  {1 :> Content("a", <<d1>>) @@ 2 :> Content("b", <<d2>>) @@ 3 :> Content("a_test", <<d3>>)
   @@ 4 :> Content("a_test", <<MethodsAt(4, "M", "T"), Declaring("import", FALSE, <<>>)>>) @@ 5 :> Content("a", <<TypesAt(5, "T")>>) :
     d1 \in {TypesAt(1, "T"), MethodsAt(1, "M", "T"), MethodsAt(1, "_", "T"), MethodsAt(1, "M", "I"), FuncNamed(<<1, 20>>, "f", TypeExpr("paren", None), <<>>)},
     d2 \in {TypesAt(2, "T"), TypesAt(2, "I"), MethodsAt(2, "N", "T"), Declaring("var", TRUE, <<Spec3(<<Name3(<<2, 10>>, "_"), Name3(<<2, 11>>, "v")>>, TRUE, FALSE)>>)},
     d3 \in {TypesAt(3, "T"), MethodsAt(3, "N", "T"), FuncNamed(<<3, 20>>, "f", None, <<[names |-> <<Name3(<<3, 22>>, "P")>>]>>)}}
LoadOf(content, files, tests, more) ==
  [content |-> content,
   packages |-> {Checked(1, "p", "d", files)} \union (IF tests THEN {Checked(2, "p", "d", files \union {3}), Checked(3, "p_test", "d", {4})} ELSE {})
                  \union {[Checked(4, "p", "e", {5}) EXCEPT !.typed = more]}]
Twice3(c) == \E n, m \in 1 .. 3 : n # m /\ \E d \in ToSet(c[n].decls), e \in ToSet(c[m].decls) :
                d.form = "gen" /\ d.tok = "type" /\ e.form = "gen" /\ e.tok = "type" /\ d.specs[1].name = e.specs[1].name
FilesLoaded ==
  {<<LoadOf(c, f1, t1, TRUE), LoadOf(c, f2, t2, t1)>> :
     c \in {c \in Contents : ~Twice3(c)}, f1 \in SUBSET {1, 2} \ {{}}, t1 \in BOOLEAN, f2 \in SUBSET {1, 2} \ {{}}, t2 \in BOOLEAN}

Specs3(n) ==
  {Spec3(names, w[1], w[2]) : names \in {<<Name3(<<1, n>>, "a")>>, <<Name3(<<1, n>>, "_"), Name3(<<1, n + 1>>, "b")>>, <<Name3(<<1, n>>, "a"), Name3(<<1, n + 1>>, "b")>>},
                              w \in {<<FALSE, FALSE>>, <<TRUE, FALSE>>, <<TRUE, TRUE>>}}
Aligned(specs) ==
  specs[1].writes /\ \A i \in 2 .. Len(specs) : ~specs[i].writes => Len(specs[i].names) = Len(specs[i - 1].names)
ConstantsLoaded ==
  {<<LoadOf(1 :> Content("a", <<Declaring("const", p, specs)>>) @@ 5 :> Content("a", <<>>), {1}, FALSE, FALSE)>> :
     p \in {TRUE}, specs \in {specs \in Specs3(10) \X Specs3(20) \X Specs3(30) \X Specs3(40) : Aligned(specs)}}

Inventories == <<FilesLoaded, ConstantsLoaded>>

(* Module files and whole source files *)
ArtPackage(path, dir, module, imports) ==
  [path |-> path, forTest |-> None, dir |-> dir, main |-> FALSE, linked |-> TRUE, module |-> module, imports |-> imports,
   ignored |-> {}, typed |-> TRUE, files |-> <<>>]
ModuleAt(path, version) == [path |-> path, version |-> version, main |-> FALSE]
OwnModule == [path |-> <<"a">>, version |-> None, main |-> TRUE]
ConfigOf(packages, units) == [packages |-> packages, units |-> units, excludedByCgo |-> {}]
ArtifactsOver(configs) ==
  [configs |-> configs, modules |-> <<>>, complete |-> TRUE, listed |-> TRUE, constraint |-> <<>>, built |-> <<>>, home |-> <<"a">>,
   symbols |-> {}, refs |-> {}, roots |-> {}, candidates |-> {}, held |-> {}, findings |-> <<>>]

\* Two configurations of a unit that may import a module, another under the first one's path, or both.
Graphed(own, other, inner, loaded) ==
  ConfigOf(1 :> ArtPackage(<<"a">>, "d", OwnModule, own) @@ 2 :> ArtPackage(<<"b">>, "e", OwnModule, other)
             @@ 3 :> ArtPackage(<<"m">>, "m", ModuleAt(<<"m">>, 1), inner)
             @@ 4 :> ArtPackage(<<"m", "n", "p">>, "n", ModuleAt(<<"m", "n">>, 1), {}) @@ 5 :> ArtPackage(<<"s">>, "s", None, {}),
           IF loaded THEN "d" :> {1} @@ "e" :> {2} ELSE "e" :> {2})
Requiring(path, indirect) == [path |-> path, indirect |-> indirect]
Replacing(path, version) == [path |-> path, version |-> version]
DirectivesRead ==
  {[ArtifactsOver(<<Graphed(own, {3, 4}, inner, TRUE), Graphed(own2, {5}, {}, loaded)>>) EXCEPT
      !.modules = <<[dir |-> "d", requires |-> requires, tools |-> tools,
                     replaces |-> <<Replacing(<<"m">>, None), Replacing(<<"m">>, 1), Replacing(<<"m">>, 2), Replacing(<<"m", "n">>, 1), Replacing(<<"o">>, None)>>]>>] :
     own \in SUBSET {3, 4}, inner \in SUBSET {4, 5}, own2 \in SUBSET {3, 4}, loaded \in BOOLEAN,
     requires \in {<<Requiring(<<"m">>, i), Requiring(<<"m", "n">>, FALSE)>> : i \in BOOLEAN} \union {<<Requiring(<<"m">>, FALSE)>>, <<>>},
     tools \in {{}, {<<"m", "n", "t">>}, {<<"m", "t">>}, {<<"m", "t">>, <<"m", "n">>}}}

\* Three files of one directory, those each configuration builds, and how an external test of it is loaded.
BuildingConfig(i, built, excluded, tested) ==
  LET out3 == {file \in DOMAIN built : i \notin built[file]}
      lists == out3 # DOMAIN built
  IN [ConfigOf((IF lists THEN 1 :> [ArtPackage(<<"a">>, "d", OwnModule, {}) EXCEPT !.ignored = out3] ELSE <<>>)
                 @@ 2 :> [ArtPackage(<<"a", "_test">>, "d", OwnModule, {}) EXCEPT !.ignored = IF lists THEN out3 ELSE {}, !.forTest = IF tested THEN <<"a">> ELSE None],
               "d" :> IF lists THEN {1, 2} ELSE {})
      EXCEPT !.excludedByCgo = excluded \intersect out3]
FilesExcluded ==
  {[ArtifactsOver(<<BuildingConfig(1, built, excluded, tested), BuildingConfig(2, built, excluded, TRUE)>>) EXCEPT
      !.complete = complete, !.listed = listed, !.built = built, !.constraint = <<"tag", one, two>>] :
     built \in [1 .. 3 -> SUBSET {1, 2}], excluded \in {{}, {2}}, tested \in BOOLEAN, complete \in BOOLEAN, listed \in BOOLEAN,
     one \in {"tag", "ignore"}, two \in {"tag", "ignore", None}}

\* One path in two directories, a package that imports, and a test of the first.
DeclaredIn(id, kind, path, dir) == [id |-> id, kind |-> kind, path |-> path, dir |-> dir]
ArtSymbols ==
  UNION {{DeclaredIn(<<p[3], "package">>, "package", p[1], p[2]), DeclaredIn(<<p[3], "file">>, "file", p[1], p[2]), DeclaredIn(<<p[3], "func">>, "func", p[1], p[2])} :
         p \in {<<<<"p">>, "d", 1>>, <<<<"p">>, "e", 2>>, <<<<"q">>, "f", 3>>, <<<<"p", "_test">>, "d", 4>>}}
ImportingConfig(held, from, main, test) ==
  ConfigOf(1 :> ArtPackage(<<"p">>, "d", OwnModule, {}) @@ 2 :> ArtPackage(<<"p">>, "e", OwnModule, {})
             @@ 3 :> [ArtPackage(<<"q">>, "f", OwnModule, from) EXCEPT !.main = main]
             @@ 4 :> [ArtPackage(<<"p", "_test">>, "d", OwnModule, test) EXCEPT !.forTest = <<"p">>],
           "d" :> held \intersect {1, 4} @@ "e" :> held \intersect {2} @@ "f" :> held \intersect {3})
ImportRefs(configs) ==
  {[from |-> <<p, "file">>, to |-> <<q, "package">>] : <<p, q>> \in
     UNION {UNION {{<<p, q>> : q \in c.packages[p].imports} : p \in UNION {c.units[d] : d \in DOMAIN c.units}} : c \in ToSet(configs)}}
HeldPackages(configs) == UNION {UNION {c.units[d] : d \in DOMAIN c.units} : c \in ToSet(configs)}
PackagesImported ==
  {[ArtifactsOver(configs) EXCEPT !.symbols = {s \in ArtSymbols : s.id[1] \in HeldPackages(configs)},
      !.refs = ImportRefs(configs) \union {[from |-> <<1, "func">>, to |-> <<1, "package">>]}, !.roots = roots, !.candidates = candidates] :
     configs \in {<<ImportingConfig(h \union {1}, f1, m, t), ImportingConfig(h2, f2, m, {})>> :
                    h \in {{2}, {3}, {3, 4}}, f1 \in SUBSET {1, 2}, m \in BOOLEAN, t \in SUBSET {1}, h2 \in {{1}, {2, 3}, {1, 2, 3}}, f2 \in SUBSET {1, 2}},
     roots \in {{}, {<<1, "func">>}, {<<2, "file">>}},
     candidates \in {{<<1, "func">>, <<2, "func">>}, {<<1, "func">>, <<2, "func">>, <<3, "func">>}, {<<2, "func">>}}}

\* A type and its field, a group of variables, and a function that declares a local.
Node(names, uses, inner) == [names |-> names, uses |-> uses, inner |-> inner]
UsesOf == SUBSET {<<"m">>, <<"m", "n">>}
UsingFile(t, f, g, k, l) ==
  <<Node({}, {}, <<Node({"T"}, t, <<Node({"F"}, f, <<>>)>>), Node({"G", "H"}, g, <<>>), Node({"K"}, k, <<Node({"local"}, l, <<>>)>>)>>)>>
UsingConfig(one, two, apart) ==
  ConfigOf(1 :> [ArtPackage(<<"a">>, "d", OwnModule, {3}) EXCEPT !.files = one] @@ 2 :> [ArtPackage(<<"b">>, "e", OwnModule, {3, 4}) EXCEPT !.files = two]
             @@ 3 :> ArtPackage(<<"m">>, "m", ModuleAt(<<"m">>, 1), {4})
             @@ 4 :> ArtPackage(<<"m", "n">>, "n", ModuleAt(IF apart THEN <<"m", "n">> ELSE <<"m">>, 1), {}),
           "d" :> {1} @@ "e" :> {2})
UsesWritten ==
  {[ArtifactsOver(<<UsingConfig(UsingFile(t, f, g, k, l), <<Node({"B"}, t, <<>>)>>, apart), UsingConfig(UsingFile(t, {}, {}, k, {}), <<Node({"B"}, {}, <<>>)>>, apart)>>) EXCEPT
      !.held = {"T", "F", "G", "H", "K", "B"}, !.candidates = {"F", "G", "K", "B"} \union dead,
      !.findings = <<[id |-> "T", deletable |-> dead # {}], [id |-> "F", deletable |-> deletable], [id |-> "G", deletable |-> TRUE], [id |-> "K", deletable |-> TRUE], [id |-> "B", deletable |-> TRUE]>>] :
     t \in UsesOf, f \in {{}, {<<"m">>}}, g \in {{}, {<<"m", "n">>}}, k \in UsesOf, l \in {{}, {<<"m">>}}, apart \in BOOLEAN, dead \in {{}, {"T"}}, deletable \in BOOLEAN}

Artifacted == <<DirectivesRead, FilesExcluded, PackagesImported, UsesWritten>>

(* Directives and literals *)
Declared(id, kind, file, line, name, parents) == [id |-> id, kind |-> kind, file |-> file, line |-> line, name |-> name, parents |-> parents]
\* A file's first lines declare a type, a field after its own directive, and a function wrapped over two lines.
SymbolsIn(file) ==
  <<Declared(<<file, "file">>, "file", file, 1, "f", {}), Declared(<<file, "T">>, "type", file, 3, "T", {}), Declared(<<file, "F">>, "field", file, 4, "F", {}),
    Declared(<<file, "U">>, "type", file, 6, "U", {}), Declared(<<file, "V">>, "var", file, 6, "V", {}), Declared(<<file, "fn">>, "func", file, 8, "fn", {})>>
Spans == {[from |-> 30, line |-> 3, last |-> 55, lastLine |-> 5], [from |-> 42, line |-> 4, last |-> 45, lastLine |-> 4],
          [from |-> 60, line |-> 6, last |-> 65, lastLine |-> 6], [from |-> 80, line |-> 8, last |-> 99, lastLine |-> 9], [from |-> 92, line |-> 9, last |-> 94, lastLine |-> 9]}
Comment(line, offset, verdict, at) ==
  [line |-> line, offset |-> offset, verdict |-> verdict, at |-> at, codes |-> IF verdict = "well" THEN <<"x", "y">> ELSE <<"x">>, renders |-> at # <<9, 9, 9>>]
CommentsAt(file) ==
  {Comment(p[1], p[2], v, <<file, p[1], 1>>) : p \in {<<2, 20>>, <<4, 40>>, <<4, 47>>, <<5, 57>>, <<5, 50>>, <<6, 59>>, <<6, 67>>, <<8, 84>>, <<9, 95>>}, v \in {"well", "malformed"}}
    \union {Comment(4, 47, "reasonless", <<file, 4, 1>>), Comment(4, 47, "none", <<9, 9, 9>>), Comment(4, 47, "well", <<9, 9, 9>>), Comment(4, 47, "malformed", <<1, 1, 1>>)}
FileOf3(comments) == [comments |-> comments, nodes |-> Spans, functions |-> {}]
DirectivesWritten ==
  {[content |-> <<[FileOf3({a, b}) EXCEPT !.functions = {[id |-> <<1, "fn">>, fieldLines |-> {8, 9, 10}]}],
                  [FileOf3({c}) EXCEPT !.functions = {[id |-> <<2, "fn">>, fieldLines |-> {8, 9}]}]>>,
    configurations |-> [i \in DOMAIN files |-> [files |-> files[i], symbols |-> FlattenSeq([n \in DOMAIN files[i] |-> SymbolsIn(files[i][n])])]]] :
     a \in CommentsAt(1), b \in {Comment(9, 96, "well", <<1, 9, 2>>), Comment(2, 21, "malformed", <<2, 3, 2>>)}, c \in {Comment(4, 47, v, <<2, 4, 1>>) : v \in {"none", "malformed", "well"}},
     files \in {<<<<1>>, <<2>>>>, <<<<1, 2>>, <<2>>>>, <<<<1, 2>>, <<1, 2>>>>, <<<<2>>>>}}

Text(value, at) == [op |-> "literal", value |-> value, at |-> at]
Holding3(names, inner) == [op |-> "other", names |-> names, inner |-> inner]
Importing(value, at) == [op |-> "import", names |-> <<>>, path |-> Text(value, at)]
Tagged(type, tag) == [op |-> "field", type |-> type, tag |-> tag]
LiteralFile(target, test, decls) == [target |-> target, test |-> test, decls |-> decls]
Literally == {"A", "B", "C", "M", "z"}
LiteralsWritten ==
  {[content |-> <<LiteralFile(TRUE, FALSE,
       <<[specs |-> <<Importing("C", <<1, 1, 1>>)>>],
         [specs |-> <<Holding3(<<"A">>, <<Text(v[1], <<1, 3, 1>>)>>), Holding3(<<"B">>, <<Text(v[2], <<1, 4, 1>>)>>)>>],
         [specs |-> <<Holding3(<<"C">>, <<Tagged(<<Text(v[3], <<1, 6, 1>>)>>, Text("A", <<1, 6, 9>>))>>)>>]>>),
       LiteralFile(target, test, <<[specs |-> <<Holding3(<<"D">>, <<Text(v[4], <<2, 2, 1>>)>>)>>]>>)>>,
    configurations |-> [i \in DOMAIN files |->
       [files |-> files[i], constTypes |-> IF typed THEN "A" :> "C" @@ "B" :> "M" ELSE <<>>,
        symbols |-> <<Declared("P", "package", 1, 1, "p", {}), Declared("A", "const", 1, 3, "A", {"P"}), Declared("B", "const", 1, 4, "B", {"P"}),
                      Declared("C", "type", 1, 6, "C", {"P"}), Declared("M", "method", 1, 8, "M", {"C"}), Declared("D", "var", 2, 2, "D", {"P"})>>]],
    findings |-> <<[id |-> "A", lowered |-> target], [id |-> "B", lowered |-> TRUE], [id |-> "C", lowered |-> TRUE], [id |-> "M", lowered |-> TRUE]>>] :
     v \in Literally \X {"A", "B", "z"} \X {"C", "B", "z"} \X {"A", "C", "z"}, target \in BOOLEAN, test \in BOOLEAN, typed \in BOOLEAN,
     files \in {<<<<1>>, <<1, 2>>>>, <<<<2>>, <<1>>>>, <<<<1>>>>}}

(* Exemptions and carriers *)
EnumMethod(name, at, test) == [name |-> name, at |-> at, test |-> test]
ConstantOf(id, blank, type) == [id |-> id, blank |-> blank, type |-> type]
EnumCall(at, test, converts, integer, itself, decodes, args) ==
  [at |-> at, test |-> test, converts |-> converts, integer |-> integer, memberOfIt |-> itself, decodes |-> decodes, args |-> args]
EnumBlocks(iota) ==
  <<[iota |-> iota, names |-> {ConstantOf(1, FALSE, "E"), ConstantOf(2, TRUE, "E"), ConstantOf(3, FALSE, "O")}],
    [iota |-> FALSE, names |-> {ConstantOf(4, FALSE, "E"), ConstantOf(5, FALSE, "P"), ConstantOf(6, FALSE, None)}]>>
ProgramOf(methods, calls, iota, production) ==
  [types |-> "E" :> [inside |-> TRUE, methods |-> methods, parts |-> {}] @@ "O" :> [inside |-> FALSE, methods |-> methods, parts |-> {}]
             @@ "P" :> [inside |-> TRUE, methods |-> {EnumMethod("String", <<0, 1, 1>>, FALSE)}, parts |-> {"E"}]
             @@ "[]P" :> [inside |-> TRUE, methods |-> {}, parts |-> {"P"}],
   blocks |-> EnumBlocks(iota), calls |-> calls, production |-> production, carried |-> {"enum"}, disabled |-> {}, records |-> {}, testDeclared |-> {}]
EnumsConverted ==
  {ProgramOf(methods, UNION {one, two, three}, iota, production) :
     methods \in {{}, {EnumMethod("String", <<0, 3, 1>>, FALSE)}, {EnumMethod("Other", <<0, 3, 1>>, FALSE)}, {EnumMethod("MarshalText", <<0, 8, 1>>, TRUE)}},
     one \in {{EnumCall(<<0, 5, 1>>, t, "E", i, m, FALSE, {})} : t \in BOOLEAN, i \in BOOLEAN, m \in BOOLEAN},
     two \in {{}} \union {{EnumCall(<<0, 4, 1>>, t, "O", TRUE, FALSE, d, {a})} : t \in BOOLEAN, d \in BOOLEAN, a \in {"E", "P", "[]P", "O"}},
     three \in {{}, {EnumCall(<<0, 6, 1>>, FALSE, "E", TRUE, FALSE, FALSE, {})}}, iota \in BOOLEAN, production \in BOOLEAN}
RecordOf(of, class, holders, possible, test, site) ==
  [of |-> of, class |-> class, detail |-> 0, holders |-> holders, possible |-> possible, test |-> test, site |-> site]
RecordsOf(of) ==
  {RecordOf(of, c, h, FALSE, n \in {1, 3}, <<n, 2, 1>>) : c \in {"format", "encoding"}, h \in {{}, {7}}, n \in 0 .. 3}
RecordsFound ==
  {[ProgramOf({}, {}, TRUE, production) EXCEPT !.records = {one, two, RecordOf(1, "encoding", {}, TRUE, test, <<IF test THEN 1 ELSE 0, 9, 1>>), RecordOf(3, "format", {}, TRUE, test, <<IF test THEN 1 ELSE 0, 1, 1>>)},
      !.testDeclared = declared, !.disabled = disabled] :
     production \in BOOLEAN, one \in RecordsOf(1) \union RecordsOf(3), two \in RecordsOf(1), test \in BOOLEAN, declared \in {{}, {1}}, disabled \in {{}, {"format"}}}

\* A hand-written root 1, a generated registration 2 and generated code 3, a generated interface 4 with
\* its served method 5, what answers it 6, a field 7, and a declaration 8 of either.
CarriedAs(generated, test, parents) == [generated |-> generated, inTest |-> test, blank |-> FALSE, parents |-> parents]
Carriers8(own) ==
  <<CarriedAs(FALSE, FALSE, {}), CarriedAs(TRUE, FALSE, {}), CarriedAs(TRUE, FALSE, {}), CarriedAs(TRUE, FALSE, {}), CarriedAs(TRUE, FALSE, {4}),
    CarriedAs(FALSE, FALSE, {}), CarriedAs(TRUE, FALSE, {}), [CarriedAs(own = "generated", own = "test", {}) EXCEPT !.blank = own = "blank"]>>
Referring8(from, to, kind, layout) == [from |-> from, to |-> to, test |-> FALSE, kind |-> kind, layout |-> layout, gate |-> {}]
ExemptBy(of, holders, generated, via) == [of |-> of, holders |-> holders, generated |-> generated, satisfies |-> via # None, via |-> via]
\* The parts of a oneof are told apart only where the field is used.
UsesOf7 ==
  {<<Referring8(f, 7, k, FALSE), part>> : f \in {3, 8}, k \in {"use", "assert", "write"}, part \in {None, "member", "wrapper"}} \union
  {<<Referring8(3, 8, "use", TRUE), None>>, <<Referring8(8, 4, "conversion", FALSE), None>>}
Carriages ==
  {[symbols |-> Carriers8(IF own = "hand" /\ read[1] = "entry" THEN "blank" ELSE own), refs |-> {Referring8(1, first, "use", FALSE), Referring8(8, 4, "use", FALSE), seventh[1]} \union fifth,
    roots |-> {[at |-> 1, kind |-> "entry"], [at |-> 2, kind |-> read[1]]}, consumed |-> IF read[1] = "blank" THEN {} ELSE {4},
    exempt |-> exempt, implementers |-> 5 :> {6}, registrations |-> {2}, oneof |-> [s \in 1 .. 8 |-> IF s = 7 THEN seventh[2] ELSE None], reads |-> read[2]] :
     own \in {"hand", "generated", "test"}, first \in {2, 3, 8}, fifth \in {{}} \union {{Referring8(f, 5, "use", FALSE)} : f \in {3, 8}},
     seventh \in UsesOf7, read \in {<<"entry", {}>>, <<"blank", {}>>, <<"blank", {[from |-> 8, to |-> 3]}>>, <<"blank", {[from |-> None, to |-> 3]}>>},
     exempt \in {{}, {ExemptBy(8, {}, TRUE, None)}, {ExemptBy(6, {}, FALSE, 5)}, {ExemptBy(7, {3, 8}, FALSE, None)}, {ExemptBy(8, {3}, FALSE, None), ExemptBy(2, {1}, FALSE, None)}}}

MCEvidenceCases ==
  MCCases @@ [narrow |-> Narrowings, kinds |-> <<Claimings>>, stores |-> <<Storings>>, parts |-> Partings,
             glob |-> <<Globs>>, support |-> <<Supports>>, roots |-> Rootings, references |-> Referrings, inventory |-> Inventories,
             artifacts |-> Artifacted,
             directives |-> <<DirectivesWritten>>, literals |-> <<LiteralsWritten>>,
             exemptions |-> <<EnumsConverted, RecordsFound>>, carriers |-> <<Carriages>>]
=============================================================================
