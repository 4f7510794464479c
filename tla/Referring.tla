------------------------------ MODULE Referring ------------------------------
(***************************************************************************)
(* The references one source file makes (internal/facts/reference.go): who *)
(* makes each, how it uses what it names, what deleting a write deletes,   *)
(* and the uses no identifier spells.                                      *)
(***************************************************************************)
EXTENDS FiniteSetsExt, SequencesExt, TLC

CONSTANT None  \* no declaration, no span, no type

(***************************************************************************)
(* A node has its parts.  An identifier and a selector (whose part is what *)
(* it selects of) are written at a site and name a declaration; a          *)
(* statement and a keyed element have a span; an expression may have a     *)
(* type.  A file f holds its declarations, the declarations it may name,   *)
(* the fields of each type, and the fields of identical literals.          *)
(***************************************************************************)
RECURSIVE within(_)
within(n) == {n} \union UNION {within(p) : p \in ToSet(n.parts)}
named(n) == {e \in within(n) : e.op \in {"ident", "sel"} /\ e.to # None}
of(e) == e.parts[1]
spanOf(n) == [from |-> n.from, till |-> n.till]

fieldOf(f, e) == e.op = "sel" /\ e.to # None /\ f.symbols[e.to].field
holds(f, e, kinds) == fieldOf(f, e) /\ f.symbols[e.to].holds \in kinds
holdsByReference(f, e) == holds(f, e, {"map", "slice", "pointer"})
holdsArray(f, e) == holds(f, e, {"array"})
holdsByValue(f, e) == holds(f, e, {"struct", "array"})

Mark(e, kind, span) == {[at |-> e.at, kind |-> kind, span |-> span]}

\* Mutant of markHeldIn: a pointer's field is written with what it points to.
RECURSIVE markHeldThrough(_, _)
markHeldThrough(f, holder) ==
  CASE fieldOf(f, holder) -> Mark(holder, "write", None) \union markHeldThrough(f, of(holder))
    [] holder.op = "index" /\ holdsArray(f, of(holder)) -> markHeldThrough(f, of(holder))
    [] OTHER -> {}

\* The storage a store lands in beyond the member it writes: a field holding a struct, or an
\* element of a field holding an array.
RECURSIVE heldIn(_, _)
heldIn(f, holder) ==
  CASE holdsByValue(f, holder) -> Mark(holder, "write", None) \union heldIn(f, of(holder))
    [] holder.op = "index" /\ holdsArray(f, of(holder)) -> heldIn(f, of(holder))
    [] OTHER -> {}
markHeldIn(f, holder) == heldIn(f, holder)

\* A selector writes its member, an index the collection it stores into, an indirection nothing.
RECURSIVE markWrite(_, _, _)
markWrite(f, target, span) ==
  CASE target.op = "ident" -> Mark(target, "write", span)
    [] target.op = "sel" -> Mark(target, "write", span) \union markHeldIn(f, of(target))
    [] target.op = "index" /\ ~holdsByReference(f, of(target)) -> markWrite(f, of(target), span)
    [] OTHER -> {}
markIndexed(f, collection, span) ==
  IF holdsByReference(f, collection) THEN {} ELSE markWrite(f, collection, span)

\* The name chain an expression is spelled as.
RECURSIVE spelling(_)
spelling(e) ==
  CASE e.op = "ident" -> <<e.to>>
    [] e.op = "sel" /\ spelling(of(e)) # <<>> -> Append(spelling(of(e)), e.to)
    [] OTHER -> <<>>

builtin(call, name) == of(call).op = "ident" /\ of(call).builtin = name

\* In x = append(x, ...) the read inside the call is how the store is written.
markAppendBack(n) ==
  LET call == n.parts[2]
      first == call.parts[2]
  IN IF n.lhs = 1 /\ Len(n.parts) = 2 /\ call.op = "call" /\ Len(call.parts) > 1 /\ builtin(call, "append")
          /\ spelling(of(n)) # <<>> /\ spelling(first) = spelling(of(n))
     THEN Mark(first, "write", None) ELSE {}

markDelete(f, call, span) ==
  IF call.op = "call" /\ Len(call.parts) > 1 /\ builtin(call, "delete") THEN markIndexed(f, call.parts[2], span) ELSE {}

RECURSIVE markAssert(_)
markAssert(t) ==
  CASE t.op \in {"ident", "sel"} -> Mark(t, "assert", None)
    [] t.op = "star" -> markAssert(of(t))
    [] OTHER -> {}

markFieldKeys(lit) ==
  UNION {Mark(of(e), "write", spanOf(e)) : e \in {e \in ToSet(lit.parts) : e.op = "keyed" /\ of(e).op = "ident"}}

\* The kinds one node fixes below it.
marks(f, n) ==
  CASE n.op = "assign" ->
         UNION {markWrite(f, n.parts[i], IF n.lhs = 1 THEN spanOf(n) ELSE None) : i \in 1 .. n.lhs} \union markAppendBack(n)
    [] n.op = "incdec" -> markWrite(f, of(n), spanOf(n))
    [] n.op = "stmt" -> markDelete(f, of(n), spanOf(n))
    [] n.op = "call" -> markDelete(f, n, None)
    [] n.op = "range" -> UNION {markWrite(f, n.parts[i], None) : i \in 1 .. n.lhs}
    [] n.op = "lit" -> markFieldKeys(n)
    [] n.op = "assert" -> markAssert(n.parts[2])
    [] n.op = "typeSwitch" -> UNION {markAssert(t) : t \in ToSet(Tail(n.parts))}
    [] OTHER -> {}

\* What a call names as its callee, behind the types that instantiate it.
RECURSIVE markCallee(_)
markCallee(fun) ==
  CASE fun.op \in {"ident", "sel"} -> {fun.at}
    [] fun.op = "index" -> markCallee(of(fun))
    [] OTHER -> {}

\* The kind a parent fixed, or else what the identifier names.
kindOf(f, e, fixed, callees) ==
  LET at == {m \in fixed : m.at = e.at}
      isType == f.symbols[e.to].type
  IN CASE at # {} -> (CHOOSE m \in at : TRUE).kind
       [] e.at \in callees -> IF isType THEN "conversion" ELSE "call"
       [] OTHER -> IF isType THEN "type" ELSE "read"
-----------------------------------------------------------------------------
(* What a comparison reads: every field the struct compared holds by value. *)
RECURSIVE comparedStruct(_, _)
comparedStruct(f, t) ==
  CASE t = None -> {}
    [] f.types[t].op = "array" -> comparedStruct(f, f.types[t].of)
    [] f.types[t].op = "struct" -> {t}
    [] OTHER -> {}

RECURSIVE readFields(_, _)
readFields(f, t) ==
  UNION {UNION {{field.id} \union readFields(f, field.type) : field \in ToSet(f.types[st].fields)} : st \in comparedStruct(f, t)}

\* Equality, a switch and its cases, the key of a map type or of an index into a map, and a
\* type argument whose constraint is comparable.
comparisons(f, n) ==
  CASE n.op = "eq" -> {<<n.from, t>> : t \in {p.type : p \in ToSet(n.parts)}}
    [] n.op = "switch" -> {<<p.from, p.type>> : p \in ToSet(n.parts)}
    [] n.op = "mapType" -> {<<of(n).from, of(n).type>>}
    [] n.op = "index" /\ of(n).type # None /\ f.types[of(n).type].op = "map" -> {<<n.parts[2].from, n.parts[2].type>>}
    [] n.op = "ident" -> {<<n.at, t>> : t \in n.comparable}
    [] OTHER -> {}
-----------------------------------------------------------------------------
(* The walk.  A declaration of the target the inventory does not hold owns nothing and is *)
(* left alone; in a consumer every declaration is walked with no owner. *)
Owns(f, id) == f.consumer \/ id # None
From(f, id) == IF f.consumer THEN None ELSE id

testCode(f) == f.build = "test" \/ f.testFile \/ (~f.consumer /\ f.support)

add(f, from, to, site, kind, via, span, annotated) ==
  {[from |-> from, to |-> to, site |-> site, kind |-> kind, via |-> via, test |-> testCode(f),
    span |-> IF kind = "write" /\ ~f.consumer THEN span ELSE None,
    carriers |-> IF annotated /\ ~f.consumer THEN <<from>> ELSE <<>>]}

\* Every reference a subtree makes, the kinds its parent fixed given.
inspectExcept(f, n, id, annotated, above) ==
  LET all == within(n)
      from == From(f, id)
      fixed == above \union UNION {marks(f, m) : m \in all}
      callees == UNION {markCallee(of(m)) : m \in {m \in all : m.op = "call"}}
      Spans(e) == {m.span : m \in {m \in fixed : m.at = e.at}} \ {None}
      SpanAt(e) == IF Spans(e) = {} THEN None ELSE CHOOSE span \in Spans(e) : TRUE
      Made(e, to, via) == add(f, from, to, e.at, kindOf(f, e, fixed, callees), via, SpanAt(e), annotated)
  IN UNION {Made(e, e.to, "identifier") \union UNION {Made(e, twin, "literal-twin") : twin \in f.symbols[e.to].twins} : e \in named(n)}
       \union UNION {UNION {add(f, from, id1, e.at, "read", "promoted-path", None, annotated) : id1 \in ToSet(e.path)} :
                       e \in {e \in all : e.op = "sel"}}
       \union UNION {UNION {add(f, from, field, c[1], "read", "comparison", None, annotated) : field \in readFields(f, c[2])} :
                       c \in UNION {comparisons(f, m) : m \in all}}

inspect(f, n, id) == inspectExcept(f, n, id, FALSE, {})
inspectAll(f, nodes, id) == UNION {inspect(f, n, id) : n \in ToSet(nodes)}
inspectAnnotation(f, n, id) == inspectExcept(f, n, id, TRUE, {})

walkTypeParams(f, groups) ==
  UNION {UNION {inspect(f, g.constraint, id) : id \in {id \in ToSet(g.names) : Owns(f, id)}} : g \in ToSet(groups)}

walkFunc(f, d) ==
  IF Owns(f, d.id) THEN walkTypeParams(f, d.typeParams) \union inspectAll(f, d.nodes, d.id) ELSE {}

\* The names of a group up to one the inventory does not hold.
held(f, names) ==
  LET lost == {i \in DOMAIN names : ~Owns(f, names[i])}
  IN IF lost = {} THEN names ELSE SubSeq(names, 1, Min(lost) - 1)

\* A name owns its type and the value that initializes it; the first owns a shared list.
walkValueSpec(f, s) ==
  LET ids == held(f, s.names) IN
  UNION {inspectAnnotation(f, t, id) : t \in ToSet(s.type), id \in ToSet(ids)}
    \union (IF ids # s.names \/ ids = <<>> THEN {}
            ELSE IF Len(ids) = Len(s.values) THEN UNION {inspect(f, s.values[i], ids[i]) : i \in DOMAIN ids}
            ELSE inspectAll(f, s.values, ids[1]))

\* Mutant of walkRepeated: the first constant alone references what the list names.
walkRepeatedFirst(f, s, repeated) ==
  {[r EXCEPT !.from = From(f, s.names[1]), !.site = s.at, !.via = "constant-repetition", !.carriers = <<>>] :
     r \in {r \in inspectAll(f, repeated.values \o repeated.type, s.names[1]) : r.via = "identifier" /\ Owns(f, s.names[1])}}

\* A constant specification of no list references what the list before it names.
walkRepeated(f, s, repeated) ==
  UNION {{[r EXCEPT !.from = From(f, id), !.site = s.at, !.via = "constant-repetition", !.carriers = <<>>] :
            r \in {r \in inspectAll(f, repeated.values \o repeated.type, id) : r.via = "identifier"}} :
         id \in {id \in ToSet(s.names) : Owns(f, id)}}

walkGenDecl(f, d) ==
  LET lists(i) == {j \in 1 .. i - 1 : d.specs[j].values # <<>>}
  IN UNION {walkValueSpec(f, d.specs[i]) : i \in DOMAIN d.specs}
       \union UNION {walkRepeated(f, d.specs[i], d.specs[Max(lists(i))]) :
                       i \in {i \in DOMAIN d.specs : d.const /\ d.specs[i].values = <<>> /\ lists(i) # {}}}

\* An import serves every declaration of its file.
walkImport(f, s) ==
  IF (f.file = None /\ ~f.consumer) \/ s.to = None THEN {}
  ELSE add(f, From(f, f.file), s.to, s.at, "read", "import", None, FALSE)

\* The name of an embedded type embeds it; what instantiates the type does not.
RECURSIVE markEmbedded(_)
markEmbedded(t) ==
  CASE t.op \in {"ident", "sel"} -> Mark(t, "embed", None)
    [] t.op \in {"star", "index"} -> markEmbedded(of(t))
    [] OTHER -> {}

\* A field owns its type, and where that is an anonymous struct the first name owns its fields.
RECURSIVE walkStruct(_, _)
walkStruct(f, fields) ==
  UNION {IF g.embedded
         THEN IF Owns(f, g.names[1]) THEN inspectExcept(f, g.type, g.names[1], FALSE, markEmbedded(g.type)) ELSE {}
         ELSE LET ids == held(f, g.names) IN
              UNION {inspectAnnotation(f, g.type, id) : id \in ToSet(ids)}
                \union (IF ids = <<>> THEN {} ELSE walkStruct(f, g.inner)) :
         g \in ToSet(fields)}

walkInterface(f, methods, id) ==
  UNION {IF m.id = None /\ m.embedded
         THEN inspectExcept(f, m.type, id, FALSE, markEmbedded(m.type))
         ELSE IF Owns(f, m.id) THEN inspect(f, m.type, m.id) ELSE {} : m \in ToSet(methods)}

walkTypeSpec(f, d) ==
  IF ~Owns(f, d.id) THEN {}
  ELSE inspectAll(f, d.nodes, d.id) \union walkStruct(f, d.fields) \union walkInterface(f, d.methods, d.id)
-----------------------------------------------------------------------------
(***************************************************************************)
(* What a conversion requires.  Per type of f.satisfying: whether it is an *)
(* interface, the methods it declares by name, and what it embeds.         *)
(***************************************************************************)
\* The selections of a name at one depth: the fields on the way and the method.
declaredAt(types, name, some) ==
  {[path |-> s.path, id |-> types[s.type].methods[name]] : s \in {s \in some : name \in DOMAIN types[s.type].methods}}

RECURSIVE lookup(_, _, _)
lookup(types, name, some) ==
  LET found == declaredAt(types, name, some)
      deeper == UNION {{[path |-> Append(s.path, e.id), type |-> e.type] : e \in types[s.type].embeds} : s \in some}
  IN CASE Cardinality(found) = 1 -> found
       [] found # {} \/ some = {} -> {}
       [] OTHER -> lookup(types, name, deeper)
selections(types, t, name) == lookup(types, name, {[path |-> <<>>, type |-> t]})

Satisfies(types, t, iface) == \A name \in DOMAIN types[iface].methods : selections(types, t, name) # {}

\* Mutant of requiredBy: the field that declares the method, and not those it is reached through.
requiredLast(types, c) ==
  UNION {LET m == types[c.to].methods[name] IN
         UNION {(IF s.path = <<>> THEN {} ELSE {Last(s.path)}) \union (IF types[c.of].interface /\ s.id # m THEN {s.id} ELSE {}) :
                  s \in selections(types, c.of, name)} : name \in DOMAIN types[c.to].methods}

\* The embedded fields a required method is promoted through, and for a value of another
\* interface the method it declares.
requiredBy(types, c) ==
  UNION {LET m == types[c.to].methods[name] IN
         UNION {ToSet(s.path) \union (IF types[c.of].interface /\ s.id # m THEN {s.id} ELSE {}) :
                  s \in selections(types, c.of, name)} : name \in DOMAIN types[c.to].methods}

\* A conversion is made from the declaration, or in a group from the name whose value holds it.
readRequired(f, d) ==
  UNION {UNION {add(f, From(f, c.from), id, c.site, "read", "conversion-requirement", None, FALSE) :
                  id \in requiredBy(f.satisfying, c) \ {None}} :
         c \in {c \in d.conversions : Owns(f, c.from) /\ Satisfies(f.satisfying, c.of, c.to)}}
-----------------------------------------------------------------------------
Sorted(some, Before(_, _)) == SortSeq(FoldSet(LAMBDA x, list : Append(list, x), <<>>, some), Before)

holdsSite(span, site) == span.from <= site /\ site < span.till

\* Mutant of carryWrites: a span stays open once opened.
carryOpened(refs) ==
  {[r EXCEPT !.carriers = @ \o SelectSeq(Sorted({w.to : w \in {w \in refs : w.span # None /\ w.span.from <= r.site}}, LAMBDA a, b : a < b),
                                         LAMBDA to : to # r.to /\ to \notin ToSet(r.carriers))] : r \in refs}

\* One pass over the sites in order, with the spans open that hold the site: the declaration
\* each open write stores into, innermost first.
carryWrites(refs) ==
  LET writes == Sorted({r \in refs : r.span # None},
                             LAMBDA a, b : a.span.from < b.span.from \/ (a.span.from = b.span.from /\ a.span.till > b.span.till))
      sites == Sorted({r.site : r \in refs}, LAMBDA a, b : a < b)
      Opened(open, site) ==
        SelectSeq(open \o SelectSeq(writes, LAMBDA w : w.span.from <= site /\ w \notin ToSet(open)), LAMBDA w : holdsSite(w.span, site))
      Carry(r, open) ==
        FoldRight(LAMBDA w, carriers : IF w.to # r.to /\ w.to \notin ToSet(carriers) THEN Append(carriers, w.to) ELSE carriers,
                  open, r.carriers)
      Step(state, site) ==
        LET open == Opened(state.open, site)
        IN [open |-> open, done |-> state.done \union {[r EXCEPT !.carriers = Carry(r, open)] : r \in {r \in refs : r.site = site}}]
  IN FoldLeft(Step, [open |-> <<>>, done |-> {}], sites).done

walkDecl(f, d) ==
  CASE d.op = "func" -> walkFunc(f, d) \union readRequired(f, d)
    [] d.op = "gen" -> walkGenDecl(f, d) \union readRequired(f, d)
    [] d.op = "type" -> walkTypeSpec(f, d)
    [] d.op = "import" -> walkImport(f, d)

walkFile(f) == carryWrites(UNION {walkDecl(f, d) : d \in ToSet(f.decls)})
=============================================================================
