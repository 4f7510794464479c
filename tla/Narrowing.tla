----------------------------- MODULE Narrowing -----------------------------
(***************************************************************************)
(* How far the references to an exported declaration reach, and how far    *)
(* code reaches the values of a type without naming it, which decide what  *)
(* a narrower visibility would support (internal/findings/narrowing.go).   *)
(***************************************************************************)
EXTENDS FiniteSetsExt, SequencesExt

CONSTANT None  \* no declaration the inventory holds

(***************************************************************************)
(* An input n holds the declarations (kind, package, file, what declares   *)
(* it imports), the references, the declarations something else speaks     *)
(* for, the interfaces, the consumers, and per package the objects of its  *)
(* scope.  A type is a tree: a name and its arguments, or parts.           *)
(***************************************************************************)
scopeFile == 0
scopePackage == 1
scopeModule == 2
scopeOutside == 3

\* A reference's reach is decided by what makes it; what the inventory does not hold is a
\* test build of the target, or a consumer.
scopeOf(n, to, r) ==
  LET from == IF r.from = None THEN {} ELSE {n.symbols[r.from]} IN
  CASE r.from = None -> IF r.build = "test" THEN scopeModule ELSE scopeOutside
    [] \E f \in from : f.package # to.package -> scopeModule
    [] \E f \in from : f.package = to.package /\ f.file # to.file -> scopePackage
    [] OTHER -> scopeFile

ReferencesTo(n, s) == {r \in n.references : r.to = s}
reach(n) ==
  [s \in DOMAIN n.symbols |-> Max({scopeFile} \union {scopeOf(n, n.symbols[s], r) : r \in ReferencesTo(n, s)})]

\* The methods that satisfy an interface something names as a type.
satisfying(n) == UNION {i.implementors : i \in {i \in n.interfaces : i.usedBy # {}}}

unnarrowable(n) == n.exempted \union n.fixed \union n.writeOnly \union satisfying(n)

consumersLoaded(n) == n.complete /\ n.declared \subseteq n.loaded
closed(n, s) == ~n.symbols[s].importable \/ consumersLoaded(n)

narrowableShape(symbol) ==
  symbol.kind \notin {"typeParam", "interfaceMethod", "field"} /\ symbol.exported

narrowable(n, s) ==
  /\ narrowableShape(n.symbols[s])
  /\ s \notin unnarrowable(n)
  /\ closed(n, s)
  /\ s \notin n.candidates
  /\ ~n.symbols[s].support
  /\ ReferencesTo(n, s) # {}
-----------------------------------------------------------------------------
(* Carriers: the declarations through which code reaches a type's values *)

\* The types of a package a type spells: through every composite, an argument, and the
\* exported members of what has no name.
RECURSIVE typeNamesIn(_, _)
typeNamesIn(owned, t) ==
  LET Below(types) == UNION {typeNamesIn(owned, u) : u \in types} IN
  CASE t.op = "named" -> ({t.name} \intersect owned) \union Below(t.args)
    [] t.op = "alias" -> ({t.name} \intersect owned) \union typeNamesIn(owned, t.of)
    [] t.op = "composite" -> Below(t.parts)
    [] t.op = "struct" -> Below({m.type : m \in {m \in t.members : m.exported}})
    [] t.op = "interface" -> Below({m.type : m \in {m \in t.members : m.exported}} \union t.embedded)
    [] OTHER -> {}

Carry(type, by, isType) == [type |-> type, by |-> by, isType |-> isType]

\* An object carries every type its own type spells.
names(owned, object, isType, t) ==
  {Carry(name, object, isType) : name \in typeNamesIn(owned, t) \ {object}}

\* The exported fields of a struct, and of each struct with no name one holds, carry the
\* struct's owner and what they name.
RECURSIVE fields(_, _, _)
fields(owned, owner, struct) ==
  UNION {{Carry(owner, m.id, FALSE)} \union names(owned, m.id, FALSE, m.type)
           \union (IF m.type.op = "struct" THEN fields(owned, owner, m.type) ELSE {}) :
         m \in {m \in struct.members : m.exported}}

members(owned, owner, held) ==
  UNION {{Carry(owner, m.id, FALSE)} \union names(owned, m.id, FALSE, m.type) :
         m \in {m \in held : m.exported}}

typeName(owned, o) ==
  IF o.alias THEN names(owned, o.id, TRUE, o.type)
  ELSE names(owned, o.id, TRUE, o.type) \union members(owned, o.id, o.methods)
         \union CASE o.type.op = "struct" -> fields(owned, o.id, o.type)
                  [] o.type.op = "interface" -> members(owned, o.id, o.type.members)
                  [] OTHER -> {}

\* The carriers the inventory holds, of the types it holds.
readCarriers(n) ==
  {c \in UNION {LET owned == {o.id : o \in {o \in p : o.sort = "type"}} IN
                UNION {IF o.sort = "type" THEN typeName(owned, o)
                       ELSE IF o.exported THEN names(owned, o.id, FALSE, o.type) ELSE {} : o \in p} :
                p \in n.packages} : {c.type, c.by} \subseteq DOMAIN n.symbols}

\* Mutant of exposureOf: a type carrier passes on its references alone.
exposureOnce(carriers, spread) ==
  [s \in DOMAIN spread |-> Max({scopeFile} \union {spread[c.by] : c \in {c \in carriers : c.type = s}})]

\* The widest reach of a carrier, a type carrier's own exposure included, to a fixpoint.
exposureOf(carriers, spread) ==
  LET widest(exposed, c) == Max({spread[c.by], IF c.isType THEN exposed[c.by] ELSE scopeFile})
      widen(exposed) ==
        [s \in DOMAIN spread |-> Max({exposed[s]} \union {widest(exposed, c) : c \in {c \in carriers : c.type = s}})]
  IN FoldSet(LAMBDA round, exposed : widen(exposed), [s \in DOMAIN spread |-> scopeFile],
             1 .. Cardinality(DOMAIN spread))
-----------------------------------------------------------------------------
(* The two kinds *)

Visibility == <<"file", "package", "module">>
Finding(n, s, code, scope) ==
  [code |-> code, id |-> s, visibility |-> Visibility[scope + 1],
   tested |-> \A r \in ReferencesTo(n, s) : r.test]

unnecessaryExport(n, spread, exposed) ==
  {Finding(n, s, "unnecessary-export", spread[s]) : s \in
     {s \in DOMAIN n.symbols : narrowable(n, s) /\ spread[s] <= scopePackage /\ exposed[s] < scopeModule}}

unnecessaryExposure(n, spread, exposed) ==
  {Finding(n, s, "unnecessary-exposure", scopeModule) : s \in
     {s \in DOMAIN n.symbols : /\ narrowable(n, s) /\ n.symbols[s].importable
                               /\ spread[s] = scopeModule /\ exposed[s] < scopeOutside}}

narrowing(n, spread, exposed) ==
  unnecessaryExport(n, spread, exposed) \union unnecessaryExposure(n, spread, exposed)

Narrowed(n) ==
  LET Of(spread) == narrowing(n, spread, exposureOf(readCarriers(n), spread)) IN Of(reach(n))
=============================================================================
