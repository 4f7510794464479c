----------------------------- MODULE Inventoried -----------------------------
(***************************************************************************)
(* The declarations of one loaded configuration (internal/inventory): the  *)
(* packages that share a path and a directory, the declarations of their   *)
(* files, each once whatever the number of variants that check the file,   *)
(* what each is declared in, and what deleting a constant disturbs.        *)
(***************************************************************************)
EXTENDS FiniteSetsExt, SequencesExt

CONSTANT None  \* no declaration, no name

(***************************************************************************)
(* A load v has packages, each with an id, a path, a directory and the     *)
(* files it compiles, and the content of each file.  A file is a number,   *)
(* in the order of names; a site is a file and an offset in it.  A type    *)
(* expression is [op, of, name, at, fields].                               *)
(***************************************************************************)
\* The identifier an embedded field is named by.
RECURSIVE EmbeddedName(_)
EmbeddedName(expr) ==
  CASE expr.op \in {"ident", "sel"} -> <<[at |-> expr.at, name |-> expr.name]>>
    [] expr.op \in {"star", "index"} -> EmbeddedName(expr.of)
    [] OTHER -> <<>>

\* The anonymous struct a field carries, behind pointers, elements and the values of maps.
RECURSIVE AnonymousStruct(_)
AnonymousStruct(expr) ==
  CASE expr.op = "struct" -> expr.fields
    [] expr.op \in {"star", "array", "chan", "map"} -> AnonymousStruct(expr.of)
    [] OTHER -> <<>>

\* The base type of a method's receiver, behind one pointer and its type arguments.
receiverBase(recv) ==
  LET behind == IF recv.op = "star" THEN recv.of ELSE recv
      base == IF behind.op = "index" THEN behind.of ELSE behind
  IN IF base.op = "ident" THEN base.name ELSE None
-----------------------------------------------------------------------------
(* Packages, grouped. *)
Files(p) == SetToSortSeq(p.files, LAMBDA a, b : a < b)
checked(p) == p.path # None /\ p.typed /\ p.files # {}
keyOf(p) == <<p.path, p.dir, "/">>
Groups(v) == {keyOf(p) : p \in {p \in v.packages : checked(p)}}

\* The variants of a package, in the order of their identifiers.
Variants(v, key) == SetToSortSeq({p \in v.packages : checked(p) /\ keyOf(p) = key}, LAMBDA a, b : a.id < b.id)

\* The position of a package does not depend on which variant reaches it.
Anchor(v, key) == Min(UNION {p.files : p \in ToSet(Variants(v, key))})

\* Each file once, with the first variant that compiles it.
Sources(v) ==
  UNION {LET variants == Variants(v, key) IN
         {[file |-> file, package |-> variants[Min({i \in DOMAIN variants : file \in variants[i].files})].id] :
            file \in UNION {p.files : p \in ToSet(variants)}} : key \in Groups(v)}
-----------------------------------------------------------------------------
(***************************************************************************)
(* The walk lists what is declared in the order it is written, a file      *)
(* again for every variant.  chain is the names from the package inward.   *)
(***************************************************************************)
Found(at, kind, chain, parent) == <<[at |-> at, kind |-> kind, chain |-> chain, parent |-> parent, owner |-> None]>>
Each(seq, Of(_)) == FlattenSeq([i \in DOMAIN seq |-> Of(seq[i])])

\* A field steps into the anonymous struct it carries, under each of its names.
RECURSIVE walkStruct(_, _, _)
walkStruct(fields, chain, parent) ==
  Each(fields, LAMBDA f :
    Each(IF f.names = <<>> THEN EmbeddedName(f.type) ELSE f.names, LAMBDA n :
      Found(n.at, "field", Append(chain, n.name), parent)
        \o (IF f.names = <<>> THEN <<>> ELSE walkStruct(AnonymousStruct(f.type), Append(chain, n.name), n.at))))

walkInterface(methods, chain, parent) ==
  Each(methods, LAMBDA m : Each(m.names, LAMBDA n : Found(n.at, "interfaceMethod", Append(chain, n.name), parent)))

walkTypeSpec(p, s, id) ==
  Found(s.at, IF s.name \in p.interfaces THEN "interface" ELSE "type", <<s.name>>, id)
    \o walkStruct(s.fields, <<s.name>>, s.at) \o walkInterface(s.methods, <<s.name>>, s.at)

walkTypeParams(params, chain, parent) ==
  Each(params, LAMBDA g : Each(g.names, LAMBDA n : Found(n.at, "typeParam", Append(chain, n.name), parent)))

\* A method is declared in its receiver's type, which is found once every type is known.
walkFunc(d, id) ==
  IF d.recv = None THEN Found(d.at, "func", <<d.name>>, id) \o walkTypeParams(d.params, <<d.name>>, d.at)
  ELSE LET base == receiverBase(d.recv) IN
       IF base = None THEN <<>>
       ELSE <<[at |-> d.at, kind |-> "method", chain |-> <<base, d.name>>, parent |-> None, owner |-> base]>>
              \o walkTypeParams(d.params, <<base, d.name>>, d.at)

walkValueSpecs(specs, kind, id) == Each(specs, LAMBDA s : Each(s.names, LAMBDA n : Found(n.at, kind, <<n.name>>, id)))

walkGenDecl(p, d, id) ==
  CASE d.tok = "type" -> Each(d.specs, LAMBDA s : walkTypeSpec(p, s, id))
    [] d.tok = "const" -> walkValueSpecs(d.specs, "const", id)
    [] d.tok = "var" -> walkValueSpecs(d.specs, "var", id)
    [] d.tok = "import" -> <<>>

walkFile(v, p, file, id) ==
  Found(<<file, 0>>, "file", <<v.content[file].base>>, id)
    \o Each(v.content[file].decls, LAMBDA d : IF d.form = "func" THEN walkFunc(d, id) ELSE walkGenDecl(p, d, id))

PackageAt(v, key) == <<Anchor(v, key), 1>>
walkPackage(v, key) ==
  LET at == PackageAt(v, key)
      Keyed(found) == [i \in DOMAIN found |-> found[i] @@ [key |-> key, package |-> Variants(v, key)[1].id]]
  IN Keyed(Found(at, "package", <<>>, None)
             \o Each(Variants(v, key), LAMBDA p : Each(Files(p), LAMBDA file : walkFile(v, p, file, at))))
-----------------------------------------------------------------------------
(* A site is one declaration, the first variant's. *)
appended(found) == {found[i] : i \in {i \in DOMAIN found : \A j \in 1 .. i - 1 : found[j].at # found[i].at}}

\* Mutant of symbolID: a package is identified by the site of its anchor.
symbolBySite(d) == d.at

\* A package is written by every file it holds, so its path and directory identify it.
symbolID(d) == IF d.kind = "package" THEN d.key ELSE d.at

\* Mutant of resolveReceivers: among the types declared before the method.
resolveNear(all, d) ==
  IF d.owner = None THEN d.parent
  ELSE LET types == {t \in all : t.kind \in {"type", "interface"} /\ t.key = d.key /\ t.chain = <<d.owner>> /\ t.at[1] <= d.at[1]}
       IN IF types = {} THEN None ELSE (CHOOSE t \in types : TRUE).at

\* The type of the receiver's name in the method's package and directory, in any file.
resolveReceivers(all, d) ==
  IF d.owner = None THEN d.parent
  ELSE LET types == {t \in all : t.kind \in {"type", "interface"} /\ t.key = d.key /\ t.chain = <<d.owner>>}
       IN IF types = {} THEN None ELSE (CHOOSE t \in types : TRUE).at

blank(d) == d.kind \notin {"package", "file"} /\ Last(d.chain) = "_"

\* No name identifies a blank declaration, which takes the reference of what declares it.
RECURSIVE refOf(_, _)
refOf(all, d) ==
  IF blank(d)
  THEN LET holders == {h \in all : h.at = d.parent} IN IF holders = {} THEN <<>> ELSE refOf(all, CHOOSE h \in holders : TRUE)
  ELSE Append(d.chain, [path |-> d.key[1], kind |-> IF d.kind \in {"file", "typeParam", "package"} THEN d.kind ELSE "name"])
-----------------------------------------------------------------------------
(* The constants a deletion disturbs. *)
usesIota(specs, i) ==
  LET lists == {j \in 1 .. i : specs[j].writes} IN lists # {} /\ specs[Max(lists)].mentionsIota

namedIn(s) == {n.at : n \in {n \in ToSet(s.names) : n.name # "_"}}

\* Mutant of constantDependents: what repeats the list, and not what counts the specifications.
dependentsRepeating(specs) ==
  UNION {LET repeated == {j \in i + 1 .. Len(specs) : \A k \in i + 1 .. j : specs[i].writes /\ ~specs[k].writes} IN
         {<<id, other>> \in namedIn(specs[i]) \X UNION {namedIn(specs[j]) : j \in repeated} : id # other} : i \in DOMAIN specs}

\* Of a specification: what repeats the list it writes, what counts it with iota, and itself
\* where it repeats a list for several names.
constantDependents(specs) ==
  UNION {LET later == {j \in i + 1 .. Len(specs) :
                         (specs[i].writes /\ \A k \in i + 1 .. j : ~specs[k].writes) \/ usesIota(specs, j)}
             itself == IF ~specs[i].writes /\ Len(specs[i].names) > 1 THEN {i} ELSE {}
         IN {<<id, other>> \in namedIn(specs[i]) \X UNION {namedIn(specs[j]) : j \in later \union itself} : id # other} :
         i \in DOMAIN specs}

groupsOf(v) ==
  UNION {{d.specs : d \in {d \in ToSet(v.content[file].decls) : d.form = "gen" /\ d.tok = "const" /\ d.paren}} :
         file \in {s.file : s \in Sources(v)}}

Symbols(v, all) ==
  LET dependents == UNION {constantDependents(specs) : specs \in groupsOf(v)}
  IN {[id |-> symbolID(d), at |-> d.at, kind |-> d.kind, ref |-> refOf(all, d), parent |-> resolveReceivers(all, d),
       package |-> d.package, blank |-> blank(d), inTest |-> v.content[d.at[1]].test,
       dependents |-> {pair[2] : pair \in {pair \in dependents : pair[1] = d.at}}] : d \in all}

\* Every declaration of the load.
Of(v) == LET all == UNION {appended(walkPackage(v, key)) : key \in Groups(v)} IN Symbols(v, all)
=============================================================================
