------------------------------- MODULE Remarks -------------------------------
(***************************************************************************)
(* What the text of a file says of the declarations in it: the directive   *)
(* comments placed on the declarations beside them (suppress/inline.go),   *)
(* and the string literals that spell a declaration's name                 *)
(* (findings/nameliteral.go).                                              *)
(***************************************************************************)
EXTENDS FiniteSetsExt, SequencesExt, TLC

CONSTANT None  \* no parent, no type, no literal, no fault

(***************************************************************************)
(* A run d has the content of each file, and its configurations: the files *)
(* each compiles, in order, and the declarations it lists.  A line is a    *)
(* file and a number, as written; a comment is rendered where a line       *)
(* directive moves it.                                                     *)
(***************************************************************************)
InOrder(S, Before(_, _)) == SortSeq(FoldSet(LAMBDA x, list : Append(list, x), <<>>, S), Before)

\* One position comes before another: the first field that differs decides.
ByPosition(p, q) == \E i \in DOMAIN p : p[i] < q[i] /\ \A j \in 1 .. i - 1 : p[j] = q[j]
-----------------------------------------------------------------------------
(* Directives *)
declarationLines(c, at) == SelectSeq(c.symbols, LAMBDA s : s.kind \notin {"file", "package"} /\ <<s.file, s.line>> = at)

\* Each function whose wrapped signature has a part that begins on a line, and is not there yet.
signatureLines(d, c, at) ==
  SelectSeq(c.symbols, LAMBDA s :
    \E n \in DOMAIN c.files : \E fn \in d.content[c.files[n]].functions :
      fn.id = s.id /\ at[1] = c.files[n] /\ at[2] \in fn.fieldLines /\ at # <<s.file, s.line>>)

below(d, c, at) == declarationLines(c, at) \o signatureLines(d, c, at)

\* The earliest position at which a node begins or ends on a line, comments left out.
firstTokens(f, line) == {n.from : n \in {n \in f.nodes : n.line = line}} \union {n.last : n \in {n \in f.nodes : n.lastLine = line}}

\* Mutant of target: the code a line begins with, and not what ends on it.
targetOfBegun(file, f, comment) ==
  IF \E n \in f.nodes : n.line = comment.line /\ n.from < comment.offset
  THEN <<file, comment.line>> ELSE <<file, comment.line + 1>>

\* A directive after code is about its own line, and one alone about the next.
target(file, f, comment) ==
  IF \E leading \in firstTokens(f, comment.line) : leading < comment.offset
  THEN <<file, comment.line>> ELSE <<file, comment.line + 1>>

\* Every directive of the configuration, a comment outside the namespace left out.
readComments(d, c) ==
  {[verdict |-> comment.verdict, codes |-> comment.codes, at |-> comment.at, written |-> <<file, comment.offset>>,
    renders |-> comment.renders, target |-> target(file, d.content[file], comment)] :
     <<file, comment>> \in UNION {{c.files[n]} \X {k \in d.content[c.files[n]].comments : k.verdict # "none"} : n \in DOMAIN c.files}}

\* What some configuration holds on the line, each declaration once, in the order of the configurations.
place(d, one) ==
  LET Held(c) == IF one \in readComments(d, c) THEN below(d, c, one.target) ELSE <<>>
      Add(bound, c) == FoldLeft(LAMBDA all, s : IF \E i \in DOMAIN all : all[i].id = s.id THEN all ELSE Append(all, s), bound, Held(c))
  IN FoldLeft(Add, <<>>, d.configurations)

\* Mutant of records: one for each code, on the first declaration.
recordsOfFirst(d, one) ==
  LET bound == place(d, one) IN
  [i \in DOMAIN one.codes |-> [code |-> one.codes[i], site |-> one.written, bound |-> IF bound = <<>> THEN None ELSE bound[1].id]]

\* One record for each code and declaration, and one for each code bound to none.
records(d, one) ==
  LET bound == place(d, one)
      On(code) == IF bound = <<>> THEN <<[code |-> code, site |-> one.written, bound |-> None]>>
                  ELSE [i \in DOMAIN bound |-> [code |-> code, site |-> one.written, bound |-> bound[i].id]]
  IN FlattenSeq([i \in DOMAIN one.codes |-> On(one.codes[i])])

refusals(one) == [i \in DOMAIN one.codes |-> [code |-> one.codes[i], site |-> one.written]]

\* Mutant of before: in the order they are written.
beforeAsWritten(a, b) == ByPosition(a.written, b.written)

\* In reading order: where they render, then where they are written.
before(a, b) == ByPosition(a.at \o a.written, b.at \o b.written)

\* A comment that renders nowhere, or else the first malformed one, ends the read.
Inline(d) ==
  LET read == UNION {readComments(d, d.configurations[i]) : i \in DOMAIN d.configurations}
      directives == InOrder(read, before)
      Of(verdict) == SelectSeq(directives, LAMBDA one : one.verdict = verdict)
      Answer(fault, kept, refused) == [fault |-> fault, records |-> kept, refusals |-> refused]
  IN CASE \E one \in read : ~one.renders -> Answer(<<>>, <<>>, <<>>)
       [] (\A one \in read : one.renders) /\ Of("malformed") # <<>> -> Answer(Of("malformed")[1].written, <<>>, <<>>)
       [] OTHER -> Answer(None, FlattenSeq([i \in DOMAIN Of("well") |-> records(d, Of("well")[i])]),
                                FlattenSeq([i \in DOMAIN Of("reasonless") |-> refusals(Of("reasonless")[i])]))
-----------------------------------------------------------------------------
(***************************************************************************)
(* Name literals.  A declaration of a file has the specifications of its   *)
(* group, or itself; a node is a literal, an import, a field with its type *)
(* and its tag, or has nodes inside.                                       *)
(***************************************************************************)
RECURSIVE keepLiteralsOf(_)
keepLiteralsOf(node) ==
  CASE node.op = "literal" -> {[value |-> node.value, at |-> node.at]}
    [] node.op = "import" -> {}
    [] node.op = "field" -> UNION {keepLiteralsOf(node.type[i]) : i \in DOMAIN node.type}
    [] OTHER -> UNION {keepLiteralsOf(node.inner[i]) : i \in DOMAIN node.inner}

\* The package-level declarations a node declares that the inventory holds.
declaredBy(c, spec) == ToSet(spec.names) \intersect {s.id : s \in ToSet(c.symbols)}

\* Mutant of declarationNodes: a group is one declaration.
wholeDeclaration(c, decl) ==
  {[node |-> s, within |-> UNION {declaredBy(c, t) : t \in ToSet(decl.specs)}] : s \in ToSet(decl.specs)}

\* A literal of a group is written within the specification that holds it.
declarationNodes(c, decl) == {[node |-> s, within |-> declaredBy(c, s)] : s \in ToSet(decl.specs)}

\* Every literal of the target's production files, once for each byte it is written at.
readLiterals(d) ==
  LET Files(c) == {f \in ToSet(c.files) : d.content[f].target /\ ~d.content[f].test}
      In(c) == UNION {UNION {declarationNodes(c, decl) : decl \in ToSet(d.content[f].decls)} : f \in Files(c)}
  IN UNION {UNION {{l @@ [within |-> n.within] : l \in keepLiteralsOf(n.node)} : n \in In(d.configurations[i])} : i \in DOMAIN d.configurations}

\* The defined type of the target a constant has, under the last configuration that says.
keepConstTypes(d, id) ==
  LET said == {i \in DOMAIN d.configurations : id \in DOMAIN d.configurations[i].constTypes}
  IN IF said = {} THEN None ELSE d.configurations[Max(said)].constTypes[id]

SymbolOf(d, id) == {s \in UNION {ToSet(d.configurations[i].symbols) : i \in DOMAIN d.configurations} : s.id = id}

\* Of the declarations with one parent, those a package declares.
packageLevel(d, s) == \E p \in UNION {SymbolOf(d, parent) : parent \in s.parents} : Cardinality(s.parents) = 1 /\ p.kind \in {"package", "file"}

\* The first literal that spells a declaration's name outside its own declaration node.
spelling(literals, s) ==
  LET spelled == {l.at : l \in {l \in literals : l.value = s.name /\ s.id \notin l.within}}
  IN IF spelled = {} THEN None ELSE InOrder(spelled, ByPosition)[1]

\* Mutant of nameLiteral: a constant's own name and not its type's.
nameLiteralOwn(d, literals, f) ==
  IF ~f.lowered \/ ~\E s \in SymbolOf(d, f.id) : packageLevel(d, s) THEN None
  ELSE spelling(literals, CHOOSE s \in SymbolOf(d, f.id) : TRUE)

\* The literal that lowers a finding: of its name, or of the type its constant has.
nameLiteral(d, literals, f) ==
  IF ~f.lowered \/ ~\E s \in SymbolOf(d, f.id) : packageLevel(d, s) THEN None
  ELSE LET s == CHOOSE s \in SymbolOf(d, f.id) : TRUE
           typed == {t \in SymbolOf(d, keepConstTypes(d, s.id)) : s.kind = "const" /\ packageLevel(d, t)}
           own == spelling(literals, s)
       IN IF own # None \/ typed = {} THEN own ELSE spelling(literals, CHOOSE t \in typed : TRUE)

capNameLiterals(d) ==
  LET literals == readLiterals(d) IN [i \in DOMAIN d.findings |-> nameLiteral(d, literals, d.findings[i])]
=============================================================================
