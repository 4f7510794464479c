------------------------------ MODULE Exempted ------------------------------
(***************************************************************************)
(* What is held live though no reference names it (internal/exempt): the   *)
(* records of the classes, the one of them that holds the constants of an  *)
(* enumerated type, and the carrier sweep that tells what hand-written     *)
(* code reaches of a program with generated files                          *)
(* (liveness/carrier.go).                                                  *)
(***************************************************************************)
EXTENDS FiniteSetsExt, SequencesExt, TLC

CONSTANT None  \* no declaration, no type, no reference

\* A position is a tuple of numbers; the first field that differs decides.
Precedes(p, q) == \E i \in DOMAIN p : p[i] < q[i] /\ \A j \in 1 .. i - 1 : p[j] = q[j]
-----------------------------------------------------------------------------
(***************************************************************************)
(* Enumerated types.  A program x has types, each with the methods it      *)
(* declares and the types it is made of; the blocks of constants; and the  *)
(* calls, each with the type it converts to and what it decodes into.      *)
(***************************************************************************)
Constants(x) == UNION {x.blocks[i].names : i \in DOMAIN x.blocks}

\* The defined types of the target that an iota group has a constant of.
Enumerated(x) ==
  {n.type : n \in {n \in UNION {b.names : b \in {b \in ToSet(x.blocks) : b.iota}} : ~n.blank /\ n.type # None /\ x.types[n.type].inside}}

\* Mutant of membersOf: the constants of the iota groups alone.
membersOfGroups(x, t) ==
  {n.id : n \in {n \in UNION {b.names : b \in {b \in ToSet(x.blocks) : b.iota}} : ~n.blank /\ n.type = t}} \ {None}

\* Its constants, whichever block declares them.
membersOf(x, t) == {n.id : n \in {n \in Constants(x) : ~n.blank /\ n.type = t}} \ {None}

ConversionMethods == {"String", "MarshalText", "UnmarshalText", "MarshalJSON", "UnmarshalJSON"}

method(x, t) == {[rank |-> 0, at |-> m.at, test |-> m.test] : m \in {m \in x.types[t].methods : m.name \in ConversionMethods}}

\* A constant of the type itself is named in the source, any other integer is not.
integerConversion(x, t) ==
  {[rank |-> 1, at |-> c.at, test |-> c.test] : c \in {c \in x.calls : c.converts = t /\ c.integer /\ ~c.memberOfIt}}

\* What a value carries, through pointers, elements, keys, values and fields.
reach(x, types) == FoldSet(LAMBDA step, seen : seen \union UNION {x.types[t].parts : t \in seen}, types, DOMAIN x.types)

decoded(x, t) ==
  {[rank |-> 2, at |-> c.at, test |-> c.test] : c \in {c \in x.calls : c.decodes /\ t \in reach(x, c.args)}}

evidence(x, t) == method(x, t) \union integerConversion(x, t) \union decoded(x, t)

holdsInMode(x, e) == x.production => ~e.test

\* Mutant of outranks: a rule before what the mode counts.
outranksByRule(x, e, f) ==
  Precedes(<<e.rank, IF holdsInMode(x, e) THEN 0 ELSE 1>> \o e.at, <<f.rank, IF holdsInMode(x, f) THEN 0 ELSE 1>> \o f.at)

\* What holds in the mode first, then the lower rule, then what renders first.
outranks(x, e, f) ==
  Precedes(<<IF holdsInMode(x, e) THEN 0 ELSE 1, e.rank>> \o e.at, <<IF holdsInMode(x, f) THEN 0 ELSE 1, f.rank>> \o f.at)

best(x, t) == CHOOSE e \in evidence(x, t) : \A f \in evidence(x, t) \ {e} : ~outranks(x, f, e)

EnumGroupDetector(x) ==
  UNION {{[of |-> id, class |-> "enum", detail |-> best(x, t).rank, holders |-> {}, possible |-> FALSE,
           test |-> best(x, t).test, site |-> best(x, t).at] : id \in membersOf(x, t)} :
         t \in {t \in Enumerated(x) : evidence(x, t) # {}}}
-----------------------------------------------------------------------------
(* Every class over one program. *)
Detected(x) ==
  {r \in (IF "enum" \in x.carried THEN EnumGroupDetector(x) ELSE {}) \union x.records : r.class \notin x.disabled}

FactOf(r) == <<r.of, r.class, r.detail, r.holders>>

\* One record of each fact, the first that renders; two at one place are the same record.
firstPerFact(found) == {r \in found : \A s \in found : FactOf(s) = FactOf(r) => ~Precedes(s.site, r.site)}

\* Mutant of filledOf: whatever else is held.
filledBeside(x, found) == {r \in found : r.possible /\ (holdsInMode(x, r) \/ r.of \in x.testDeclared)}

\* What may be filled from outside and is not held: in a file the mode counts, or a test's own.
filledOf(x, found) ==
  LET held == {r.of : r \in {r \in found : ~r.possible /\ holdsInMode(x, r)}}
  IN {r \in found : r.possible /\ (holdsInMode(x, r) \/ r.of \in x.testDeclared) /\ r.of \notin held}

Compute(x) ==
  LET found == Detected(x)
  IN [held |-> firstPerFact({r \in found : ~r.possible /\ holdsInMode(x, r)}),
      evidence |-> firstPerFact({r \in found : ~r.possible /\ ~holdsInMode(x, r)}),
      filled |-> firstPerFact(filledOf(x, found))]
-----------------------------------------------------------------------------
(***************************************************************************)
(* The carrier sweep.  Its input c has the declarations, in generated      *)
(* files or not, what refers to what, the roots, what a consumer's         *)
(* production code refers to, the exemptions, and of the generated code    *)
(* the methods answering each served method, the registrations, the        *)
(* members of a oneof and the reads a serializer makes.                    *)
(***************************************************************************)
Generated(c, s) == c.symbols[s].generated
Served(c) == DOMAIN c.implementers
servers(c) == UNION {c.symbols[m].parents : m \in Served(c)}

\* The satisfaction of a generated server or handler interface.
Answers(c, e) == e.satisfies /\ e.via # None /\ c.symbols[e.via].parents \intersect servers(c) # {}

\* Mutant of kept: wherever its evidence is written.
keptGenerated(c) == {e \in c.exempt : ~Answers(c, e)}

kept(c) == {e \in c.exempt : ~e.generated /\ ~Answers(c, e)}

\* The references, and the uses of the exemptions kept, each waiting on all its holders.
using(c) ==
  c.refs \union
  UNION {{[from |-> h, to |-> e.of, test |-> c.symbols[h].inTest, kind |-> None, layout |-> FALSE, gate |-> e.holders] : h \in e.holders} : e \in kept(c)}

\* Mutant of cut: a oneof's wrapper is any declaration.
cutPlain(c, e) ==
  \/ e.test
  \/ e.to \in Served(c) /\ Generated(c, e.from)
  \/ c.oneof[e.to] # None /\ Generated(c, e.from)
  \/ e.kind = "write"
  \/ e.kind # None /\ Generated(c, e.from) /\ e.layout
  \/ e.to \in servers(c) /\ (e.kind = "conversion" \/ (e.kind # None /\ c.symbols[e.from].blank))

\* The edges left unfollowed: a test's, a write, what generated code lays out, serves or
\* gives of a oneof, a wrapper named and not asserted, and a server interface converted to.
cut(c, e) ==
  \/ e.test
  \/ e.to \in Served(c) /\ Generated(c, e.from)
  \/ c.oneof[e.to] # None /\ (Generated(c, e.from) \/ (c.oneof[e.to] = "wrapper" /\ e.kind \notin {None, "assert"}))
  \/ e.kind = "write"
  \/ e.kind # None /\ Generated(c, e.from) /\ e.layout
  \/ e.to \in servers(c) /\ (e.kind = "conversion" \/ (e.kind # None /\ c.symbols[e.from].blank))

Adding(from, to) == [from |-> from, to |-> to, test |-> FALSE, kind |-> None, layout |-> FALSE, gate |-> {}]

follow(c) == {e \in using(c) : e.from \notin c.registrations /\ ~cut(c, e)}
dispatch(c) == UNION {{Adding(m, answering) : answering \in c.implementers[m]} : m \in Served(c)}
serialize(c) == {Adding(r.from, r.to) : r \in {r \in c.reads : r.from # None /\ ~c.symbols[r.from].inTest}}

\* A declaration marked twice is queued once.
queued(reached, s) == IF Contains(reached, s) THEN reached ELSE Append(reached, s)
Ascending(S) == SortSeq(FoldSet(LAMBDA x, list : Append(list, x), <<>>, S), LAMBDA a, b : a < b)

\* The roots, then what is held or consumed, then what a consumer's serializer reads.
seeds(c) ==
  LET yielded == {e.of : e \in {e \in kept(c) : e.holders # {}}}
      rooted == {r.at : r \in {r \in c.roots : r.kind # "test" /\ (r.kind = "blank" => r.at \notin yielded) /\ ~Generated(c, r.at)}}
      held == {e.of : e \in {e \in kept(c) : e.holders = {}}} \union c.consumed
      read == {r.to : r \in {r \in c.reads : r.from = None}}
  IN FoldLeft(queued, <<>>, Ascending(rooted) \o Ascending(held) \o Ascending(read))

\* In the order reached, an edge followed where all its holders are by the time its own is.
RECURSIVE closure(_, _, _)
closure(edges, reached, head) ==
  IF head > Len(reached) THEN ToSet(reached)
  ELSE LET From == {e \in edges : e.from = reached[head]}
           Follow(seen, to) ==
             IF \E e \in From : e.to = to /\ (Cardinality(e.gate) > 1 => e.gate \subseteq ToSet(seen)) THEN queued(seen, to) ELSE seen
       IN closure(edges, FoldLeft(Follow, reached, Ascending({e.to : e \in From})), head + 1)

\* What hand-written code reaches, and what one declaration alone does.
Carry(c) ==
  LET edges == follow(c) \union dispatch(c) \union serialize(c)
  IN [hand |-> closure(edges, seeds(c), 1), search |-> [s \in DOMAIN c.symbols |-> closure(edges, <<s>>, 1)]]
=============================================================================
