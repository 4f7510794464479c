------------------------------- MODULE Merge -------------------------------
(***************************************************************************)
(* The merge of a matrix: what the passes returned for each configuration, *)
(* in matrix order, becomes one inventory, its alike references are paired *)
(* across the configurations and indexed, and the configured strings no    *)
(* configuration matched are answered: internal/liveness/merge.go, the     *)
(* indexing of graph.go, and what merge.go calls in facts and exempt.      *)
(***************************************************************************)
EXTENDS SequencesExt

CONSTANTS
  Id,                \* the identifiers of declarations, natural numbers
  Nowhere,           \* the empty identifier
  Reference,         \* the references a configuration makes
  Source,            \* the configured strings
  Read,              \* those this language's analysis reads
  Support,           \* the declarations of test-support packages
  MaxConfigurations, \* the most configurations a set of them holds
  Inputs             \* what the passes return, and the configured strings

(***************************************************************************)
(* A declaration: its place in the order of positions, its containers,     *)
(* whether it is of a test file, and its kind.  What one configuration     *)
(* holds of an interface's method: whether the interface is sealed, and    *)
(* each implementation, with its declaration and whether its body is empty *)
(***************************************************************************)
Declaration ==
  [id: Id, at: Nat, parents: SUBSET Id, inTestFile: BOOLEAN,
   kind: {"package", "file", "other"}]

Method ==
  [method: Id, sealed: BOOLEAN, implementations: SUBSET [by: Id \union {Nowhere}, empty: BOOLEAN]]

Configured ==
  [symbols: Seq(Declaration), references: Seq(Reference), roots: SUBSET Id,
   named: SUBSET Source, interfaces: SUBSET Method]

ASSUME IdAssumption == Id \subseteq Nat /\ Nowhere \notin Id
ASSUME ReferenceAssumption ==
  Reference \subseteq
    [from: Id \union {Nowhere}, to: Id, site: Nat, kind: {"call", "read", "write", "type"},
     build: {"target", "consumer", "testBuild"}, test: BOOLEAN, carrier: Nat]
ASSUME MaximumAssumption == MaxConfigurations \in Nat
ASSUME InputsAssumption == Inputs \subseteq [per: Seq(Configured), patterns: Seq(Source)]

VARIABLES
  in,         \* the input, never changed
  merged,     \* the inventory
  config,     \* the configurations merged
  read,       \* the references paired
  kept,       \* the distinct references, in the order they were first kept
  graph,      \* the index of the merged matrix
  everywhere, \* the configured strings no configuration matched
  stage

vars == <<in, merged, config, read, kept, graph, everywhere, stage>>

\* References at one site, alike in kind, rule, build and file class, whoever carries
\* them.
Alike(a, b) ==
  /\ a.from = b.from /\ a.to = b.to /\ a.site = b.site
  /\ a.kind = b.kind /\ a.build = b.build /\ a.test = b.test

\* The distinct elements of a sequence, in the order they first come.
Distinct(q) == FoldLeft(LAMBDA held, x : IF Contains(held, x) THEN held ELSE Append(held, x), <<>>, q)

-----------------------------------------------------------------------------

\* The configured strings that named no symbol of a configuration: each one this
\* analysis reads, once, in the order they are configured.
Unmatched(patterns, named) ==
  SelectSeq(Distinct(patterns), LAMBDA p : p \in Read /\ p \notin named)

\* Mutant of MergeSymbol: a package stays at its first configuration's anchor.
MergeUnanchored(held, s, c) ==
  LET i == SelectInSeq(held, LAMBDA h : h.id = s.id)
      h == held[i]
  IN  IF i = 0
        THEN Append(held, [configs |-> {c}, support |-> s.id \in Support] @@ s)
        ELSE [held EXCEPT ![i] =
               [h EXCEPT !.configs = h.configs \union {c}, !.parents = h.parents \union s.parents]]

\* A declaration of one more configuration: the first that holds it gives its fields,
\* every one its bit and its containers, and a package is placed at its first anchor.
MergeSymbol(held, s, c) ==
  LET i == SelectInSeq(held, LAMBDA h : h.id = s.id)
      h == held[i]
  IN  IF i = 0
        THEN Append(held, [configs |-> {c}, support |-> s.id \in Support] @@ s)
        ELSE [held EXCEPT ![i] =
               [h EXCEPT !.configs = h.configs \union {c}, !.parents = h.parents \union s.parents,
                         !.at = IF h.kind = "package" /\ s.at < h.at THEN s.at ELSE h.at]]

MergeSymbols(held, symbols, c) ==
  FoldLeft(LAMBDA h, s : MergeSymbol(h, s, c), held, symbols)

\* The references of a configuration, each of it alone.
Tagged(references, c) ==
  [i \in DOMAIN references |-> [ref |-> references[i], configs |-> {c}]]

BySite(a, b) == a.at < b.at \/ (a.at = b.at /\ a.id < b.id)

Sorted(symbols) == SortSeq(symbols, BySite)

\* What one more configuration's row says of a method: sealed where any is, and the
\* implementations counted, the empty ones apart.
AddMethod(m, row) ==
  LET bodies == row.implementations
  IN  [sealed |-> m.sealed \/ row.sealed,
       implementations |-> m.implementations + Cardinality(bodies),
       empty |-> m.empty + Cardinality({b \in bodies : b.empty}),
       implementors |-> m.implementors \union ({b.by : b \in bodies} \ {Nowhere})]

InterfaceMethods(per) ==
  LET rows(id, c) == {row \in per[c].interfaces : row.method = id}
      none == [sealed |-> FALSE, implementations |-> 0, empty |-> 0, implementors |-> {}]
      declared == {row.method : row \in UNION {per[c].interfaces : c \in DOMAIN per}}
  IN  [id \in declared |->
        FoldLeftDomain(LAMBDA m, c : FoldSet(LAMBDA row, n : AddMethod(n, row), m, rows(id, c)), none, per)]

Fixed(m) == m.sealed \/ (m.implementations > 0 /\ m.empty = m.implementations)

\* The uses of the implementations of a production interface method nothing calls.
Uncalled(methods, references, symbols) ==
  LET production == {s.id : s \in {s \in ToSet(symbols) : ~s.inTestFile}}
      called == {r.ref.to : r \in {r \in ToSet(references) : r.ref.kind \in {"call", "read"}}}
      uncalled == {id \in (DOMAIN methods \intersect production) \ called :
                     methods[id].implementations > 0 /\ ~Fixed(methods[id])}
  IN  UNION {{[from |-> id, to |-> i] : i \in methods[id].implementors} : id \in uncalled}

\* The index of the symbols: the references made to each, by file class, a use counted
\* as a reference of production code; the first reference of each class a consumer makes
\* to it, 0 for none; the edges of each; and the symbols judged.
Index(m, refs) ==
  LET held == {s.id : s \in ToSet(m.symbols)}
      first(id, build, tests) ==
        SelectInSeq(refs, LAMBDA r : r.ref.to = id /\ r.ref.build = build /\ r.ref.test \in tests)
      made(id, P(_)) == Cardinality({i \in DOMAIN refs : refs[i].ref.to = id /\ P(refs[i].ref)})
  IN  [production |-> [id \in held |-> made(id, LAMBDA r : ~r.test)
                                         + Cardinality({u \in m.uses : u.to = id})],
       test |-> [id \in held |-> made(id, LAMBDA r : r.test)],
       consumerTest |-> [id \in held |-> made(id, LAMBDA r : r.build = "consumer" /\ r.test)],
       consumed |-> [id \in held |->
                       [production |-> first(id, "consumer", {FALSE}),
                        consumerTest |-> first(id, "consumer", {TRUE}),
                        testBuild |-> first(id, "testBuild", BOOLEAN)]],
       out |-> [id \in held |->
                  {[to |-> refs[i].ref.to, test |-> refs[i].ref.test] :
                     i \in {i \in DOMAIN refs : refs[i].ref.from = id /\ refs[i].ref.to \in held}}
                  \union {[to |-> u.to, test |-> FALSE] : u \in {u \in m.uses : u.from = id /\ u.to \in held}}],
       rooted |-> {r \in m.roots : r.at \in held},
       subject |-> {s.id : s \in {s \in ToSet(m.symbols) :
                                    s.kind = "other" /\ s.configs \intersect (1 .. m.configurations) # {}}}]

\* The strings as many rows name as the matrix has configurations.
UnmatchedEverywhere(m) ==
  SelectSeq(Distinct(m.unmatched),
    LAMBDA p : Cardinality({i \in DOMAIN m.unmatched : m.unmatched[i] = p}) = m.configurations)

-----------------------------------------------------------------------------
Nothing == [configurations |-> 0, symbols |-> <<>>, references |-> <<>>, roots |-> {},
            unmatched |-> <<>>, uses |-> {}]

Init ==
  /\ in \in Inputs
  /\ merged = [Nothing EXCEPT !.configurations = Len(in.per)]
  /\ config = 0 /\ read = 0
  /\ kept = <<>> /\ graph = <<>> /\ everywhere = <<>>
  /\ stage = "merge"

\* No configuration, or one past the bits of a set, is no matrix.
Refuse ==
  /\ stage = "merge" /\ config = 0
  /\ Len(in.per) = 0 \/ Len(in.per) > MaxConfigurations
  /\ stage' = "refused"
  /\ UNCHANGED <<in, merged, config, read, kept, graph, everywhere>>

MergeConfiguration ==
  /\ stage = "merge"
  /\ Len(in.per) <= MaxConfigurations /\ config < Len(in.per)
  /\ LET c == config + 1
         one == in.per[c]
     IN  merged' = [merged EXCEPT
           !.symbols = MergeSymbols(@, one.symbols, c),
           !.references = @ \o Tagged(one.references, c),
           !.roots = @ \union {[at |-> id, config |-> c] : id \in one.roots},
           !.unmatched = @ \o Unmatched(in.patterns, one.named)]
  /\ config' = config + 1
  /\ UNCHANGED <<in, read, kept, graph, everywhere, stage>>

\* Every configuration is merged: the rule over the uncalled methods, and the order.
Decide ==
  /\ stage = "merge"
  /\ config > 0 /\ config = Len(in.per)
  /\ merged' = [merged EXCEPT
       !.uses = Uncalled(InterfaceMethods(in.per), merged.references, merged.symbols),
       !.symbols = Sorted(@)]
  /\ stage' = "pair"
  /\ UNCHANGED <<in, config, read, kept, graph, everywhere>>

\* Mutant of Pairs: a reference pairs with one of its own configuration.
PairsAlike(k, r) == Alike(kept[k].ref, r.ref)

\* The first kept reference one pairs with: alike, and of no configuration of its own.
Pairs(k, r) == kept[k].configs \intersect r.configs = {} /\ Alike(kept[k].ref, r.ref)

First(k, r) == Pairs(k, r) /\ \A j \in 1 .. k - 1 : ~Pairs(j, r)

Pair ==
  /\ stage = "pair" /\ read < Len(merged.references)
  /\ LET r == merged.references[read + 1]
     IN  \E k \in DOMAIN kept :
           /\ First(k, r)
           /\ kept' = [kept EXCEPT ![k] = [ref |-> kept[k].ref, configs |-> kept[k].configs \union r.configs]]
  /\ read' = read + 1
  /\ UNCHANGED <<in, merged, config, graph, everywhere, stage>>

Keep ==
  /\ stage = "pair" /\ read < Len(merged.references)
  /\ LET r == merged.references[read + 1]
     IN  /\ \A k \in DOMAIN kept : ~Pairs(k, r)
         /\ kept' = Append(kept, r)
  /\ read' = read + 1
  /\ UNCHANGED <<in, merged, config, graph, everywhere, stage>>

\* The distinct references are indexed, and the strings nothing matched answered.
Answer ==
  /\ stage = "pair" /\ read = Len(merged.references)
  /\ graph' = Index(merged, kept)
  /\ everywhere' = UnmatchedEverywhere(merged)
  /\ stage' = "done"
  /\ UNCHANGED <<in, merged, config, read, kept>>

Done == stage \in {"done", "refused"} /\ UNCHANGED vars

Next == Refuse \/ MergeConfiguration \/ Decide \/ Pair \/ Keep \/ Answer \/ Done

Spec == Init /\ [][Next]_vars
-----------------------------------------------------------------------------
(***************************************************************************)
(* What the merge promises, of the input alone and in no order of it.      *)
(***************************************************************************)
Configurations == DOMAIN in.per

Declaring(id) == {c \in Configurations : \E s \in ToSet(in.per[c].symbols) : s.id = id}

DeclarationsOf(id) ==
  {s \in UNION {ToSet(in.per[c].symbols) : c \in Configurations} : s.id = id}

\* One record per declaration, of every configuration that holds it, of all their
\* containers, a package at the least of its anchors, in the order of the sites.
SymbolsWhole ==
  LET records == ToSet(merged.symbols)
  IN  /\ {s.id : s \in records} = {id \in Id : Declaring(id) # {}}
      /\ \A i, j \in DOMAIN merged.symbols : i < j => BySite(merged.symbols[i], merged.symbols[j])
      /\ \A s \in records :
           /\ s.configs = Declaring(s.id)
           /\ s.parents = UNION {d.parents : d \in DeclarationsOf(s.id)}
           /\ s.kind = "package" => \A d \in DeclarationsOf(s.id) : s.at <= d.at

\* An implementation falls with a method no configuration calls, that no configuration
\* seals, and whose body is not empty in some configuration for some implementation.
FallsWith(u) ==
  LET rows == {row \in UNION {in.per[c].interfaces : c \in Configurations} : row.method = u.from}
      bodies == UNION {row.implementations : row \in rows}
  IN  /\ \E d \in DeclarationsOf(u.from) : ~d.inTestFile
      /\ \A c \in Configurations : \A r \in ToSet(in.per[c].references) :
           r.to = u.from => r.kind \notin {"call", "read"}
      /\ \A row \in rows : ~row.sealed
      /\ \E b \in bodies : ~b.empty
      /\ u.to \in {b.by : b \in bodies}

\* A declaration counts, of each class of alike references to it, as many as the
\* configuration that makes the most.
Most(r) ==
  Max({Cardinality({i \in DOMAIN in.per[c].references : Alike(in.per[c].references[i], r)}) :
         c \in Configurations})

CountsMost(id) ==
  LET made == {r \in UNION {ToSet(in.per[c].references) : c \in Configurations} : r.to = id}
      classes == {CHOOSE r \in made : Alike(r, s) : s \in made}
      most(test) == MapThenSumSet(Most, {r \in classes : r.test = test})
  IN  /\ graph.production[id] = most(FALSE) + Cardinality({u \in merged.uses : u.to = id})
      /\ graph.test[id] = most(TRUE)

\* A configured string is answered as matching nothing, once, exactly where this
\* analysis reads it and it names no symbol of any configuration, however often it is
\* configured (configured and UnmatchedEverywhere).
UnmatchedIntersects ==
  /\ ToSet(everywhere) = {p \in ToSet(in.patterns) \intersect Read :
                              \A c \in Configurations : p \notin in.per[c].named}
  /\ Len(everywhere) = Cardinality(ToSet(everywhere))

\* The merged matrix is the configurations' union whatever order they are listed in: a
\* declaration is one record of every configuration that holds it, the uses an uncalled
\* method states are those no configuration contradicts, and a reference several
\* configurations make counts once (Merge, distinct and Of).  What no configuration matches is its
\* intersection.
MergesWhole ==
  stage = "done" =>
    /\ SymbolsWhole
    /\ merged.uses = {u \in [from: Id, to: Id] : FallsWith(u)}
    /\ \A id \in DOMAIN graph.test : CountsMost(id)
    /\ UnmatchedIntersects

\* The references read that are alike one and of a configuration, and the kept ones.
Made(r, c) ==
  {i \in 1 .. read : c \in merged.references[i].configs /\ Alike(merged.references[i].ref, r)}

Kept(r, c) == {k \in DOMAIN kept : c \in kept[k].configs /\ Alike(kept[k].ref, r)}

CountsEach ==
  \A i \in DOMAIN merged.references : \A c \in Configurations :
    Cardinality(Kept(merged.references[i].ref, c)) = Cardinality(Made(merged.references[i].ref, c))

Nested ==
  \A j, k \in DOMAIN kept :
    j < k /\ Alike(kept[j].ref, kept[k].ref) => kept[k].configs \subseteq kept[j].configs

\* Pairing loses no configuration's count and invents none: of each class of alike
\* references, the kept ones a configuration made are as many as it made; and of two
\* kept alike the later is made only where the earlier is, so the class counts what the
\* configuration making the most of it counts (distinct).
PairsEach == CountsEach /\ Nested
=============================================================================
