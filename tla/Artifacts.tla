------------------------------ MODULE Artifacts ------------------------------
(***************************************************************************)
(* The findings about a module file and about whole source files           *)
(* (internal/deps, findings/artifacts.go): the requirements no import      *)
(* needs, the replacements that redirect nothing, the files no             *)
(* configuration builds, the files of packages nothing imports, and the    *)
(* modules a deletion removes the last use of.                             *)
(***************************************************************************)
EXTENDS FiniteSetsExt, SequencesExt

CONSTANT None  \* no directory, no module, no such unit

(***************************************************************************)
(* A run a has its configurations.  Each of them, c, holds packages by     *)
(* identifier, those of the dependencies too, the packages of each unit by *)
(* its directory, and the files excluded by cgo.  A path is the sequence   *)
(* of its elements, and an external test's has one more than its package.  *)
(***************************************************************************)
Configs(a) == ToSet(a.configs)
unitOf(c, dir) == IF dir \in DOMAIN c.units THEN c.units[dir] ELSE None
Target(c) == {c.packages[id] : id \in UNION Range(c.units)}

\* What visiting the packages of a unit reaches, through imports at every depth.
Visited(c, unit) ==
  FoldSet(LAMBDA step, seen : seen \union UNION {c.packages[id].imports : id \in seen}, unit, DOMAIN c.packages)
-----------------------------------------------------------------------------
(* What one configuration says of a module file. *)
importedModules(c, unit) ==
  {c.packages[to].module.path : to \in {to \in UNION {c.packages[id].imports : id \in unit} : c.packages[to].module # None}}

UnusedRequirements(m, c, unit) ==
  SelectSeq(m.requires, LAMBDA require : ~require.indirect /\ require.path \notin importedModules(c, unit))

\* Each module under the version the build selected and under none.
buildList(c, unit) ==
  UNION {{[path |-> c.packages[id].module.path, version |-> c.packages[id].module.version],
          [path |-> c.packages[id].module.path, version |-> None]} :
         id \in {id \in Visited(c, unit) : c.packages[id].module # None}}

\* Mutant of toolModules: the first required module a tool lies under.
toolsUnderFirst(m) ==
  {m.requires[Min(holding)].path :
     holding \in {{i \in DOMAIN m.requires : IsPrefix(m.requires[i].path, tool)} : tool \in m.tools} \ {{}}}

\* A tool's package belongs to the longest required module path it lies under.
toolModules(m) ==
  UNION {{path \in {r.path : r \in ToSet(m.requires)} :
            IsPrefix(path, tool) /\ \A r \in ToSet(m.requires) : IsPrefix(r.path, tool) => Len(r.path) <= Len(path)} :
         tool \in m.tools}

NoopReplacements(m, c, unit) ==
  SelectSeq(m.replaces, LAMBDA old : old.path \notin toolModules(m) /\ old \notin buildList(c, unit))
-----------------------------------------------------------------------------
(* Agreement: an answer is kept where every configuration gives it. *)
\* Mutant of agree: a configuration that loaded no such unit says nothing.
agreeLoaded(agreed, answer) ==
  CASE answer = None -> agreed
    [] agreed.first -> [agreed EXCEPT !.kept = answer, !.first = FALSE]
    [] OTHER -> [agreed EXCEPT !.kept = SelectSeq(@, LAMBDA v : Contains(answer, v))]

agree(agreed, answer) ==
  CASE agreed.absent -> agreed
    [] ~agreed.absent /\ answer = None -> [agreed EXCEPT !.kept = <<>>, !.absent = TRUE, !.first = FALSE]
    [] ~agreed.absent /\ answer # None /\ agreed.first -> [agreed EXCEPT !.kept = answer, !.first = FALSE]
    [] OTHER -> [agreed EXCEPT !.kept = SelectSeq(@, LAMBDA v : Contains(answer, v))]

Agreed(answers) ==
  FoldLeft(agree, [kept |-> <<>>, absent |-> FALSE, first |-> TRUE], answers).kept

unusedDependencies(a, m) ==
  Agreed([i \in DOMAIN a.configs |->
            LET unit == unitOf(a.configs[i], m.dir) IN
            IF unit = None THEN None ELSE UnusedRequirements(m, a.configs[i], unit)])

unusedReplaces(a, m) ==
  Agreed([i \in DOMAIN a.configs |->
            LET unit == unitOf(a.configs[i], m.dir) IN
            IF unit = None THEN None ELSE NoopReplacements(m, a.configs[i], unit)])
-----------------------------------------------------------------------------
(* The files no configuration builds. *)
completeMatrix(a) == a.complete /\ a.listed

\* Each ignored file with the path of the tested package, the shortest that ignores it.
ignoredUnder(c) ==
  LET Ignoring(file) == {IF p.forTest = None THEN p.path ELSE p.forTest : p \in {p \in Target(c) : file \in p.ignored}}
  IN [file \in UNION {p.ignored : p \in Target(c)} |->
        CHOOSE path \in Ignoring(file) : \A other \in Ignoring(file) : Len(path) <= Len(other)]

\* Mutant of ignored: what some configuration ignores.
ignoredBySome(a) ==
  {[file |-> file, path |-> ignoredUnder(c)[file]] :
     <<c, file>> \in {<<c, file>> \in Configs(a) \X DOMAIN a.constraint : file \in DOMAIN ignoredUnder(c)}}

ignored(a) ==
  LET first == ignoredUnder(a.configs[1])
  IN {[file |-> file, path |-> first[file]] :
        file \in {file \in DOMAIN first : \A c \in Configs(a) : file \in DOMAIN ignoredUnder(c)}}

\* A file excluded only for reaching C is decided by no configuration, and one only the ignore
\* tag lets in is outside the build. A constraint that cannot be read ends the run.
neverBuilt(a) ==
  LET read == {i \in ignored(a) : \A c \in Configs(a) : i.file \notin c.excludedByCgo}
  IN CASE ~completeMatrix(a) -> [failed |-> FALSE, found |-> {}]
       [] completeMatrix(a) /\ \E i \in read : a.constraint[i.file] = None -> [failed |-> TRUE, found |-> {}]
       [] OTHER -> [failed |-> FALSE, found |-> {i \in read : a.constraint[i.file] # "ignore"}]
-----------------------------------------------------------------------------
(* Packages by their key, and the packages nothing reaches. *)
\* Mutant of Dirs: the directories the first configuration gives a path.
dirsOfFirst(a, path) == {p.dir : p \in {p \in Target(a.configs[1]) : p.path = path}} \ {None}

Dirs(a, path) == {p.dir : p \in {p \in UNION {Target(c) : c \in Configs(a)} : p.path = path}} \ {None}

\* The import path, and the directory too where two modules of the target declare it.
packageKey(a, p) == IF Cardinality(Dirs(a, p.path)) <= 1 THEN <<p.path>> ELSE <<p.path, p.dir>>

mains(a) == {packageKey(a, p) : p \in {p \in UNION {Target(c) : c \in Configs(a)} : p.main}}

\* A package is unlinked where no configuration that loads it links it.
unlinked(a) ==
  LET tested == {p \in UNION {Target(c) : c \in Configs(a)} : p.forTest = None}
  IN {packageKey(a, p) : p \in {p \in tested : ~p.linked}} \ {packageKey(a, p) : p \in {p \in tested : p.linked}}

SymbolOf(a, id) == {s \in a.symbols : s.id = id}

\* A reference a declaration of the package itself makes is no import of it.
importedPackages(a) ==
  {packageKey(a, to) :
     to \in {to \in a.symbols : to.kind = "package" /\
               \E r \in a.refs : r.to = to.id /\
                 \A from \in SymbolOf(a, r.from) : packageKey(a, from) # packageKey(a, to)}}

rootedPackages(a) == {packageKey(a, s) : s \in {s \in a.symbols : s.id \in a.roots}}

unreachedPackages(a) ==
  LET filed == {packageKey(a, s) : s \in {s \in a.symbols : s.kind = "file"}}
      live == {packageKey(a, s) : s \in {s \in a.symbols : s.kind \notin {"file", "package"} /\ s.id \notin a.candidates}}
  IN filed \ (importedPackages(a) \union rootedPackages(a) \union mains(a) \union live)

fileNeverImported(a) ==
  {s.id : s \in {s \in a.symbols : s.kind = "file" /\ packageKey(a, s) \in unreachedPackages(a)}}
-----------------------------------------------------------------------------
(* The modules a deletion removes the last use of. *)
dependencyModules(c, unit) ==
  {<<c.packages[id].path, c.packages[id].module.path>> :
     id \in {id \in Visited(c, unit) : c.packages[id].module # None /\ ~c.packages[id].module.main}}

\* A use belongs to the innermost declarations of the inventory it is written in: a node has
\* the names it declares, the packages the identifiers of its own name, and the nodes inside.
RECURSIVE walk(_, _, _)
walk(held, nodes, owner) ==
  UNION {LET inner == nodes[i].names \intersect held
             owners == IF inner = {} THEN owner ELSE inner
         IN (owners \X nodes[i].uses) \union walk(held, nodes[i].inner, owners) : i \in DOMAIN nodes}

\* Each declaration with each module it uses.
usedModules(a, c, unit) ==
  LET written == UNION {walk(a.held, c.packages[id].files, {}) : id \in {id \in unit : c.packages[id].typed}}
  IN {<<w[1], m[2]>> : <<w, m>> \in {<<w, m>> \in written \X dependencyModules(c, unit) : w[2] = m[1]}}

\* Mutant of LastUses: only what is a candidate counts as a user.
lastUsesOfDead(a, c, unit) ==
  LET used == {u \in usedModules(a, c, unit) : u[1] \in a.candidates}
  IN {u \in used : \A v \in used : v[2] = u[2] => v = u}

\* Every declaration is a user, whatever its own liveness.
LastUses(a, c, unit) ==
  LET used == usedModules(a, c, unit) IN {u \in used : u[1] \in a.candidates /\ \A v \in used : v[2] = u[2] => v = u}

\* The union over the configurations, unit by unit.
joinLastUses(a) == UNION {UNION {LastUses(a, c, unit) : unit \in Range(c.units)} : c \in Configs(a)}

\* Only a finding whose subject is deleted removes what it uses.
annotate(a) ==
  LET last == joinLastUses(a)
  IN [i \in DOMAIN a.findings |-> IF a.findings[i].deletable THEN {u[2] : u \in {u \in last : u[1] = a.findings[i].id}} ELSE {}]
-----------------------------------------------------------------------------
Of(a) ==
  [requires |-> [i \in DOMAIN a.modules |-> unusedDependencies(a, a.modules[i])],
   replaces |-> [i \in DOMAIN a.modules |-> unusedReplaces(a, a.modules[i])],
   built |-> neverBuilt(a), imported |-> fileNeverImported(a), unlinked |-> unlinked(a), lastUses |-> annotate(a)]
=============================================================================
