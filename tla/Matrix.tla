------------------------------- MODULE Matrix -------------------------------
(***************************************************************************)
(* The build matrix a target tree implies (internal/matrix, internal/      *)
(* buildconstraint): which files are read, the one build constraint of     *)
(* each, the atoms the constraints name, and a configuration for each atom *)
(* beside the host's.                                                      *)
(***************************************************************************)
EXTENDS FiniteSetsExt, SequencesExt

CONSTANTS
  TagOrder,    \* every tag, in byte order
  System,      \* the operating-system names the toolchain reserves
  Arch,        \* the architecture names it reserves
  Toolchain,   \* the tags it answers from its own environment
  Ignore,      \* the ignore tag
  Platforms,   \* the pairs <<system, architecture>> it builds
  HostSystem,
  HostArch,
  MaxFreeTags  \* the most other tags whose settings are tried

Tag == Range(TagOrder)

ASSUME TagAssumption ==
  /\ System \union Arch \union Toolchain \union {Ignore} \subseteq Tag
  /\ Platforms \subseteq System \X Arch
  /\ <<HostSystem, HostArch>> \in Platforms

(***************************************************************************)
(* A constraint is a set of alternatives, each the tags it wants and the   *)
(* tags it refuses.                                                        *)
(***************************************************************************)
Unconstrained == {[pos |-> {}, neg |-> {}]}
Unparsed == {}

Atom(tag) == {[pos |-> {tag}, neg |-> {}]}
Joined(e, f) == {[pos |-> c.pos \union d.pos, neg |-> c.neg \union d.neg] : c \in e, d \in f}
HoldsUnder(e, tags) == \E c \in e : c.pos \subseteq tags /\ c.neg \intersect tags = {}

Tags(e) == UNION {c.pos \union c.neg : c \in e}

\* Whether some setting of the other tags makes the constraint true.
HoldsWith(e, tag, value) ==
  LET named == Tags(e) \ {tag} IN
  \/ Cardinality(named) > MaxFreeTags
  \/ \E setting \in SUBSET named : HoldsUnder(e, setting \union (IF value THEN {tag} ELSE {}))

OnlyUnderIgnore(e) == Ignore \in Tags(e) /\ ~HoldsWith(e, Ignore, FALSE)
-----------------------------------------------------------------------------
(***************************************************************************)
(* The header of a file is its leading lines.  A line is blank, a line     *)
(* comment (a plain one, a //go:build or a legacy +build line), opens or   *)
(* closes a block comment, holds a whole one, or carries code, alone or    *)
(* after the close of a block.                                             *)
(***************************************************************************)
LineComment == {"comment", "goBuild", "plusBuild"}

NoHeader == [goBuild |-> <<>>, legacy |-> <<>>, pending |-> <<>>, coded |-> FALSE,
             enclosed |-> FALSE, ended |-> FALSE, twice |-> FALSE]

CarriesCode(kind, enclosed) ==
  IF enclosed THEN kind = "closeCode" ELSE kind \in {"code", "close", "closeCode"}
LeavesEnclosed(kind, enclosed) ==
  IF enclosed THEN kind \notin {"close", "closeCode", "inline"} ELSE kind = "open"

Declare(h, l) ==
  CASE h.enclosed \/ l.kind \notin {"goBuild", "plusBuild"} -> h
    [] l.kind = "plusBuild" -> [h EXCEPT !.pending = Append(h.pending, l.says)]
    [] OTHER -> [h EXCEPT !.goBuild = IF h.goBuild = <<>> THEN <<l.says>> ELSE h.goBuild,
                          !.twice = h.goBuild # <<>>]

\* Bug: a blank line after code counts the legacy lines before it too.
ReadLineLate(h, l) ==
  IF h.ended \/ h.twice THEN h
  ELSE IF l.kind = "blank"
  THEN [h EXCEPT !.legacy = h.legacy \o h.pending, !.pending = <<>>]
  ELSE LET d == Declare([h EXCEPT !.coded = h.coded \/ l.kind \notin LineComment], l) IN
       [d EXCEPT !.ended = CarriesCode(l.kind, h.enclosed),
                 !.enclosed = LeavesEnclosed(l.kind, h.enclosed)]

\* One line of the header, which ends at the first line carrying code. A blank line counts
\* the legacy lines before it, as long as only line comments came.
ReadLine(h, l) ==
  IF h.ended \/ h.twice THEN h
  ELSE IF l.kind = "blank" /\ ~h.coded
  THEN [h EXCEPT !.legacy = h.legacy \o h.pending, !.pending = <<>>]
  ELSE LET d == Declare([h EXCEPT !.coded = h.coded \/ l.kind \notin LineComment], l) IN
       [d EXCEPT !.ended = CarriesCode(l.kind, h.enclosed),
                 !.enclosed = LeavesEnclosed(l.kind, h.enclosed)]

ScanHeader(lines) == FoldLeft(ReadLine, NoHeader, lines)

\* A legacy line that does not parse is no constraint; a //go:build line must parse.
DeclaredConstraint(h) ==
  IF h.goBuild # <<>> THEN h.goBuild[1]
  ELSE FoldLeft(LAMBDA e, l : IF l = Unparsed THEN e ELSE Joined(e, l), Unconstrained, h.legacy)

\* What the last fields of a file's name imply, a trailing test field aside.
NameConstraint(name) ==
  LET fields == IF name # <<>> /\ Last(name) = "test" THEN Front(name) ELSE name
      last == Len(fields)
  IN CASE last > 1 /\ fields[last - 1] \in System /\ fields[last] \in Arch ->
            Joined(Atom(fields[last - 1]), Atom(fields[last]))
       [] last > 0 /\ fields[last] \in System \union Arch -> Atom(fields[last])
       [] OTHER -> Unconstrained

Refuses(f) ==
  LET h == ScanHeader(f.lines) IN h.twice \/ (h.goBuild # <<>> /\ h.goBuild[1] = Unparsed)
ConstraintOf(f) == Joined(NameConstraint(f.name), DeclaredConstraint(ScanHeader(f.lines)))
-----------------------------------------------------------------------------
(***************************************************************************)
(* A tree: each directory's path below the unit and its files in walk      *)
(* order, the directories the module's tree skips and those that root a    *)
(* module of their own.  A file names the directories its imports do.      *)
(***************************************************************************)
Above(dir) == {SubSeq(dir, 1, n) : n \in 1 .. Len(dir)}

\* A directory outside the unit's packages that the module's build compiles all the same.
OutsideDir(t, dir) ==
  Above(dir) \intersect t.roots = {} /\ Above(dir) \intersect t.skips # {}

Walked(t, dir) == Above(dir) \intersect (t.skips \union t.roots) = {}

FilesOf(t, dir) == FlattenSeq([i \in DOMAIN t.dirs |->
                                 IF t.dirs[i].path = dir THEN t.dirs[i].files ELSE <<>>])

NoReading == [exprs |-> {}, read |-> <<>>, queue |-> <<>>, queued |-> {}, refused |-> FALSE]

\* Bug: a test file's imports are queued as any file's.
ReadTestsToo(t, w, f) ==
  IF w.refused \/ Refuses(f) THEN [w EXCEPT !.refused = TRUE]
  ELSE LET outside == {d \in f.imports : OutsideDir(t, d)} \ w.queued
           imported == IF OnlyUnderIgnore(ConstraintOf(f)) THEN {} ELSE outside
       IN [exprs |-> w.exprs \union {ConstraintOf(f)}, read |-> Append(w.read, f),
           queue |-> w.queue \o SetToSeq(imported), queued |-> w.queued \union imported,
           refused |-> FALSE]

\* The reading of one file: its constraint, and each package outside that it imports,
\* queued once. A refusal ends the derivation.
ReadFile(t, w, f) ==
  IF w.refused \/ Refuses(f) THEN [w EXCEPT !.refused = TRUE]
  ELSE LET outside == {d \in f.imports : OutsideDir(t, d)} \ w.queued
           imported == IF f.test \/ OnlyUnderIgnore(ConstraintOf(f)) THEN {} ELSE outside
       IN [exprs |-> w.exprs \union {ConstraintOf(f)}, read |-> Append(w.read, f),
           queue |-> w.queue \o SetToSeq(imported), queued |-> w.queued \union imported,
           refused |-> FALSE]

ReadFiles(t, w, files) == FoldLeft(LAMBDA h, f : ReadFile(t, h, f), w, files)

\* The walk of the unit, then each queued package in turn, its test files aside.
Collect(t) ==
  LET walked == ReadFiles(t, NoReading,
                  FlattenSeq([i \in DOMAIN t.dirs |->
                    IF Walked(t, t.dirs[i].path) THEN t.dirs[i].files ELSE <<>>]))
      drain[n \in 0 .. Len(t.dirs)] ==
        IF n = 0 THEN walked
        ELSE LET w == drain[n - 1] IN
             IF w.queue = <<>> THEN w
             ELSE ReadFiles(t, [w EXCEPT !.queue = Tail(w.queue)],
                            SelectSeq(FilesOf(t, Head(w.queue)), LAMBDA f : ~f.test))
  IN drain[Len(t.dirs)]
-----------------------------------------------------------------------------
AtomsOf(exprs) == UNION {Tags(e) : e \in {e \in exprs : ~OnlyUnderIgnore(e)}} \ {Ignore}

InOrder(tags) == SelectSeq(TagOrder, LAMBDA t : t \in tags)

\* The preferred partner where the toolchain builds the pair, else the first it builds.
Partner(candidates, preferred) == IF preferred \in candidates THEN preferred ELSE Head(InOrder(candidates))

Configuration(system, arch, tags) == [os |-> system, arch |-> arch, tags |-> tags]
Host == Configuration(HostSystem, HostArch, {})

\* The platform an atom of either axis pairs to, none where the toolchain builds no pair.
OfSystem(s) ==
  LET built == {p[2] : p \in {p \in Platforms : p[1] = s}} IN
  IF built = {} THEN <<>> ELSE <<Configuration(s, Partner(built, HostArch), {})>>
OfArch(a) ==
  LET built == {p[1] : p \in {p \in Platforms : p[2] = a}} IN
  IF built = {} THEN <<>> ELSE <<Configuration(Partner(built, HostSystem), a, {})>>

\* The host, then a configuration per system, per architecture and per tag, each once.
ConfigurationsOf(atoms) ==
  LET own == atoms \ (System \union Arch \union Toolchain)
      each(tags, Of(_)) == FlattenSeq([i \in DOMAIN InOrder(tags) |-> Of(InOrder(tags)[i])])
      OfTag(tag) == <<Configuration(HostSystem, HostArch, {tag})>>
      all == <<Host>> \o each(atoms \intersect System, OfSystem)
                      \o each(atoms \intersect Arch, OfArch) \o each(own, OfTag)
  IN FoldLeft(LAMBDA held, c : IF Contains(held, c) THEN held ELSE Append(held, c), <<>>, all)

\* The matrix of a tree, empty where a file is refused.
Derive(t) ==
  LET w == Collect(t) IN IF w.refused THEN <<>> ELSE ConfigurationsOf(AtomsOf(w.exprs))
-----------------------------------------------------------------------------
(* What the derivation is compared with *)

\* The rule of the toolchain: the header ends at the first line that carries code; a
\* legacy line counts where a blank line follows it with nothing but line comments and
\* blank lines before that blank line.
Enclosed(lines, i) ==
  \E j \in 1 .. i - 1 :
    /\ lines[j].kind = "open"
    /\ \A k \in j + 1 .. i - 1 : lines[k].kind \notin {"close", "closeCode", "inline"}
EndOf(lines) ==
  Min({i \in DOMAIN lines :
         \/ lines[i].kind = "closeCode"
         \/ lines[i].kind \in {"code", "close"} /\ ~Enclosed(lines, i)} \union {Len(lines) + 1})
CountedLegacy(lines) ==
  {i \in DOMAIN lines :
     /\ lines[i].kind = "plusBuild"
     /\ \E j \in i + 1 .. Len(lines) :
          lines[j].kind = "blank" /\ \A k \in 1 .. j : lines[k].kind \in LineComment \union {"blank"}}
CountedGoBuild(lines) ==
  {i \in DOMAIN lines : i < EndOf(lines) /\ lines[i].kind = "goBuild" /\ ~Enclosed(lines, i)}

HeaderMeaning(lines, tags) ==
  LET builds == CountedGoBuild(lines) IN
  IF builds # {} THEN \A i \in builds : HoldsUnder(lines[i].says, tags)
  ELSE \A i \in CountedLegacy(lines) : lines[i].says # Unparsed => HoldsUnder(lines[i].says, tags)

\* The files read: the unit's, and those of the packages its production files reach.
Reached(t) ==
  LET Imported(files) ==
        {d \in UNION {f.imports : f \in {f \in files : ~f.test /\ ~OnlyUnderIgnore(ConstraintOf(f))}} :
           OutsideDir(t, d)}
      Production(dirs) == UNION {{f \in Range(FilesOf(t, d)) : ~f.test} : d \in dirs}
      unit == UNION {Range(d.files) : d \in {d \in Range(t.dirs) : Walked(t, d.path)}}
      spread[n \in 0 .. Len(t.dirs)] ==
        IF n = 0 THEN unit ELSE spread[n - 1] \union Production(Imported(spread[n - 1]))
  IN spread[Len(t.dirs)]

\* A configuration answers its platform's names and its tags, never the ignore tag.
Under(c) == {c.os, c.arch} \union c.tags
=============================================================================
