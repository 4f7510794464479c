-------------------------------- MODULE Plan --------------------------------
(***************************************************************************)
(* What a run decides before it loads anything: its settings, the modules  *)
(* in its scope, the matrix of configurations and the memory it may take.  *)
(* Each behaviour asks one question of the tree and machine it runs in.    *)
(***************************************************************************)
EXTENDS Matrix, Places

CONSTANTS
  KeyOrder, RowOf, Go, Language, Unset, Bad,
  Width,      \* the width of an unsigned integer
  Unlimited,  \* the smallest version-1 limit nobody set
  NoFile,     \* what a file reads as where it is absent or holds no number
  Cases       \* per question, the families of what it is asked of

Config == INSTANCE Settings

ASSUME KeyAssumption == DOMAIN RowOf \subseteq Range(KeyOrder) /\ Go \in Language
ASSUME WidthAssumption ==
  Width \in Nat \ {0} /\ Unlimited \in 1 .. 2 ^ Width /\ NoFile \notin Nat

-----------------------------------------------------------------------------
(***************************************************************************)
(* What the machine's readers answer (internal/memory cgroup.go,           *)
(* sources_*.go): the headroom and the limit of the control groups a       *)
(* process is in, in unsigned arithmetic, from files that change between   *)
(* one read and the next.                                                  *)
(***************************************************************************)

minus(a, b) == (a + 2 ^ Width - b) % 2 ^ Width
lower(a, b) == IF b < a THEN b ELSE a
Least(readings) == IF readings = {} THEN NoFile ELSE Min(readings)

(***************************************************************************)
(* A reading i: the directories from the process's group up to the mount   *)
(* point, each with its files before and after the machine changes, how    *)
(* many files are read before it does, which versions are mounted, and the *)
(* memory document.  The files of a directory are read in the order        *)
(* FileOrder.                                                              *)
(***************************************************************************)
FileOrder == <<"max", "high", "current", "inactive">>
Readable == (0 .. 2 ^ Width - 1) \union {NoFile}
Files == [max: Readable, high: Readable, current: Readable, inactive: Readable]
Machine ==
  [dirs: Seq([before: Files, after: Files]), changesAfter: Nat, v2: BOOLEAN, v1: BOOLEAN,
   total: Readable, available: Readable]

ASSUME MachineAssumption ==
  \A question \in DOMAIN Cases \intersect {"headroom", "limit"} :
    \A family \in DOMAIN Cases[question] : Cases[question][family] \subseteq Machine

Read(i, n, file) ==
  LET at == 4 * (n - 1) + (CHOOSE k \in 1 .. 4 : FileOrder[k] = file) IN
  IF at <= i.changesAfter THEN i.dirs[n].before[file] ELSE i.dirs[n].after[file]

\* The lower of the two limits a directory sets.
tightestV2(i, n) == Least({Read(i, n, "max"), Read(i, n, "high")} \ {NoFile})

\* Bug: the cache is taken from the usage though it was read later and may be more.
WorkingWraps(usage, inactive) == minus(usage, IF inactive = NoFile THEN 0 ELSE inactive)

\* The working set: the usage less the cache the kernel reclaims first, never below zero
\* though the two were read at different moments.
Working(usage, inactive) ==
  minus(usage, IF inactive = NoFile THEN 0 ELSE lower(inactive, usage))

\* A limit less the working set, none where the usage does not read.
roomUnder(limit, usage, inactive) ==
  LET working == Working(usage, inactive) IN
  IF usage = NoFile THEN NoFile ELSE IF working >= limit THEN 0 ELSE minus(limit, working)

\* The least headroom any directory leaves, a directory with no limit or no usage aside.
headroomV2(i) ==
  Least({IF tightestV2(i, n) = NoFile THEN NoFile
         ELSE roomUnder(tightestV2(i, n), Read(i, n, "current"), Read(i, n, "inactive")) :
           n \in DOMAIN i.dirs} \ {NoFile})

limitV2(i) == Least({Read(i, n, "max") : n \in DOMAIN i.dirs} \ {NoFile})

\* Version 1 reads one directory: `high' stands for the hierarchical limit, the tightest
\* of the directory and those above it.
headroomV1(i) ==
  LET limit == Read(i, 1, "high") IN
  IF limit = NoFile \/ limit >= Unlimited THEN NoFile
  ELSE roomUnder(limit, Read(i, 1, "current"), Read(i, 1, "inactive"))

limitV1(i) ==
  LET limit == Least({Read(i, 1, "max"), Read(i, 1, "high")} \ {NoFile}) IN
  IF limit = NoFile \/ limit >= Unlimited THEN NoFile ELSE limit

\* A field of the memory document is in kibibytes.
meminfo(kibibytes) == IF kibibytes = NoFile THEN NoFile ELSE (kibibytes * 1024) % 2 ^ Width

\* The tightest limit of a control group, capped by what the machine holds.
limitOf(i) ==
  LET cgroup == IF i.v2 /\ limitV2(i) # NoFile THEN limitV2(i) ELSE IF i.v1 THEN limitV1(i) ELSE NoFile
  IN Least({cgroup, meminfo(i.total)} \ {NoFile})

\* What each reader of the machine answers, in the order they are asked.
headrooms(i) ==
  <<IF i.v2 THEN headroomV2(i) ELSE NoFile, IF i.v1 THEN headroomV1(i) ELSE NoFile,
    meminfo(i.available)>>
-----------------------------------------------------------------------------
VARIABLES in, answered, out

vars == <<in, answered, out>>

Init ==
  /\ \E question \in DOMAIN Cases : \E family \in DOMAIN Cases[question] :
       in \in [ask : {question}, of : Cases[question][family]]
  /\ answered = FALSE
  /\ out = <<>>

Asked(question) == ~answered /\ in.ask = question /\ answered' = TRUE /\ UNCHANGED in

Configure == Asked("settings") /\ out' = Config!Resolve(in.of)
ReadHeader == Asked("header") /\ out' = ScanHeader(in.of)
DeriveMatrix == Asked("matrix") /\ out' = Derive(in.of)
FindScope == Asked("scope") /\ out' = ScopeOf(in.of, in.of.dir, in.of.doc)
FindWithin == Asked("within") /\ out' = Within(in.of, in.of.dir, in.of.path)
FindOwner == Asked("owner") /\ out' = OwnerOf(in.of, in.of.file)
FindHolder == Asked("holder") /\ out' = Enclosing(in.of.spans, in.of.pos)
ReadHeadroom == Asked("headroom") /\ out' = headrooms(in.of)
ReadLimit == Asked("limit") /\ out' = limitOf(in.of)

Next == \/ Configure \/ ReadHeader \/ DeriveMatrix
        \/ FindScope \/ FindWithin \/ FindOwner \/ FindHolder
        \/ ReadHeadroom \/ ReadLimit

Spec == Init /\ [][Next]_vars

Answered(question) == answered /\ in.ask = question
-----------------------------------------------------------------------------
(* Properties *)

\* Where a setting and a keyed member came from is true: what a source is recorded for is
\* what that source alone supplies, no stronger source supplies it, and dropping the weakest
\* source changes nothing another one supplied. A refused source refuses the run, whatever
\* a stronger one sets.
SettingsRanked ==
  Answered("settings") =>
    LET sources == Config!SourcesOf(in.of)
        Of(kind) == Config!Supplied((CHOOSE s \in Range(sources) : s.kind = kind).from.doc)
        Stronger(kind) ==
          {s.kind : s \in Range(SelectSeq(sources, LAMBDA s :
             kind = Config!Default \/ (kind = "central" /\ s.kind # kind)
                \/ (kind = "repository" /\ s.kind = "flag")))}
        less == Config!Resolve([in.of EXCEPT !.central = Config!Absent])
    IN /\ (\E s \in Range(sources) : Config!RefusalOf(s) # <<>>) => out.refusal # <<>>
       /\ out.refusal = <<>> =>
            /\ \A k \in DOMAIN out.settings :
                 LET r == out.settings[k] IN
                 /\ r.from # Config!Default => Of(r.from).values[k] = r.value
                 /\ \A s \in Stronger(r.from) : k \notin DOMAIN Of(s).values
                 /\ less.refusal = <<>> /\ r.from # "central" => less.settings[k] = r
            /\ \A k \in DOMAIN out.keyed :
                 LET r == out.keyed[k] IN
                 /\ \A n \in DOMAIN r.members :
                      LET one == r.members[n] IN
                      /\ Of(one.from).keyed[k][n] = one.value
                      /\ \A s \in Stronger(one.from) : k \in DOMAIN Of(s).keyed => n \notin DOMAIN Of(s).keyed[k]
                 /\ \A s \in {s.kind : s \in Range(sources)} :
                      k \in DOMAIN Of(s).keyed => DOMAIN Of(s).keyed[k] \subseteq DOMAIN r.members
                 /\ (r.section = {}) = (DOMAIN r.members # {})

\* The constraint read of a header is the one the toolchain reads: "the rule that keeps a
\* package's doc comment from constraining it" (the comment on scanHeader), a //go:build line
\* outside every block comment, and a refusal where two stand.
HeadersRead ==
  Answered("header") =>
    /\ out.twice = (Cardinality(CountedGoBuild(in.of)) > 1)
    /\ ~out.twice => \A tags \in SUBSET UNION {Tags(l.says) : l \in Range(in.of)} :
         HoldsUnder(DeclaredConstraint(out), tags) = HeaderMeaning(in.of, tags)

\* A derived matrix begins with the host, names each configuration once, sets no tag that
\* is the toolchain's to answer, and holds a configuration under which each file read that
\* one buildable atom enables is built; the files read are those the unit's production code
\* reaches, whatever order they are read in. A refused file derives nothing.
MatrixDerived ==
  Answered("matrix") =>
    LET read == Range(Collect(in.of).read)
        enabled == {f \in read : \E c \in ConstraintOf(f) :
                      /\ c.neg = {} /\ Cardinality(c.pos) = 1
                      /\ c.pos \subseteq Tag \ (Toolchain \union {Ignore})
                      /\ c.pos \subseteq System => \E p \in Platforms : p[1] \in c.pos
                      /\ c.pos \subseteq Arch => \E p \in Platforms : p[2] \in c.pos}
    IN /\ (\E f \in Reached(in.of) : Refuses(f)) <=> out = <<>>
       /\ out # <<>> =>
            /\ read = Reached(in.of)
            /\ out[1] = Host
            /\ IsInjective(out)
            /\ \A i \in DOMAIN out : /\ out[i].tags \intersect (Toolchain \union {Ignore}) = {}
                                     /\ <<out[i].os, out[i].arch>> \in Platforms
            /\ \A f \in enabled : \E i \in DOMAIN out : HoldsUnder(ConstraintOf(f), Under(out[i]))

\* Two modules one workspace file governs, neither inside the other, are each a consumer
\* where the other is the target, and no module is both of the target and a consumer.
ScopeMutual ==
  Answered("scope") /\ out # <<>> /\ in.of.doc = <<>> =>
    LET s == out[1]
        Other(m) == ScopeOf(in.of, m, <<>>)
    IN /\ \A m \in Range(s.consumers) : ~LexicallyWithin(s.target, m)
       /\ \A m \in DOMAIN in.of.listed \union Range(WorkspaceOf(in.of, s.target).modules) :
            /\ Other(m) # <<>> /\ Other(m)[1].workspace = s.workspace /\ s.workspace # <<>>
            /\ ~LexicallyWithin(m, s.target) /\ ~LexicallyWithin(s.target, m)
            => m \in Range(s.consumers) /\ s.target \in Range(Other(m)[1].consumers)

\* "One directory spelled two ways sits where it resolves, and a link below that part keeps
\* its name" (the comment on Within): what is answered names, from the directory, the place
\* the path itself names, and a path spelled through a link to the directory is answered as
\* it is when spelled without it.
WithinSamePlace ==
  Answered("within") =>
    LET t == in.of IN
    /\ out # <<>> => EvalSymlinks(t, t.dir \o out[1]) = EvalSymlinks(t, t.path)
    /\ \A link \in DOMAIN t.links :
         t.links[link] = t.dir
           /\ EvalSymlinks(t, t.dir) = <<t.dir>> /\ LexicallyWithin(link, t.path)
         => out = <<Relative(link, t.path)>>

\* A file is rendered by the deepest module holding it, so a consumer nested in the target
\* holds its own files; a position belongs to the one range that holds it.
PlacesOwned ==
  /\ Answered("owner") =>
       \A i \in Rooted(in.of) :
         LexicallyWithin(in.of.consumers[i].root, in.of.file) =>
           \/ out # 0 /\ Len(in.of.consumers[i].root) <= Len(in.of.consumers[out].root)
           \/ out = 0 /\ Len(in.of.consumers[i].root) <= Len(in.of.root)
  /\ Answered("holder") =>
       \A i \in DOMAIN in.of.spans :
         in.of.spans[i].from <= in.of.pos /\ in.of.pos < in.of.spans[i].to <=> out = i

\* A path keeps its place, and the place has one owner.
PathsHold == WithinSamePlace /\ PlacesOwned

\* A headroom is no more than the limit of any group that left some, however the files
\* change between two reads, and where they do not it is the least that any group leaves;
\* a limit is no more than any group's.
HeadroomHonest ==
  LET limits(n, moment) == {in.of.dirs[n][moment]["max"], in.of.dirs[n][moment]["high"]} \ {NoFile}
      Left(n) == LET f == in.of.dirs[n].before
                     cache == IF f["inactive"] = NoFile THEN 0 ELSE f["inactive"]
                     working == IF cache > f["current"] THEN 0 ELSE f["current"] - cache
                 IN IF working > Min(limits(n, "before")) THEN 0 ELSE Min(limits(n, "before")) - working
      bounded == {n \in DOMAIN in.of.dirs : limits(n, "before") # {} /\ in.of.dirs[n].before["current"] # NoFile}
  IN /\ Answered("headroom") /\ in.of.v2 =>
          /\ \A n \in bounded :
               (\A f \in Range(FileOrder) : (in.of.dirs[n].before[f] = NoFile) = (in.of.dirs[n].after[f] = NoFile))
                 => /\ out[1] # NoFile
                    /\ out[1] <= Max(limits(n, "before") \union limits(n, "after"))
          /\ (\A n \in DOMAIN in.of.dirs : in.of.dirs[n].before = in.of.dirs[n].after) =>
               out[1] = Least({Left(n) : n \in bounded})
     /\ Answered("limit") /\ out # NoFile =>
          \A n \in DOMAIN in.of.dirs : in.of.v2 /\ in.of.dirs[n].before["max"] # NoFile
            /\ in.of.dirs[n].before["max"] = in.of.dirs[n].after["max"] => out <= in.of.dirs[n].before["max"]

\* The matrix covers the constraints of the files, each as its header states it; the modules
\* of a scope are mutual, and a path of one has one place and one owner.
TargetRead == HeadersRead /\ MatrixDerived /\ ScopeMutual /\ PathsHold
=============================================================================
