------------------------------- MODULE Places -------------------------------
(***************************************************************************)
(* Where things are: the modules one run loads, from a document, from the  *)
(* workspace that governs the target or from the target alone              *)
(* (internal/scope), whether a path is within a directory though links     *)
(* spell it two ways, and which loaded module's renderer a file is         *)
(* reported by (internal/resolve).  A path is the names from the root.     *)
(***************************************************************************)
EXTENDS FiniteSetsExt, SequencesExt

Below(dir, path) == IsStrictPrefix(dir, path)
LexicallyWithin(dir, path) == IsPrefix(dir, path)
Relative(dir, path) == SubSeq(path, Len(dir) + 1, Len(path))

\* Each directory at or above a path, the path first.
Ancestors(path) == [i \in 1 .. Len(path) + 1 |-> SubSeq(path, 1, Len(path) + 1 - i)]
-----------------------------------------------------------------------------
(* The scope: t says which directories exist and which hold a workspace file, what each
   lists, and which documents there are *)

Nothing == [workspace |-> <<>>, modules |-> <<>>]

\* The file in the nearest directory at or above one that holds a workspace file.
WorkspaceOf(t, dir) ==
  LET holding == SelectSeq(Ancestors(dir), LAMBDA d : d \in DOMAIN t.listed) IN
  IF holding = <<>> THEN Nothing
  ELSE [workspace |-> <<holding[1]>>, modules |-> t.listed[holding[1]]]

Absolute(base, path) == IF path.rooted THEN path.names ELSE base \o path.names

\* What a scope document declares, its relative paths resolved against its directory.
Declares(doc) ==
  [workspace |-> IF doc.workspace = <<>> THEN <<>> ELSE <<Absolute(doc.dir, doc.workspace[1])>>,
   target |-> Absolute(doc.dir, doc.target),
   consumers |-> [i \in DOMAIN doc.consumers |-> Absolute(doc.dir, doc.consumers[i])]]

\* Bug: a module nested in the target is a consumer of it.
ScopeNested(t, dir, doc) ==
  IF doc # <<>> THEN <<Declares(doc[1])>>
  ELSE IF dir \notin t.dirs THEN <<>>
  ELSE LET w == WorkspaceOf(t, dir) IN
       IF ~Contains(w.modules, dir)
       THEN <<[workspace |-> <<>>, target |-> dir, consumers |-> <<>>]>>
       ELSE <<[workspace |-> w.workspace, target |-> dir,
               consumers |-> SelectSeq(w.modules, LAMBDA m : m # dir)]>>

\* The scope of a run: a named document's, else the workspace's where it lists the target,
\* else the target alone; none where the target is no directory.
ScopeOf(t, dir, doc) ==
  IF doc # <<>> THEN <<Declares(doc[1])>>
  ELSE IF dir \notin t.dirs THEN <<>>
  ELSE LET w == WorkspaceOf(t, dir) IN
       IF ~Contains(w.modules, dir)
       THEN <<[workspace |-> <<>>, target |-> dir, consumers |-> <<>>]>>
       ELSE <<[workspace |-> w.workspace, target |-> dir,
               consumers |-> SelectSeq(w.modules, LAMBDA m : m # dir /\ ~Below(dir, m))]>>
-----------------------------------------------------------------------------
(* Links: t.links is where each link leads, t.absent what exists under no name *)

\* What a path resolves to: its shortest leading link is followed, again and again; none
\* where it does not exist.
EvalSymlinks(t, path) ==
  LET linked(p) == SelectSeq(Reverse(Ancestors(p)), LAMBDA a : a \in DOMAIN t.links)
      follow[n \in 0 .. Cardinality(DOMAIN t.links)] ==
        IF n = 0 THEN path
        ELSE LET p == follow[n - 1] IN
             IF linked(p) = <<>> THEN p
             ELSE t.links[linked(p)[1]] \o Relative(linked(p)[1], p)
      resolved == follow[Cardinality(DOMAIN t.links)]
  IN IF \E a \in Range(Ancestors(resolved)) : a \in t.absent THEN <<>> ELSE <<resolved>>

\* Bug: where the names place the path outside, the rest of it is resolved too.
WithinResolved(t, dir, path) ==
  LET to == EvalSymlinks(t, dir)
      at == EvalSymlinks(t, path)
  IN IF LexicallyWithin(dir, path) THEN <<Relative(dir, path)>>
     ELSE IF to # <<>> /\ at # <<>> /\ LexicallyWithin(to[1], at[1])
     THEN <<Relative(to[1], at[1])>> ELSE <<>>

\* A path relative to a directory it is within: by the names, else by its shortest leading
\* part that resolves into the directory, the rest keeping its names. A part that does not
\* exist ends the search.
Within(t, dir, path) ==
  LET to == EvalSymlinks(t, dir)
      leads == Reverse(Ancestors(path))
      broken == {i \in DOMAIN leads : EvalSymlinks(t, leads[i]) = <<>>}
      inside == {i \in DOMAIN leads : EvalSymlinks(t, leads[i]) # <<>> /\
                                      LexicallyWithin(to[1], EvalSymlinks(t, leads[i])[1])}
  IN IF LexicallyWithin(dir, path) THEN <<Relative(dir, path)>>
     ELSE IF to = <<>> \/ inside = {} \/ (\E b \in broken : b < Min(inside)) THEN <<>>
     ELSE LET lead == leads[Min(inside)] IN
          <<Relative(to[1], EvalSymlinks(t, lead)[1] \o Relative(lead, path))>>
-----------------------------------------------------------------------------
(* Who renders a file: 0 the target, else the place of a loaded consumer *)

\* A consumer's root is its module's directory, where it names one and none of the target's
\* units has its path.
Rooted(r) == {i \in DOMAIN r.consumers : r.consumers[i].module \notin r.units \union {""}}

\* The deepest root the file is under; the target's where none is, and the consumer given
\* first among those of one depth. A consumer's root wins over the target's where deeper.
OwnerOf(r, file) ==
  LET Root(i) == IF i = 0 THEN r.root ELSE r.consumers[i].root
      holding == {i \in {0} \union Rooted(r) : LexicallyWithin(Root(i), file)}
      deepest == {i \in holding : \A j \in holding : Len(Root(j)) <= Len(Root(i))}
  IN IF holding = {} THEN 0 ELSE Min(deepest)

\* The place of the range holding a position among disjoint ranges in order, 0 for none:
\* the last that begins at or before it, where it ends after.
Enclosing(spans, pos) ==
  LET begun == {i \in DOMAIN spans : spans[i].from <= pos} IN
  IF begun = {} THEN 0
  ELSE LET last == Max(begun) IN
       IF spans[last].from = pos \/ pos < spans[last].to THEN last ELSE 0
=============================================================================
