------------------------------ MODULE Checker ------------------------------
(***************************************************************************)
(* The concurrent type checker of a matrix's loads (internal/load/         *)
(* check.go). Each package is checked on a goroutine of its own once its   *)
(* imports are, the files of a package in parallel; a file of a package    *)
(* checked whole is parsed once per matrix and a dependency compiling the  *)
(* same files over the same imports is checked once per matrix. Every      *)
(* parse and check takes a slot, and under memory pressure one slot of the *)
(* process too.                                                            *)
(***************************************************************************)
EXTENDS Naturals, FiniteSets

CONSTANTS
  Package, File,
  Imports,   \* per package, the packages it imports
  Files,     \* per package, the files it compiles
  Content,   \* per package, what else decides a check of its declarations
  Main,      \* the packages of the main module
  Faults,    \* the sets of packages whose listing may carry an error
  Slots,     \* how many parses and checks run at once
  Loads,     \* how many configurations are loaded
  None

ASSUME CheckerAssumption ==
  /\ Slots \in Nat \ {0} /\ Loads \in Nat \ {0}
  /\ IsFiniteSet(Package)
  /\ Imports \in [Package -> SUBSET Package]
  /\ Files \in [Package -> SUBSET File]
  /\ Main \subseteq Package
  /\ Faults \subseteq SUBSET Package

\* A package of the main module is checked whole, and every package importing one.
Whole == {p \in Package :
  \E path \in SUBSET Package :
    /\ p \in path /\ path \intersect Main # {}
    /\ \A q \in path : q \in Main \/ Imports[q] \intersect path # {}}

Importers(p) == {q \in Package : p \in Imports[q]}

\* A task takes a slot: the parse of one file for a package, or (None) its check.
Task == UNION {{p} \X (Files[p] \union {None}) : p \in Package}
Parses(p) == {p} \X Files[p]
Check(p) == <<p, None>>
Share == {t \in Task : t[1] \in Whole /\ t[2] # None}

VARIABLES
  faulty,    \* the packages whose listing carries an error
  load,      \* the load under way
  answer,    \* what the loads answered
  cancelled, \* whether the run was ended
  pressed,   \* whether memory pressure is on
  pending,   \* per package, how many of its imports are not checked yet
  told,      \* per package, the importers that know it is checked
  pc, types, \* per package, where its goroutine stands and the types it has
  task,      \* per task, where it stands
  slot,      \* the task holding the slot of the process
  tree,      \* per task of Share, the tree it has
  files,     \* per file, the tree the cache holds
  parsed,    \* the trees that are there
  decls,     \* the declarations-only checks the cache holds, by key
  ids,       \* the types a later key may name
  ready,     \* the checks whose result is there
  complete   \* the types a check completed

memo == <<files, parsed, decls, ids, ready, complete>>
vars == <<faulty, load, answer, cancelled, pressed, pending, told, pc, types, task, slot, tree, memo>>

\* Types and trees are named by the load and the package that made them.
Types == (1 .. Loads) \X Package
Tree == (1 .. Loads) \X Task
ASSUME NoneAssumption == None \notin File \union Task \union Types \union Tree

own(p) == <<load, p>>

\* What decides a check for declarations: the shared check of every import included.
keyOf(p) == <<Content[p], Files[p], {types[i] : i \in Imports[p]}>>
Held(p) == {d \in decls : d.key = keyOf(p)}

Busy == {t \in Task : task[t] \in {"look", "mutex", "work"}}
Working == {t \in Task : task[t] = "work"}

TypeOK ==
  /\ faulty \in Faults
  /\ load \in 1 .. Loads
  /\ answer \in {"running", "loaded", "cancelled"}
  /\ cancelled \in BOOLEAN /\ pressed \in BOOLEAN
  /\ pending \in [Package -> 0 .. Cardinality(Package)]
  /\ told \in [Package -> SUBSET Package]
  /\ \A p \in Package : told[p] \subseteq Importers(p)
  /\ pc \in [Package -> {"waiting", "started", "key", "claim", "follow", "one", "parse",
                         "check", "publish", "close", "finish"}]
  /\ types \in [Package -> Types \union {None}]
  /\ task \in [Task -> {"none", "claim", "wait", "cpu", "look", "mutex", "work", "done"}]
  /\ slot \in Task \union {None}
  /\ tree \in [Share -> Tree \union {None}] /\ files \in [File -> Tree \union {None}]
  /\ parsed \subseteq Tree
  /\ \A d \in decls : d.types \in Types
  /\ ids \subseteq Types /\ ready \subseteq Types /\ complete \subseteq Types

\* schedule: the imports to wait for, and where each goroutine starts.
Counts == [p \in Package |-> Cardinality(Imports[p])]
Starts == [p \in Package |-> IF Imports[p] = {} THEN "started" ELSE "waiting"]
Nobody == [p \in Package |-> {}]
NoTypes == [p \in Package |-> None]
NoTask == [t \in Task |-> "none"]
NoTree == [t \in Share |-> None]

Init ==
  /\ faulty \in Faults
  /\ load = 1 /\ answer = "running" /\ cancelled = FALSE
  /\ pressed \in BOOLEAN
  /\ slot = None
  /\ pending = Counts /\ told = Nobody /\ pc = Starts
  /\ types = NoTypes /\ task = NoTask /\ tree = NoTree
  /\ files = [f \in File |-> None] /\ parsed = {}
  /\ decls = {} /\ ids = {} /\ ready = {} /\ complete = {}

Goto(p, place) == pc' = [pc EXCEPT ![p] = place]
Move(t, place) == task' = [task EXCEPT ![t] = place]
-----------------------------------------------------------------------------
(* The goroutine of a package: check, checkShared and checkOne *)

Begin(p) ==
  /\ pc[p] = "started"
  /\ Goto(p, IF p \in Whole THEN "one" ELSE "key")
  /\ UNCHANGED <<faulty, load, answer, cancelled, pressed, pending, told, types, task, slot, tree, memo>>

\* A check is shared only where p lists no error and every import's check was shared.
Shareable(p) == p \notin faulty /\ \A i \in Imports[p] : types[i] \in ids

declarationKey(p) ==
  /\ pc[p] = "key"
  /\ Goto(p, IF Shareable(p) THEN "claim" ELSE "one")
  /\ UNCHANGED <<faulty, load, answer, cancelled, pressed, pending, told, types, task, slot, tree, memo>>

\* Bug: two goroutines may both find a key unclaimed.
TwiceClaim(p) ==
  /\ pc[p] = "claim"
  /\ Goto(p, "one")
  /\ decls' = decls \union {[key |-> keyOf(p), types |-> own(p)]}
  /\ UNCHANGED <<faulty, load, answer, cancelled, pressed, pending, told, types, task, slot,
                 tree, files, parsed, ids, ready, complete>>

\* Whoever claims a key first checks it, the others wait for that check.
Claim(p) ==
  /\ pc[p] = "claim"
  /\ IF Held(p) # {}
       THEN Goto(p, "follow") /\ UNCHANGED decls
       ELSE /\ Goto(p, "one")
            /\ decls' = decls \union {[key |-> keyOf(p), types |-> own(p)]}
  /\ UNCHANGED <<faulty, load, answer, cancelled, pressed, pending, told, types, task, slot, tree,
                 files, parsed, ids, ready, complete>>

Follow(p) ==
  /\ pc[p] = "follow"
  /\ \E d \in Held(p) :
       /\ d.types \in ready
       /\ types' = [types EXCEPT ![p] = d.types]
  /\ Goto(p, "finish")
  /\ UNCHANGED <<faulty, load, answer, cancelled, pressed, pending, told, task, slot, tree, memo>>

\* Where a check of p ends: one others may share is published before anything else.
After(p) == IF own(p) \in {d.types : d \in decls} THEN "publish" ELSE "finish"

\* A run already ended checks nothing; otherwise every file is parsed at once.
checkOne(p) ==
  /\ pc[p] = "one"
  /\ types' = [types EXCEPT ![p] = own(p)]
  /\ Goto(p, IF cancelled THEN After(p) ELSE "parse")
  /\ task' = [t \in Task |-> IF cancelled \/ t \notin Parses(p) THEN task[t]
                             ELSE IF t \in Share THEN "claim" ELSE "cpu"]
  /\ UNCHANGED <<faulty, load, answer, cancelled, pressed, pending, told, slot, tree, memo>>

Parsed(p) ==
  /\ pc[p] = "parse"
  /\ \A t \in Parses(p) : task[t] = "done"
  /\ Goto(p, "check") /\ Move(Check(p), "cpu")
  /\ UNCHANGED <<faulty, load, answer, cancelled, pressed, pending, told, types, slot, tree, memo>>

Checked(p) ==
  /\ pc[p] = "check" /\ task[Check(p)] = "done"
  /\ complete' = complete \union {own(p)}
  /\ Goto(p, After(p))
  /\ UNCHANGED <<faulty, load, answer, cancelled, pressed, pending, told, types, task, slot, tree,
                 files, parsed, decls, ids, ready>>

\* Bug: whoever waits for the check is never told.
SilentPublish(p) ==
  /\ pc[p] = "publish"
  /\ ids' = ids \union {own(p)}
  /\ Goto(p, "finish")
  /\ UNCHANGED <<faulty, load, answer, cancelled, pressed, pending, told, types, task, slot,
                 tree, files, parsed, decls, ready, complete>>

\* A shared check is named for later keys, then given to whoever waits for it.
Publish(p) ==
  /\ pc[p] = "publish"
  /\ ids' = ids \union {own(p)}
  /\ Goto(p, "close")
  /\ UNCHANGED <<faulty, load, answer, cancelled, pressed, pending, told, types, task, slot, tree,
                 files, parsed, decls, ready, complete>>

Close(p) ==
  /\ pc[p] = "close"
  /\ ready' = ready \union {own(p)}
  /\ Goto(p, "finish")
  /\ UNCHANGED <<faulty, load, answer, cancelled, pressed, pending, told, types, task, slot, tree,
                 files, parsed, decls, ids, complete>>

\* Bug: an importer starts at its first import.
EagerTell(p, q) ==
  /\ pc[p] = "finish" /\ q \in Importers(p) \ told[p]
  /\ told' = [told EXCEPT ![p] = @ \union {q}]
  /\ pending' = [pending EXCEPT ![q] = @ - 1]
  /\ pc' = IF pc[q] = "waiting" THEN [pc EXCEPT ![q] = "started"] ELSE pc
  /\ UNCHANGED <<faulty, load, answer, cancelled, pressed, types, task, slot, tree, memo>>

\* Each importer is told in turn, and starts when its last import is checked.
Tell(p, q) ==
  /\ pc[p] = "finish" /\ q \in Importers(p) \ told[p]
  /\ told' = [told EXCEPT ![p] = @ \union {q}]
  /\ pending' = [pending EXCEPT ![q] = @ - 1]
  /\ pc' = IF pending[q] = 1 THEN [pc EXCEPT ![q] = "started"] ELSE pc
  /\ UNCHANGED <<faulty, load, answer, cancelled, pressed, types, task, slot, tree, memo>>
-----------------------------------------------------------------------------
(* The goroutine of a task: parse, parseOnce and acquire *)

\* The first task to ask for a file's tree parses it, the others wait for it, holding
\* no slot.
ClaimTree(t) ==
  /\ task[t] = "claim"
  /\ IF files[t[2]] # None
       THEN Move(t, "wait") /\ UNCHANGED <<tree, files>>
       ELSE /\ Move(t, "cpu")
            /\ tree' = [tree EXCEPT ![t] = <<load, t>>]
            /\ files' = [files EXCEPT ![t[2]] = <<load, t>>]
  /\ UNCHANGED <<faulty, load, answer, cancelled, pressed, pending, told, pc, types, slot,
                 parsed, decls, ids, ready, complete>>

TakeTree(t) ==
  /\ task[t] = "wait" /\ files[t[2]] \in parsed
  /\ tree' = [tree EXCEPT ![t] = files[t[2]]]
  /\ Move(t, "done")
  /\ UNCHANGED <<faulty, load, answer, cancelled, pressed, pending, told, pc, types, slot, memo>>

\* acquire: a slot of the checker first, then under pressure the process's.
TakeSlot(t) ==
  /\ task[t] = "cpu" /\ Cardinality(Busy) < Slots
  /\ Move(t, "look")
  /\ UNCHANGED <<faulty, load, answer, cancelled, pressed, pending, told, pc, types, slot, tree, memo>>

\* Bug: the flag is not looked at.
BlindLook(t) ==
  /\ task[t] = "look"
  /\ Move(t, "work")
  /\ UNCHANGED <<faulty, load, answer, cancelled, pressed, pending, told, pc, types, slot,
                 tree, memo>>

Look(t) ==
  /\ task[t] = "look"
  /\ Move(t, IF pressed THEN "mutex" ELSE "work")
  /\ UNCHANGED <<faulty, load, answer, cancelled, pressed, pending, told, pc, types, slot, tree, memo>>

LockSlot(t) ==
  /\ task[t] = "mutex" /\ slot = None
  /\ slot' = t
  /\ Move(t, "work")
  /\ UNCHANGED <<faulty, load, answer, cancelled, pressed, pending, told, pc, types, tree, memo>>

\* The work ends and gives back what it took; a tree others may want is there.
Release(t) ==
  /\ task[t] = "work"
  /\ slot' = IF slot = t THEN None ELSE slot
  /\ Move(t, "done")
  /\ parsed' = IF t \in Share THEN parsed \union {tree[t]} ELSE parsed
  /\ UNCHANGED <<faulty, load, answer, cancelled, pressed, pending, told, pc, types, tree,
                 files, decls, ids, ready, complete>>
-----------------------------------------------------------------------------
(* The load *)

AllDone == \A p \in Package : pc[p] = "finish" /\ told[p] = Importers(p)

\* Bug: a run ended while it checked answers the load.
DeafLoadEnds ==
  /\ answer = "running" /\ AllDone
  /\ IF load = Loads
       THEN /\ answer' = "loaded"
            /\ UNCHANGED <<load, pending, told, pc, types, task, tree>>
       ELSE /\ load' = load + 1
            /\ pending' = Counts /\ told' = Nobody /\ pc' = Starts
            /\ types' = NoTypes /\ task' = NoTask /\ tree' = NoTree
            /\ UNCHANGED answer
  /\ UNCHANGED <<faulty, cancelled, pressed, slot, memo>>

\* Every goroutine ended: a run that was ended answers so, another loads the next.
LoadEnds ==
  /\ answer = "running" /\ AllDone
  /\ IF cancelled \/ load = Loads
       THEN /\ answer' = IF cancelled THEN "cancelled" ELSE "loaded"
            /\ UNCHANGED <<faulty, load, pending, told, pc, types, task, tree>>
       ELSE /\ load' = load + 1
            /\ pending' = Counts /\ told' = Nobody /\ pc' = Starts
            /\ types' = NoTypes /\ task' = NoTask /\ tree' = NoTree
            /\ UNCHANGED answer
  /\ UNCHANGED <<faulty, cancelled, pressed, slot, memo>>

Cancel ==
  /\ answer = "running" /\ ~cancelled
  /\ cancelled' = TRUE
  /\ UNCHANGED <<faulty, load, answer, pressed, pending, told, pc, types, task, slot, tree, memo>>

\* The governor's flag changes under the checker at any time.
Govern ==
  /\ answer = "running"
  /\ pressed' = ~pressed
  /\ UNCHANGED <<faulty, load, answer, cancelled, pending, told, pc, types, task, slot, tree, memo>>

Goroutine(p) ==
  \/ Begin(p) \/ declarationKey(p) \/ Claim(p) \/ Follow(p) \/ checkOne(p)
  \/ Parsed(p) \/ Checked(p) \/ Publish(p) \/ Close(p)
  \/ \E q \in Package : Tell(p, q)

\* What goes on whatever the rest of the process does.
Step ==
  \/ \E p \in Package : Goroutine(p)
  \/ \E t \in Share : ClaimTree(t) \/ TakeTree(t)
  \/ \E t \in Task : TakeSlot(t) \/ Look(t) \/ LockSlot(t) \/ Release(t)
  \/ LoadEnds

Next == Step \/ Cancel \/ Govern

Spec == Init /\ [][Next]_vars

\* While a goroutine can go on, one does.
FairSpec == Spec /\ WF_vars(Step)
-----------------------------------------------------------------------------
(* Properties *)

\* A package is checked only once every import has complete types, a shared one's
\* included, unless the run was ended: the checker's importer never misses one.
ImportsFirst ==
  \A p \in Package : task[Check(p)] = "work" /\ ~cancelled =>
    \A i \in Imports[p] : types[i] \in complete

\* One file is one tree however many packages and configurations compile it, so that one
\* source site is one position; and dependencies compiling the same files over the same
\* imports have the same types, all the way up: no two packages of one load disagree on
\* the identity of a type.
CheckedOnce ==
  /\ \A t, u \in Share : t[2] = u[2] /\ None \notin {tree[t], tree[u]} => tree[t] = tree[u]
  /\ \A p, q \in Package \ Whole :
       /\ pc[p] = "finish" /\ Shareable(p)
       /\ pc[q] = "finish" /\ Shareable(q)
       /\ keyOf(p) = keyOf(q)
       => types[p] = types[q]

\* A matrix answers loads only where every package of the load is completely checked.
AnsweredComplete ==
  answer = "loaded" => \A p \in Package : types[p] \in complete

\* Every load ends: nothing waits for a slot, a tree, a check or an import for ever.
EveryLoadEnds == <>(answer # "running")

\* While pressure is on, no work begins but the one that has the slot of the process,
\* however many slots the checker has: once the work under way when pressure began is
\* over, one parse or check runs at a time (the comments on `Pressed' and `acquire').
OneMoreUnderPressure ==
  [][pressed => Working' \ {slot'} \subseteq Working \ {slot}]_vars

\* A load answered is complete, package by package and import by import.
LoadsComplete == ImportsFirst /\ AnsweredComplete
=============================================================================
