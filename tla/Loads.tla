------------------------------- MODULE Loads -------------------------------
(***************************************************************************)
(* The configurations a run holds (internal/run/loads.go): each is loaded  *)
(* once, in order, and kept; pressure drops them, and a stage that asks    *)
(* for one again has it loaded again and compared with its first load.     *)
(* The drop runs on the governor's goroutine, the rest on the run's.       *)
(***************************************************************************)
EXTENDS Naturals

CONSTANTS
  N,      \* how many configurations the matrix has
  Tree,   \* what the source tree and the module cache may hold
  NoTree

ASSUME LoadsAssumption == N \in Nat \ {0} /\ NoTree \notin Tree

VARIABLES
  mode,     \* of memory pressure
  tree,     \* what a load reads now
  first,    \* per configuration added, the digest of its first load
  kept,     \* per configuration, the load held, NoTree for none
  locked,   \* whether the run holds the lock
  stage, at, one,  \* where the run stands, the configuration it loads, and its load
  answer    \* what the run was last answered

loadsVars == <<mode, tree, first, kept, locked, stage, at, one, answer>>

P == INSTANCE Pressure

MatrixIndex == 1 .. N
Load == Tree \union {NoTree}
NoAnswer == [config |-> 0, load |-> NoTree]

\* How many configurations were added.
Added == {c \in MatrixIndex : first[c] # NoTree}

LoadsTypeOK ==
  /\ P!TypeOK
  /\ tree \in Tree
  /\ first \in [MatrixIndex -> Load] /\ kept \in [MatrixIndex -> Load]
  /\ locked \in BOOLEAN
  /\ stage \in {"idle", "loading", "compare", "keep", "store", "failed"}
  /\ at \in MatrixIndex /\ one \in Load
  /\ answer \in [config: MatrixIndex, load: Tree] \union {NoAnswer}

LoadsInit ==
  /\ P!Init
  /\ tree \in Tree
  /\ first = [c \in MatrixIndex |-> NoTree] /\ kept = [c \in MatrixIndex |-> NoTree]
  /\ locked = FALSE
  /\ stage = "idle" /\ at = 1 /\ one = NoTree
  /\ answer = NoAnswer

clear(cache) == [c \in MatrixIndex |-> NoTree]
-----------------------------------------------------------------------------
(* The run. *)

\* Bug: the lock is held while the configuration is loaded.
LockedLoadFirst ==
  /\ stage = "idle" /\ Added # MatrixIndex /\ ~locked
  /\ \E c \in MatrixIndex \ Added : at' = c /\ \A d \in MatrixIndex \ Added : c <= d
  /\ locked' = TRUE
  /\ stage' = "loading"
  /\ UNCHANGED <<mode, tree, first, kept, one, answer>>

\* The next configuration's first load begins, in the matrix's order.
LoadFirst ==
  /\ stage = "idle" /\ Added # MatrixIndex
  /\ \E c \in MatrixIndex \ Added : at' = c /\ \A d \in MatrixIndex \ Added : c <= d
  /\ stage' = "loading"
  /\ UNCHANGED <<mode, tree, first, kept, locked, one, answer>>

\* A later stage asks for a configuration: it is answered under the lock where it is
\* held, and loaded again outside the lock otherwise.
At(c) ==
  /\ stage = "idle" /\ Added = MatrixIndex
  /\ ~locked
  /\ at' = c
  /\ IF kept[c] # NoTree THEN /\ answer' = [config |-> c, load |-> kept[c]]
                            /\ UNCHANGED stage
                       ELSE stage' = "loading" /\ UNCHANGED answer
  /\ UNCHANGED <<mode, tree, first, kept, locked, one>>

\* The load returns what it read, or fails.
LoadReturns ==
  /\ stage = "loading"
  /\ \/ one' = tree /\ stage' = "compare"
     \/ one' = NoTree /\ stage' = "failed"
  /\ UNCHANGED <<mode, tree, first, kept, locked, at, answer>>

\* Bug: a second load is not compared.
BlindCompare ==
  /\ stage = "compare"
  /\ stage' = "keep"
  /\ UNCHANGED <<mode, tree, first, kept, locked, at, one, answer>>

\* A second load that differs from the first ends the run.
Compare ==
  /\ stage = "compare"
  /\ stage' = IF first[at] \in {NoTree, one} THEN "keep" ELSE "failed"
  /\ UNCHANGED <<mode, tree, first, kept, locked, at, one, answer>>

\* Bug: what is held stays under pressure.
HoardingKeep ==
  /\ stage = "keep" /\ ~locked
  /\ locked' = TRUE
  /\ stage' = "store"
  /\ UNCHANGED <<mode, tree, first, kept, at, one, answer>>

\* keep takes the lock and, under pressure, forgets every other configuration.
Keep ==
  /\ stage = "keep" /\ ~locked
  /\ locked' = TRUE
  /\ kept' = IF P!Pressed THEN clear(kept) ELSE kept
  /\ stage' = "store"
  /\ UNCHANGED <<mode, tree, first, at, one, answer>>

\* It then holds the one loaded, and releases the lock; a first load's digest is what
\* every later one is compared with.
Store ==
  /\ stage = "store"
  /\ kept' = [kept EXCEPT ![at] = one]
  /\ first' = [first EXCEPT ![at] = IF @ = NoTree THEN one ELSE @]
  /\ locked' = FALSE
  /\ answer' = [config |-> at, load |-> one]
  /\ one' = NoTree /\ stage' = "idle"
  /\ UNCHANGED <<mode, tree, at>>

-----------------------------------------------------------------------------
(* The rest of the process. *)

\* Pressure begins: the flag is set before any cache is shed.
Begin == P!Begin /\ UNCHANGED <<tree, first, kept, locked, stage, at, one, answer>>

\* The governor sheds the configurations, once it has the lock.
drop ==
  /\ ~locked
  /\ P!Shed
  /\ kept' = clear(kept)
  /\ UNCHANGED <<tree, first, locked, stage, at, one, answer>>

\* Pressure settles, ends, or the run is ended or over.
Govern ==
  /\ P!Settle \/ P!Relief \/ P!End \/ P!Stop
  /\ UNCHANGED <<tree, first, kept, locked, stage, at, one, answer>>

\* Somebody edits the tree.
Edit ==
  /\ tree' \in Tree
  /\ UNCHANGED <<mode, first, kept, locked, stage, at, one, answer>>

Run == LoadFirst \/ (\E c \in MatrixIndex : At(c)) \/ LoadReturns \/ Compare \/ Keep \/ Store

LoadsNext == Run \/ Begin \/ drop \/ Govern \/ Edit

LoadsSpec == LoadsInit /\ [][LoadsNext]_loadsVars

(***************************************************************************)
(* The goroutines are scheduled and a freed lock is taken, but nothing is  *)
(* assumed of how long a load takes: LoadReturns has no fairness.          *)
(***************************************************************************)
LoadsFairSpec ==
  /\ LoadsSpec
  /\ WF_loadsVars(Compare) /\ SF_loadsVars(Keep) /\ WF_loadsVars(Store) /\ SF_loadsVars(drop)
-----------------------------------------------------------------------------
(* Properties *)

Loaded == {c \in MatrixIndex : kept[c] # NoTree}

\* Once pressure shed the configurations, and until it ends, at most one is held: the
\* one last handed out, whichever load was under way when it began ("a run that does
\* not fit with every configuration held runs with one at a time").
OneUnderPressure ==
  mode \in {"fresh", "under", "ended"} => \A c, d \in Loaded : c = d

\* Every configuration held, and every one a stage was answered, is what its first load
\* read, though the tree changed and pressure dropped it in between: every answer the
\* run kept names the first load's declarations.
SameAsFirst ==
  /\ \A c \in Loaded : kept[c] = first[c]
  /\ answer # NoAnswer => answer.load = first[answer.config]

\* Outside pressure a configuration once held stays held, so no stage loads it again.
KeptOutsidePressure ==
  [][\A c \in Loaded : ~P!Pressed => kept'[c] = kept[c]]_loadsVars

\* Shedding never waits for a load, however long one takes.
ShedNeverWaits == mode = "shedding" ~> mode # "shedding"
=============================================================================
