-------------------------------- MODULE Pass --------------------------------
(***************************************************************************)
(* One reachability pass of the sweep (internal/liveness/tier.go, `pass'   *)
(* and `closure'): a breadth first closure over the held seeds under the   *)
(* wider rule, then one over the callers under the mode's rule, then the   *)
(* called roots, each reached but never expanded.  The queue is examined   *)
(* one symbol at a time and one edge at a time, and an edge refused        *)
(* because its gate is shut is never examined again.                       *)
(***************************************************************************)
EXTENDS EdgeGraph, Naturals, FiniteSets

CONSTANTS Inputs, None

ASSUME InputsAssumption ==
  /\ Inputs \subseteq PassInput
  /\ \A in \in Inputs : GateHolders(in)

ASSUME NoneAssumption == None \notin Symbol

VARIABLES
  in,       \* what the pass is given; constant
  reached,
  queue,    \* the symbols reached in this closure, in order
  head,     \* the place in the queue of the symbol being expanded
  hop,      \* the place among its edges of the next one examined
  from,     \* the symbol each was reached from, None for a seed
  phase

vars == <<in, reached, queue, head, hop, from, phase>>

Phase == {"heldSeeds", "held", "callerSeeds", "callers", "called", "done"}

TypeOK ==
  /\ in \in Inputs
  /\ reached \in SUBSET Symbol
  /\ queue \in Seq(reached)
  /\ head \in 1 .. Len(queue) + 1
  /\ hop \in Nat \ {0}
  /\ from \in [Symbol -> reached \union {None}]
  /\ phase \in Phase

Init ==
  /\ in \in Inputs
  /\ reached = {}
  /\ queue = <<>> /\ head = 1 /\ hop = 1
  /\ from = [s \in Symbol |-> None]
  /\ phase = "heldSeeds"

(***************************************************************************)
(* The order the seeds enter the queue is the inventory's and the roots':  *)
(* any order here.                                                         *)
(***************************************************************************)
Seed(s) ==
  /\ reached' = reached \union {s}
  /\ queue' = Append(queue, s)
  /\ UNCHANGED <<in, head, hop, from, phase>>

SeedHeld ==
  /\ phase = "heldSeeds"
  /\ \E s \in HeldSeeds(in) \ reached : Seed(s)

StartHeld ==
  /\ phase = "heldSeeds"
  /\ HeldSeeds(in) \subseteq reached
  /\ phase' = "held"
  /\ UNCHANGED <<in, reached, queue, head, hop, from>>

SeedCaller ==
  /\ phase = "callerSeeds"
  /\ \E s \in CallerSeeds(in) \ reached : Seed(s)

StartCallers ==
  /\ phase = "callerSeeds"
  /\ CallerSeeds(in) \subseteq reached
  /\ phase' = "callers"
  /\ UNCHANGED <<in, reached, queue, head, hop, from>>

-----------------------------------------------------------------------------
(* closure *)

Expanding == phase \in {"held", "callers"} /\ head <= Len(queue)

At == queue[head]

\* Whether the closure that runs follows the edge, its gate aside.
Follows(e) == IF phase = "held" THEN HeldFollows(in, e) ELSE CallerFollows(in, e)

\* Bugs: the gate is looked for in this closure's queue alone; a reached symbol is
\* reached again.
QueuedReaches(e) == e.to \notin reached /\ Follows(e) /\ Open(e.gate, Range(queue))
AgainReaches(e) == Follows(e) /\ Open(e.gate, reached)

\* Whether the edge takes the closure to a symbol it has not reached.
Reaches(e) == e.to \notin reached /\ Follows(e) /\ Open(e.gate, reached)

FollowEdge ==
  /\ Expanding
  /\ hop <= Len(in.out[At])
  /\ LET e == in.out[At][hop] IN
       /\ Reaches(e)
       /\ reached' = reached \union {e.to}
       /\ queue' = Append(queue, e.to)
       /\ from' = [from EXCEPT ![e.to] = At]
  /\ hop' = hop + 1
  /\ UNCHANGED <<in, head, phase>>

\* Bug: an edge skipped is examined again.
StuckSkipEdge ==
  /\ Expanding
  /\ hop <= Len(in.out[At])
  /\ ~Reaches(in.out[At][hop])
  /\ UNCHANGED vars

SkipEdge ==
  /\ Expanding
  /\ hop <= Len(in.out[At])
  /\ ~Reaches(in.out[At][hop])
  /\ hop' = hop + 1
  /\ UNCHANGED <<in, reached, queue, head, from, phase>>

NextSymbol ==
  /\ Expanding
  /\ hop > Len(in.out[At])
  /\ head' = head + 1
  /\ hop' = 1
  /\ UNCHANGED <<in, reached, queue, from, phase>>

EndClosure ==
  /\ phase \in {"held", "callers"}
  /\ head > Len(queue)
  /\ queue' = <<>> /\ head' = 1 /\ hop' = 1
  /\ phase' = IF phase = "held" THEN "callerSeeds" ELSE "called"
  /\ UNCHANGED <<in, reached, from>>

-----------------------------------------------------------------------------
\* A called root the closures left unreached is live all the same: it runs.
ReachRoot ==
  /\ phase = "called"
  /\ \E s \in CalledRoots(in) \ reached : reached' = reached \union {s}
  /\ UNCHANGED <<in, queue, head, hop, from, phase>>

End ==
  /\ phase = "called"
  /\ CalledRoots(in) \subseteq reached
  /\ phase' = "done"
  /\ UNCHANGED <<in, reached, queue, head, hop, from>>

Next ==
  \/ SeedHeld \/ StartHeld \/ SeedCaller \/ StartCallers
  \/ FollowEdge \/ SkipEdge \/ NextSymbol \/ EndClosure
  \/ ReachRoot \/ End

Spec == Init /\ [][Next]_vars

\* The pass is one sequential function: it runs until it returns.
FairSpec == Spec /\ WF_vars(Next)

-----------------------------------------------------------------------------
(* Properties *)

Stage ==
  IF phase \in {"heldSeeds", "held"} THEN "held"
  ELSE IF phase \in {"callerSeeds", "callers"} THEN "callers"
  ELSE phase

Abstract == INSTANCE Reachability WITH marked <- reached, stage <- Stage

\* Whatever order the queue expands symbols and examines edges in, the pass ends a
\* closure only when no seed and no open edge adds a symbol: the last holder of a gate
\* the queue expands finds the gate open, though every earlier holder's edge was
\* refused for good (the comment on `closure').
ImplementsReachability == Abstract!Spec

\* The pass answers the same set whatever order the roots, the symbols and the
\* references come in.
OneAnswer == Abstract!OneAnswer

\* The symbol k steps back along `from' from s, None past a seed.
TrailBack[k \in Nat] ==
  [s \in Symbol |-> IF k = 0 THEN s
                    ELSE IF TrailBack[k - 1][s] \in Symbol THEN from[TrailBack[k - 1][s]]
                    ELSE None]

\* `Path' walks `from' back from a reached symbol: the walk ends at a symbol the pass
\* was seeded with, and each hop of it is an edge the pass may follow whose holders are
\* all reached.
PathsEnd ==
  \A s \in reached :
    /\ \E k \in 0 .. Cardinality(reached) - 1 :
         LET first == TrailBack[k][s] IN
           /\ first \in HeldSeeds(in) \union CallerSeeds(in) \union CalledRoots(in)
           /\ from[first] = None
    /\ from[s] # None =>
         \E e \in Range(in.out[from[s]]) :
           e.to = s /\ HeldFollows(in, e) /\ Open(e.gate, reached)

\* A pass over any graph returns.
Terminates == <>(phase = "done")
=============================================================================
