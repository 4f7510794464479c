---------------------------- MODULE Reachability ----------------------------
(***************************************************************************)
(* What one reachability pass promises, whatever order it follows edges    *)
(* in: first exactly the symbols the held seeds hold, then what the        *)
(* callers reach on top of them, then the called roots, and no symbol for  *)
(* any other reason.                                                       *)
(***************************************************************************)
EXTENDS EdgeGraph

CONSTANT Inputs

VARIABLES in, marked, stage

vars == <<in, marked, stage>>

Stage == {"held", "callers", "called", "done"}

TypeOK ==
  /\ in \in Inputs
  /\ marked \in SUBSET Symbol
  /\ stage \in Stage

\* Why the first stage may mark s: a held seed names it, or an edge from a marked
\* symbol does.
Held(s) ==
  \/ s \in HeldSeeds(in)
  \/ \E a \in marked : \E e \in Range(in.out[a]) :
       e.to = s /\ HeldFollows(in, e) /\ Open(e.gate, marked)

\* Why the second stage may.
Called(s) ==
  \/ s \in CallerSeeds(in)
  \/ \E a \in marked : \E e \in Range(in.out[a]) :
       e.to = s /\ CallerFollows(in, e) /\ Open(e.gate, marked)

Init == in \in Inputs /\ marked = {} /\ stage = "held"

MarkHeld ==
  /\ stage = "held"
  /\ \E s \in Symbol \ marked : Held(s) /\ marked' = marked \union {s}
  /\ UNCHANGED <<in, stage>>

EndHeld ==
  /\ stage = "held"
  /\ \A s \in Symbol : Held(s) => s \in marked
  /\ stage' = "callers"
  /\ UNCHANGED <<in, marked>>

MarkCalled ==
  /\ stage = "callers"
  /\ \E s \in Symbol \ marked : Called(s) /\ marked' = marked \union {s}
  /\ UNCHANGED <<in, stage>>

EndCallers ==
  /\ stage = "callers"
  /\ \A s \in Symbol : Called(s) => s \in marked
  /\ stage' = "called"
  /\ UNCHANGED <<in, marked>>

MarkRoot ==
  /\ stage = "called"
  /\ \E s \in CalledRoots(in) \ marked : marked' = marked \union {s}
  /\ UNCHANGED <<in, stage>>

End ==
  /\ stage = "called"
  /\ CalledRoots(in) \subseteq marked
  /\ stage' = "done"
  /\ UNCHANGED <<in, marked>>

Next == MarkHeld \/ EndHeld \/ MarkCalled \/ EndCallers \/ MarkRoot \/ End

Spec == Init /\ [][Next]_vars

-----------------------------------------------------------------------------
\* A finished pass answers one set, a function of what it was given: two passes over
\* one graph agree however their seeds and edges were ordered.
OneAnswer == stage = "done" => marked = Answer(in)
=============================================================================
