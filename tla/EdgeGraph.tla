----------------------------- MODULE EdgeGraph -----------------------------
(***************************************************************************)
(* The graph one reachability pass of the sweep walks, and what seeds it:  *)
(* internal/liveness/graph.go and the policy internal/liveness/sweep.go    *)
(* compiles into it.  A symbol is a declaration of the inventory.  An edge *)
(* is a reference the symbol makes, or a use an exemption states by its    *)
(* holder (`held'); an edge may wait on a gate, the holders that must all  *)
(* be reached before it is followed.                                       *)
(***************************************************************************)
EXTENDS Sequences, Functions

CONSTANT Symbol

Edge == [to: Symbol, gate: SUBSET Symbol, test: BOOLEAN, held: BOOLEAN]

(***************************************************************************)
(* A root by its kind: a published declaration, a test entry point, a      *)
(* blank declaration an exemption's holder answers for ("yielded"), or any *)
(* other entry point.                                                      *)
(***************************************************************************)
Root == [at: Symbol, kind: {"published", "test", "yielded", "entry"}]

(***************************************************************************)
(* What one pass is given: the edges, the roots, the symbols a loaded      *)
(* consumer references in a way the mode counts, the exemptions without a  *)
(* holder and the marks, the mode, and whether the exemptions count and    *)
(* the yielded roots seed.                                                 *)
(***************************************************************************)
PassInput ==
  [out: [Symbol -> Seq(Edge)], rooted: SUBSET Root, consumed: SUBSET Symbol,
   exempt: SUBSET Symbol, marked: SUBSET Symbol,
   production: BOOLEAN, exemptions: BOOLEAN, yielded: BOOLEAN]

\* The symbols the exemptions and the marks seed.
HeldSeeds(in) == (IF in.exemptions THEN in.exempt ELSE {}) \union in.marked

\* The symbols the roots and the consumers seed under the mode.
CallerSeeds(in) ==
  {r.at : r \in {r \in in.rooted : /\ in.production => r.kind # "test"
                                   /\ r.kind = "yielded" => in.yielded}}
    \union in.consumed

\* The roots that are live though the pass may not have seeded them: a test
\* entry point still runs under a production mode.
CalledRoots(in) ==
  {r.at : r \in {r \in in.rooted : IF r.kind = "yielded" THEN in.yielded
                                                         ELSE r.kind # "published"}}
    \union (in.consumed \intersect {r.at : r \in in.rooted})

\* The edges the closure over the held seeds follows, gates aside.
HeldFollows(in, e) == e.held => in.exemptions

\* The edges the closure over the callers follows: a production mode skips what a
\* test file makes.
CallerFollows(in, e) == HeldFollows(in, e) /\ (in.production => ~e.test)

Open(gate, reached) == gate \subseteq reached

\* Every holder of a gate has an edge of its own to the same target waiting on it,
\* and no holder's edge is a test file's where another's is not and the mode skips
\* the test files': a record one of whose sites a test file holds is test evidence
\* under a production mode, and never an edge.
GateHolders(in) ==
  \A a \in Symbol : \A e \in Range(in.out[a]) : \A h \in e.gate :
    \E f \in Range(in.out[h]) :
      /\ f.to = e.to /\ f.gate = e.gate /\ f.held = e.held
      /\ in.production => (f.test => e.test)
-----------------------------------------------------------------------------
\* What a pass answers, whatever order it follows edges in: the least set of symbols
\* each rule closes.
HeldClosed(i, S) ==
  /\ HeldSeeds(i) \subseteq S
  /\ \A a \in S : \A e \in Range(i.out[a]) :
       HeldFollows(i, e) /\ Open(e.gate, S) => e.to \in S

HeldSet(i) == {s \in Symbol : \A S \in SUBSET Symbol : HeldClosed(i, S) => s \in S}

CallersClosed(i, S) ==
  /\ HeldSet(i) \union CallerSeeds(i) \subseteq S
  /\ \A a \in S : \A e \in Range(i.out[a]) :
       CallerFollows(i, e) /\ Open(e.gate, S) => e.to \in S

CallersSet(i) == {s \in Symbol : \A S \in SUBSET Symbol : CallersClosed(i, S) => s \in S}

Answer(i) == CallersSet(i) \union CalledRoots(i)
=============================================================================
