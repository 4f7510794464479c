---------------------------- MODULE Pass_proofs ----------------------------
(***************************************************************************)
(* The breadth first pass implements the abstract one: an edge refused at  *)
(* a shut gate is made good by the gate's last holder.                     *)
(***************************************************************************)
EXTENDS Pass, FiniteSetTheorems, WellFoundedInduction, TLAPS

USE DEF Phase

\* The rule the closure of the phase follows, or the next one will.
Rule(e) ==
  IF phase \in {"heldSeeds", "held"} THEN HeldFollows(in, e) ELSE CallerFollows(in, e)

\* A closure has yet to examine an edge to t waiting on the gate that its rule follows.
Pending(t, gate) ==
  \E i \in head .. Len(queue) : \E j \in 1 .. Len(in.out[queue[i]]) :
    /\ i = head => j >= hop
    /\ in.out[queue[i]][j].to = t
    /\ in.out[queue[i]][j].gate = gate
    /\ Rule(in.out[queue[i]][j])

\* Every edge of a reached symbol that is followed and open leads to a reached symbol,
\* or an edge waiting on the same gate is still to be examined.
Complete ==
  phase \in {"heldSeeds", "held", "callerSeeds", "callers"} =>
    \A a \in reached : \A e \in Range(in.out[a]) :
      Rule(e) /\ e.gate \subseteq reached => e.to \in reached \/ Pending(e.to, e.gate)

\* The seeds of a closure are reached before it starts.
Seeded ==
  /\ phase = "held" => HeldSeeds(in) \subseteq reached
  /\ phase = "callers" => CallerSeeds(in) \subseteq reached

\* No symbol is being expanded where the queue is spent.
Fresh == head > Len(queue) => hop = 1

IInv == TypeOK /\ Complete /\ Seeded /\ Fresh
-----------------------------------------------------------------------------
\* What an input gives: its seeds are symbols, its edges are edges to symbols.
LEMMA InputTypes ==
  ASSUME NEW i \in Inputs
  PROVE  /\ HeldSeeds(i) \subseteq Symbol /\ CallerSeeds(i) \subseteq Symbol
         /\ CalledRoots(i) \subseteq Symbol
         /\ \A a \in Symbol : i.out[a] \in Seq(Edge)
         /\ GateHolders(i)
<1>1. i \in PassInput /\ GateHolders(i)
  BY InputsAssumption
<1>2. HeldSeeds(i) \subseteq Symbol
  BY <1>1 DEF HeldSeeds, PassInput
<1>3. CallerSeeds(i) \subseteq Symbol
  BY <1>1 DEF CallerSeeds, PassInput, Root
<1>4. CalledRoots(i) \subseteq Symbol
  BY <1>1 DEF CalledRoots, PassInput, Root
<1>5. \A a \in Symbol : i.out[a] \in Seq(Edge)
  BY <1>1 DEF PassInput
<1> QED
  BY <1>1, <1>2, <1>3, <1>4, <1>5

\* The edges of a symbol are its edges by their places.
LEMMA RangeOfEdges ==
  ASSUME NEW s \in Seq(Edge)
  PROVE  /\ \A j \in 1 .. Len(s) : s[j] \in Range(s) /\ s[j] \in Edge
         /\ \A e \in Range(s) : e \in Edge /\ \E j \in 1 .. Len(s) : e = s[j]
  BY DEF Range

\* The next edge examined is an edge of a reached symbol.
LEMMA Examined ==
  ASSUME TypeOK, head <= Len(queue), hop <= Len(in.out[At])
  PROVE  /\ At \in reached /\ At \in Symbol
         /\ in.out[At][hop] \in Range(in.out[At]) /\ in.out[At][hop] \in Edge
<1>1. At \in reached /\ At \in Symbol
  BY DEF TypeOK, At
<1>2. in.out[At] \in Seq(Edge)
  BY <1>1, InputTypes DEF TypeOK
<1>3. hop \in 1 .. Len(in.out[At])
  BY <1>2 DEF TypeOK
<1> QED
  BY <1>1, <1>2, <1>3, RangeOfEdges

\* What a pass holds is of its type.
LEMMA TypeStep == TypeOK /\ [Next]_vars => TypeOK'
<1> SUFFICES ASSUME TypeOK, [Next]_vars PROVE TypeOK'
  OBVIOUS
<1> in \in Inputs
  BY DEF TypeOK
<1>1. ASSUME NEW s \in Symbol, Seed(s) PROVE TypeOK'
  <2>1. queue' \in Seq(reached') /\ Len(queue') = Len(queue) + 1
    BY <1>1 DEF Seed, TypeOK
  <2> QED
    BY <1>1, <2>1 DEF Seed, TypeOK
<1>2. CASE SeedHeld
  BY <1>1, <1>2, InputTypes DEF SeedHeld
<1>3. CASE SeedCaller
  BY <1>1, <1>3, InputTypes DEF SeedCaller
<1>4. CASE FollowEdge
  <2> DEFINE e == in.out[At][hop]
  <2>1. At \in reached /\ e \in Edge
    BY <1>4, Examined DEF FollowEdge, Expanding
  <2>2. e.to \in Symbol
    BY <2>1 DEF Edge
  <2> HIDE DEF e
  <2>3. reached' = reached \union {e.to} /\ queue' = Append(queue, e.to)
        /\ from' = [from EXCEPT ![e.to] = At] /\ hop' = hop + 1
        /\ UNCHANGED <<in, head, phase>>
    BY <1>4 DEF FollowEdge, e
  <2>4. queue' \in Seq(reached') /\ Len(queue') = Len(queue) + 1
    BY <2>2, <2>3 DEF TypeOK
  <2>5. from' \in [Symbol -> reached' \union {None}]
    BY <2>1, <2>2, <2>3 DEF TypeOK
  <2> QED
    BY <2>2, <2>3, <2>4, <2>5 DEF TypeOK
<1>5. CASE SkipEdge
  BY <1>5 DEF SkipEdge, TypeOK
<1>6. CASE NextSymbol
  BY <1>6 DEF NextSymbol, Expanding, TypeOK
<1>7. CASE EndClosure
  <2>1. <<>> \in Seq(reached) /\ Len(<<>>) = 0
    OBVIOUS
  <2> QED
    BY <1>7, <2>1 DEF EndClosure, TypeOK
<1>8. CASE ReachRoot
  BY <1>8, InputTypes DEF ReachRoot, TypeOK
<1>9. CASE StartHeld \/ StartCallers \/ End \/ UNCHANGED vars
  BY <1>9 DEF StartHeld, StartCallers, End, vars, TypeOK
<1> QED
  BY <1>2, <1>3, <1>4, <1>5, <1>6, <1>7, <1>8, <1>9 DEF Next
-----------------------------------------------------------------------------
\* A co-holder's edge is followed wherever the edge waiting with it is.
LEMMA TwinFollowed ==
  ASSUME TypeOK, NEW a \in Symbol, NEW e \in Range(in.out[a]), Rule(e), NEW h \in e.gate
  PROVE  h \in Symbol /\ \E j \in 1 .. Len(in.out[h]) :
           /\ in.out[h][j].to = e.to /\ in.out[h][j].gate = e.gate
           /\ Rule(in.out[h][j])
<1> in \in Inputs
  BY DEF TypeOK
<1>1. h \in Symbol
  <2>1. e \in Edge
    BY InputTypes, RangeOfEdges
  <2> QED
    BY <2>1 DEF Edge
<1>2. PICK f \in Range(in.out[h]) :
        /\ f.to = e.to /\ f.gate = e.gate /\ f.held = e.held
        /\ in.production => (f.test => e.test)
  BY InputTypes DEF GateHolders
<1>3. Rule(f)
  BY <1>2 DEF Rule, HeldFollows, CallerFollows
<1>4. PICK j \in 1 .. Len(in.out[h]) : f = in.out[h][j]
  BY <1>1, InputTypes, RangeOfEdges
<1> QED
  BY <1>1, <1>2, <1>3, <1>4

\* Reaching one more symbol, at the end of the queue, leaves the closure complete: the
\* symbol's own edges are all still to be examined, those waiting on a gate it opens too.
LEMMA ReachComplete ==
  ASSUME IInv, NEW s \in Symbol, phase' = phase, in' = in, head' = head,
         phase \in {"heldSeeds", "held", "callerSeeds", "callers"},
         reached' = reached \union {s}, queue' = Append(queue, s),
         \/ hop' = hop
         \/ hop' = hop + 1 /\ head <= Len(queue) /\ in.out[At][hop].to = s
  PROVE  Complete'
<1> in \in Inputs
  BY DEF IInv, TypeOK
<1>1. /\ Len(queue') = Len(queue) + 1 /\ queue'[Len(queue) + 1] = s
      /\ \A i \in 1 .. Len(queue) : queue'[i] = queue[i]
      /\ Len(queue) \in Nat /\ head \in 1 .. Len(queue) + 1 /\ hop \in Nat \ {0}
      /\ reached \subseteq Symbol
  BY DEF IInv, TypeOK
<1>2. \A e : Rule(e)' <=> Rule(e)
  BY DEF Rule
<1>3. head = Len(queue) + 1 => hop' = 1
  BY <1>1 DEF IInv, Fresh
<1> SUFFICES ASSUME NEW a \in reached', NEW e \in Range(in.out[a]),
                    Rule(e), e.gate \subseteq reached', e.to \notin reached'
             PROVE  Pending(e.to, e.gate)'
  BY <1>2 DEF Complete
<1>4. ASSUME NEW j \in 1 .. Len(in.out[s]), in.out[s][j].to = e.to,
             in.out[s][j].gate = e.gate, Rule(in.out[s][j])
      PROVE  Pending(e.to, e.gate)'
  <2>1. Len(queue) + 1 = head' => j >= hop'
    BY <1>1, <1>3
  <2>2. Len(queue) + 1 \in head' .. Len(queue')
    BY <1>1
  <2> QED
    BY <1>1, <1>2, <1>4, <2>1, <2>2 DEF Pending
<1>5. CASE a = s
  <2>1. PICK j \in 1 .. Len(in.out[s]) : e = in.out[s][j]
    BY <1>5, InputTypes, RangeOfEdges
  <2> QED
    BY <1>4, <2>1
<1>6. CASE a # s /\ s \in e.gate
  <2>1. a \in Symbol
    BY <1>1
  <2>2. PICK j \in 1 .. Len(in.out[s]) :
          in.out[s][j].to = e.to /\ in.out[s][j].gate = e.gate /\ Rule(in.out[s][j])
    BY <1>6, <2>1, TwinFollowed DEF IInv
  <2> QED
    BY <1>4, <2>2
<1>7. CASE a # s /\ s \notin e.gate
  <2>1. a \in reached /\ e.gate \subseteq reached /\ e.to \notin reached
    BY <1>7
  <2>2. Pending(e.to, e.gate)
    BY <2>1 DEF IInv, Complete
  <2>3. PICK i \in head .. Len(queue) : \E j \in 1 .. Len(in.out[queue[i]]) :
          /\ i = head => j >= hop
          /\ in.out[queue[i]][j].to = e.to
          /\ in.out[queue[i]][j].gate = e.gate
          /\ Rule(in.out[queue[i]][j])
    BY <2>2 DEF Pending
  <2>3b. PICK j \in 1 .. Len(in.out[queue[i]]) :
          /\ i = head => j >= hop
          /\ in.out[queue[i]][j].to = e.to
          /\ in.out[queue[i]][j].gate = e.gate
          /\ Rule(in.out[queue[i]][j])
    BY <2>3
  <2>4. i \in head' .. Len(queue') /\ queue'[i] = queue[i]
    BY <1>1
  <2>5. i = head' => j >= hop'
    <3>1. CASE hop' = hop
      BY <2>3b, <3>1
    <3>2. CASE hop' = hop + 1 /\ in.out[At][hop].to = s
      <4>1. i = head => j # hop
        BY <2>3b, <3>2 DEF At
      <4>2. j \in Nat
        OBVIOUS
      <4> QED
        BY <1>1, <2>3b, <3>2, <4>1, <4>2
    <3> QED
      BY <3>1, <3>2
  <2> QED
    BY <1>2, <2>3b, <2>4, <2>5 DEF Pending
<1> QED
  BY <1>5, <1>6, <1>7
-----------------------------------------------------------------------------
\* A spent queue leaves no edge to examine: the closure is closed.
LEMMA SpentClosed ==
  ASSUME IInv, phase \in {"held", "callers"}, head > Len(queue)
  PROVE  \A a \in reached : \A e \in Range(in.out[a]) :
           Rule(e) /\ e.gate \subseteq reached => e.to \in reached
<1>1. head .. Len(queue) = {}
  BY DEF IInv, TypeOK
<1> QED
  BY <1>1 DEF IInv, Complete, Pending

\* The strengthened invariant is inductive.
LEMMA InvStep == IInv /\ [Next]_vars => IInv'
<1> SUFFICES ASSUME IInv, [Next]_vars PROVE IInv'
  OBVIOUS
<1> in \in Inputs /\ TypeOK
  BY DEF IInv, TypeOK
<1>t. TypeOK'
  BY TypeStep DEF IInv
<1>s. head \in Nat /\ Len(queue) \in Nat /\ hop \in Nat
  BY DEF TypeOK
<1>1. ASSUME NEW s \in Symbol, Seed(s), phase \in {"heldSeeds", "callerSeeds"} PROVE IInv'
  <2>1. Complete'
    BY <1>1, ReachComplete DEF Seed
  <2>2. Seeded'
    BY <1>1 DEF Seed, Seeded
  <2>3. Fresh'
    <3>1. Len(queue') = Len(queue) + 1
      BY <1>1 DEF Seed, TypeOK
    <3> QED
      BY <1>1, <1>s, <3>1 DEF Seed, Fresh, IInv
  <2> QED
    BY <1>t, <2>1, <2>2, <2>3 DEF IInv
<1>2. CASE SeedHeld
  BY <1>1, <1>2, InputTypes DEF SeedHeld
<1>3. CASE SeedCaller
  BY <1>1, <1>3, InputTypes DEF SeedCaller
<1>4. CASE StartHeld
  <2>1. \A e : Rule(e)' <=> Rule(e)
    BY <1>4 DEF StartHeld, Rule
  <2>2. Complete'
    BY <1>4, <2>1 DEF StartHeld, IInv, Complete, Pending
  <2> QED
    BY <1>4, <1>t, <2>2 DEF StartHeld, IInv, Seeded, Fresh
<1>5. CASE StartCallers
  <2>1. \A e : Rule(e)' <=> Rule(e)
    BY <1>5 DEF StartCallers, Rule
  <2>2. Complete'
    BY <1>5, <2>1 DEF StartCallers, IInv, Complete, Pending
  <2> QED
    BY <1>5, <1>t, <2>2 DEF StartCallers, IInv, Seeded, Fresh
<1>6. CASE FollowEdge
  <2> DEFINE e == in.out[At][hop]
  <2>1. e \in Edge
    BY <1>6, Examined DEF FollowEdge, Expanding
  <2>2. e.to \in Symbol
    BY <2>1 DEF Edge
  <2>3. Complete'
    BY <1>6, <2>2, ReachComplete DEF FollowEdge, Expanding
  <2>4. Seeded'
    BY <1>6 DEF FollowEdge, IInv, Seeded
  <2>5. Len(queue') = Len(queue) + 1 /\ head' = head /\ head <= Len(queue)
    BY <1>6, <2>2 DEF FollowEdge, Expanding, TypeOK
  <2> QED
    BY <1>s, <1>t, <2>3, <2>4, <2>5 DEF IInv, Fresh
<1>7. CASE SkipEdge
  <2>1. \A e : (Rule(e)' <=> Rule(e)) /\ (Follows(e) <=> Rule(e))
    BY <1>7 DEF SkipEdge, Expanding, Rule, Follows
  <2>2. Complete'
    <3> SUFFICES ASSUME NEW a \in reached, NEW e \in Range(in.out[a]),
                        Rule(e), e.gate \subseteq reached, e.to \notin reached
                 PROVE  Pending(e.to, e.gate)'
      BY <1>7, <2>1 DEF SkipEdge, Complete
    <3>1. Pending(e.to, e.gate)
      BY <1>7 DEF IInv, Complete, SkipEdge, Expanding
    <3>2. PICK i \in head .. Len(queue) : \E j \in 1 .. Len(in.out[queue[i]]) :
            /\ i = head => j >= hop
            /\ in.out[queue[i]][j].to = e.to
            /\ in.out[queue[i]][j].gate = e.gate
            /\ Rule(in.out[queue[i]][j])
      BY <3>1 DEF Pending
    <3>3. PICK j \in 1 .. Len(in.out[queue[i]]) :
            /\ i = head => j >= hop
            /\ in.out[queue[i]][j].to = e.to
            /\ in.out[queue[i]][j].gate = e.gate
            /\ Rule(in.out[queue[i]][j])
      BY <3>2
    <3>4. ~(i = head /\ j = hop)
      BY <1>7, <2>1, <3>3 DEF SkipEdge, Reaches, Open, At
    <3>5. i = head => j >= hop + 1
      BY <1>s, <3>3, <3>4
    <3> QED
      BY <1>7, <2>1, <3>3, <3>5 DEF SkipEdge, Pending
  <2>3. Seeded'
    BY <1>7 DEF SkipEdge, IInv, Seeded
  <2>4. Fresh'
    BY <1>7, <1>s DEF SkipEdge, Expanding, Fresh
  <2> QED
    BY <1>t, <2>2, <2>3, <2>4 DEF IInv
<1>8. CASE NextSymbol
  <2>1. \A e : Rule(e)' <=> Rule(e)
    BY <1>8 DEF NextSymbol, Rule
  <2>2. ASSUME NEW to, NEW gate, Pending(to, gate) PROVE Pending(to, gate)'
    <3>2. PICK i \in head .. Len(queue) : \E j \in 1 .. Len(in.out[queue[i]]) :
            /\ i = head => j >= hop
            /\ in.out[queue[i]][j].to = to
            /\ in.out[queue[i]][j].gate = gate
            /\ Rule(in.out[queue[i]][j])
      BY <2>2 DEF Pending
    <3>3. PICK j \in 1 .. Len(in.out[queue[i]]) :
            /\ i = head => j >= hop
            /\ in.out[queue[i]][j].to = to
            /\ in.out[queue[i]][j].gate = gate
            /\ Rule(in.out[queue[i]][j])
      BY <3>2
    <3>4. i # head
      <4>1. in.out[At] \in Seq(Edge) /\ hop > Len(in.out[At])
        BY <1>8, InputTypes DEF NextSymbol, Expanding, TypeOK, At
      <4> QED
        BY <1>s, <3>3, <4>1 DEF At
    <3>5. i \in head + 1 .. Len(queue) /\ j >= 1
      BY <1>s, <3>4
    <3> QED
      BY <1>8, <2>1, <3>3, <3>5 DEF NextSymbol, Pending
  <2>3. Complete'
    BY <1>8, <2>1, <2>2 DEF NextSymbol, IInv, Complete
  <2> QED
    BY <1>8, <1>t, <2>3 DEF NextSymbol, IInv, Seeded, Fresh
<1>9. CASE EndClosure
  <2>1. \A a \in reached : \A e \in Range(in.out[a]) :
           Rule(e) /\ e.gate \subseteq reached => e.to \in reached
    BY <1>9, SpentClosed DEF EndClosure
  <2>2. phase = "held" => \A e : Rule(e)' => Rule(e)
    BY <1>9 DEF EndClosure, Rule, CallerFollows
  <2>3. Complete'
    BY <1>9, <2>1, <2>2 DEF EndClosure, Complete
  <2> QED
    BY <1>9, <1>t, <2>3 DEF EndClosure, IInv, Seeded, Fresh
<1>10. CASE ReachRoot
  BY <1>10, <1>t DEF ReachRoot, IInv, Complete, Seeded, Fresh
<1>11. CASE End
  BY <1>11, <1>t DEF End, IInv, Complete, Seeded, Fresh
<1>12. CASE UNCHANGED vars
  BY <1>12, <1>t DEF vars, IInv, Complete, Pending, Rule, Seeded, Fresh
<1> QED
  BY <1>2, <1>3, <1>4, <1>5, <1>6, <1>7, <1>8, <1>9, <1>10, <1>11, <1>12 DEF Next

\* The initial states satisfy it.
LEMMA InvInit == Init => IInv
<1> SUFFICES ASSUME Init PROVE IInv
  OBVIOUS
<1>1. Len(<<>>) = 0 /\ <<>> \in Seq({})
  OBVIOUS
<1> QED
  BY <1>1 DEF Init, IInv, TypeOK, Complete, Seeded, Fresh

\* The type invariant holds in every reachable state of a pass over any graph.
THEOREM TypeCorrect == Spec => []TypeOK
<1>1. IInv => TypeOK
  BY DEF IInv
<1> QED
  BY <1>1, InvInit, InvStep, PTL DEF Spec
-----------------------------------------------------------------------------
\* The abstract pass reads the graph as the pass does.
LEMMA SameGraph ==
  /\ Abstract!HeldSeeds(in) = HeldSeeds(in)
  /\ Abstract!CallerSeeds(in) = CallerSeeds(in)
  /\ Abstract!CalledRoots(in) = CalledRoots(in)
  /\ \A e : Abstract!HeldFollows(in, e) <=> HeldFollows(in, e)
  /\ \A e : Abstract!CallerFollows(in, e) <=> CallerFollows(in, e)
  /\ \A gate : Abstract!Open(gate, reached) <=> Open(gate, reached)
  /\ \A f : Abstract!Range(f) = Range(f)
<1>1. Abstract!HeldSeeds(in) = HeldSeeds(in)
  BY DEF Abstract!HeldSeeds, HeldSeeds
<1>2. Abstract!CallerSeeds(in) = CallerSeeds(in)
  BY DEF Abstract!CallerSeeds, CallerSeeds
<1>3. Abstract!CalledRoots(in) = CalledRoots(in)
  BY DEF Abstract!CalledRoots, CalledRoots
<1>4. \A e : Abstract!HeldFollows(in, e) <=> HeldFollows(in, e)
  BY DEF Abstract!HeldFollows, HeldFollows
<1>5. \A e : Abstract!CallerFollows(in, e) <=> CallerFollows(in, e)
  BY <1>4 DEF Abstract!CallerFollows, CallerFollows
<1>6. \A gate : Abstract!Open(gate, reached) <=> Open(gate, reached)
  BY DEF Abstract!Open, Open
<1>7. \A f : Abstract!Range(f) = Range(f)
  BY DEF Abstract!Range, Range
<1> QED
  BY <1>1, <1>2, <1>3, <1>4, <1>5, <1>6, <1>7

\* Every step of the pass is a step of the abstract pass or changes nothing it sees.
LEMMA StepImplements == IInv /\ [Next]_vars => [Abstract!Next]_(Abstract!vars)
<1> SUFFICES ASSUME IInv, [Next]_vars PROVE [Abstract!Next]_(Abstract!vars)
  OBVIOUS
<1> in \in Inputs /\ TypeOK
  BY DEF IInv, TypeOK
<1> USE DEF Stage
<1>1. CASE SeedHeld
  BY <1>1, InputTypes, SameGraph
     DEF SeedHeld, Seed, Abstract!Next, Abstract!MarkHeld, Abstract!Held
<1>2. CASE SeedCaller
  BY <1>2, InputTypes, SameGraph
     DEF SeedCaller, Seed, Abstract!Next, Abstract!MarkCalled, Abstract!Called
<1>3. CASE FollowEdge
  <2> DEFINE e == in.out[At][hop]
  <2>1. At \in reached /\ e \in Range(in.out[At]) /\ e \in Edge
    BY <1>3, Examined DEF FollowEdge, Expanding
  <2>2. e.to \in Symbol
    BY <2>1 DEF Edge
  <2>3. e.to \notin reached /\ Follows(e) /\ Open(e.gate, reached)
        /\ reached' = reached \union {e.to} /\ in' = in /\ phase' = phase
        /\ phase \in {"held", "callers"}
    BY <1>3 DEF FollowEdge, Reaches, Expanding
  <2> HIDE DEF e
  <2>4. CASE phase = "held"
    <3>1. Abstract!Held(e.to)
      BY <2>1, <2>3, <2>4, SameGraph DEF Abstract!Held, Follows
    <3> QED
      BY <2>2, <2>3, <2>4, <3>1 DEF Abstract!Next, Abstract!MarkHeld
  <2>5. CASE phase = "callers"
    <3>1. Abstract!Called(e.to)
      BY <2>1, <2>3, <2>5, SameGraph DEF Abstract!Called, Follows
    <3> QED
      BY <2>2, <2>3, <2>5, <3>1 DEF Abstract!Next, Abstract!MarkCalled
  <2> QED
    BY <2>3, <2>4, <2>5
<1>4. CASE EndClosure
  <2>1. \A a \in reached : \A e \in Range(in.out[a]) :
           Rule(e) /\ e.gate \subseteq reached => e.to \in reached
    BY <1>4, SpentClosed DEF EndClosure
  <2>2. CASE phase = "held"
    <3>1. \A s \in Symbol : Abstract!Held(s) => s \in reached
      BY <2>1, <2>2, SameGraph DEF Abstract!Held, Rule, Open, IInv, Seeded
    <3> QED
      BY <1>4, <2>2, <3>1 DEF EndClosure, Abstract!Next, Abstract!EndHeld
  <2>3. CASE phase = "callers"
    <3>1. \A s \in Symbol : Abstract!Called(s) => s \in reached
      BY <2>1, <2>3, SameGraph DEF Abstract!Called, Rule, Open, IInv, Seeded
    <3> QED
      BY <1>4, <2>3, <3>1 DEF EndClosure, Abstract!Next, Abstract!EndCallers
  <2> QED
    BY <1>4, <2>2, <2>3 DEF EndClosure
<1>5. CASE ReachRoot
  BY <1>5, InputTypes, SameGraph DEF ReachRoot, Abstract!Next, Abstract!MarkRoot
<1>6. CASE End
  BY <1>6, SameGraph DEF End, Abstract!Next, Abstract!End
<1>7. CASE StartHeld \/ StartCallers \/ SkipEdge \/ NextSymbol \/ UNCHANGED vars
  BY <1>7 DEF StartHeld, StartCallers, SkipEdge, NextSymbol, vars, Abstract!vars
<1> QED
  BY <1>1, <1>2, <1>3, <1>4, <1>5, <1>6, <1>7 DEF Next

\* The breadth first pass over any graph implements the abstract pass, whatever order
\* its seeds, its symbols and their edges come in: no symbol is lost to a gate refused
\* too early.
THEOREM Implements == Spec => ImplementsReachability
<1>1. Init => Abstract!Init
  BY DEF Init, Abstract!Init, Stage
<1> QED
  BY <1>1, InvInit, InvStep, StepImplements, PTL
     DEF Spec, ImplementsReachability, Abstract!Spec
-----------------------------------------------------------------------------
\* What the abstract pass has marked at each stage: never more than the least closed set of
\* the stage, and all of it once the stage ends.
Bounded ==
  LET least == Abstract!HeldSet(in)
      callers == Abstract!CallersSet(in)
  IN /\ Stage = "held" => reached \subseteq least
     /\ Stage = "callers" => least \subseteq reached /\ reached \subseteq callers
     /\ Stage = "called" =>
          callers \subseteq reached /\ reached \subseteq callers \union Abstract!CalledRoots(in)
     /\ Stage = "done" => reached = callers \union Abstract!CalledRoots(in)

\* The abstract pass's inputs are the pass's: its seeds and the ends of its edges are symbols.
LEMMA AbstractInputs ==
  ASSUME NEW i \in Inputs
  PROVE  /\ Abstract!HeldSeeds(i) \subseteq Symbol /\ Abstract!CallerSeeds(i) \subseteq Symbol
         /\ Abstract!CalledRoots(i) \subseteq Symbol
         /\ \A a \in Symbol : \A e \in Abstract!Range(i.out[a]) : e \in Edge /\ e.to \in Symbol
<1>1. Abstract!HeldSeeds(i) = HeldSeeds(i) /\ Abstract!CallerSeeds(i) = CallerSeeds(i)
      /\ Abstract!CalledRoots(i) = CalledRoots(i)
  BY DEF Abstract!HeldSeeds, HeldSeeds, Abstract!CallerSeeds, CallerSeeds,
         Abstract!CalledRoots, CalledRoots
<1>2. ASSUME NEW a \in Symbol, NEW e \in Abstract!Range(i.out[a])
      PROVE  e \in Edge /\ e.to \in Symbol
  <2>1. i.out[a] \in Seq(Edge) /\ e \in Range(i.out[a])
    BY InputTypes DEF Abstract!Range, Range
  <2>2. e \in Edge
    BY <2>1, RangeOfEdges
  <2> QED
    BY <2>2 DEF Edge
<1> QED
  BY <1>1, <1>2, InputTypes

\* What the abstract pass holds is of its type.
LEMMA AbstractTypes == Abstract!TypeOK /\ [Abstract!Next]_(Abstract!vars) => Abstract!TypeOK'
<1> SUFFICES ASSUME Abstract!TypeOK, [Abstract!Next]_(Abstract!vars) PROVE Abstract!TypeOK'
  OBVIOUS
<1> USE DEF Abstract!TypeOK, Abstract!Stage
<1>1. CASE Abstract!MarkHeld \/ Abstract!EndHeld
  BY <1>1 DEF Abstract!MarkHeld, Abstract!EndHeld
<1>2. CASE Abstract!MarkCalled \/ Abstract!EndCallers
  BY <1>2 DEF Abstract!MarkCalled, Abstract!EndCallers
<1>3. CASE Abstract!MarkRoot \/ Abstract!End
  BY <1>3, AbstractInputs DEF Abstract!MarkRoot, Abstract!End
<1>4. CASE UNCHANGED Abstract!vars
  BY <1>4 DEF Abstract!vars
<1> QED
  BY <1>1, <1>2, <1>3, <1>4 DEF Abstract!Next

\* Each stage marks only what every set its rule closes holds.
LEMMA MarksBounded ==
  ASSUME Abstract!TypeOK, NEW s \in Symbol
  PROVE  /\ reached \subseteq Abstract!HeldSet(in) /\ Abstract!Held(s) =>
              s \in Abstract!HeldSet(in)
         /\ reached \subseteq Abstract!CallersSet(in) /\ Abstract!Called(s) =>
              s \in Abstract!CallersSet(in)
<1>1. ASSUME reached \subseteq Abstract!HeldSet(in), Abstract!Held(s),
             NEW S \in SUBSET Symbol, Abstract!HeldClosed(in, S)
      PROVE  s \in S
  <2>1. reached \subseteq S
    BY <1>1 DEF Abstract!HeldSet
  <2> QED
    BY <1>1, <2>1 DEF Abstract!Held, Abstract!HeldClosed, Abstract!Open
<1>2. ASSUME reached \subseteq Abstract!CallersSet(in), Abstract!Called(s),
             NEW S \in SUBSET Symbol, Abstract!CallersClosed(in, S)
      PROVE  s \in S
  <2>1. reached \subseteq S
    BY <1>2 DEF Abstract!CallersSet
  <2> QED
    BY <1>2, <2>1 DEF Abstract!Called, Abstract!CallersClosed, Abstract!Open
<1> QED
  BY <1>1, <1>2 DEF Abstract!HeldSet, Abstract!CallersSet

\* No step of the abstract pass marks too much, and no stage ends too early.
LEMMA BoundedStep ==
  Abstract!TypeOK /\ Bounded /\ [Abstract!Next]_(Abstract!vars) => Bounded'
<1> SUFFICES ASSUME Abstract!TypeOK, Bounded, [Abstract!Next]_(Abstract!vars) PROVE Bounded'
  OBVIOUS
<1> in \in Inputs
  BY DEF Abstract!TypeOK
<1>1. CASE Abstract!MarkHeld
  BY <1>1, MarksBounded DEF Abstract!MarkHeld, Bounded
<1>2. CASE Abstract!EndHeld
  <2>1. Abstract!HeldClosed(in, reached)
    BY <1>2, AbstractInputs
       DEF Abstract!EndHeld, Abstract!Held, Abstract!HeldClosed, Abstract!TypeOK
  <2>2. Abstract!HeldSet(in) \subseteq reached
    BY <2>1 DEF Abstract!HeldSet, Abstract!TypeOK
  <2>3. Abstract!HeldSet(in) \subseteq Abstract!CallersSet(in)
    BY DEF Abstract!HeldSet, Abstract!CallersSet, Abstract!CallersClosed
  <2> QED
    BY <1>2, <2>2, <2>3 DEF Abstract!EndHeld, Bounded
<1>3. CASE Abstract!MarkCalled
  BY <1>3, MarksBounded DEF Abstract!MarkCalled, Bounded
<1>4. CASE Abstract!EndCallers
  <2>1. Abstract!CallersClosed(in, reached)
    BY <1>4, AbstractInputs
       DEF Abstract!EndCallers, Abstract!Called, Abstract!CallersClosed, Abstract!TypeOK, Bounded
  <2>2. Abstract!CallersSet(in) \subseteq reached
    BY <2>1 DEF Abstract!CallersSet, Abstract!TypeOK
  <2> QED
    BY <1>4, <2>2 DEF Abstract!EndCallers, Bounded
<1>5. CASE Abstract!MarkRoot
  BY <1>5 DEF Abstract!MarkRoot, Bounded
<1>6. CASE Abstract!End
  BY <1>6 DEF Abstract!End, Bounded
<1>7. CASE UNCHANGED Abstract!vars
  BY <1>7 DEF Abstract!vars, Bounded
<1> QED
  BY <1>1, <1>2, <1>3, <1>4, <1>5, <1>6, <1>7 DEF Abstract!Next

\* An abstract pass over any graph that ends has marked the least set its rules close and the
\* called roots, whatever order it marks symbols in.
THEOREM AbstractAnswers == Abstract!Spec => []OneAnswer
<1>1. Abstract!Init => Abstract!TypeOK /\ Bounded
  BY DEF Abstract!Init, Abstract!TypeOK, Abstract!Stage, Bounded
<1>2. Bounded => OneAnswer
  BY DEF Bounded, OneAnswer, Abstract!OneAnswer, Abstract!Answer
<1> QED
  BY <1>1, <1>2, AbstractTypes, BoundedStep, PTL DEF Abstract!Spec

\* The pass over any graph answers the one set its rules close, a function of what it was
\* given: two passes agree however their seeds, symbols and references were ordered.
THEOREM AnswersOne == Spec => []OneAnswer
  BY Implements, AbstractAnswers, PTL DEF ImplementsReachability
-----------------------------------------------------------------------------
\* Induction over the numbers, of a set.
LEMMA Induction ==
  ASSUME NEW S, 0 \in S, \A n \in Nat : n \in S => n + 1 \in S
  PROVE  Nat \subseteq S
<1> SUFFICES ASSUME Nat \ S # {} PROVE FALSE
  OBVIOUS
<1>1. PICK x \in Nat \ S : \A y \in Nat \ S : ~(<<y, x>> \in OpToRel(<, Nat))
  BY WFMin, NatLessThanWellFounded
<1>2. x - 1 \in Nat /\ x - 1 < x /\ (x - 1) + 1 = x
  <2>1. x \in Nat /\ x # 0
    OBVIOUS
  <2> QED
    BY <2>1
<1>3. <<x - 1, x>> \in OpToRel(<, Nat)
  BY <1>1, <1>2 DEF OpToRel
<1>4. x - 1 \in S
  BY <1>1, <1>2, <1>3
<1> QED
  BY <1>1, <1>2, <1>4

\* What iterating a function from a value gives is a function of the number of times.
LEMMA Iterates ==
  ASSUME NEW S, NEW first \in S, NEW G \in [S -> S]
  PROVE  \E f \in [Nat -> S] : f[0] = first /\ \A n \in Nat : f[n + 1] = G[f[n]]
<1> DEFINE Up(n, g) == /\ g \in [0 .. n -> S] /\ g[0] = first
                       /\ \A i \in 0 .. n : i + 1 \in 0 .. n => g[i + 1] = G[g[i]]
           Reach == {n \in Nat : \E g : Up(n, g)}
           Agree == {i \in Nat : \A n, m \in Nat : \A g, h :
                       Up(n, g) /\ Up(m, h) /\ i <= n /\ i <= m => g[i] = h[i]}
<1>1. \A n \in Nat : \E g : Up(n, g)
  <2>1. 0 \in Reach
    <3>1. Up(0, [i \in 0 .. 0 |-> first])
      OBVIOUS
    <3> QED
      BY <3>1
  <2>2. ASSUME NEW n \in Nat, n \in Reach PROVE n + 1 \in Reach
    <3>1. PICK g : Up(n, g)
      BY <2>2
    <3> DEFINE h == [i \in 0 .. n + 1 |-> IF i = n + 1 THEN G[g[n]] ELSE g[i]]
    <3>2. \A i \in 0 .. n + 1 : i # n + 1 => i \in 0 .. n
      OBVIOUS
    <3>3. n \in 0 .. n /\ G[g[n]] \in S
      BY <3>1
    <3>4. h \in [0 .. n + 1 -> S] /\ h[0] = first
      BY <3>1, <3>2, <3>3
    <3>5. ASSUME NEW i \in 0 .. n + 1, i + 1 \in 0 .. n + 1 PROVE h[i + 1] = G[h[i]]
      <4>1. i \in 0 .. n /\ h[i] = g[i]
        BY <3>5
      <4>2. CASE i = n
        BY <4>1, <4>2
      <4>3. CASE i # n
        <5>1. i + 1 \in 0 .. n /\ i + 1 # n + 1
          BY <4>1, <4>3
        <5> QED
          BY <3>1, <4>1, <5>1
      <4> QED
        BY <4>2, <4>3
    <3>6. Up(n + 1, h)
      BY <3>4, <3>5
    <3> QED
      BY <3>6
  <2> HIDE DEF Reach
  <2>3. Nat \subseteq Reach
    BY <2>1, <2>2, Induction
  <2> QED
    BY <2>3 DEF Reach
<1>2. \A i, n, m \in Nat : \A g, h : Up(n, g) /\ Up(m, h) /\ i <= n /\ i <= m => g[i] = h[i]
  <2>1. 0 \in Agree
    OBVIOUS
  <2>2. ASSUME NEW i \in Nat, i \in Agree PROVE i + 1 \in Agree
    <3> SUFFICES ASSUME NEW n \in Nat, NEW m \in Nat, NEW g, NEW h, Up(n, g), Up(m, h),
                        i + 1 <= n, i + 1 <= m
                 PROVE  g[i + 1] = h[i + 1]
      OBVIOUS
    <3>1. i <= n /\ i <= m /\ i \in 0 .. n /\ i + 1 \in 0 .. n /\ i \in 0 .. m /\ i + 1 \in 0 .. m
      OBVIOUS
    <3>2. \A k, l \in Nat : \A a, b : Up(k, a) /\ Up(l, b) /\ i <= k /\ i <= l => a[i] = b[i]
      BY <2>2, Zenon
    <3>3. g[i] = h[i]
      BY <3>1, <3>2
    <3> QED
      BY <3>1, <3>3
  <2> HIDE DEF Agree
  <2>3. Nat \subseteq Agree
    BY <2>1, <2>2, Induction
  <2> QED
    BY <2>3 DEF Agree
<1> DEFINE at(n) == CHOOSE g : Up(n, g)
           f == [n \in Nat |-> at(n)[n]]
<1>3. \A n \in Nat : Up(n, at(n))
  BY <1>1
<1> HIDE DEF at
<1>4. \A n \in Nat : at(n)[n] \in S
  BY <1>3
<1>5. f \in [Nat -> S] /\ f[0] = first
  BY <1>3, <1>4
<1>6. ASSUME NEW n \in Nat PROVE f[n + 1] = G[f[n]]
  <2>1. Up(n + 1, at(n + 1)) /\ Up(n, at(n)) /\ n + 1 \in Nat
    BY <1>3
  <2>2. at(n + 1)[n] = at(n)[n]
    BY <1>2, <2>1
  <2>3. n \in 0 .. n + 1 /\ n + 1 \in 0 .. n + 1
    OBVIOUS
  <2>4. at(n + 1)[n + 1] = G[at(n + 1)[n]]
    BY <2>1, <2>3
  <2> QED
    BY <2>1, <2>2, <2>4
<1> QED
  BY <1>5, <1>6

\* The symbol k steps back along f from s: what TrailBack is of `from'.
Back(f) ==
  LET B[k \in Nat] ==
        [s \in Symbol |-> IF k = 0 THEN s
                          ELSE IF B[k - 1][s] \in Symbol THEN f[B[k - 1][s]] ELSE None]
  IN B

\* A step further back is a step back from there.
LEMMA BackUnfolds ==
  ASSUME NEW f \in [Symbol -> Symbol \union {None}]
  PROVE  /\ \A s \in Symbol : Back(f)[0][s] = s
         /\ \A k \in Nat, s \in Symbol :
              Back(f)[k + 1][s] = IF Back(f)[k][s] \in Symbol THEN f[Back(f)[k][s]] ELSE None
<1> DEFINE S == [Symbol -> Symbol \union {None}]
           G == [w \in S |-> [s \in Symbol |-> IF w[s] \in Symbol THEN f[w[s]] ELSE None]]
           first == [s \in Symbol |-> s]
           Unfolds(B) == B = [k \in Nat |->
             [s \in Symbol |-> IF k = 0 THEN s
                               ELSE IF B[k - 1][s] \in Symbol THEN f[B[k - 1][s]] ELSE None]]
<1>1. first \in S /\ G \in [S -> S]
  OBVIOUS
<1> HIDE DEF S, G, first
<1>2. PICK b \in [Nat -> S] : b[0] = first /\ \A n \in Nat : b[n + 1] = G[b[n]]
  BY <1>1, Iterates, SMTT(30)
<1> USE DEF S, G, first
<1>3. Unfolds(b)
  <2>1. ASSUME NEW k \in Nat
        PROVE  b[k] = [s \in Symbol |-> IF k = 0 THEN s
                         ELSE IF b[k - 1][s] \in Symbol THEN f[b[k - 1][s]] ELSE None]
    <3>1. CASE k = 0
      BY <1>2, <3>1
    <3>2. CASE k # 0
      <4>1. k - 1 \in Nat /\ (k - 1) + 1 = k
        BY <3>2
      <4>2. b[k] = G[b[k - 1]] /\ b[k - 1] \in S
        BY <1>2, <4>1
      <4> QED
        BY <3>2, <4>2
    <3> QED
      BY <3>1, <3>2
  <2> QED
    BY <1>2, <2>1
<1>4. Back(f) = CHOOSE B : Unfolds(B)
  BY DEF Back
<1> HIDE DEF Unfolds
<1>5. Unfolds(Back(f))
  BY <1>3, <1>4
<1> USE DEF Unfolds
<1>6. ASSUME NEW s \in Symbol PROVE Back(f)[0][s] = s
  BY <1>5
<1>7. ASSUME NEW k \in Nat, NEW s \in Symbol
      PROVE  Back(f)[k + 1][s] =
               IF Back(f)[k][s] \in Symbol THEN f[Back(f)[k][s]] ELSE None
  <2>1. k + 1 \in Nat /\ k + 1 # 0 /\ (k + 1) - 1 = k
    OBVIOUS
  <2> QED
    BY <1>5, <2>1
<1> QED
  BY <1>6, <1>7

\* The ways back from R are the same along f and g, and that from t along g is one hop longer
\* than that from a.
WaysKept(R, t, a, f, g) ==
  /\ \A k \in Nat, s \in R : Back(g)[k][s] = Back(f)[k][s]
  /\ \A k \in Nat : Back(g)[k + 1][t] = Back(f)[k][a]

\* Reaching t from a changes no way back from another reached symbol, and the way back from
\* t is the way back from a.
LEMMA BackKept ==
  ASSUME NEW R \in SUBSET Symbol, NEW f \in [Symbol -> R \union {None}],
         NEW t \in Symbol \ R, NEW a \in R,
         NEW g \in [Symbol -> Symbol \union {None}], g[t] = a, \A x \in R : g[x] = f[x]
  PROVE  WaysKept(R, t, a, f, g)
<1> /\ f \in [Symbol -> Symbol \union {None}]
    /\ a \in Symbol /\ None \notin Symbol /\ None \notin R
  BY NoneAssumption
<1> DEFINE I == {k \in Nat : /\ \A s \in R : Back(g)[k][s] = Back(f)[k][s]
                                             /\ Back(f)[k][s] \in R \union {None}
                             /\ Back(g)[k + 1][t] = Back(f)[k][a]}
<1>f. /\ \A s \in Symbol : Back(f)[0][s] = s
      /\ \A k \in Nat, s \in Symbol :
           Back(f)[k + 1][s] = IF Back(f)[k][s] \in Symbol THEN f[Back(f)[k][s]] ELSE None
  BY BackUnfolds
<1>g. /\ \A s \in Symbol : Back(g)[0][s] = s
      /\ \A k \in Nat, s \in Symbol :
           Back(g)[k + 1][s] = IF Back(g)[k][s] \in Symbol THEN g[Back(g)[k][s]] ELSE None
  BY BackUnfolds
<1>0. t \in Symbol /\ g[t] = a /\ (\A x \in R : g[x] = f[x] /\ f[x] \in R \union {None}) /\ R \subseteq Symbol
  OBVIOUS
<1>1. 0 \in I
  <2>1. Back(g)[0 + 1][t] = a
    <3>1. Back(g)[0][t] = t /\ 0 \in Nat
      BY <1>g
    <3>2. Back(g)[0 + 1][t] = IF Back(g)[0][t] \in Symbol THEN g[Back(g)[0][t]] ELSE None
      BY <1>g, <3>1, <1>0, Zenon
    <3> QED
      BY <1>0, <3>1, <3>2
  <2> QED
    BY <1>0, <1>f, <1>g, <2>1
<1>2. ASSUME NEW k \in Nat, k \in I PROVE k + 1 \in I
  <2>1. ASSUME NEW s \in R
        PROVE  Back(g)[k + 1][s] = Back(f)[k + 1][s] /\ Back(f)[k + 1][s] \in R \union {None}
    <3>1. Back(g)[k][s] = Back(f)[k][s] /\ Back(f)[k][s] \in R \union {None} /\ s \in Symbol
      BY <1>2
    <3>2. Back(g)[k + 1][s] = IF Back(g)[k][s] \in Symbol THEN g[Back(g)[k][s]] ELSE None
      BY <1>g, <3>1, Zenon
    <3>3. Back(f)[k + 1][s] = IF Back(f)[k][s] \in Symbol THEN f[Back(f)[k][s]] ELSE None
      BY <1>0, <1>f, Zenon
    <3> QED
      BY <1>0, <3>1, <3>2, <3>3
  <2>2. Back(g)[(k + 1) + 1][t] = Back(f)[k + 1][a]
    <3>1. Back(g)[k + 1][t] = Back(f)[k][a] /\ Back(f)[k][a] \in R \union {None}
      BY <1>2
    <3>2. Back(g)[(k + 1) + 1][t] =
            IF Back(g)[k + 1][t] \in Symbol THEN g[Back(g)[k + 1][t]] ELSE None
      BY <1>0, <1>g, k + 1 \in Nat, Zenon
    <3>3. Back(f)[k + 1][a] = IF Back(f)[k][a] \in Symbol THEN f[Back(f)[k][a]] ELSE None
      BY <1>0, <1>f, Zenon
    <3> QED
      BY <1>0, <3>1, <3>2, <3>3
  <2> QED
    BY <2>1, <2>2
<1> HIDE DEF I
<1>3. Nat \subseteq I
  BY <1>1, <1>2, Induction
<1> USE DEF I
<1> QED
  BY <1>3 DEF WaysKept

\* The symbols a pass is seeded with, or calls.
Sources(i) == HeldSeeds(i) \union CallerSeeds(i) \union CalledRoots(i)

\* The way back from s ends, at a seed, within as many hops as the other reached symbols.
Ends(s) ==
  \E k \in Nat : /\ k < Cardinality(reached)
                 /\ Back(from)[k][s] \in Sources(in) \intersect reached
                 /\ from[Back(from)[k][s]] = None

\* The hop s was reached by is an edge the pass may follow.
HopAllowed(s) ==
  from[s] # None =>
    \E e \in Range(in.out[from[s]]) :
      e.to = s /\ HeldFollows(in, e) /\ Open(e.gate, reached)

\* Only what is reached was reached from somewhere, and every way back ends.
Trailed ==
  /\ IsFiniteSet(reached)
  /\ \A s \in Symbol \ reached : from[s] = None
  /\ \A s \in reached : Ends(s) /\ HopAllowed(s)

\* A symbol reached as a seed leaves every way back as it was, and is the end of its own.
LEMMA SeedTrailed ==
  ASSUME TypeOK, Trailed, NEW s \in Symbol \ reached, s \in Sources(in),
         reached' = reached \union {s}, from' = from, in' = in
  PROVE  Trailed'
<1>1. IsFiniteSet(reached') /\ Cardinality(reached') = Cardinality(reached) + 1
      /\ Cardinality(reached) \in Nat
  BY FS_AddElement, FS_CardinalityType DEF Trailed
<1>2. from \in [Symbol -> Symbol \union {None}]
  BY DEF TypeOK
<1>3. ASSUME NEW r \in reached' PROVE Ends(r)'
  <2>1. CASE r = s
    <3>1. Back(from)[0][s] = s /\ from[s] = None
      BY <1>2, BackUnfolds DEF Trailed
    <3> QED
      BY <1>1, <2>1, <3>1 DEF Ends
  <2>2. CASE r # s
    <3>1. PICK k \in Nat : /\ k < Cardinality(reached)
                           /\ Back(from)[k][r] \in Sources(in) \intersect reached
                           /\ from[Back(from)[k][r]] = None
      BY <2>2 DEF Trailed, Ends
    <3>2. k < Cardinality(reached')
      BY <1>1, <3>1
    <3> QED
      BY <3>1, <3>2 DEF Ends
  <2> QED
    BY <2>1, <2>2
<1>4. ASSUME NEW r \in reached' PROVE HopAllowed(r)'
  <2>1. CASE r = s
    BY <2>1 DEF Trailed, HopAllowed
  <2>2. CASE r # s
    BY <2>2 DEF Trailed, HopAllowed, Open
  <2> QED
    BY <2>1, <2>2
<1> QED
  BY <1>1, <1>3, <1>4 DEF Trailed

\* A symbol reached along an edge leaves every way back as it was, and its own is one hop
\* longer than that of the symbol expanded.
LEMMA FollowTrailed == TypeOK /\ Trailed /\ FollowEdge => Trailed'
<1> SUFFICES ASSUME TypeOK, Trailed, FollowEdge PROVE Trailed'
  OBVIOUS
<1>1. PICK e \in Edge : e = in.out[At][hop]
  BY Examined DEF FollowEdge, Expanding
<1>2. PICK a \in reached : a = At /\ a \in Symbol /\ e \in Range(in.out[a])
  BY <1>1, Examined DEF FollowEdge, Expanding
<1>3. /\ e.to \notin reached /\ Follows(e) /\ Open(e.gate, reached) /\ in' = in
      /\ reached' = reached \union {e.to} /\ from' = [from EXCEPT ![e.to] = a]
  BY <1>1, <1>2 DEF FollowEdge, Reaches
<1>t. PICK t \in Symbol \ reached : t = e.to
  BY <1>3 DEF Edge
<1>4. HeldFollows(in, e)
  BY <1>3 DEF Follows, CallerFollows
<1>5. IsFiniteSet(reached') /\ Cardinality(reached') = Cardinality(reached) + 1
      /\ Cardinality(reached) \in Nat
  BY <1>3, <1>t, FS_AddElement, FS_CardinalityType DEF Trailed
<1>6. from \in [Symbol -> reached \union {None}] /\ reached \in SUBSET Symbol
  BY DEF TypeOK
<1>7. /\ \A k \in Nat, s \in reached : Back(from')[k][s] = Back(from)[k][s]
      /\ \A k \in Nat : Back(from')[k + 1][t] = Back(from)[k][a]
  <2>1. from' \in [Symbol -> Symbol \union {None}] /\ from'[t] = a
        /\ \A x \in reached : from'[x] = from[x]
    BY <1>2, <1>3, <1>6, <1>t
  <2>2. WaysKept(reached, t, a, from, from')
    BY <1>6, <2>1, BackKept
  <2> QED
    BY <2>2 DEF WaysKept
<1>8. \A s \in reached : from'[s] = from[s]
  BY <1>3, <1>6, <1>t
<1>9. ASSUME NEW s \in reached' PROVE Ends(s)'
  <2>1. CASE s = t
    <3>1. PICK k \in Nat : /\ k < Cardinality(reached)
                           /\ Back(from)[k][a] \in Sources(in) \intersect reached
                           /\ from[Back(from)[k][a]] = None
      BY <1>2 DEF Trailed, Ends
    <3>2. k + 1 \in Nat /\ k + 1 < Cardinality(reached')
      BY <1>5, <3>1
    <3>3. Back(from')[k + 1][s] = Back(from)[k][a]
      BY <1>7, <2>1
    <3>4. from'[Back(from)[k][a]] = None
      BY <1>8, <3>1
    <3> QED
      BY <1>3, <3>1, <3>2, <3>3, <3>4 DEF Ends
  <2>2. CASE s \in reached
    <3>1. PICK k \in Nat : /\ k < Cardinality(reached)
                           /\ Back(from)[k][s] \in Sources(in) \intersect reached
                           /\ from[Back(from)[k][s]] = None
      BY <2>2 DEF Trailed, Ends
    <3>2. k < Cardinality(reached')
      BY <1>5, <3>1
    <3>3. Back(from')[k][s] = Back(from)[k][s]
      BY <1>7, <2>2
    <3>4. from'[Back(from)[k][s]] = None
      BY <1>8, <3>1
    <3> QED
      BY <1>3, <3>1, <3>2, <3>3, <3>4 DEF Ends
  <2> QED
    BY <1>3, <1>t, <2>1, <2>2
<1>10. ASSUME NEW s \in reached' PROVE HopAllowed(s)'
  <2>1. CASE s = t
    <3>1. from'[t] = a
      BY <1>3, <1>6, <1>t
    <3>2. Open(e.gate, reached')
      BY <1>3 DEF Open
    <3> QED
      BY <1>2, <1>3, <1>4, <1>t, <2>1, <3>1, <3>2 DEF HopAllowed
  <2>2. CASE s \in reached
    BY <1>3, <1>8, <2>2 DEF Trailed, HopAllowed, Open
  <2> QED
    BY <1>3, <1>t, <2>1, <2>2
<1>11. \A s \in Symbol \ reached' : from'[s] = None
  BY <1>3, <1>6, <1>t DEF Trailed
<1> QED
  BY <1>5, <1>9, <1>10, <1>11 DEF Trailed

\* No step of a pass breaks a way back.
LEMMA TrailedStep == TypeOK /\ Trailed /\ [Next]_vars => Trailed'
<1> SUFFICES ASSUME TypeOK, Trailed, [Next]_vars PROVE Trailed'
  OBVIOUS
<1> in \in Inputs
  BY DEF TypeOK
<1>1. CASE SeedHeld
  BY <1>1, InputTypes, SeedTrailed DEF SeedHeld, Seed, Sources
<1>2. CASE SeedCaller
  BY <1>2, InputTypes, SeedTrailed DEF SeedCaller, Seed, Sources
<1>3. CASE FollowEdge
  BY <1>3, FollowTrailed
<1>4. CASE ReachRoot
  BY <1>4, InputTypes, SeedTrailed DEF ReachRoot, Sources
<1>5. CASE UNCHANGED <<in, reached, from>>
  BY <1>5 DEF Trailed, Ends, HopAllowed
<1> QED
  BY <1>1, <1>2, <1>3, <1>4, <1>5
     DEF Next, StartHeld, StartCallers, SkipEdge, NextSymbol, EndClosure, End, vars

\* `Path' from any symbol a pass over any graph has reached walks back to a seed along edges
\* the pass may follow, and never in a circle.
THEOREM PathsBack == Spec => []PathsEnd
<1>1. Init => Trailed
  BY FS_EmptySet DEF Init, Trailed
<1>2. TypeOK /\ Trailed => PathsEnd
  <2> SUFFICES ASSUME TypeOK, Trailed, NEW s \in reached
               PROVE  /\ \E k \in 0 .. Cardinality(reached) - 1 :
                           TrailBack[k][s] \in Sources(in) /\ from[TrailBack[k][s]] = None
                      /\ HopAllowed(s)
    BY DEF PathsEnd, Sources, HopAllowed
  <2>1. TrailBack = Back(from)
    BY DEF TrailBack, Back
  <2>2. PICK k \in Nat : /\ k < Cardinality(reached)
                         /\ Back(from)[k][s] \in Sources(in)
                         /\ from[Back(from)[k][s]] = None
    BY DEF Trailed, Ends
  <2>3. k \in 0 .. Cardinality(reached) - 1
    BY <2>2, FS_CardinalityType DEF Trailed
  <2> QED
    BY <2>1, <2>2, <2>3 DEF Trailed
<1> QED
  BY <1>1, <1>2, TypeCorrect, TrailedStep, PTL DEF Spec
=============================================================================
