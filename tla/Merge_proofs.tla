---------------------------- MODULE Merge_proofs ----------------------------
(***************************************************************************)
(* Pairing the references of a matrix keeps every configuration's count,   *)
(* for every matrix: a reference joins a kept one its configuration did    *)
(* not make, and the kept ones alike stay nested.                          *)
(***************************************************************************)
EXTENDS Merge, FiniteSetTheorems, TLAPS

\* A reference of the merged matrix, of one configuration, and a distinct one.
Mention == [ref: Reference, configs: {{c} : c \in Nat}]
Paired == [ref: Reference, configs: SUBSET Nat]

\* Before the pairing there is nothing to count.
Typed ==
  /\ in \in Inputs
  /\ config \in 0 .. Len(in.per)
  /\ "references" \in DOMAIN merged
  /\ merged.references \in Seq(Mention)
  /\ kept \in Seq(Paired)
  /\ read \in 0 .. Len(merged.references)
  /\ stage = "merge" => read = 0 /\ kept = <<>>

\* CountsEach, of every reference there could be.
Counts ==
  \A r \in Reference : \A c \in Nat : Cardinality(Kept(r, c)) = Cardinality(Made(r, c))

IInv == Typed /\ Counts /\ Nested

\* The step examines the next reference and the kept ones become k2.
Next1(k2) ==
  /\ stage = "pair" /\ read < Len(merged.references)
  /\ kept' = k2 /\ read' = read + 1
  /\ UNCHANGED <<in, merged, config, stage>>
-----------------------------------------------------------------------------
\* Being alike is an equivalence.
LEMMA AlikeEquivalence ==
  ASSUME NEW a, NEW b, NEW c, Alike(a, b)
  PROVE  /\ Alike(b, a)
         /\ Alike(b, c) <=> Alike(a, c)
         /\ Alike(c, b) <=> Alike(c, a)
BY DEF Alike

\* What is counted is finite.
LEMMA Finite ==
  ASSUME Typed, NEW r, NEW c
  PROVE  IsFiniteSet(Made(r, c)) /\ IsFiniteSet(Kept(r, c))
<1>1. IsFiniteSet(1 .. read) /\ IsFiniteSet(1 .. Len(kept))
  <2>1. read \in Nat /\ Len(kept) \in Nat
    BY DEF Typed
  <2> QED
    BY <2>1, FS_Interval
<1>2. Made(r, c) \subseteq 1 .. read /\ Kept(r, c) \subseteq 1 .. Len(kept)
  BY DEF Made, Kept, Typed
<1> QED
  BY <1>1, <1>2, FS_Subset

\* One more on each side.
LEMMA OneMore ==
  ASSUME NEW S, NEW T, IsFiniteSet(S), IsFiniteSet(T), Cardinality(S) = Cardinality(T),
         NEW x, x \notin S, NEW y, y \notin T
  PROVE  Cardinality(S \union {x}) = Cardinality(T \union {y})
<1>1. Cardinality(S \union {x}) = Cardinality(S) + 1
  BY FS_AddElement
<1>2. Cardinality(T \union {y}) = Cardinality(T) + 1
  BY FS_AddElement
<1> QED
  BY <1>1, <1>2

\* The reference examined adds itself to what its configuration made of its class, and
\* nothing to any other.
LEMMA MadeGrows ==
  ASSUME Typed, NEW k2, Next1(k2), NEW r \in Reference, NEW c \in Nat,
         NEW q, q = merged.references[read + 1]
  PROVE  /\ c \in q.configs /\ Alike(q.ref, r) =>
              Made(r, c)' = Made(r, c) \union {read + 1} /\ read + 1 \notin Made(r, c)
         /\ ~(c \in q.configs /\ Alike(q.ref, r)) => Made(r, c)' = Made(r, c)
<1>1. read \in Nat /\ read' = read + 1 /\ merged' = merged
  BY DEF Typed, Next1
<1>2. 1 .. read' = (1 .. read) \union {read + 1}
  BY <1>1
<1>3. Made(r, c)' = {i \in 1 .. read' : c \in merged.references[i].configs
                                          /\ Alike(merged.references[i].ref, r)}
  BY <1>1 DEF Made, Alike
<1> QED
  BY <1>1, <1>2, <1>3 DEF Made

LEMMA InitHolds == Init => IInv
<1> SUFFICES ASSUME Init PROVE IInv
  OBVIOUS
<1>1. /\ in \in Inputs /\ config = 0 /\ read = 0 /\ kept = <<>>
      /\ "references" \in DOMAIN merged /\ merged.references = <<>>
  BY DEF Init, Nothing
<1>2. in.per \in Seq(Configured)
  BY <1>1, InputsAssumption
<1>3. Typed
  BY <1>1, <1>2 DEF Typed
<1>4. \A r, c : Made(r, c) = {} /\ Kept(r, c) = {}
  BY <1>1 DEF Made, Kept
<1>5. Counts
  BY <1>4 DEF Counts
<1>6. Nested
  BY <1>1 DEF Nested
<1> QED
  BY <1>3, <1>5, <1>6 DEF IInv

\* Merging one more configuration.
LEMMA MergeHolds == IInv /\ MergeConfiguration => IInv'
<1> SUFFICES ASSUME IInv, MergeConfiguration PROVE IInv'
  OBVIOUS
<1> DEFINE c == config + 1
           tagged == Tagged(in.per[c].references, c)
<1>1. in \in Inputs /\ in.per \in Seq(Configured) /\ config \in Nat /\ c \in 1 .. Len(in.per)
  BY InputsAssumption DEF IInv, Typed, MergeConfiguration
<1>2. in.per[c].references \in Seq(Reference)
  <2>1. in.per[c] \in Configured
    BY <1>1
  <2> QED
    BY <2>1 DEF Configured
<1>3. tagged \in Seq(Mention)
  <2> DEFINE n == Len(in.per[c].references)
  <2>1. n \in Nat /\ \A i \in 1 .. n : in.per[c].references[i] \in Reference
    BY <1>2
  <2>2. tagged = [i \in 1 .. n |-> [ref |-> in.per[c].references[i], configs |-> {c}]]
    BY <1>2 DEF Tagged
  <2>3. \A i \in 1 .. n : [ref |-> in.per[c].references[i], configs |-> {c}] \in Mention
    BY <1>1, <2>1 DEF Mention
  <2> HIDE DEF n, tagged
  <2>4. tagged \in [1 .. n -> Mention]
    BY <2>2, <2>3
  <2> QED
    BY <2>1, <2>4
<1>4. /\ "references" \in DOMAIN merged'
      /\ merged'.references = merged.references \o tagged
  BY DEF MergeConfiguration, IInv, Typed
<1>5. merged'.references \in Seq(Mention)
  BY <1>3, <1>4 DEF IInv, Typed
<1>6. in' = in /\ config' = config + 1 /\ read' = read /\ kept' = kept /\ stage' = stage
  BY DEF MergeConfiguration
<1>7. read = 0 /\ kept = <<>>
  BY DEF IInv, Typed, MergeConfiguration
<1>8. Typed'
  <2>1. Len(merged'.references) \in Nat
    BY <1>5
  <2>2. read' = 0 /\ kept' = <<>> /\ in' \in Inputs /\ config' \in 0 .. Len(in'.per)
    BY <1>1, <1>6, <1>7
  <2> HIDE DEF c, tagged
  <2> QED
    BY <1>4, <1>5, <2>1, <2>2 DEF Typed
<1>9. \A r, d : Made(r, d)' = {} /\ Kept(r, d)' = {}
  BY <1>6, <1>7 DEF Made, Kept
<1> QED
  BY <1>6, <1>7, <1>8, <1>9 DEF IInv, Counts, Nested

\* Deciding the uses and sorting the symbols leaves the references.
LEMMA DecideHolds == IInv /\ Decide => IInv'
<1> SUFFICES ASSUME IInv, Decide PROVE IInv'
  OBVIOUS
<1>1. /\ "references" \in DOMAIN merged'
      /\ merged'.references = merged.references
  BY DEF Decide, IInv, Typed
<1>2. in' = in /\ config' = config /\ read' = read /\ kept' = kept /\ stage' = "pair"
  BY DEF Decide
<1>3. Typed'
  BY <1>1, <1>2 DEF IInv, Typed
<1>4. \A r, d : Made(r, d)' = Made(r, d) /\ Kept(r, d)' = Kept(r, d)
  BY <1>1, <1>2 DEF Made, Kept, Alike
<1> QED
  BY <1>2, <1>3, <1>4 DEF IInv, Counts, Nested, Alike

\* A reference joins the first kept one alike that its configuration did not make: the
\* ones before it its configuration made.
LEMMA PairHolds == IInv /\ Pair => IInv'
<1> SUFFICES ASSUME IInv, Pair PROVE IInv'
  OBVIOUS
<1> DEFINE q == merged.references[read + 1]
<1>1. PICK k \in DOMAIN kept :
        /\ First(k, q)
        /\ kept' = [kept EXCEPT ![k] = [ref |-> kept[k].ref, configs |-> kept[k].configs \union q.configs]]
  BY DEF Pair
<1>2. Next1(kept') /\ read + 1 \in DOMAIN merged.references
  BY DEF Pair, Next1, IInv, Typed
<1>3. q \in Mention /\ kept[k] \in Paired
  BY <1>1, <1>2 DEF IInv, Typed
<1>4. PICK d \in Nat : q.configs = {d}
  BY <1>3 DEF Mention
<1>5. /\ d \notin kept[k].configs /\ Alike(kept[k].ref, q.ref)
      /\ \A j \in 1 .. k - 1 : Alike(kept[j].ref, q.ref) => d \in kept[j].configs
  BY <1>1, <1>4 DEF First, Pairs
<1>6. /\ DOMAIN kept' = DOMAIN kept
      /\ \A j \in DOMAIN kept : kept'[j].ref = kept[j].ref
      /\ \A j \in DOMAIN kept : j # k => kept'[j].configs = kept[j].configs
      /\ kept'[k].configs = kept[k].configs \union {d}
  BY <1>1, <1>4
<1>7. Typed'
  <2>1. [ref |-> kept[k].ref, configs |-> kept[k].configs \union q.configs] \in Paired
    BY <1>3, <1>4 DEF Paired
  <2>2. kept' \in Seq(Paired)
    BY <1>1, <2>1 DEF IInv, Typed
  <2> QED
    BY <1>2, <2>2 DEF IInv, Typed, Next1
<1>8. Counts'
  <2> SUFFICES ASSUME NEW r \in Reference, NEW c \in Nat
               PROVE  Cardinality(Kept(r, c)') = Cardinality(Made(r, c)')
    BY DEF Counts
  <2>1. Cardinality(Kept(r, c)) = Cardinality(Made(r, c))
    BY DEF IInv, Counts
  <2>2. Kept(r, c)' = {j \in DOMAIN kept : c \in kept'[j].configs /\ Alike(kept[j].ref, r)}
    BY <1>6 DEF Kept, Alike
  <2>3. CASE c = d /\ Alike(q.ref, r)
    <3>1. Alike(kept[k].ref, r)
      BY <1>5, <2>3, AlikeEquivalence
    <3>2. Kept(r, c)' = Kept(r, c) \union {k} /\ k \notin Kept(r, c)
      BY <1>1, <1>5, <1>6, <2>2, <2>3, <3>1 DEF Kept
    <3>3. Made(r, c)' = Made(r, c) \union {read + 1} /\ read + 1 \notin Made(r, c)
      BY <1>2, <1>4, <2>3, MadeGrows DEF IInv
    <3> QED
      BY <2>1, <3>2, <3>3, Finite, OneMore DEF IInv
  <2>4. CASE ~(c = d /\ Alike(q.ref, r))
    <3>1. c = d => ~Alike(kept[k].ref, r)
      BY <1>5, <2>4, AlikeEquivalence
    <3>2. Kept(r, c)' = Kept(r, c)
      BY <1>1, <1>6, <2>2, <3>1 DEF Kept
    <3>3. Made(r, c)' = Made(r, c)
      BY <1>2, <1>4, <2>4, MadeGrows DEF IInv
    <3> QED
      BY <2>1, <3>2, <3>3
  <2> QED
    BY <2>3, <2>4
<1>9. Nested'
  <2> SUFFICES ASSUME NEW i \in DOMAIN kept, NEW j \in DOMAIN kept, i < j,
                      Alike(kept[i].ref, kept[j].ref)
               PROVE  kept'[j].configs \subseteq kept'[i].configs
    BY <1>6 DEF Nested, Alike
  <2>1. kept[j].configs \subseteq kept[i].configs
    BY DEF IInv, Nested
  <2>2. i \in Nat /\ j \in Nat /\ i >= 1
    BY DEF IInv, Typed
  <2>3. CASE j = k
    <3>1. Alike(kept[i].ref, q.ref)
      BY <1>5, <2>3, AlikeEquivalence
    <3>2. d \in kept[i].configs
      BY <1>5, <2>2, <2>3, <3>1
    <3> QED
      BY <1>6, <2>1, <2>2, <2>3, <3>2
  <2>4. CASE j # k
    BY <1>6, <2>1, <2>4
  <2> QED
    BY <2>3, <2>4
<1> QED
  BY <1>7, <1>8, <1>9 DEF IInv

\* A reference is kept apart where its configuration made every kept one alike.
LEMMA KeepHolds == IInv /\ Keep => IInv'
<1> SUFFICES ASSUME IInv, Keep PROVE IInv'
  OBVIOUS
<1> DEFINE q == merged.references[read + 1]
           last == Len(kept) + 1
<1>1. (\A k \in DOMAIN kept : ~Pairs(k, q)) /\ kept' = Append(kept, q)
  BY DEF Keep
<1>2. Next1(kept') /\ read + 1 \in DOMAIN merged.references
  BY DEF Keep, Next1, IInv, Typed
<1>3. q \in Mention
  BY <1>2 DEF IInv, Typed
<1>4. PICK d \in Nat : q.configs = {d}
  BY <1>3 DEF Mention
<1>5. \A k \in DOMAIN kept : Alike(kept[k].ref, q.ref) => d \in kept[k].configs
  BY <1>1, <1>4 DEF Pairs
<1>6. /\ DOMAIN kept = 1 .. Len(kept) /\ Len(kept) \in Nat
      /\ DOMAIN kept' = DOMAIN kept \union {last} /\ last \notin DOMAIN kept
      /\ \A j \in DOMAIN kept : kept'[j] = kept[j]
      /\ kept'[last] = q
  BY <1>1, <1>3 DEF IInv, Typed
<1>7. Typed'
  <2>1. q \in Paired
    BY <1>3 DEF Mention, Paired
  <2>2. kept' \in Seq(Paired)
    BY <1>1, <2>1 DEF IInv, Typed
  <2> QED
    BY <1>2, <2>2 DEF IInv, Typed, Next1
<1>8. Counts'
  <2> SUFFICES ASSUME NEW r \in Reference, NEW c \in Nat
               PROVE  Cardinality(Kept(r, c)') = Cardinality(Made(r, c)')
    BY DEF Counts
  <2>1. Cardinality(Kept(r, c)) = Cardinality(Made(r, c))
    BY DEF IInv, Counts
  <2>2. Kept(r, c)' = {j \in DOMAIN kept' : c \in kept'[j].configs /\ Alike(kept'[j].ref, r)}
    BY DEF Kept, Alike
  <2>3. CASE c = d /\ Alike(q.ref, r)
    <3>1. Kept(r, c)' = Kept(r, c) \union {last} /\ last \notin Kept(r, c)
      BY <1>4, <1>6, <2>2, <2>3 DEF Kept
    <3>2. Made(r, c)' = Made(r, c) \union {read + 1} /\ read + 1 \notin Made(r, c)
      BY <1>2, <1>4, <2>3, MadeGrows DEF IInv
    <3> QED
      BY <2>1, <3>1, <3>2, Finite, OneMore DEF IInv
  <2>4. CASE ~(c = d /\ Alike(q.ref, r))
    <3>1. Kept(r, c)' = Kept(r, c)
      BY <1>4, <1>6, <2>2, <2>4 DEF Kept
    <3>2. Made(r, c)' = Made(r, c)
      BY <1>2, <1>4, <2>4, MadeGrows DEF IInv
    <3> QED
      BY <2>1, <3>1, <3>2
  <2> QED
    BY <2>3, <2>4
<1>9. Nested'
  <2> SUFFICES ASSUME NEW i \in DOMAIN kept', NEW j \in DOMAIN kept', i < j,
                      Alike(kept'[i].ref, kept'[j].ref)
               PROVE  kept'[j].configs \subseteq kept'[i].configs
    BY DEF Nested, Alike
  <2>1. i \in DOMAIN kept
    BY <1>6
  <2>2. CASE j = last
    BY <1>4, <1>5, <1>6, <2>1, <2>2
  <2>3. CASE j # last
    BY <1>6, <2>1, <2>3 DEF IInv, Nested
  <2> QED
    BY <2>2, <2>3
<1> QED
  BY <1>7, <1>8, <1>9 DEF IInv

LEMMA NextHolds == IInv /\ [Next]_vars => IInv'
<1> SUFFICES ASSUME IInv, [Next]_vars PROVE IInv'
  OBVIOUS
<1>1. CASE MergeConfiguration
  BY <1>1, MergeHolds
<1>2. CASE Decide
  BY <1>2, DecideHolds
<1>3. CASE Pair
  BY <1>3, PairHolds
<1>4. CASE Keep
  BY <1>4, KeepHolds
<1>5. CASE Refuse \/ Answer \/ Done \/ UNCHANGED vars
  <2>1. /\ in' = in /\ merged' = merged /\ config' = config /\ read' = read /\ kept' = kept
        /\ stage' = "merge" => stage = "merge"
    BY <1>5 DEF Refuse, Answer, Done, vars
  <2>2. \A r, d : Made(r, d)' = Made(r, d) /\ Kept(r, d)' = Kept(r, d)
    BY <2>1 DEF Made, Kept, Alike
  <2> QED
    BY <2>1, <2>2 DEF IInv, Typed, Counts, Nested, Alike
<1> QED
  BY <1>1, <1>2, <1>3, <1>4, <1>5 DEF Next

\* Whatever the matrix and the order of its configurations, pairing keeps every
\* configuration's count of a reference and nests the pairs (distinct).
THEOREM PairsKeepCounts == Spec => []PairsEach
<1>1. IInv => PairsEach
  <2> SUFFICES ASSUME IInv PROVE PairsEach
    OBVIOUS
  <2>1. ASSUME NEW i \in DOMAIN merged.references PROVE merged.references[i].ref \in Reference
    <3>1. merged.references[i] \in Mention
      BY DEF IInv, Typed
    <3> QED
      BY <3>1 DEF Mention
  <2>2. Configurations \subseteq Nat
    BY InputsAssumption DEF IInv, Typed, Configurations
  <2>3. CountsEach
    BY <2>1, <2>2 DEF IInv, Counts, CountsEach
  <2> QED
    BY <2>3 DEF IInv, PairsEach
<1> QED
  BY <1>1, InitHolds, NextHolds, PTL DEF Spec
=============================================================================
