--------------------------- MODULE Checker_proofs ---------------------------
(***************************************************************************)
(* The concurrent checker, for every set of packages and files, every      *)
(* number of slots and of loads: a package is checked after its imports, a *)
(* file has one tree, a key one check, and pressure lets in one task.      *)
(***************************************************************************)
EXTENDS Checker, FiniteSetTheorems, TLAPS

USE CheckerAssumption, NoneAssumption

\* The imports a package was not told of yet.
Awaited(p) == {i \in Imports[p] : p \notin told[i]}

\* The count a goroutine waits on is the count of the imports it was not told of, and
\* only a goroutine that ended tells.
Counted ==
  \A p \in Package :
    /\ pending[p] = Cardinality(Awaited(p))
    /\ pc[p] = "waiting" <=> Awaited(p) # {}
    /\ told[p] # {} => pc[p] = "finish"

\* What a run not ended has passed is complete, a shared check others wait for included.
Completed ==
  ~cancelled =>
    /\ ready \subseteq complete
    /\ \A p \in Package :
         /\ pc[p] \in {"publish", "close"} => own(p) \in complete
         /\ pc[p] = "finish" => types[p] \in complete

\* The check of a package runs only once the goroutine got there.
Placed ==
  \A p \in Package :
    task[Check(p)] # "none" => pc[p] \in {"check", "publish", "close", "finish"}

\* A goroutine that checks has types of its own, and one that ended has them or a check
\* named for later keys.
Owned ==
  /\ ready \subseteq ids
  /\ \A p \in Package :
       /\ pc[p] \in {"parse", "check", "publish", "close"} => types[p] = own(p)
       /\ pc[p] = "close" => own(p) \in ids
       /\ pc[p] = "finish" => types[p] = own(p) \/ types[p] \in ids

\* A tree anyone holds is the one the cache holds, and who parses a file for all has its.
Cached ==
  \A t \in Share :
    /\ tree[t] # None => tree[t] = files[t[2]]
    /\ task[t] \in {"cpu", "look", "mutex", "work"} => tree[t] # None

\* The check the cache holds under the key of p is the one with these types.
Entry(p, of) == \E d \in decls : d.key = keyOf(p) /\ d.types = of

\* A key is claimed once, and a dependency that may share its check has, once it claimed,
\* the check of its key.
Entered ==
  /\ \A d, c \in decls : d.key = c.key => d.types = c.types
  /\ \A p \in Package \ Whole :
       /\ pc[p] = "claim" => Shareable(p)
       /\ pc[p] \in {"one", "parse", "check", "publish", "close"} /\ Shareable(p) =>
            Entry(p, own(p))
       /\ pc[p] = "finish" /\ Shareable(p) => Entry(p, types[p])

\* Once the loads are answered nothing is left to do, and "loaded" is no cancelled run's.
Ended == answer # "running" => AllDone /\ (answer = "loaded" => ~cancelled)

IInv == /\ TypeOK /\ Counted /\ Completed /\ Placed /\ Owned /\ Cached /\ Entered
        /\ Ended
-----------------------------------------------------------------------------
\* The imports a package waits for are packages, finitely many.
LEMMA AwaitedFinite ==
  ASSUME NEW p \in Package
  PROVE  /\ Awaited(p) \subseteq Imports[p] /\ Imports[p] \subseteq Package
         /\ IsFiniteSet(Awaited(p)) /\ IsFiniteSet(Imports[p])
         /\ Cardinality(Awaited(p)) \in 0 .. Cardinality(Package)
         /\ Cardinality(Awaited(p)) = 0 <=> Awaited(p) = {}
<1>1. Imports[p] \subseteq Package /\ Awaited(p) \subseteq Imports[p]
  BY DEF Awaited
<1>2. IsFiniteSet(Imports[p])
  BY <1>1, FS_Subset
<1>3. /\ IsFiniteSet(Awaited(p)) /\ Cardinality(Awaited(p)) <= Cardinality(Package)
      /\ Cardinality(Package) \in Nat
  BY <1>1, FS_Subset, FS_CardinalityType
<1>4. Cardinality(Awaited(p)) \in Nat /\ (Cardinality(Awaited(p)) = 0 <=> Awaited(p) = {})
  BY <1>3, FS_CardinalityType, FS_EmptySet
<1> QED
  BY <1>1, <1>2, <1>3, <1>4

\* A goroutine that started has every import checked.
LEMMA ImportsDone ==
  ASSUME Counted, NEW p \in Package, pc[p] # "waiting", NEW i \in Imports[p]
  PROVE  i \in Package /\ pc[i] = "finish" /\ p \in told[i]
  BY AwaitedFinite DEF Counted, Awaited

\* Once a goroutine started its key stays, while the types of what ended stay.
LEMMA KeyStays ==
  ASSUME Counted, NEW p \in Package, pc[p] # "waiting",
         \A i \in Package : pc[i] = "finish" => types'[i] = types[i]
  PROVE  keyOf(p)' = keyOf(p)
<1>1. \A i \in Imports[p] : types'[i] = types[i]
  BY ImportsDone
<1>2. {types[i] : i \in Imports[p]}' = {types[i] : i \in Imports[p]}
  BY <1>1
<1> QED
  BY <1>2 DEF keyOf

\* Whether its check may be shared stays too, while the names later keys may use stay or
\* gain those of a goroutine that has not ended.
LEMMA ShareableStays ==
  ASSUME IInv, NEW p \in Package, pc[p] # "waiting", faulty' = faulty,
         \A i \in Package : pc[i] = "finish" => types'[i] = types[i],
         \/ ids' = ids
         \/ \E q \in Package : pc[q] # "finish" /\ ids' = ids \union {own(q)}
  PROVE  Shareable(p)' <=> Shareable(p)
<1>1. \A i \in Imports[p] : i \in Package /\ pc[i] = "finish" /\ types'[i] = types[i]
  BY ImportsDone DEF IInv
<1>2. ASSUME NEW i \in Imports[p], NEW q \in Package, pc[q] # "finish", types[i] = own(q)
      PROVE  types[i] \in ids
  <2>1. i # q /\ own(i) # own(q)
    BY <1>1, <1>2 DEF own
  <2> QED
    BY <1>1, <1>2, <2>1 DEF IInv, Owned
<1>3. \A i \in Imports[p] : types'[i] \in ids' <=> types[i] \in ids
  BY <1>1, <1>2
<1> QED
  BY <1>3 DEF Shareable
-----------------------------------------------------------------------------
\* What a task's step leaves alone.
TaskStep ==
  \/ \E t \in Share : ClaimTree(t) \/ TakeTree(t)
  \/ \E t \in Task : TakeSlot(t) \/ Look(t) \/ LockSlot(t) \/ Release(t)

LEMMA TaskLeaves ==
  TaskStep => UNCHANGED <<faulty, load, answer, cancelled, pressed, pending, told, pc, types,
                          decls, ids, ready, complete>>
  BY DEF TaskStep, ClaimTree, TakeTree, TakeSlot, Look, LockSlot, Release, memo

\* A task is of a package, and of one of its files or its check.
LEMMA TaskParts ==
  /\ \A t \in Task : t = <<t[1], t[2]>> /\ t[1] \in Package /\ t[2] \in Files[t[1]] \union {None}
  /\ \A t \in Share : t \in Task /\ t[2] \in File
  /\ \A p \in Package : Check(p) \in Task /\ Check(p) \notin Share /\ Parses(p) \subseteq Task
                        /\ \A q \in Package : Check(p) \notin Parses(q)
<1>1. \A t \in Task : t = <<t[1], t[2]>> /\ t[1] \in Package /\ t[2] \in Files[t[1]] \union {None}
  BY DEF Task
<1>2. \A t \in Share : t \in Task /\ t[2] \in File
  BY <1>1 DEF Share
<1>3. ASSUME NEW p \in Package
      PROVE  /\ Check(p) \in Task /\ Check(p) \notin Share /\ Parses(p) \subseteq Task
             /\ \A q \in Package : Check(p) \notin Parses(q)
  BY DEF Check, Task, Share, Parses
<1> QED
  BY <1>1, <1>2, <1>3
\* What a load starts with: everything is of its type, and every import is awaited.
LEMMA Started ==
  /\ Counts \in [Package -> 0 .. Cardinality(Package)]
  /\ Starts \in [Package -> {"waiting", "started"}]
  /\ Nobody \in [Package -> SUBSET Package]
  /\ \A p \in Package : Nobody[p] \subseteq Importers(p) /\ NoTypes[p] = None
  /\ NoTypes \in [Package -> Types \union {None}]
  /\ NoTask \in [Task -> {"none"}] /\ NoTree \in [Share -> Tree \union {None}]
<1>1. \A p \in Package : Cardinality(Imports[p]) \in 0 .. Cardinality(Package)
  <2> SUFFICES ASSUME NEW p \in Package
               PROVE  Cardinality(Imports[p]) \in 0 .. Cardinality(Package)
    OBVIOUS
  <2> QED
    BY AwaitedFinite, FS_Subset, FS_CardinalityType
<1> QED
  BY <1>1 DEF Counts, Starts, Nobody, NoTypes, NoTask, NoTree
-----------------------------------------------------------------------------
\* The types, one action at a time.
LEMMA TypeStep == IInv /\ [Next]_vars => TypeOK'
<1> SUFFICES ASSUME IInv, [Next]_vars PROVE TypeOK'
  OBVIOUS
<1> TypeOK
  BY DEF IInv
<1> USE DEF Goto, Move, memo
<1>1. ASSUME NEW p \in Package, Begin(p) \/ declarationKey(p) PROVE TypeOK'
  BY <1>1 DEF Begin, declarationKey, TypeOK
<1>2. ASSUME NEW p \in Package, Claim(p) PROVE TypeOK'
  <2>1. own(p) \in Types
    BY DEF own, Types, TypeOK
  <2>2. \A d \in decls' : d.types \in Types
    BY <1>2, <2>1 DEF Claim, TypeOK
  <2>3. pc' \in [Package -> {"waiting", "started", "key", "claim", "follow", "one", "parse",
                            "check", "publish", "close", "finish"}]
    BY <1>2 DEF Claim, TypeOK
  <2> QED
    BY <1>2, <2>2, <2>3 DEF Claim, TypeOK
<1>3. ASSUME NEW p \in Package, Follow(p) PROVE TypeOK'
  <2>1. types' \in [Package -> Types \union {None}]
    BY <1>3 DEF Follow, Held, TypeOK
  <2> QED
    BY <1>3, <2>1 DEF Follow, TypeOK
<1>4. ASSUME NEW p \in Package, checkOne(p) PROVE TypeOK'
  <2>1. own(p) \in Types
    BY DEF own, Types, TypeOK
  <2>2. task' \in [Task -> {"none", "claim", "wait", "cpu", "look", "mutex", "work", "done"}]
    BY <1>4 DEF checkOne, TypeOK
  <2>3. After(p) \in {"publish", "finish"}
    BY DEF After
  <2> QED
    BY <1>4, <2>1, <2>2, <2>3 DEF checkOne, TypeOK
<1>5. ASSUME NEW p \in Package, Parsed(p) PROVE TypeOK'
  BY <1>5, TaskParts DEF Parsed, TypeOK
<1>6. ASSUME NEW p \in Package, Checked(p) \/ Publish(p) \/ Close(p) PROVE TypeOK'
  <2>1. own(p) \in Types
    BY DEF own, Types, TypeOK
  <2> QED
    BY <1>6, <2>1 DEF Checked, Publish, Close, After, TypeOK
<1>7. ASSUME NEW p \in Package, NEW q \in Package, Tell(p, q) PROVE TypeOK'
  <2>1. p \in Imports[q] /\ q \notin told[p] /\ p \in Awaited(q)
    BY <1>7 DEF Tell, Importers, Awaited
  <2>2. pending[q] \in 1 .. Cardinality(Package) /\ Cardinality(Package) \in Nat
    BY <2>1, AwaitedFinite, FS_CardinalityType DEF IInv, Counted
  <2>3. pending[q] - 1 \in 0 .. Cardinality(Package)
    BY <2>2
  <2>4. pending' \in [Package -> 0 .. Cardinality(Package)]
    BY <1>7, <2>3 DEF Tell, TypeOK
  <2>5. /\ told' \in [Package -> SUBSET Package]
        /\ \A r \in Package : told'[r] \subseteq Importers(r)
    BY <1>7 DEF Tell, TypeOK
  <2>6. pc' \in [Package -> {"waiting", "started", "key", "claim", "follow", "one", "parse",
                            "check", "publish", "close", "finish"}]
    BY <1>7 DEF Tell, TypeOK
  <2> QED
    BY <1>7, <2>4, <2>5, <2>6 DEF Tell, TypeOK
<1>8. ASSUME NEW t \in Share, ClaimTree(t) \/ TakeTree(t) PROVE TypeOK'
  <2>1. <<load, t>> \in Tree /\ t \in Task /\ t[2] \in File
    BY TaskParts DEF Tree, TypeOK
  <2>2. files' \in [File -> Tree \union {None}] /\ tree' \in [Share -> Tree \union {None}]
    BY <1>8, <2>1 DEF ClaimTree, TakeTree, TypeOK
  <2> QED
    BY <1>8, <2>1, <2>2 DEF ClaimTree, TakeTree, TypeOK
<1>9. ASSUME NEW t \in Task, TakeSlot(t) \/ Look(t) \/ LockSlot(t) PROVE TypeOK'
  BY <1>9 DEF TakeSlot, Look, LockSlot, TypeOK
<1>10. ASSUME NEW t \in Task, Release(t) PROVE TypeOK'
  <2>1. t \in Share => tree[t] \in Tree
    BY <1>10 DEF Release, TypeOK, IInv, Cached
  <2> QED
    BY <1>10, <2>1 DEF Release, TypeOK
<1>11. CASE LoadEnds
  <2>1. CASE cancelled \/ load = Loads
    BY <1>11, <2>1 DEF LoadEnds, TypeOK
  <2>2. CASE ~cancelled /\ load # Loads
    <3>1. load + 1 \in 1 .. Loads
      BY <2>2 DEF TypeOK
    <3> QED
      BY <1>11, <2>2, <3>1, Started DEF LoadEnds, TypeOK
  <2> QED
    BY <2>1, <2>2
<1>12. CASE Cancel
  BY <1>12 DEF Cancel, TypeOK
<1>13. CASE Govern
  BY <1>13 DEF Govern, TypeOK
<1>14. CASE UNCHANGED vars
  BY <1>14 DEF vars, TypeOK
<1> QED
  BY <1>1, <1>2, <1>3, <1>4, <1>5, <1>6, <1>7, <1>8, <1>9, <1>10, <1>11, <1>12,
     <1>13, <1>14
     DEF Next, Step, Goroutine
-----------------------------------------------------------------------------
\* What the goroutine of p changes but for its telling: where it stands, its types and, where
\* its parses begin or its check, tasks of its own.
Own(p) ==
  \/ Begin(p) \/ declarationKey(p) \/ Claim(p) \/ Follow(p) \/ checkOne(p)
  \/ Parsed(p) \/ Checked(p) \/ Publish(p) \/ Close(p)

LEMMA OwnMoves ==
  ASSUME TypeOK, NEW p \in Package, Own(p)
  PROVE  /\ pc[p] \notin {"waiting", "finish"} /\ pc'[p] # "waiting"
         /\ \A q \in Package : q # p => pc'[q] = pc[q] /\ types'[q] = types[q]
         /\ UNCHANGED <<faulty, load, answer, cancelled, pending, told>>
<1> USE DEF Goto, TypeOK, After
<1>1. CASE Begin(p)
  BY <1>1 DEF Begin
<1>2. CASE declarationKey(p)
  BY <1>2 DEF declarationKey
<1>3. CASE Claim(p)
  BY <1>3 DEF Claim
<1>4. CASE Follow(p)
  BY <1>4 DEF Follow
<1>5. CASE checkOne(p)
  BY <1>5 DEF checkOne
<1>6. CASE Parsed(p)
  BY <1>6 DEF Parsed
<1>7. CASE Checked(p)
  BY <1>7 DEF Checked
<1>8. CASE Publish(p)
  BY <1>8 DEF Publish
<1>9. CASE Close(p)
  BY <1>9 DEF Close
<1> QED
  BY <1>1, <1>2, <1>3, <1>4, <1>5, <1>6, <1>7, <1>8, <1>9 DEF Own

\* A step is a goroutine's own, its telling, a task's, the end of a load or a change of the
\* flags.
LEMMA Steps ==
  ASSUME [Next]_vars
  PROVE  \/ \E p \in Package : Own(p) \/ \E q \in Package : Tell(p, q)
         \/ TaskStep \/ LoadEnds \/ Cancel \/ Govern \/ UNCHANGED vars
  BY DEF Next, Step, Goroutine, Own, TaskStep

\* The counts, where an importer is told.
LEMMA TellCounts ==
  ASSUME IInv, NEW p \in Package, NEW q \in Package, Tell(p, q)
  PROVE  /\ pc[q] = "waiting" /\ pc[p] = "finish" /\ q # p
         /\ pc'[q] \in {"waiting", "started"}
         /\ \A r \in Package : r # q => pc'[r] = pc[r]
         /\ Counted'
<1> TypeOK /\ Counted
  BY DEF IInv
<1>1. p \in Imports[q] /\ q \notin told[p] /\ p \in Awaited(q) /\ pc[p] = "finish"
  BY DEF Tell, Importers, Awaited
<1>2. pc[q] = "waiting" /\ q # p
  BY <1>1 DEF Counted
<1>3. /\ told' = [told EXCEPT ![p] = @ \union {q}] /\ pending' = [pending EXCEPT ![q] = @ - 1]
      /\ pc' = IF pending[q] = 1 THEN [pc EXCEPT ![q] = "started"] ELSE pc
  BY DEF Tell
<1>4. \A r \in Package : told'[r] = IF r = p THEN told[r] \union {q} ELSE told[r]
  BY <1>3 DEF TypeOK
<1>5. \A r \in Package : r # q => Awaited(r)' = Awaited(r)
  BY <1>4 DEF Awaited
<1>6. Awaited(q)' = Awaited(q) \ {p}
  BY <1>1, <1>4 DEF Awaited
<1>7. Cardinality(Awaited(q)') = Cardinality(Awaited(q)) - 1
  <2>1. IsFiniteSet(Awaited(q))
    BY AwaitedFinite
  <2>2. Cardinality(Awaited(q) \ {p}) = Cardinality(Awaited(q)) - 1
    BY <1>1, <2>1, FS_RemoveElement
  <2> QED
    BY <1>6, <2>2
<1>8. pending[q] = Cardinality(Awaited(q)) /\ pending'[q] = Cardinality(Awaited(q)')
  BY <1>3, <1>7 DEF Counted, TypeOK
<1>9. pending[q] = 1 <=> Awaited(q)' = {}
  <2>1. IsFiniteSet(Awaited(q)') /\ Cardinality(Awaited(q)) \in Nat
    BY <1>6, AwaitedFinite, FS_RemoveElement
  <2> QED
    BY <1>7, <1>8, <2>1, FS_EmptySet
<1>10. pc'[q] = (IF pending[q] = 1 THEN "started" ELSE "waiting") /\ \A r \in Package : r # q => pc'[r] = pc[r]
  BY <1>2, <1>3 DEF TypeOK
<1>11. ASSUME NEW r \in Package
       PROVE  /\ pending'[r] = Cardinality(Awaited(r)')
              /\ pc'[r] = "waiting" <=> Awaited(r)' # {}
              /\ told'[r] # {} => pc'[r] = "finish"
  <2>1. CASE r = q
    BY <1>2, <1>4, <1>8, <1>9, <1>10, <2>1 DEF Counted
  <2>2. CASE r # q
    BY <1>1, <1>3, <1>4, <1>5, <1>10, <2>2 DEF Counted, TypeOK
  <2> QED
    BY <2>1, <2>2
<1> QED
  BY <1>1, <1>2, <1>10, <1>11 DEF Counted

\* A load that starts awaits every import of every package.
LEMMA StartCounts ==
  ASSUME pending' = Counts, told' = Nobody, pc' = Starts
  PROVE  Counted'
<1>1. \A p \in Package : Awaited(p)' = Imports[p] /\ told'[p] = {}
  BY DEF Awaited, Nobody
<1>2. \A p \in Package : pending'[p] = Cardinality(Imports[p])
  BY DEF Counts
<1>3. \A p \in Package : pc'[p] = "waiting" <=> Imports[p] # {}
  BY DEF Starts
<1> QED
  BY <1>1, <1>2, <1>3 DEF Counted

\* The counts hold, whatever the step.
LEMMA CountedStep == IInv /\ [Next]_vars => Counted'
<1> SUFFICES ASSUME IInv, [Next]_vars PROVE Counted'
  OBVIOUS
<1> TypeOK /\ Counted
  BY DEF IInv
<1>1. ASSUME NEW p \in Package, Own(p) PROVE Counted'
  <2>1. \A r \in Package : Awaited(r)' = Awaited(r)
    BY <1>1, OwnMoves DEF Awaited
  <2> QED
    BY <1>1, <2>1, OwnMoves DEF Counted
<1>2. ASSUME NEW p \in Package, NEW q \in Package, Tell(p, q) PROVE Counted'
  BY <1>2, TellCounts
<1>3. ASSUME pending' = pending, told' = told, pc' = pc PROVE Counted'
  BY <1>3 DEF Counted, Awaited
<1>4. CASE LoadEnds
  BY <1>3, <1>4, StartCounts DEF LoadEnds
<1>5. CASE TaskStep \/ Cancel \/ Govern \/ UNCHANGED vars
  BY <1>3, <1>5, TaskLeaves DEF Cancel, Govern, vars
<1> QED
  BY <1>1, <1>2, <1>4, <1>5, Steps
-----------------------------------------------------------------------------
\* What a load that ends, or an importer told, leaves alone.
LEMMA OthersStay ==
  ASSUME IInv
  PROVE  /\ \A p, q \in Package : Tell(p, q) =>
              /\ UNCHANGED <<load, cancelled, answer, faulty, types, task, tree, memo>>
              /\ \A r \in Package : pc'[r] = pc[r] \/ pc'[r] \in {"waiting", "started"}
         /\ LoadEnds =>
              /\ UNCHANGED <<cancelled, faulty, memo>>
              /\ \/ UNCHANGED <<load, pending, told, pc, types, task, tree>>
                    /\ (cancelled \/ load = Loads)
                 \/ /\ ~cancelled /\ answer' = answer
                    /\ pending' = Counts /\ told' = Nobody /\ pc' = Starts
                    /\ types' = NoTypes /\ task' = NoTask /\ tree' = NoTree
<1>1. ASSUME NEW p \in Package, NEW q \in Package, Tell(p, q)
      PROVE  /\ UNCHANGED <<load, cancelled, answer, faulty, types, task, tree, memo>>
             /\ \A r \in Package : pc'[r] = pc[r] \/ pc'[r] \in {"waiting", "started"}
  BY <1>1, TellCounts DEF Tell
<1>2. ASSUME LoadEnds
      PROVE  /\ UNCHANGED <<cancelled, faulty, memo>>
             /\ \/ UNCHANGED <<load, pending, told, pc, types, task, tree>>
                   /\ (cancelled \/ load = Loads)
                \/ /\ ~cancelled /\ answer' = answer
                   /\ pending' = Counts /\ told' = Nobody /\ pc' = Starts
                   /\ types' = NoTypes /\ task' = NoTask /\ tree' = NoTree
  BY <1>2 DEF LoadEnds
<1> QED
  BY <1>1, <1>2

\* Complete checks stay complete and what passes is, whatever the step.
LEMMA CompletedStep == IInv /\ [Next]_vars => Completed'
<1> SUFFICES ASSUME IInv, [Next]_vars, ~cancelled' PROVE Completed'
  BY DEF Completed
<1> TypeOK /\ Owned
  BY DEF IInv
<1> DEFINE Passed(p) == /\ pc[p] \in {"publish", "close"} => own(p) \in complete
                        /\ pc[p] = "finish" => types[p] \in complete
<1>1. ASSUME NEW p \in Package, Own(p) PROVE Completed'
  <2>1. /\ ~cancelled /\ load' = load /\ ready \subseteq complete /\ \A q \in Package : Passed(q)
        /\ \A q \in Package : q # p => pc'[q] = pc[q] /\ types'[q] = types[q]
    BY <1>1, OwnMoves DEF IInv, Completed
  <2>2. complete \subseteq complete' /\ ready' \subseteq complete' /\ Passed(p)'
    <3> USE DEF Goto, own, TypeOK, Owned
    <3>1. CASE Begin(p) \/ declarationKey(p)
      BY <2>1, <3>1 DEF Begin, declarationKey, memo
    <3>2. CASE Claim(p)
      BY <2>1, <3>2 DEF Claim
    <3>3. CASE Follow(p)
      <4>1. types'[p] \in ready /\ complete' = complete /\ ready' = ready /\ pc'[p] = "finish"
        BY <3>3 DEF Follow, memo
      <4> QED
        BY <2>1, <4>1
    <3>4. CASE checkOne(p) \/ Parsed(p)
      BY <2>1, <3>4 DEF checkOne, Parsed, memo
    <3>5. CASE Checked(p)
      BY <2>1, <3>5 DEF Checked
    <3>6. CASE Publish(p) \/ Close(p)
      BY <2>1, <3>6 DEF Publish, Close
    <3> QED
      BY <1>1, <3>1, <3>2, <3>3, <3>4, <3>5, <3>6 DEF Own
  <2>3. \A q \in Package : Passed(q)'
    <3> SUFFICES ASSUME NEW q \in Package, q # p PROVE Passed(q)'
      BY <2>2
    <3> QED
      BY <2>1, <2>2 DEF own
  <2> QED
    BY <2>2, <2>3 DEF Completed
<1>2. ASSUME NEW p \in Package, NEW q \in Package, Tell(p, q) PROVE Completed'
  BY <1>2, OthersStay DEF IInv, Completed, own, memo
<1>3. CASE LoadEnds
  <2>1. CASE UNCHANGED <<load, pc, types>>
    BY <1>3, <2>1, OthersStay DEF IInv, Completed, own, memo
  <2>2. CASE pc' = Starts
    BY <1>3, <2>2, OthersStay DEF IInv, Completed, memo, Starts
  <2>3. UNCHANGED <<load, pc, types>> \/ pc' = Starts
    BY <1>3 DEF LoadEnds
  <2> QED
    BY <2>1, <2>2, <2>3
<1>4. CASE TaskStep \/ Cancel \/ Govern \/ UNCHANGED vars
  BY <1>4, TaskLeaves DEF Cancel, Govern, vars, memo, IInv, Completed, own
<1> QED
  BY <1>1, <1>2, <1>3, <1>4, Steps

\* A check's task stands nowhere before its goroutine gets there, whatever the step.
LEMMA PlacedStep == IInv /\ [Next]_vars => Placed'
<1> SUFFICES ASSUME IInv, [Next]_vars PROVE Placed'
  OBVIOUS
<1> TypeOK /\ Placed
  BY DEF IInv
<1> USE DEF Goto, Move, TypeOK
<1>1. ASSUME NEW p \in Package, Own(p) PROVE Placed'
  <2>1. \A q \in Package : q # p => pc'[q] = pc[q] /\ task'[Check(q)] = task[Check(q)]
    <3> SUFFICES ASSUME NEW q \in Package, q # p
                 PROVE  pc'[q] = pc[q] /\ task'[Check(q)] = task[Check(q)]
      OBVIOUS
    <3>1. Check(q) \in Task /\ Check(q) \notin Parses(p) /\ Check(p) # Check(q)
      BY TaskParts DEF Check
    <3>2. task'[Check(q)] = task[Check(q)]
      BY <1>1, <3>1 DEF Own, Begin, declarationKey, Claim, Follow, checkOne, Parsed, Checked,
                        Publish, Close
    <3> QED
      BY <1>1, <3>2, OwnMoves
  <2>2. task'[Check(p)] # "none" => pc'[p] \in {"check", "publish", "close", "finish"}
    <3>1. Check(p) \in Task /\ Check(p) \notin Parses(p)
      BY TaskParts
    <3>2. CASE Begin(p) \/ declarationKey(p)
      BY <3>1, <3>2 DEF Placed, Begin, declarationKey
    <3>3. CASE Claim(p) \/ Follow(p)
      BY <3>1, <3>3 DEF Placed, Claim, Follow
    <3>4. CASE checkOne(p)
      BY <3>1, <3>4 DEF Placed, checkOne, After
    <3>5. CASE Parsed(p) \/ Checked(p) \/ Publish(p) \/ Close(p)
      BY <3>1, <3>5 DEF Placed, Parsed, Checked, Publish, Close, After
    <3> QED
      BY <1>1, <3>2, <3>3, <3>4, <3>5 DEF Own
  <2> QED
    BY <2>1, <2>2 DEF Placed
<1>2. ASSUME NEW p \in Package, NEW q \in Package, Tell(p, q) PROVE Placed'
  <2>1. task' = task /\ pc[q] = "waiting" /\ \A r \in Package : r # q => pc'[r] = pc[r]
    BY <1>2, TellCounts DEF Tell
  <2> QED
    BY <2>1 DEF Placed
<1>3. ASSUME NEW t \in Task, \/ t \in Share /\ (ClaimTree(t) \/ TakeTree(t))
                            \/ TakeSlot(t) \/ Look(t) \/ LockSlot(t) \/ Release(t)
      PROVE  Placed'
  <2>1. /\ pc' = pc /\ task[t] # "none"
        /\ \A u \in Task : u # t => task'[u] = task[u]
    BY <1>3, TaskParts DEF ClaimTree, TakeTree, TakeSlot, Look, LockSlot, Release
  <2> QED
    BY <2>1, TaskParts DEF Placed
<1>4. CASE TaskStep
  BY <1>3, <1>4, TaskParts DEF TaskStep
<1>5. CASE LoadEnds
  BY <1>5, TaskParts DEF LoadEnds, Placed, NoTask
<1>6. CASE Cancel \/ Govern \/ UNCHANGED vars
  BY <1>6 DEF Cancel, Govern, vars, Placed
<1> QED
  BY <1>1, <1>2, <1>4, <1>5, <1>6, Steps

\* Who has which types, whatever the step.
LEMMA OwnedStep == IInv /\ [Next]_vars => Owned'
<1> SUFFICES ASSUME IInv, [Next]_vars PROVE Owned'
  OBVIOUS
<1> TypeOK /\ Owned
  BY DEF IInv
<1> DEFINE Has(p) == /\ pc[p] \in {"parse", "check", "publish", "close"} => types[p] = own(p)
                     /\ pc[p] = "close" => own(p) \in ids
                     /\ pc[p] = "finish" => types[p] = own(p) \/ types[p] \in ids
<1>1. ASSUME NEW p \in Package, Own(p) PROVE Owned'
  <2>1. /\ load' = load /\ ready \subseteq ids /\ \A q \in Package : Has(q)
        /\ \A q \in Package : q # p => pc'[q] = pc[q] /\ types'[q] = types[q]
    BY <1>1, OwnMoves DEF Owned
  <2>2. ids \subseteq ids' /\ ready' \subseteq ids' /\ Has(p)'
    <3> USE DEF Goto, own, TypeOK, After
    <3>1. CASE Begin(p) \/ declarationKey(p)
      BY <2>1, <3>1 DEF Begin, declarationKey, memo
    <3>2. CASE Claim(p)
      BY <2>1, <3>2 DEF Claim
    <3>3. CASE Follow(p)
      <4>1. types'[p] \in ready /\ ids' = ids /\ ready' = ready /\ pc'[p] = "finish"
        BY <3>3 DEF Follow, memo
      <4> QED
        BY <2>1, <4>1
    <3>4. CASE checkOne(p) \/ Parsed(p)
      BY <2>1, <3>4 DEF checkOne, Parsed, memo
    <3>5. CASE Checked(p)
      BY <2>1, <3>5 DEF Checked
    <3>6. CASE Publish(p) \/ Close(p)
      BY <2>1, <3>6 DEF Publish, Close
    <3> QED
      BY <1>1, <3>1, <3>2, <3>3, <3>4, <3>5, <3>6 DEF Own
  <2>3. \A q \in Package : Has(q)'
    <3> SUFFICES ASSUME NEW q \in Package, q # p PROVE Has(q)'
      BY <2>2
    <3> QED
      BY <2>1, <2>2 DEF own
  <2> QED
    BY <2>2, <2>3 DEF Owned
<1>2. ASSUME NEW p \in Package, NEW q \in Package, Tell(p, q) PROVE Owned'
  BY <1>2, OthersStay DEF Owned, own, memo
<1>3. CASE LoadEnds
  <2>1. CASE UNCHANGED <<load, pc, types>>
    BY <1>3, <2>1, OthersStay DEF Owned, own, memo
  <2>2. CASE pc' = Starts
    BY <1>3, <2>2, OthersStay DEF Owned, memo, Starts
  <2>3. UNCHANGED <<load, pc, types>> \/ pc' = Starts
    BY <1>3 DEF LoadEnds
  <2> QED
    BY <2>1, <2>2, <2>3
<1>4. CASE TaskStep \/ Cancel \/ Govern \/ UNCHANGED vars
  BY <1>4, TaskLeaves DEF Cancel, Govern, vars, memo, Owned, own
<1> QED
  BY <1>1, <1>2, <1>3, <1>4, Steps

\* A tree held is the cache's, whatever the step.
LEMMA CachedStep == IInv /\ [Next]_vars => Cached'
<1> SUFFICES ASSUME IInv, [Next]_vars PROVE Cached'
  OBVIOUS
<1> TypeOK /\ Cached
  BY DEF IInv
<1> USE DEF Goto, Move, TypeOK
<1>1. ASSUME NEW p \in Package, Own(p) PROVE Cached'
  <2>1. /\ tree' = tree /\ files' = files
        /\ \A t \in Share : task'[t] = task[t] \/ task'[t] = "claim"
    <3>1. CASE checkOne(p)
      BY <3>1, TaskParts DEF checkOne, memo
    <3>2. CASE Parsed(p)
      BY <3>2, TaskParts DEF Parsed, memo
    <3>3. CASE Begin(p) \/ declarationKey(p) \/ Claim(p) \/ Follow(p)
      BY <3>3 DEF Begin, declarationKey, Claim, Follow, memo
    <3>4. CASE Checked(p) \/ Publish(p) \/ Close(p)
      BY <3>4 DEF Checked, Publish, Close
    <3> QED
      BY <1>1, <3>1, <3>2, <3>3, <3>4 DEF Own
  <2> QED
    BY <2>1 DEF Cached
<1>2. ASSUME NEW t \in Share, ClaimTree(t) PROVE Cached'
  <2>1. <<load, t>> \in Tree /\ <<load, t>> # None /\ t \in Task /\ t[2] \in File
    BY TaskParts DEF Tree
  <2>2. CASE files[t[2]] # None
    <3>1. tree' = tree /\ files' = files /\ task' = [task EXCEPT ![t] = "wait"]
      BY <1>2, <2>2 DEF ClaimTree
    <3>2. \A u \in Share : task'[u] = task[u] \/ task'[u] = "wait"
      BY <2>1, <3>1, TaskParts
    <3> QED
      BY <3>1, <3>2 DEF Cached
  <2>3. CASE files[t[2]] = None
    <3>1. \A u \in Share : u # t => task'[u] = task[u] /\ tree'[u] = tree[u]
      BY <1>2, <2>3, TaskParts DEF ClaimTree
    <3>2. /\ tree'[t] = <<load, t>> /\ files'[t[2]] = <<load, t>>
          /\ \A f \in File : f # t[2] => files'[f] = files[f]
      BY <1>2, <2>1, <2>3 DEF ClaimTree
    <3>3. \A u \in Share : u # t /\ tree[u] # None => tree[u] = files'[u[2]]
      BY <2>3, <3>2, TaskParts DEF Cached
    <3> QED
      BY <2>1, <3>1, <3>2, <3>3 DEF Cached
  <2> QED
    BY <2>2, <2>3
<1>3. ASSUME NEW t \in Share, TakeTree(t) PROVE Cached'
  BY <1>3, TaskParts DEF TakeTree, Cached, memo
<1>4. ASSUME NEW t \in Task, TakeSlot(t) \/ Look(t) \/ LockSlot(t) \/ Release(t) PROVE Cached'
  <2>1. /\ tree' = tree /\ files' = files /\ \A u \in Share : u # t => task'[u] = task[u]
        /\ task[t] \in {"cpu", "look", "mutex", "work"}
    BY <1>4, TaskParts DEF TakeSlot, Look, LockSlot, Release, memo
  <2> QED
    BY <2>1, TaskParts DEF Cached
<1>5. CASE TaskStep
  BY <1>2, <1>3, <1>4, <1>5 DEF TaskStep
<1>6. CASE LoadEnds
  BY <1>6, TaskParts DEF LoadEnds, Cached, NoTask, NoTree, memo
<1>7. CASE (\E p \in Package : \E q \in Package : Tell(p, q)) \/ Cancel \/ Govern \/ UNCHANGED vars
  BY <1>7 DEF Tell, Cancel, Govern, vars, memo, Cached
<1> QED
  BY <1>1, <1>5, <1>6, <1>7, Steps

\* Keys stay claimed once and what claimed one stays entered, whatever the step.
LEMMA EnteredStep == IInv /\ [Next]_vars => Entered'
<1> SUFFICES ASSUME IInv, [Next]_vars PROVE Entered'
  OBVIOUS
<1> TypeOK /\ Counted /\ Entered /\ Owned
  BY DEF IInv
<1> DEFINE Sees(p) ==
      /\ pc[p] = "claim" => Shareable(p)
      /\ pc[p] \in {"one", "parse", "check", "publish", "close"} /\ Shareable(p) =>
           Entry(p, own(p))
      /\ pc[p] = "finish" /\ Shareable(p) => Entry(p, types[p])
<1>1. ASSUME NEW p \in Package, Own(p) PROVE Entered'
  <2>1. /\ load' = load /\ faulty' = faulty /\ pc[p] \notin {"waiting", "finish"}
        /\ \A q \in Package : q # p => pc'[q] = pc[q] /\ types'[q] = types[q]
    BY <1>1, OwnMoves
  <2>2. ids' = ids \/ ids' = ids \union {own(p)}
    BY <1>1 DEF Own, Begin, declarationKey, Claim, Follow, checkOne, Parsed, Checked, Publish,
                Close, memo
  <2>3. \A q \in Package : pc[q] # "waiting" =>
          keyOf(q)' = keyOf(q) /\ (Shareable(q)' <=> Shareable(q))
    BY <2>1, <2>2, KeyStays, ShareableStays
  <2>4. /\ decls \subseteq decls'
        /\ \A d, c \in decls' : d.key = c.key => d.types = c.types
    <3>1. CASE Claim(p)
      BY <3>1 DEF Claim, Held, Entered
    <3>2. CASE ~Claim(p)
      BY <1>1, <3>2 DEF Own, Begin, declarationKey, Follow, checkOne, Parsed, Checked, Publish,
                        Close, memo, Entered
    <3> QED
      BY <3>1, <3>2
  <2>5. \A q \in Package : \A of : pc[q] # "waiting" /\ Entry(q, of) => Entry(q, of)'
    BY <2>3, <2>4 DEF Entry
  <2>6. ASSUME NEW q \in Package \ Whole, q # p PROVE Sees(q)'
    <3>1. pc'[q] = pc[q] /\ types'[q] = types[q] /\ own(q)' = own(q) /\ Sees(q)
      BY <2>1, <2>6 DEF Entered, own
    <3> QED
      BY <2>3, <2>5, <3>1
  <2>7. ASSUME p \notin Whole PROVE Sees(p)'
    <3> USE DEF Goto, After, TypeOK
    <3>0. /\ Sees(p) /\ own(p)' = own(p)
          /\ pc[p] \in {"parse", "check", "publish", "close"} => types[p] = own(p)
      BY <2>1, <2>7 DEF Entered, own, Owned
    <3>1. CASE Begin(p)
      BY <2>7, <3>1 DEF Begin
    <3>2. CASE declarationKey(p)
      <4>1. pc'[p] = (IF Shareable(p) THEN "claim" ELSE "one")
        BY <3>2 DEF declarationKey
      <4> QED
        BY <2>1, <2>3, <4>1
    <3>3. CASE Claim(p)
      <4>1. CASE pc'[p] = "follow"
        BY <4>1
      <4>2. CASE pc'[p] # "follow"
        <5>1. pc'[p] = "one" /\ [key |-> keyOf(p), types |-> own(p)] \in decls'
          BY <3>3, <4>2 DEF Claim
        <5> QED
          BY <2>1, <2>3, <3>0, <5>1 DEF Entry
      <4> QED
        BY <4>1, <4>2
    <3>4. CASE Follow(p)
      <4>1. pc'[p] = "finish" /\ \E d \in decls : d.key = keyOf(p) /\ d.types = types'[p]
        BY <3>4 DEF Follow, Held
      <4> QED
        BY <2>1, <2>5, <4>1 DEF Entry
    <3>5. CASE checkOne(p)
      <4>1. pc[p] = "one" /\ pc'[p] \in {"parse", "publish", "finish"} /\ types'[p] = own(p)
        BY <3>5 DEF checkOne
      <4> QED
        BY <2>1, <2>3, <2>5, <3>0, <4>1
    <3>6. CASE Parsed(p) \/ Checked(p) \/ Publish(p) \/ Close(p)
      <4>1. /\ pc[p] \in {"parse", "check", "publish", "close"} /\ types'[p] = types[p]
            /\ pc'[p] \in {"check", "publish", "close", "finish"}
        BY <3>6 DEF Parsed, Checked, Publish, Close
      <4> QED
        BY <2>1, <2>3, <2>5, <3>0, <4>1
    <3> QED
      BY <1>1, <3>1, <3>2, <3>3, <3>4, <3>5, <3>6 DEF Own
  <2> QED
    BY <2>4, <2>6, <2>7 DEF Entered
<1>2. ASSUME UNCHANGED <<faulty, load, types, ids, decls>>,
             \A p \in Package : pc'[p] = pc[p] \/ pc'[p] \in {"waiting", "started"}
      PROVE  Entered'
  <2>1. \A p \in Package : /\ own(p)' = own(p) /\ (Shareable(p)' <=> Shareable(p))
                           /\ \A of : Entry(p, of)' <=> Entry(p, of)
    BY <1>2 DEF own, Shareable, Entry, keyOf
  <2> QED
    BY <1>2, <2>1 DEF Entered
<1>3. ASSUME NEW p \in Package, NEW q \in Package, Tell(p, q) PROVE Entered'
  BY <1>2, <1>3, OthersStay DEF memo
<1>4. CASE LoadEnds
  <2>1. CASE UNCHANGED <<load, pc, types>>
    BY <1>2, <1>4, <2>1, OthersStay DEF memo
  <2>2. CASE pc' = Starts
    BY <1>4, <2>2, OthersStay DEF Entered, memo, Starts
  <2>3. UNCHANGED <<load, pc, types>> \/ pc' = Starts
    BY <1>4 DEF LoadEnds
  <2> QED
    BY <2>1, <2>2, <2>3
<1>5. CASE TaskStep \/ Cancel \/ Govern \/ UNCHANGED vars
  BY <1>2, <1>5, TaskLeaves DEF Cancel, Govern, vars, memo
<1> QED
  BY <1>1, <1>3, <1>4, <1>5, Steps

\* Once every goroutine ended the loads are answered and nothing starts again.
LEMMA EndedStep == IInv /\ [Next]_vars => Ended'
<1> SUFFICES ASSUME IInv, [Next]_vars, answer' # "running" PROVE Ended'
  BY DEF Ended
<1> TypeOK /\ Ended
  BY DEF IInv
<1>1. ASSUME answer' = answer PROVE Ended'
  <2>0. AllDone /\ (answer = "loaded" => ~cancelled)
    BY <1>1 DEF Ended
  <2>1. ASSUME NEW p \in Package PROVE ~Own(p) /\ \A q \in Package : ~Tell(p, q)
    BY <2>0, OwnMoves DEF AllDone, Tell
  <2>2. pc' = pc /\ told' = told /\ cancelled' = cancelled
    <3>1. CASE TaskStep \/ Govern \/ UNCHANGED vars
      BY <3>1, TaskLeaves DEF Govern, vars
    <3>2. ~Cancel /\ ~LoadEnds
      BY <1>1 DEF Cancel, LoadEnds
    <3> QED
      BY <2>1, <3>1, <3>2, Steps
  <2> QED
    BY <1>1, <2>0, <2>2 DEF Ended, AllDone
<1>2. CASE LoadEnds
  BY <1>2 DEF LoadEnds, Ended, AllDone
<1>3. answer' = answer \/ LoadEnds
  <2>1. \A p \in Package : Own(p) => answer' = answer
    BY OwnMoves
  <2> QED
    BY <2>1, Steps, TaskLeaves DEF Tell, Cancel, Govern, vars
<1> QED
  BY <1>1, <1>2, <1>3

\* Every goroutine is at its start at first, and the cache is empty.
LEMMA InvInit == Init => IInv
<1> SUFFICES ASSUME Init PROVE IInv
  OBVIOUS
<1>1. TypeOK
  <2>1. load \in 1 .. Loads /\ slot = None /\ files \in [File -> Tree \union {None}]
    BY DEF Init
  <2>2. /\ parsed \subseteq Tree /\ \A d \in decls : d.types \in Types
        /\ ids \subseteq Types /\ ready \subseteq Types /\ complete \subseteq Types
    BY DEF Init
  <2>3. /\ faulty \in Faults /\ answer = "running" /\ cancelled \in BOOLEAN /\ pressed \in BOOLEAN
        /\ pending = Counts /\ told = Nobody /\ pc = Starts
        /\ types = NoTypes /\ task = NoTask /\ tree = NoTree
    BY DEF Init
  <2> QED
    BY <2>1, <2>2, <2>3, Started DEF TypeOK
<1>2. Counted
  BY DEF Init, Counted, Awaited, Nobody, Counts, Starts
<1>3. Completed /\ Placed /\ Owned /\ Cached /\ Entered /\ Ended
  BY TaskParts DEF Init, Completed, Placed, Owned, Cached, Entered, Ended, Starts, NoTask, NoTree
<1> QED
  BY <1>1, <1>2, <1>3 DEF IInv

\* Every step keeps the invariant.
LEMMA InvStep == IInv /\ [Next]_vars => IInv'
  BY TypeStep, CountedStep, CompletedStep, PlacedStep, OwnedStep, CachedStep, EnteredStep,
     EndedStep DEF IInv

\* Every goroutine, task, tree and check stays of its type, whatever the interleaving.
THEOREM TypeCorrect == Spec => []TypeOK
<1>1. IInv => TypeOK
  BY DEF IInv
<1> QED
  BY <1>1, InvInit, InvStep, PTL DEF Spec

\* For every import graph, every number of slots and of loads: a package is checked only
\* once each of its imports has complete types, and loads are answered only where every
\* package has, whatever order the goroutines of the checker run in.
THEOREM ChecksComplete == Spec => []LoadsComplete
<1>1. IInv => ImportsFirst
  <2> SUFFICES ASSUME IInv, NEW p \in Package, task[Check(p)] = "work", ~cancelled,
                      NEW i \in Imports[p]
               PROVE  types[i] \in complete
    BY DEF ImportsFirst
  <2>1. pc[p] # "waiting"
    BY DEF IInv, Placed
  <2>2. i \in Package /\ pc[i] = "finish"
    BY <2>1, ImportsDone DEF IInv
  <2> QED
    BY <2>2 DEF IInv, Completed
<1>2. IInv => AnsweredComplete
  BY DEF IInv, Ended, AllDone, Completed, AnsweredComplete
<1> QED
  BY <1>1, <1>2, InvInit, InvStep, PTL DEF Spec, LoadsComplete

\* For every set of files and packages: a file of packages checked whole has one tree
\* however many of them, and however many loads, compile it, and two dependencies that
\* compile the same files over the same imports have the same types.
THEOREM ChecksOnce == Spec => []CheckedOnce
<1>1. IInv => CheckedOnce
  <2> SUFFICES ASSUME IInv PROVE CheckedOnce
    OBVIOUS
  <2>1. \A t, u \in Share : t[2] = u[2] /\ None \notin {tree[t], tree[u]} => tree[t] = tree[u]
    BY DEF IInv, Cached
  <2>2. ASSUME NEW p \in Package \ Whole, NEW q \in Package \ Whole,
               pc[p] = "finish", Shareable(p), pc[q] = "finish", Shareable(q),
               keyOf(p) = keyOf(q)
        PROVE  types[p] = types[q]
    <3>1. Entry(p, types[p]) /\ Entry(q, types[q])
      BY <2>2 DEF IInv, Entered
    <3> QED
      BY <2>2, <3>1 DEF IInv, Entered, Entry
  <2> QED
    BY <2>1, <2>2 DEF CheckedOnce
<1> QED
  BY <1>1, InvInit, InvStep, PTL DEF Spec
-----------------------------------------------------------------------------
\* What no step under pressure does: put a second task to work beside those that work and
\* the one that takes the slot of the process.
LEMMA PressedStep ==
  ASSUME TypeOK, [Next]_vars, pressed
  PROVE  Working' \ {slot'} \subseteq Working \ {slot}
<1> USE DEF Move, Working, TypeOK
<1>1. ASSUME NEW p \in Package, Own(p) PROVE Working' \subseteq Working /\ slot' = slot
  <2>1. slot' = slot /\ \A t \in Task : task'[t] = "work" => task[t] = "work"
    <3>1. CASE checkOne(p)
      BY <3>1 DEF checkOne
    <3>2. CASE Parsed(p)
      BY <3>2, TaskParts DEF Parsed
    <3>3. CASE ~checkOne(p) /\ ~Parsed(p)
      BY <1>1, <3>3 DEF Own, Begin, declarationKey, Claim, Follow, Checked, Publish, Close
    <3> QED
      BY <3>1, <3>2, <3>3
  <2> QED
    BY <2>1
<1>2. ASSUME NEW t \in Task, \/ t \in Share /\ (ClaimTree(t) \/ TakeTree(t))
                            \/ TakeSlot(t) \/ Look(t)
      PROVE  Working' \subseteq Working /\ slot' = slot
  <2>1. slot' = slot /\ task'[t] # "work" /\ \A u \in Task : u # t => task'[u] = task[u]
    BY <1>2 DEF ClaimTree, TakeTree, TakeSlot, Look
  <2> QED
    BY <2>1
<1>3. ASSUME NEW t \in Task, LockSlot(t) PROVE Working' \ {slot'} \subseteq Working \ {slot}
  <2>1. slot = None /\ slot' = t /\ \A u \in Task : u # t => task'[u] = task[u]
    BY <1>3 DEF LockSlot
  <2> QED
    BY <2>1
<1>4. ASSUME NEW t \in Task, Release(t) PROVE Working' \ {slot'} \subseteq Working \ {slot}
  <2>1. /\ slot' = IF slot = t THEN None ELSE slot
        /\ task'[t] = "done" /\ \A u \in Task : u # t => task'[u] = task[u]
    BY <1>4 DEF Release
  <2> QED
    BY <2>1
<1>5. CASE TaskStep
  BY <1>2, <1>3, <1>4, <1>5, TaskParts DEF TaskStep
<1>6. CASE LoadEnds
  BY <1>6 DEF LoadEnds, NoTask
<1>7. CASE (\E p, q \in Package : Tell(p, q)) \/ Cancel \/ Govern \/ UNCHANGED vars
  BY <1>7 DEF Tell, Cancel, Govern, vars
<1> QED
  BY <1>1, <1>5, <1>6, <1>7, Steps

\* For every number of slots: under pressure nothing begins to work beside what works but
\* the one task that takes the slot of the process.
THEOREM OneMore == Spec => OneMoreUnderPressure
<1>1. TypeOK /\ [Next]_vars => (pressed => Working' \ {slot'} \subseteq Working \ {slot})
  BY PressedStep
<1> QED
  BY <1>1, TypeCorrect, PTL DEF Spec, OneMoreUnderPressure
=============================================================================
