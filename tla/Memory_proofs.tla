--------------------------- MODULE Memory_proofs ---------------------------
(***************************************************************************)
(* What memory pressure does, for every limit, headroom, tree and set of   *)
(* goroutines.  The governor: the error that ends a run is true of it, the *)
(* limits it sets are under those it started with, and a run is ended only *)
(* under a pressure that began on an earlier tick.                         *)
(* The package sources: each is read once until pressure first begins,     *)
(* each goroutine is handed the reading of its own package, and pressure   *)
(* leaves none in the cache.  The configurations: one is held under        *)
(* pressure, and each is its first load.  The machine: a headroom is no    *)
(* more than the limit of any group, however its files change as they are  *)
(* read, and exact where they do not.                                      *)
(***************************************************************************)
EXTENDS Governor, Sources, Loads, Plan, FiniteSetTheorems, WellFoundedInduction, TLAPS
-----------------------------------------------------------------------------
(* The machine *)

\* A set of numbers that is not empty has a least.
LEMMA HasLeast ==
  ASSUME NEW values \in SUBSET Nat, values # {}
  PROVE  \E x \in values : \A y \in values : x <= y
<1>1. PICK x \in values : \A y \in values : ~(<<y, x>> \in OpToRel(<, Nat))
  BY WFMin, NatLessThanWellFounded
<1>2. \A y \in values : ~(y < x)
  BY <1>1 DEF OpToRel
<1> QED
  BY <1>2

\* A finite one has a greatest: the one with the fewest above it.
LEMMA HasGreatest ==
  ASSUME NEW values \in SUBSET Nat, values # {}, IsFiniteSet(values)
  PROVE  \E x \in values : \A y \in values : y <= x
<1> DEFINE Higher(x) == {y \in values : x < y}
           counts == {Cardinality(Higher(x)) : x \in values}
<1>1. \A x \in values : IsFiniteSet(Higher(x)) /\ Cardinality(Higher(x)) \in Nat
  BY FS_Subset, FS_CardinalityType
<1>2. PICK c \in counts : \A d \in counts : c <= d
  <2>1. counts \in SUBSET Nat /\ counts # {}
    <3> HIDE DEF Higher
    <3> QED
      BY <1>1
  <2> HIDE DEF counts
  <2> QED
    BY <2>1, HasLeast
<1>3. PICK x \in values : c = Cardinality(Higher(x))
  OBVIOUS
<1>4. \A y \in values : Cardinality(Higher(x)) <= Cardinality(Higher(y))
  BY <1>2, <1>3
<1>5. ASSUME NEW y \in values, x < y PROVE FALSE
  <2>1. y \in Higher(x) /\ Higher(y) \subseteq Higher(x) \ {y}
    <3>1. \A z \in values : y < z => x < z /\ z # y
      BY <1>5
    <3> QED
      BY <1>5, <3>1
  <2>2. IsFiniteSet(Higher(x) \ {y}) /\ Cardinality(Higher(x) \ {y}) = Cardinality(Higher(x)) - 1
    BY <1>1, <2>1, FS_RemoveElement
  <2>3. Cardinality(Higher(y)) <= Cardinality(Higher(x) \ {y})
    BY <2>1, <2>2, FS_Subset
  <2>4. Cardinality(Higher(y)) <= Cardinality(Higher(x)) - 1
    BY <2>2, <2>3
  <2> HIDE DEF Higher
  <2> QED
    BY <1>1, <1>4, <2>4
<1> QED
  BY <1>5

\* A pair is finite.
LEMMA PairFinite == ASSUME NEW a, NEW b PROVE IsFiniteSet({a, b})
<1>1. IsFiniteSet({a})
  BY FS_Singleton
<1>2. IsFiniteSet({a} \union {b})
  BY <1>1, FS_AddElement
<1>3. {a, b} = {a} \union {b}
  OBVIOUS
<1> QED
  BY <1>2, <1>3

\* As many numbers come up to one.
LEMMA UpTo == ASSUME NEW w \in Nat PROVE IsFiniteSet(1 .. w) /\ Cardinality(1 .. w) = w
  BY FS_Interval

\* The width's power is a number above zero, the count of the sets of that many bits.
LEMMA PowerPositive == 2 ^ Width \in Nat \ {0}
<1>1. IsFiniteSet(1 .. Width) /\ Cardinality(1 .. Width) = Width
  BY UpTo, WidthAssumption
<1>2. IsFiniteSet(SUBSET (1 .. Width)) /\ Cardinality(SUBSET (1 .. Width)) = 2 ^ Width
  <2> DEFINE bits == 1 .. Width
  <2>1. IsFiniteSet(bits) /\ Cardinality(bits) = Width
    BY <1>1
  <2> HIDE DEF bits
  <2>2. IsFiniteSet(SUBSET bits) /\ Cardinality(SUBSET bits) = 2 ^ Cardinality(bits)
    BY <2>1, FS_SUBSET
  <2> QED
    BY <2>1, <2>2 DEF bits
<1>3. 2 ^ Width \in Nat
  BY <1>2, FS_CardinalityType
<1>4. 2 ^ Width # 0
  BY <1>2, FS_EmptySet
<1> QED
  BY <1>3, <1>4

\* A difference that is not below zero does not wrap.
LEMMA Remains ==
  ASSUME NEW w \in Nat \ {0}, NEW a \in Nat, NEW b \in Nat, b <= a, a < w
  PROVE  (a + w - b) % w = a - b
<1> DEFINE m == a + w - b
<1>1. m \in Nat /\ m = w * 1 + (a - b) /\ a - b \in 0 .. w - 1
  OBVIOUS
<1> HIDE DEF m
<1>2. m = w * (m \div w) + (m % w) /\ m % w \in 0 .. w - 1 /\ m \div w \in Int
  BY <1>1
<1> DEFINE q == m \div w
           r == m % w
<1>3. q = 1 /\ r = a - b
  <2>1. q \in Int /\ r \in 0 .. w - 1 /\ w * 1 + (a - b) = w * q + r
    BY <1>1, <1>2
  <2> HIDE DEF q, r
  <2>2. w * (q - 1) = (a - b) - r
    BY <2>1
  <2>3. (a - b) - r < w /\ -w < (a - b) - r
    BY <1>1, <2>1
  <2>4. q - 1 >= 1 => w * (q - 1) >= w
    BY <2>1
  <2>5. q - 1 <= -1 => w * (q - 1) <= -w
    BY <2>1
  <2>6. q = 1
    BY <2>1, <2>2, <2>3, <2>4, <2>5
  <2> QED
    BY <2>1, <2>2, <2>6
<1> QED
  BY <1>3 DEF m

\* The least of a finite set of readings is none of them where there is none.
LEMMA LeastIs ==
  ASSUME NEW values \in SUBSET Nat, IsFiniteSet(values)
  PROVE  /\ values = {} => Least(values) = NoFile
         /\ values # {} => Least(values) \in values /\ \A y \in values : Least(values) <= y
<1>1. ASSUME values # {} PROVE Min(values) \in values /\ \A y \in values : Min(values) <= y
  <2>1. \E x \in values : \A y \in values : x <= y
    BY <1>1, HasLeast
  <2> QED
    BY <2>1 DEF Min
<1> QED
  BY <1>1 DEF Least

\* What a reading is of a file is what the file held before the machine changed, or after.
LEMMA ReadIs ==
  ASSUME NEW i \in Machine, NEW n \in DOMAIN i.dirs,
         NEW file \in {"max", "high", "current", "inactive"}
  PROVE  /\ Read(i, n, file) \in {i.dirs[n].before[file], i.dirs[n].after[file]}
         /\ Read(i, n, file) \in Readable
         /\ i.dirs[n].before[file] \in Readable /\ i.dirs[n].after[file] \in Readable
<1>1. i.dirs[n] \in [before: Files, after: Files]
  <2> DEFINE dirs == i.dirs
             Directory == [before: Files, after: Files]
  <2>1. dirs \in Seq(Directory) /\ n \in DOMAIN dirs
    BY DEF Machine
  <2> HIDE DEF dirs, Directory
  <2>2. dirs[n] \in Directory
    BY <2>1
  <2> QED
    BY <2>2 DEF dirs, Directory
<1>2. i.dirs[n].before[file] \in Readable /\ i.dirs[n].after[file] \in Readable
  BY <1>1 DEF Files
<1>3. Read(i, n, file) \in {i.dirs[n].before[file], i.dirs[n].after[file]}
  BY DEF Read
<1> QED
  BY <1>2, <1>3

\* The room under a limit is what the working set leaves of it, without wrapping.
LEMMA RoomIs ==
  ASSUME NEW limit \in Readable \ {NoFile}, NEW usage \in Readable \ {NoFile},
         NEW inactive \in Readable
  PROVE  LET spare == IF inactive = NoFile THEN 0 ELSE inactive
             working == IF spare > usage THEN 0 ELSE usage - spare
             room == roomUnder(limit, usage, inactive)
         IN /\ room = IF working > limit THEN 0 ELSE limit - working
            /\ room \in Nat /\ room <= limit
<1> DEFINE w == 2 ^ Width
           spare == IF inactive = NoFile THEN 0 ELSE inactive
           working == IF spare > usage THEN 0 ELSE usage - spare
<1>1. w \in Nat \ {0}
  BY PowerPositive
<1>2. limit \in 0 .. w - 1 /\ usage \in 0 .. w - 1 /\ spare \in 0 .. w - 1
  <2> HIDE DEF w
  <2>1. Readable = (0 .. w - 1) \union {NoFile}
    BY DEF Readable, w
  <2> QED
    BY <1>1, <2>1
<1> DEFINE less == IF usage < spare THEN usage ELSE spare
<1>3. Working(usage, inactive) = (usage + w - less) % w
  <2>1. less = IF inactive = NoFile THEN 0 ELSE IF usage < inactive THEN usage ELSE inactive
    BY <1>2
  <2> HIDE DEF less
  <2> QED
    BY <2>1 DEF Working, minus, lower
<1> HIDE DEF w, spare
<1>4. less \in Nat /\ less <= usage /\ usage - less = working
  BY <1>2
<1> HIDE DEF less
<1>5. Working(usage, inactive) = working
  <2>1. (usage + w - less) % w = usage - less
    BY <1>1, <1>2, <1>4, Remains
  <2> QED
    BY <1>3, <1>4, <2>1
<1>6. working \in Nat /\ working < w
  BY <1>1, <1>2
<1> HIDE DEF working
<1>7. usage # NoFile
  OBVIOUS
<1>8. roomUnder(limit, usage, inactive) =
        IF working >= limit THEN 0 ELSE (limit + w - working) % w
  BY <1>5, <1>7 DEF roomUnder, minus, w
<1>9. ASSUME working < limit PROVE (limit + w - working) % w = limit - working
  <2>1. limit \in Nat /\ limit < w /\ working <= limit
    BY <1>1, <1>2, <1>6, <1>9
  <2> QED
    BY <1>1, <1>6, <2>1, Remains
<1>10. roomUnder(limit, usage, inactive) = IF working > limit THEN 0 ELSE limit - working
  BY <1>2, <1>6, <1>8, <1>9
<1> QED
  BY <1>2, <1>6, <1>10 DEF working, spare

\* What one directory leaves under the tightest limit it sets.
Room(i, n) ==
  IF tightestV2(i, n) = NoFile THEN NoFile
  ELSE roomUnder(tightestV2(i, n), Read(i, n, "current"), Read(i, n, "inactive"))

Set(i, n) == {Read(i, n, "max"), Read(i, n, "high")} \ {NoFile}

\* A directory leaves room where it sets a limit and its usage reads, no more than its limit
\* and the limit less the working set.
LEMMA RoomOf ==
  ASSUME NEW i \in Machine, NEW n \in DOMAIN i.dirs
  PROVE  /\ Room(i, n) \in Nat \union {NoFile}
         /\ Room(i, n) # NoFile <=> Set(i, n) # {} /\ Read(i, n, "current") # NoFile
         /\ Room(i, n) # NoFile =>
              LET inactive == Read(i, n, "inactive")
                  usage == Read(i, n, "current")
                  spare == IF inactive = NoFile THEN 0 ELSE inactive
                  working == IF spare > usage THEN 0 ELSE usage - spare
              IN /\ Min(Set(i, n)) \in Set(i, n) /\ Room(i, n) <= Min(Set(i, n))
                 /\ Room(i, n) = IF working > Min(Set(i, n)) THEN 0
                                   ELSE Min(Set(i, n)) - working
<1> DEFINE usage == Read(i, n, "current")
           inactive == Read(i, n, "inactive")
           tight == tightestV2(i, n)
           spare == IF inactive = NoFile THEN 0 ELSE inactive
           working == IF spare > usage THEN 0 ELSE usage - spare
<1>1. usage \in Readable /\ inactive \in Readable
  BY ReadIs
<1>2. /\ Set(i, n) \in SUBSET Nat /\ IsFiniteSet(Set(i, n))
      /\ Set(i, n) \subseteq Readable \ {NoFile}
  <2>1. Set(i, n) \subseteq Readable \ {NoFile}
    BY ReadIs DEF Set
  <2>2. Readable \ {NoFile} \subseteq Nat
    BY PowerPositive DEF Readable
  <2>3. IsFiniteSet({Read(i, n, "max"), Read(i, n, "high")})
    BY PairFinite
  <2>4. IsFiniteSet(Set(i, n))
    BY <2>3, FS_Subset DEF Set
  <2> QED
    BY <2>1, <2>2, <2>4
<1>3. tight = Least(Set(i, n))
  BY DEF tightestV2, Set
<1>4. Room(i, n) = IF tight = NoFile THEN NoFile ELSE roomUnder(tight, usage, inactive)
  BY DEF Room
<1>5. usage = NoFile => roomUnder(tight, usage, inactive) = NoFile
  BY DEF roomUnder
<1>6. CASE Set(i, n) = {}
  BY <1>2, <1>3, <1>4, <1>6, LeastIs
<1>7. CASE Set(i, n) # {} /\ usage = NoFile
  BY <1>4, <1>5, <1>7
<1>8. CASE Set(i, n) # {} /\ usage # NoFile
  <2>1. tight \in Set(i, n) /\ tight = Min(Set(i, n))
    BY <1>2, <1>3, <1>8, LeastIs DEF Least
  <2>2. tight \in Readable \ {NoFile} /\ usage \in Readable \ {NoFile}
    BY <1>1, <1>2, <1>8, <2>1
  <2>3. Room(i, n) = roomUnder(tight, usage, inactive)
    BY <1>4, <2>2
  <2> HIDE DEF tight, usage, inactive
  <2>4. /\ roomUnder(tight, usage, inactive) = IF working > tight THEN 0 ELSE tight - working
        /\ roomUnder(tight, usage, inactive) \in Nat
        /\ roomUnder(tight, usage, inactive) <= tight
    BY <1>1, <2>2, RoomIs
  <2>5. Room(i, n) # NoFile
    BY <2>3, <2>4, WidthAssumption
  <2> QED
    BY <1>8, <2>1, <2>3, <2>4, <2>5 DEF usage, inactive
<1> QED
  BY <1>6, <1>7, <1>8

\* What some of the directories answer is finite.
LEMMA Answers ==
  ASSUME NEW i \in Machine, NEW f, DOMAIN f = DOMAIN i.dirs, NEW T \in SUBSET DOMAIN i.dirs
  PROVE  IsFiniteSet({f[n] : n \in T})
<1>1. IsFiniteSet(DOMAIN i.dirs)
  <2> DEFINE dirs == i.dirs
             Directory == [before: Files, after: Files]
  <2>1. dirs \in Seq(Directory)
    BY DEF Machine
  <2> HIDE DEF dirs, Directory
  <2>2. DOMAIN dirs = 1 .. Len(dirs) /\ Len(dirs) \in Nat
    BY <2>1
  <2>3. IsFiniteSet(DOMAIN dirs)
    BY <2>2, FS_Interval
  <2> QED
    BY <2>3 DEF dirs
<1>2. IsFiniteSet(T)
  BY <1>1, FS_Subset
<1> DEFINE h == [n \in T |-> f[n]]
<1>3. h \in Surjection(T, {f[n] : n \in T})
  BY DEF Surjection
<1> HIDE DEF h
<1> QED
  BY <1>2, <1>3, FS_Surjection

\* What the directories leave of a machine with the second version mounted.
Left == {Room(in.of, n) : n \in DOMAIN in.of.dirs} \ {NoFile}

\* The limits a directory sets at a moment.
SetAt(n, moment) == {in.of.dirs[n][moment]["max"], in.of.dirs[n][moment]["high"]} \ {NoFile}

\* The headroom is the least of what they leave.
LEMMA HeadroomIs ==
  ASSUME in.of \in Machine
  PROVE  /\ headroomV2(in.of) = Least(Left) /\ Left \in SUBSET Nat /\ IsFiniteSet(Left)
         /\ Left # {} => Least(Left) \in Left /\ \A y \in Left : Least(Left) <= y
<1>1. headroomV2(in.of) = Least(Left)
  BY DEF headroomV2, Left, Room
<1>2. Left \in SUBSET Nat
  BY RoomOf DEF Left
<1>3. IsFiniteSet(Left)
  <2> DEFINE f == [n \in DOMAIN in.of.dirs |-> Room(in.of, n)]
  <2>1. IsFiniteSet({f[n] : n \in DOMAIN in.of.dirs})
    BY Answers
  <2>2. Left \subseteq {f[n] : n \in DOMAIN in.of.dirs}
    BY DEF Left
  <2> HIDE DEF f
  <2> QED
    BY <2>1, <2>2, FS_Subset
<1> QED
  BY <1>1, <1>2, <1>3, LeastIs

\* The limits of a directory at a moment are numbers, and what is read of them is of a moment.
LEMMA SetAtIs ==
  ASSUME in.of \in Machine, NEW n \in DOMAIN in.of.dirs
  PROVE  /\ \A moment \in {"before", "after"} :
              SetAt(n, moment) \in SUBSET Nat /\ IsFiniteSet(SetAt(n, moment))
         /\ Set(in.of, n) \subseteq SetAt(n, "before") \union SetAt(n, "after")
<1>1. \A file \in {"max", "high"} :
        /\ in.of.dirs[n].before[file] \in Readable /\ in.of.dirs[n].after[file] \in Readable
        /\ Read(in.of, n, file) \in {in.of.dirs[n].before[file], in.of.dirs[n].after[file]}
  BY ReadIs
<1>2. Readable \ {NoFile} \subseteq Nat
  BY PowerPositive DEF Readable
<1>3. ASSUME NEW a, NEW b PROVE IsFiniteSet({a, b} \ {NoFile})
  <2>1. IsFiniteSet({a, b})
    BY PairFinite
  <2> QED
    BY <2>1, FS_Subset
<1>4. ASSUME NEW moment \in {"before", "after"}
      PROVE  SetAt(n, moment) \in SUBSET Nat /\ IsFiniteSet(SetAt(n, moment))
  <2>1. SetAt(n, moment) \subseteq Readable \ {NoFile}
    BY <1>1 DEF SetAt
  <2> QED
    BY <1>2, <1>3, <2>1 DEF SetAt
<1> QED
  BY <1>1, <1>4 DEF Set, SetAt

\* A headroom is no more than the limit of a group that left some.
LEMMA HeadroomBounded ==
  ASSUME in.of \in Machine, NEW n \in DOMAIN in.of.dirs,
         SetAt(n, "before") # {}, in.of.dirs[n].before["current"] # NoFile,
         \A f \in {"max", "high", "current", "inactive"} :
           (in.of.dirs[n].before[f] = NoFile) = (in.of.dirs[n].after[f] = NoFile)
  PROVE  /\ headroomV2(in.of) # NoFile
         /\ headroomV2(in.of) <= Max(SetAt(n, "before") \union SetAt(n, "after"))
<1>1. Read(in.of, n, "current") # NoFile
  BY ReadIs
<1>2. Set(in.of, n) # {}
  BY ReadIs DEF Set, SetAt
<1>3. Room(in.of, n) # NoFile /\ Room(in.of, n) \in Left
  BY <1>1, <1>2, RoomOf DEF Left
<1> DEFINE h == headroomV2(in.of)
           low == Min(Set(in.of, n))
           both == SetAt(n, "before") \union SetAt(n, "after")
<1>4. h \in Nat /\ h <= Room(in.of, n) /\ Room(in.of, n) \in Nat
  BY <1>3, HeadroomIs
<1>5. low \in Set(in.of, n) /\ Room(in.of, n) <= low
  BY <1>1, <1>2, RoomOf
<1>6. low \in both /\ both \in SUBSET Nat /\ IsFiniteSet(both)
  BY <1>5, SetAtIs, FS_Union
<1>7. low <= Max(both) /\ Max(both) \in Nat
  <2> HIDE DEF both, low
  <2>1. \E x \in both : \A y \in both : x >= y
    BY <1>6, HasGreatest
  <2>2. Max(both) \in both /\ \A y \in both : Max(both) >= y
    BY <2>1 DEF Max
  <2> QED
    BY <1>6, <2>2
<1>8. low \in Nat
  BY <1>6
<1> HIDE DEF h, low, both
<1>9. h # NoFile /\ h <= Max(both)
  BY <1>4, <1>5, <1>7, <1>8, WidthAssumption
<1> QED
  BY <1>9 DEF h, both

\* What a directory leaves where it does not change.
LeftAt(n) ==
  LET f == in.of.dirs[n].before
      spare == IF f["inactive"] = NoFile THEN 0 ELSE f["inactive"]
      working == IF spare > f["current"] THEN 0 ELSE f["current"] - spare
  IN IF working > Min(SetAt(n, "before")) THEN 0 ELSE Min(SetAt(n, "before")) - working

\* Where nothing changes, the headroom is the least that any group leaves.
LEMMA HeadroomExact ==
  ASSUME in.of \in Machine,
         \A n \in DOMAIN in.of.dirs : in.of.dirs[n].before = in.of.dirs[n].after
  PROVE  headroomV2(in.of) =
           Least({LeftAt(n) : n \in {n \in DOMAIN in.of.dirs :
                      SetAt(n, "before") # {} /\ in.of.dirs[n].before["current"] # NoFile}})
<1> DEFINE bounded == {n \in DOMAIN in.of.dirs :
                        SetAt(n, "before") # {} /\ in.of.dirs[n].before["current"] # NoFile}
<1>1. ASSUME NEW n \in DOMAIN in.of.dirs
      PROVE  /\ Room(in.of, n) # NoFile <=> n \in bounded
             /\ n \in bounded => Room(in.of, n) = LeftAt(n)
  <2>1. \A file \in {"max", "high", "current", "inactive"} :
          Read(in.of, n, file) = in.of.dirs[n].before[file]
    BY ReadIs
  <2>2. Set(in.of, n) = SetAt(n, "before")
    BY <2>1 DEF Set, SetAt
  <2>3. Room(in.of, n) # NoFile <=> n \in bounded
    BY <2>1, <2>2, RoomOf
  <2> DEFINE f == in.of.dirs[n].before
             spare == IF f["inactive"] = NoFile THEN 0 ELSE f["inactive"]
             working == IF spare > f["current"] THEN 0 ELSE f["current"] - spare
             low == Min(SetAt(n, "before"))
  <2>4. Room(in.of, n) # NoFile => Room(in.of, n) = IF working > low THEN 0 ELSE low - working
    BY <2>1, <2>2, RoomOf
  <2>5. LeftAt(n) = IF working > low THEN 0 ELSE low - working
    BY DEF LeftAt
  <2> QED
    BY <2>3, <2>4, <2>5
<1>2. {Room(in.of, n) : n \in DOMAIN in.of.dirs} \ {NoFile} = {LeftAt(n) : n \in bounded}
  BY <1>1
<1> QED
  BY <1>2, HeadroomIs DEF Left

\* A limit is no more than the tightest one of any directory.
LEMMA LimitBounded ==
  ASSUME in.of \in Machine, in.of.v2, limitOf(in.of) # NoFile,
         NEW n \in DOMAIN in.of.dirs, in.of.dirs[n].before["max"] # NoFile,
         in.of.dirs[n].before["max"] = in.of.dirs[n].after["max"]
  PROVE  limitOf(in.of) <= in.of.dirs[n].before["max"]
<1> DEFINE most == in.of.dirs[n].before["max"]
           set == {Read(in.of, m, "max") : m \in DOMAIN in.of.dirs} \ {NoFile}
           total == meminfo(in.of.total)
           v2 == limitV2(in.of)
           cgroup == IF in.of.v2 /\ v2 # NoFile THEN v2
                     ELSE IF in.of.v1 THEN limitV1(in.of) ELSE NoFile
           caps == {cgroup, total} \ {NoFile}
<1>1. Readable \ {NoFile} \subseteq Nat
  BY PowerPositive DEF Readable
<1>2. most \in set /\ set \in SUBSET Nat
  BY <1>1, ReadIs
<1>3. IsFiniteSet(set)
  <2> DEFINE f == [m \in DOMAIN in.of.dirs |-> Read(in.of, m, "max")]
  <2>1. IsFiniteSet({f[m] : m \in DOMAIN in.of.dirs})
    BY Answers
  <2>2. set \subseteq {f[m] : m \in DOMAIN in.of.dirs}
    OBVIOUS
  <2> HIDE DEF f, set
  <2> QED
    BY <2>1, <2>2, FS_Subset
<1>4. v2 \in Nat /\ v2 <= most
  <2>1. v2 = Least(set)
    BY DEF limitV2
  <2> HIDE DEF set, v2
  <2> QED
    BY <1>2, <1>3, <2>1, LeastIs
<1>5. cgroup = v2
  BY <1>4, WidthAssumption
<1>6. total \in Nat \union {NoFile}
  <2>1. in.of.total \in Readable
    BY DEF Machine
  <2>2. CASE in.of.total = NoFile
    BY <2>2 DEF meminfo
  <2>3. CASE in.of.total # NoFile
    <3> DEFINE bytes == in.of.total * 1024
               w == 2 ^ Width
    <3>1. bytes \in Nat /\ w \in Nat \ {0}
      BY <1>1, <2>1, <2>3, PowerPositive
    <3>2. total = bytes % w
      BY <2>3 DEF meminfo
    <3> HIDE DEF bytes, w, total
    <3> QED
      BY <3>1, <3>2
  <2> QED
    BY <2>2, <2>3
<1>7. limitOf(in.of) = Least(caps)
  BY DEF limitOf
<1> HIDE DEF v2, cgroup, total
<1>8. caps \in SUBSET Nat /\ v2 \in caps /\ IsFiniteSet(caps)
  <2>1. IsFiniteSet({cgroup, total})
    BY PairFinite
  <2>2. IsFiniteSet(caps)
    BY <2>1, FS_Subset
  <2> QED
    BY <1>4, <1>5, <1>6, <2>2, WidthAssumption
<1>9. most \in Nat
  BY <1>2
<1> HIDE DEF caps, most
<1>10. Least(caps) \in Nat /\ Least(caps) <= v2
  BY <1>8, LeastIs
<1>11. Least(caps) <= most
  BY <1>4, <1>9, <1>10
<1> QED
  BY <1>7, <1>11 DEF most

\* What is asked of a machine is one, and what is answered is what its files gave.
MInv ==
  /\ in.ask \in {"headroom", "limit"} => in.of \in Machine
  /\ Answered("headroom") => out = headrooms(in.of)
  /\ Answered("limit") => out = limitOf(in.of)

\* The machines asked about are readings, and nothing is answered at first.
LEMMA MachineInit ==
  ASSUME Init
  PROVE  MInv
<1>1. PICK question \in DOMAIN Cases : \E family \in DOMAIN Cases[question] :
        in \in [ask : {question}, of : Cases[question][family]]
  BY DEF Init
<1>2. PICK family \in DOMAIN Cases[question] :
        in \in [ask : {question}, of : Cases[question][family]]
  BY <1>1
<1>3. in.ask = question /\ in.of \in Cases[question][family]
  BY <1>2
<1>4. question \in {"headroom", "limit"} => Cases[question][family] \subseteq Machine
  BY MachineAssumption
<1>5. answered = FALSE
  BY DEF Init
<1> QED
  BY <1>3, <1>4, <1>5 DEF MInv, Answered

\* A step answers one question from what was asked.
LEMMA MachineNext ==
  ASSUME MInv, [Next]_vars
  PROVE  MInv'
<1>1. CASE UNCHANGED vars
  BY <1>1 DEF vars, MInv, Answered
<1>2. CASE Configure
  BY <1>2 DEF MInv, Answered, Configure, Asked
<1>3. CASE ReadHeader
  BY <1>3 DEF MInv, Answered, ReadHeader, Asked
<1>4. CASE DeriveMatrix
  BY <1>4 DEF MInv, Answered, DeriveMatrix, Asked
<1>5. CASE FindScope
  BY <1>5 DEF MInv, Answered, FindScope, Asked
<1>6. CASE FindWithin
  BY <1>6 DEF MInv, Answered, FindWithin, Asked
<1>7. CASE FindOwner
  BY <1>7 DEF MInv, Answered, FindOwner, Asked
<1>8. CASE FindHolder
  BY <1>8 DEF MInv, Answered, FindHolder, Asked
<1>9. CASE ReadHeadroom
  BY <1>9 DEF MInv, Answered, ReadHeadroom, Asked
<1>10. CASE ReadLimit
  BY <1>10 DEF MInv, Answered, ReadLimit, Asked
<1> QED
  BY <1>1, <1>2, <1>3, <1>4, <1>5, <1>6, <1>7, <1>8, <1>9, <1>10 DEF Next

\* What the files gave is honest.
LEMMA MachineHonest ==
  ASSUME MInv
  PROVE  HeadroomHonest
<1> DEFINE setBy(n, moment) ==
             {in.of.dirs[n][moment]["max"], in.of.dirs[n][moment]["high"]} \ {NoFile}
           bounded == {n \in DOMAIN in.of.dirs :
                        setBy(n, "before") # {} /\ in.of.dirs[n].before["current"] # NoFile}
<1>1. Range(FileOrder) = {"max", "high", "current", "inactive"}
  BY DEF FileOrder, Range
<1>2. ASSUME Answered("headroom"), in.of.v2
      PROVE  in.of \in Machine /\ out[1] = headroomV2(in.of)
  BY <1>2 DEF MInv, headrooms, Answered
<1>3. ASSUME Answered("headroom"), in.of.v2, NEW n \in bounded,
             \A f \in Range(FileOrder) :
               (in.of.dirs[n].before[f] = NoFile) = (in.of.dirs[n].after[f] = NoFile)
      PROVE  /\ out[1] # NoFile
             /\ out[1] <= Max(setBy(n, "before") \union setBy(n, "after"))
  <2>1. SetAt(n, "before") = setBy(n, "before") /\ SetAt(n, "after") = setBy(n, "after")
    BY DEF SetAt
  <2> QED
    BY <1>1, <1>2, <1>3, <2>1, HeadroomBounded
<1>4. ASSUME Answered("headroom"), in.of.v2,
             \A n \in DOMAIN in.of.dirs : in.of.dirs[n].before = in.of.dirs[n].after
      PROVE  out[1] = Least({LeftAt(n) : n \in bounded})
  <2>1. bounded = {n \in DOMAIN in.of.dirs :
                    SetAt(n, "before") # {} /\ in.of.dirs[n].before["current"] # NoFile}
    BY DEF SetAt
  <2> QED
    BY <1>2, <1>4, <2>1, HeadroomExact
<1>5. ASSUME Answered("limit"), out # NoFile, NEW n \in DOMAIN in.of.dirs, in.of.v2,
             in.of.dirs[n].before["max"] # NoFile,
             in.of.dirs[n].before["max"] = in.of.dirs[n].after["max"]
      PROVE  out <= in.of.dirs[n].before["max"]
  <2>1. in.of \in Machine /\ out = limitOf(in.of)
    BY <1>5 DEF MInv, Answered
  <2> QED
    BY <1>5, <2>1, LimitBounded
<1> QED
  BY <1>3, <1>4, <1>5 DEF HeadroomHonest, LeftAt, SetAt

\* A headroom is no more than the limit of any group that left some, however the files change
\* while they are read, and where they do not it is exactly the least that any group leaves;
\* a limit is no more than any group's (internal/memory cgroup.go).
THEOREM HeadroomTrue == Spec => []HeadroomHonest
<1>1. Init => MInv
  BY MachineInit
<1>2. MInv /\ [Next]_vars => MInv'
  BY MachineNext
<1>3. MInv => HeadroomHonest
  BY MachineHonest
<1> QED
  BY <1>1, <1>2, <1>3, PTL DEF Spec
-----------------------------------------------------------------------------
(* The governor *)

\* A reading past the abort line of a ceiling needs more than the ceiling.
LEMMA PastLineNeedsMore ==
  ASSUME NEW used \in Nat, NEW available \in Nat,
         used > percentOf(available, abortPercent)
  PROVE  /\ exhausted(used, available) \in [needed: Nat, available: Nat]
         /\ exhausted(used, available).needed > exhausted(used, available).available
<1> DEFINE q == used \div 90
           r == used % 90
           c == available \div 100
           d == available % 100
<1>1. used = 90 * q + r /\ r \in 0 .. 89 /\ q \in Nat
  OBVIOUS
<1>2. available = 100 * c + d /\ d \in 0 .. 99 /\ c \in Nat
  OBVIOUS
<1>3. 90 * q + r > c * 90 + (d * 90) \div 100
  BY <1>1 DEF percentOf, abortPercent
<1> HIDE DEF q, r, c, d
<1>4. q * 100 + (r * 100 + 89) \div 90 > 100 * c + d
  BY <1>1, <1>2, <1>3
<1> USE DEF q, r, c, d
<1>5. exhausted(used, available).needed = q * 100 + (r * 100 + 89) \div 90
  BY DEF exhausted, abortPercent
<1> QED
  BY <1>2, <1>4, <1>5, <1>1 DEF exhausted, abortPercent

\* A share of a natural number is one.
LEMMA PercentNat == ASSUME NEW v \in Nat, NEW p \in Nat PROVE percentOf(v, p) \in Nat
<1> DEFINE q == v \div 100
           r == v % 100
<1>1. q \in Nat /\ r \in Nat
  OBVIOUS
<1> HIDE DEF q, r
<1>2. q * p \in Nat /\ r * p \in Nat
  BY <1>1
<1>3. (r * p) \div 100 \in Nat
  BY <1>2
<1> QED
  BY <1>2, <1>3 DEF percentOf, q, r

\* A tick under way is in one of its steps for the reason that led there, a finished
\* governor stays so, and what ended the run is true.
IInv ==
  /\ TypeOK
  /\ pc \in {"before", "shed", "after"} => pressed /\ ~judged
  /\ pc \in {"limit", "judge"} /\ judged => pressed
  /\ pc = "judge" => judged
  /\ pc \in {"start", "off"} => ~pressed
  /\ cause # NoCause => pc = "finished"
  /\ stop = "stopped" => pc \in {"finished", "off"}
  /\ NeededAboveAvailable
  /\ StopRestores

USE GovernorAssumption

\* What the process holds, and the ceiling and the soft limit drawn from it, are
\* natural numbers.
LEMMA Sizes ==
  ASSUME TypeOK
  PROVE  /\ Live \in Nat /\ Held \in Nat /\ demand \in Nat /\ cache \in Nat
         /\ limits.caller \in Nat /\ limits.machine \in Nat
         /\ \A room \in Rooms \union {None} :
              Ceiling(room) # None => Ceiling(room) \in Nat
         /\ \A c \in Nat : Capped(c) \in Nat
<1>1. demand \in Nat /\ cache \in Nat /\ slack \in Nat
  BY DEF TypeOK
<1>2. limits.caller \in Nat /\ limits.machine \in Nat
  BY DEF TypeOK
<1>3. Live \in Nat /\ Held \in Nat
  BY <1>1 DEF Live, Held
<1>4. ASSUME NEW room \in Rooms \union {None}, Ceiling(room) # None
      PROVE  Ceiling(room) \in Nat
  <2>1. max(limits.caller, limits.machine) \in Nat
    BY <1>2 DEF max
  <2> QED
    BY <1>3, <1>4, <2>1 DEF Ceiling, None
<1>5. ASSUME NEW c \in Nat PROVE Capped(c) \in Nat
  BY <1>2, PercentNat DEF Capped, min, softLimitPercent, defaultPercent
<1> QED
  BY <1>1, <1>2, <1>3, <1>4, <1>5

\* What the governor and its run hold is of its type.
LEMMA TypeStep == TypeOK /\ [GovernorNext]_governorVars => TypeOK'
<1> SUFFICES ASSUME TypeOK, [GovernorNext]_governorVars PROVE TypeOK'
  OBVIOUS
<1> USE DEF run, tick, governorVars
<1>1. CASE Allocate
  BY <1>1 DEF Allocate, TypeOK
<1>2. CASE CollectGarbage
  BY <1>2, Sizes DEF CollectGarbage, TypeOK
<1>3. CASE Start
  BY <1>3 DEF Start, TypeOK
<1>4. CASE Tick
  BY <1>4, Sizes DEF Tick, TypeOK
<1>5. CASE Decide
  BY <1>5, Sizes DEF Decide, Onset, TypeOK
<1>6. CASE Before
  BY <1>6, Sizes DEF Before, TypeOK
<1>7. CASE shed
  BY <1>7 DEF shed, TypeOK
<1>8. CASE After
  BY <1>8, Sizes DEF After, min, TypeOK
<1>9. CASE SetLimit
  <2>1. soft' \in Nat
    BY <1>9, Sizes, PercentNat DEF SetLimit, softLimitPercent, TypeOK
  <2>2. bound' \in BOOLEAN /\ {ceiling', live', held'} \subseteq Nat /\ judged' \in BOOLEAN
        /\ pc' \in {"judge", "idle"}
    BY <1>9 DEF SetLimit, EndTick, TypeOK
  <2> QED
    BY <1>9, <2>1, <2>2 DEF SetLimit, TypeOK
<1>10. CASE Judge
  <2>1. seen' \in Nat
    BY <1>10, Sizes DEF Judge, TypeOK
  <2>2. cause' \in [needed: Nat, available: Nat]
    BY <1>10, Sizes, PastLineNeedsMore DEF Judge, TypeOK
  <2>3. EndTick("idle") \/ EndTick("finished")
    BY <1>10 DEF Judge
  <2> QED
    BY <1>10, <2>1, <2>2, <2>3 DEF Judge, EndTick, TypeOK
<1>11. CASE Return \/ CallStop \/ Leave \/ Restore
  BY <1>11 DEF Return, CallStop, Leave, Restore, TypeOK
<1>12. CASE UNCHANGED governorVars
  BY <1>12 DEF TypeOK
<1> QED
  BY <1>1, <1>2, <1>3, <1>4, <1>5, <1>6, <1>7, <1>8, <1>9, <1>10, <1>11, <1>12
     DEF GovernorNext, Governs

\* A run is ended with what it needed past what was available.
LEMMA JudgeHonest ==
  ASSUME TypeOK, Judge, cause' # NoCause, cause = NoCause
  PROVE  cause'.needed > cause'.available /\ pc' = "finished"
<1>1. ceiling \in Nat /\ Live \in Nat /\ held \in Nat
  BY Sizes DEF TypeOK
<1> QED
  BY <1>1, PastLineNeedsMore DEF Judge, EndTick

\* The strengthened invariant is inductive.
LEMMA InvStep == IInv /\ [GovernorNext]_governorVars => IInv'
<1> SUFFICES ASSUME IInv, [GovernorNext]_governorVars PROVE IInv'
  OBVIOUS
<1>t. TypeOK /\ TypeOK'
  BY TypeStep DEF IInv
<1> USE DEF run, tick, governorVars, NeededAboveAvailable, StopRestores
<1>1. CASE Allocate \/ CollectGarbage
  BY <1>1, <1>t DEF Allocate, CollectGarbage, IInv
<1>2. CASE Start \/ Tick
  BY <1>2, <1>t DEF Start, Tick, IInv
<1>3. CASE Decide
  BY <1>3, <1>t DEF Decide, Onset, IInv, TypeOK
<1>4. CASE Before \/ shed \/ After
  BY <1>4, <1>t DEF Before, shed, After, IInv
<1>5. CASE SetLimit
  BY <1>5, <1>t DEF SetLimit, EndTick, IInv
<1>6. CASE Judge
  <2>1. cause = NoCause
    BY <1>6 DEF Judge, IInv
  <2>2. cause' # NoCause => cause'.needed > cause'.available /\ pc' = "finished"
    BY <1>6, <1>t, <2>1, JudgeHonest
  <2>3. pc' \in {"idle", "finished"} /\ pressed' = pressed /\ soft' = soft /\ stop' = stop
    BY <1>6 DEF Judge, EndTick
  <2> QED
    BY <1>6, <1>t, <2>2, <2>3 DEF IInv, Judge
<1>7. CASE Return \/ CallStop \/ Leave
  BY <1>7, <1>t DEF Return, CallStop, Leave, IInv
<1>8. CASE Restore
  BY <1>8, <1>t DEF Restore, IInv
<1>9. CASE UNCHANGED governorVars
  BY <1>9, <1>t DEF IInv
<1> QED
  BY <1>1, <1>2, <1>3, <1>4, <1>5, <1>6, <1>7, <1>8, <1>9 DEF GovernorNext, Governs

\* The initial states satisfy it.
LEMMA InvInit == GovernorInit => IInv
<1> SUFFICES ASSUME GovernorInit PROVE IInv
  OBVIOUS
<1>1. demand \in Nat /\ cause \in [needed: Nat, available: Nat] /\ cause = NoCause
  BY DEF GovernorInit, NoCause
<1>2. TypeOK
  BY <1>1 DEF GovernorInit, TypeOK
<1> QED
  BY <1>1, <1>2 DEF GovernorInit, IInv, NeededAboveAvailable, StopRestores

\* The type invariant holds for every limit, headroom and use of memory.
THEOREM TypeCorrect == GovernorSpec => []TypeOK
<1>1. IInv => TypeOK
  BY DEF IInv
<1> QED
  BY <1>1, InvInit, InvStep, PTL DEF GovernorSpec
-----------------------------------------------------------------------------
(* The limits it sets *)

\* The limit the process started with, 0 for none.
Most == max(limits.caller, limits.machine)

\* Of two ceilings the higher has the higher soft limit.
LEMMA ShareGrows ==
  ASSUME NEW v \in Nat, NEW w \in Nat, v <= w
  PROVE  percentOf(v, softLimitPercent) <= percentOf(w, softLimitPercent)
<1> DEFINE q == v \div 100
           r == v % 100
           c == w \div 100
           d == w % 100
<1>1. v = 100 * q + r /\ r \in 0 .. 99 /\ q \in Nat
  OBVIOUS
<1>2. w = 100 * c + d /\ d \in 0 .. 99 /\ c \in Nat
  OBVIOUS
<1> HIDE DEF q, r, c, d
<1>3. q * 85 + (r * 85) \div 100 <= c * 85 + (d * 85) \div 100
  <2>1. (r * 85) \div 100 \in 0 .. 84 /\ (d * 85) \div 100 \in 0 .. 84
    BY <1>1, <1>2
  <2>2. CASE q = c
    <3>1. r <= d
      BY <1>1, <1>2, <2>2
    <3> QED
      BY <1>1, <1>2, <2>2, <3>1
  <2>3. CASE q < c
    BY <1>1, <1>2, <2>1, <2>3
  <2>4. q <= c
    BY <1>1, <1>2
  <2> QED
    BY <1>1, <1>2, <2>2, <2>3, <2>4
<1> QED
  BY <1>3 DEF percentOf, softLimitPercent, q, r, c, d

\* A ceiling is under that limit, and so are the limits drawn from it; outside pressure
\* they are under the machine's default share besides.
LEMMA CeilingCapped ==
  ASSUME TypeOK
  PROVE  /\ Most \in Nat /\ \A room \in Rooms \union {None} : Most > 0 => Ceiling(room) <= Most
         /\ \A c \in Nat :
              /\ Capped(c) \in Nat /\ percentOf(c, softLimitPercent) \in Nat
              /\ c <= Most => /\ percentOf(c, softLimitPercent) <= percentOf(Most, softLimitPercent)
                              /\ Capped(c) <= percentOf(Most, softLimitPercent)
              /\ limits.machine > 0 => Capped(c) <= percentOf(limits.machine, defaultPercent)
<1>1. Most \in Nat
  BY Sizes DEF Most, max
<1>2. ASSUME NEW room \in Rooms \union {None}, Most > 0 PROVE Ceiling(room) <= Most
  <2>1. Held \in Nat /\ (room # None => Held + room \in Nat)
    BY Sizes DEF None
  <2> QED
    BY <1>1, <1>2, <2>1 DEF Ceiling, Most
<1>3. ASSUME NEW c \in Nat
      PROVE  /\ Capped(c) \in Nat /\ percentOf(c, softLimitPercent) \in Nat
             /\ c <= Most => /\ percentOf(c, softLimitPercent) <= percentOf(Most, softLimitPercent)
                             /\ Capped(c) <= percentOf(Most, softLimitPercent)
             /\ limits.machine > 0 => Capped(c) <= percentOf(limits.machine, defaultPercent)
  <2>1. /\ percentOf(c, softLimitPercent) \in Nat /\ percentOf(Most, softLimitPercent) \in Nat
        /\ percentOf(limits.machine, defaultPercent) \in Nat
    BY <1>1, Sizes, PercentNat DEF softLimitPercent, defaultPercent
  <2>2. c <= Most => percentOf(c, softLimitPercent) <= percentOf(Most, softLimitPercent)
    BY <1>1, ShareGrows
  <2>3. /\ Capped(c) \in Nat /\ Capped(c) <= percentOf(c, softLimitPercent)
        /\ limits.machine > 0 => Capped(c) <= percentOf(limits.machine, defaultPercent)
    BY <2>1 DEF Capped, min
  <2> QED
    BY <1>1, <2>1, <2>2, <2>3
<1> QED
  BY <1>1, <1>2, <1>3

\* The ceiling a tick reads is under the limit the process started with, and so is what the
\* governor drew from those before.
LInv == TypeOK /\ (Most > 0 => ceiling <= Most) /\ LimitsKept

LEMMA LimitsStep == LInv /\ [GovernorNext]_governorVars => LInv'
<1> SUFFICES ASSUME LInv, [GovernorNext]_governorVars PROVE LInv'
  OBVIOUS
<1> USE DEF run, tick, governorVars
<1>t. TypeOK /\ TypeOK' /\ ceiling \in Nat /\ Most \in Nat
  BY TypeStep, CeilingCapped DEF LInv, TypeOK
<1>l. limits' = limits /\ Most' = Most
  BY DEF GovernorNext, Governs, Allocate, CollectGarbage, Start, Tick, Decide, Before, shed,
         After, SetLimit, Judge, Return, CallStop, Leave, Restore, Most
<1>k. /\ Most > 0 => /\ soft # Found => soft <= percentOf(Most, softLimitPercent)
                     /\ cause # NoCause => cause.available <= Most
      /\ limits.machine > 0 /\ ~pressed /\ pc # "limit" /\ soft # Found =>
           soft <= percentOf(limits.machine, defaultPercent)
  BY DEF LInv, LimitsKept, Most
<1> SUFFICES /\ Most > 0 => ceiling' <= Most
             /\ Most > 0 => /\ soft' # Found => soft' <= percentOf(Most, softLimitPercent)
                            /\ cause' # NoCause => cause'.available <= Most
             /\ limits.machine > 0 /\ ~pressed' /\ pc' # "limit" /\ soft' # Found =>
                  soft' <= percentOf(limits.machine, defaultPercent)
  BY <1>t, <1>l DEF LInv, LimitsKept, Most
<1>c. Most > 0 => ceiling <= Most
  BY DEF LInv
<1>1. CASE Allocate \/ CollectGarbage \/ Start \/ Before \/ shed \/ After \/ Return \/ CallStop
           \/ Leave \/ UNCHANGED governorVars
  BY <1>1, <1>k, <1>c DEF Allocate, CollectGarbage, Start, Before, shed, After, Return, CallStop,
                          Leave
<1>2. CASE Tick
  BY <1>2, <1>t, <1>k, <1>c, CeilingCapped DEF Tick
<1>3. CASE Decide
  BY <1>3, <1>k, <1>c DEF Decide
<1>4. CASE SetLimit
  <2>1. ceiling' \in {0, ceiling} /\ pressed' = pressed /\ cause' = cause
    BY <1>4 DEF SetLimit, EndTick
  <2>2. soft' = IF pressed THEN percentOf(ceiling, softLimitPercent) ELSE Capped(ceiling)
    BY <1>4 DEF SetLimit
  <2>3. Most > 0 => soft' <= percentOf(Most, softLimitPercent)
    BY <1>t, <1>c, <2>2, CeilingCapped
  <2>4. limits.machine > 0 /\ ~pressed => soft' <= percentOf(limits.machine, defaultPercent)
    BY <1>t, <2>2, CeilingCapped
  <2> QED
    BY <1>t, <1>k, <1>c, <2>1, <2>3, <2>4
<1>5. CASE Judge
  <2>1. ceiling' = 0 /\ pressed' = pressed /\ soft' = soft /\ pc # "limit"
    BY <1>5 DEF Judge, EndTick
  <2>2. cause' = cause \/ cause'.available = ceiling
    BY <1>5 DEF Judge, exhausted
  <2> QED
    BY <1>t, <1>k, <1>c, <2>1, <2>2
<1>6. CASE Restore
  BY <1>6, <1>k, <1>c DEF Restore
<1> QED
  BY <1>1, <1>2, <1>3, <1>4, <1>5, <1>6 DEF GovernorNext, Governs

\* The governor never sets a limit above the share of the limit the process started with,
\* nor outside pressure one above the machine's default share, and never ends a run for
\* more than that limit, whatever the sources report and the runtime holds.
THEOREM LimitsHold == GovernorSpec => []LimitsKept
<1>1. GovernorInit => LInv
  <2> SUFFICES ASSUME GovernorInit PROVE LInv
    OBVIOUS
  <2>1. TypeOK
    BY InvInit DEF IInv
  <2>2. ceiling = 0 /\ soft = Found /\ cause = NoCause
    BY DEF GovernorInit
  <2> QED
    BY <2>1, <2>2, CeilingCapped DEF LInv, LimitsKept
<1>2. LInv => LimitsKept
  BY DEF LInv
<1> QED
  BY <1>1, <1>2, LimitsStep, PTL DEF GovernorSpec

\* The error that ends a run names more memory than the machine makes available and no more
\* available than the limit the process started with, no limit is above its share of that
\* one, and a stopped governor leaves the limit it found and no pressure.
THEOREM HonestAndRestored == GovernorSpec => []HonestAndStopped
<1>1. IInv => NeededAboveAvailable /\ StopRestores
  BY DEF IInv
<1> QED
  BY <1>1, LimitsHold, InvInit, InvStep, PTL DEF GovernorSpec, HonestAndStopped
-----------------------------------------------------------------------------
\* Every step of the governor is a step of the abstract pressure or changes none of it.
LEMMA StepImplements == IInv /\ [GovernorNext]_governorVars => [Abstract!Next]_Mode
<1> SUFFICES ASSUME IInv, [GovernorNext]_governorVars PROVE [Abstract!Next]_Mode
  OBVIOUS
<1> USE DEF run, tick, governorVars, Mode
<1>t. TypeOK
  BY DEF IInv
<1>1. CASE Allocate \/ CollectGarbage \/ Start \/ Tick \/ Return \/ CallStop \/ Leave
           \/ UNCHANGED governorVars
  <2>1. Mode' = Mode
    BY <1>1, <1>t DEF Allocate, CollectGarbage, Start, Tick, Return, CallStop, Leave, IInv
  <2> QED
    BY <2>1
<1>2. CASE Decide
  <2>1. stop # "stopped" /\ cause = NoCause /\ stop' = stop /\ cause' = cause
    BY <1>2 DEF Decide, IInv
  <2>2. CASE pressed
    BY <1>2, <1>t, <2>1, <2>2 DEF Decide, Onset, Abstract!Next, Abstract!Relief
  <2>3. CASE ~pressed
    BY <1>2, <1>t, <2>1, <2>3 DEF Decide, Onset, Abstract!Next, Abstract!Begin
  <2> QED
    BY <2>2, <2>3
<1>3. CASE Before
  BY <1>3, <1>t DEF Before, IInv
<1>4. CASE shed
  BY <1>4, <1>t DEF shed, IInv, Abstract!Next, Abstract!Shed
<1>5. CASE After
  BY <1>5, <1>t DEF After, IInv
<1>6. CASE SetLimit
  BY <1>6, <1>t DEF SetLimit, EndTick, IInv, Abstract!Next, Abstract!Settle
<1>7. CASE Judge
  <2>1. stop # "stopped" /\ cause = NoCause /\ pressed /\ judged /\ pc = "judge"
    BY <1>7 DEF Judge, IInv
  <2>2. pressed' = pressed /\ stop' = stop /\ pc' \in {"idle", "finished"}
    BY <1>7 DEF Judge, EndTick
  <2> QED
    BY <2>1, <2>2 DEF Abstract!Next, Abstract!End
<1>8. CASE Restore
  BY <1>8, <1>t DEF Restore, IInv, Abstract!Next, Abstract!Stop
<1> QED
  BY <1>1, <1>2, <1>3, <1>4, <1>5, <1>6, <1>7, <1>8 DEF GovernorNext, Governs

\* The run is ended only under a pressure that began on an earlier tick, after every
\* cache was shed, whatever the limits, the headroom and the run's use of memory.
THEOREM Implements == GovernorSpec => ImplementsPressure
<1>1. GovernorInit => Abstract!Init
  BY DEF GovernorInit, Abstract!Init, Mode
<1> QED
  BY <1>1, InvInit, InvStep, StepImplements, PTL
     DEF GovernorSpec, ImplementsPressure, Abstract!Spec
-----------------------------------------------------------------------------
(* The package sources *)

USE SourcesAssumption

Inside == {"locked", "store", "unlock"}

\* The lock is held by the one reader inside, so only one stores at a time.
Exclusive == \A r \in Reader : turn[r] \in Inside <=> holder = r

\* A reading begun is of the package its reader and its waiters want, and the one the
\* cache holds for a package is of it.
Named ==
  /\ \A r \in Reader : turn[r] \in {"store", "unlock", "reading", "waiting"} =>
       entry[r] \in Begun /\ of[entry[r]] = want[r]
  /\ \A p \in Package : read[p] # Nobody => read[p] \in Begun /\ of[read[p]] = p

\* Once shed the cache is empty and no reader is about to store.
SourcesShed ==
  pressure \in {"fresh", "under", "ended"} =>
    /\ \A p \in Package : read[p] = Nobody
    /\ \A r \in Reader : turn[r] # "store"

\* Until pressure first begins every reading begun is in the cache, or about to be.
Cached ==
  calm =>
    /\ pressure \in {"clear", "stopped"}
    /\ \A i \in Begun : \/ read[of[i]] = i
                        \/ \E r \in Reader : turn[r] = "store" /\ entry[r] = i
    /\ \A r \in Reader : turn[r] = "store" => read[want[r]] = Nobody
    /\ ReadOnce

SourcesInv == SourcesTypeOK /\ Exclusive /\ Named /\ SourcesShed /\ Cached
-----------------------------------------------------------------------------
\* Nobody reads at first.
LEMMA SourcesBegin == SourcesInit => SourcesInv
<1> SUFFICES ASSUME SourcesInit PROVE SourcesInv
  OBVIOUS
<1>1. Begun = {} /\ of \in [1 .. 0 -> Package]
  BY DEF SourcesInit, Begun
<1>2. SourcesTypeOK
  <2>1. \E n \in 0 .. MaxReads : of \in [1 .. n -> Package]
    BY <1>1
  <2> QED
    BY <1>1, <2>1 
       DEF SourcesInit, SourcesTypeOK, Reading, Governed!Init, Governed!TypeOK, Governed!Mode
<1> QED
  BY <1>1, <1>2
     DEF SourcesInit, SourcesInv, Exclusive, Named, SourcesShed, Cached, ReadOnce, Inside,
         Governed!Init

\* What beginning a reading does, a number at a time.
LEMMA Begins ==
  ASSUME SourcesTypeOK, NEW r \in Reader, BeginRead(r)
  PROVE  \E n \in Reading :
           /\ Begun = 1 .. n - 1 /\ Begun' = 1 .. n
           /\ of' \in [1 .. n -> Package]
           /\ of'[n] = want[r] /\ \A i \in Begun : of'[i] = of[i]
           /\ entry' = [entry EXCEPT ![r] = n]
<1>1. PICK n \in Reading :
        /\ Begun = 1 .. n - 1
        /\ of' = [i \in 1 .. n |-> IF i = n THEN want[r] ELSE of[i]]
        /\ entry' = [entry EXCEPT ![r] = n]
  BY DEF BeginRead
<1>2. n \in Nat /\ n \in 1 .. n /\ \A i \in 1 .. n : i # n => i \in 1 .. n - 1
  BY DEF Reading
<1>3. \A i \in Begun : of[i] \in Package
  BY DEF SourcesTypeOK, Begun
<1>4. \A i \in Begun : i \in 1 .. n /\ i # n
  BY <1>1, <1>2
<1>5. want[r] \in Package
  BY DEF SourcesTypeOK
<1>6. of' \in [1 .. n -> Package]
  BY <1>1, <1>2, <1>3, <1>5
<1>7. of'[n] = want[r] /\ \A i \in Begun : of'[i] = of[i]
  BY <1>1, <1>2, <1>4
<1>8. Begun' = 1 .. n
  BY <1>1 DEF Begun
<1> QED
  BY <1>1, <1>6, <1>7, <1>8

\* The types, one action at a time.
LEMMA SourcesTypeStep == SourcesInv /\ [SourcesNext]_sourcesVars => SourcesTypeOK'
<1> SUFFICES ASSUME SourcesInv, [SourcesNext]_sourcesVars PROVE SourcesTypeOK'
  OBVIOUS
<1> SourcesTypeOK /\ Named
  BY DEF SourcesInv
<1> USE DEF Goto, Governed!TypeOK, Governed!Mode
<1>1. ASSUME NEW r \in Reader, Lock(r) PROVE SourcesTypeOK'
  BY <1>1 DEF Lock, SourcesTypeOK, Begun
<1>2. ASSUME NEW r \in Reader, Join(r) PROVE SourcesTypeOK'
  BY <1>2 DEF Join, SourcesTypeOK, Begun, Reading
<1>3. ASSUME NEW r \in Reader, BeginRead(r) PROVE SourcesTypeOK'
  <2>1. PICK n \in Reading : /\ Begun = 1 .. n - 1 /\ Begun' = 1 .. n
                             /\ of' \in [1 .. n -> Package]
                             /\ entry' = [entry EXCEPT ![r] = n]
    BY <1>3, Begins
  <2>2. \E k \in 0 .. MaxReads : of' \in [1 .. k -> Package]
    BY <2>1 DEF Reading
  <2>3. ready' \subseteq Begun'
    BY <1>3, <2>1 DEF BeginRead, SourcesTypeOK, Reading
  <2>4. n # Nobody
    BY <2>1 DEF Reading
  <2> QED
    BY <1>3, <2>1, <2>2, <2>3, <2>4 DEF BeginRead, SourcesTypeOK
<1>4. ASSUME NEW r \in Reader, StoreReading(r) PROVE SourcesTypeOK'
  BY <1>4 DEF StoreReading, SourcesTypeOK, Begun
<1>5. ASSUME NEW r \in Reader, Unlock(r) PROVE SourcesTypeOK'
  BY <1>5 DEF Unlock, SourcesTypeOK, Begun
<1>6. ASSUME NEW r \in Reader, Finish(r) PROVE SourcesTypeOK'
  BY <1>6 DEF Finish, SourcesTypeOK, Named, Begun
<1>7. ASSUME NEW r \in Reader, Wake(r) PROVE SourcesTypeOK'
  BY <1>7 DEF Wake, SourcesTypeOK, Begun
<1>8. CASE BeginPressure \/ dropSources \/ GovernSources
  BY <1>8 DEF BeginPressure, dropSources, GovernSources, SourcesTypeOK, Begun,
              Governed!Begin, Governed!Shed, Governed!Settle, Governed!Relief, Governed!End,
              Governed!Stop
<1>9. CASE UNCHANGED sourcesVars
  BY <1>9 DEF sourcesVars, SourcesTypeOK, Begun
<1> QED
  BY <1>1, <1>2, <1>3, <1>4, <1>5, <1>6, <1>7, <1>8, <1>9 DEF SourcesNext, Reads, Critical

\* The rest of the invariant where a reading begins.
LEMMA BeginReadStep ==
  ASSUME SourcesInv, SourcesTypeOK', NEW r \in Reader, BeginRead(r)
  PROVE  SourcesInv'
<1> USE DEF Goto, Inside
<1> SourcesTypeOK
  BY DEF SourcesInv
<1>1. PICK n \in Reading :
        /\ Begun = 1 .. n - 1 /\ Begun' = 1 .. n
        /\ of'[n] = want[r] /\ \A i \in Begun : of'[i] = of[i]
        /\ entry' = [entry EXCEPT ![r] = n]
  BY Begins
<1>2. /\ n \in Nat /\ n \in Begun' /\ n \notin Begun /\ n # Nobody
      /\ \A i \in Begun' : i # n => i \in Begun
      /\ \A i \in Begun : i \in Begun'
  BY <1>1 DEF Reading
<1>3. /\ turn[r] = "locked" /\ holder = r /\ read[want[r]] = Nobody
      /\ turn' = [turn EXCEPT ![r] = IF Governed!Pressed THEN "unlock" ELSE "store"]
      /\ read' = read /\ holder' = holder /\ want' = want /\ calm' = calm /\ pressure' = pressure
  BY DEF BeginRead, SourcesInv, Exclusive
<1>4. Exclusive'
  BY <1>3 DEF SourcesInv, Exclusive, SourcesTypeOK
<1>5. Named'
  BY <1>1, <1>2, <1>3 DEF SourcesInv, Named, SourcesTypeOK
<1>6. \A q \in Reader : turn[q] # "store"
  BY <1>3 DEF SourcesInv, Exclusive
<1>7. SourcesShed'
  BY <1>3, <1>6 DEF SourcesInv, SourcesShed, Governed!Pressed, SourcesTypeOK
<1>8. Cached'
  <2> SUFFICES ASSUME calm PROVE Cached'
    BY <1>3 DEF Cached
  <2>1. /\ pressure \in {"clear", "stopped"} /\ ReadOnce
        /\ \A i \in Begun : read[of[i]] = i
    BY <1>6 DEF SourcesInv, Cached
  <2>2. turn'[r] = "store" /\ entry'[r] = n
    BY <1>1, <1>3, <2>1 DEF Governed!Pressed, SourcesTypeOK
  <2>3. \A i \in Begun : of[i] # want[r]
    BY <1>1, <1>2, <1>3, <2>1 DEF Reading
  <2>4. ReadOnce'
    BY <1>1, <1>2, <2>1, <2>3 DEF ReadOnce
  <2>5. \A i \in Begun' : \/ read'[of'[i]] = i
                          \/ \E q \in Reader : turn'[q] = "store" /\ entry'[q] = i
    BY <1>1, <1>2, <1>3, <2>1, <2>2
  <2>6. \A q \in Reader : turn'[q] = "store" => read'[want'[q]] = Nobody
    BY <1>3, <1>6 DEF SourcesTypeOK
  <2> QED
    BY <1>3, <2>1, <2>4, <2>5, <2>6 DEF Cached
<1> QED
  BY <1>4, <1>5, <1>7, <1>8 DEF SourcesInv

\* And where anything else happens.
LEMMA SourcesStep == SourcesInv /\ [SourcesNext]_sourcesVars => SourcesInv'
<1> SUFFICES ASSUME SourcesInv, [SourcesNext]_sourcesVars PROVE SourcesInv'
  OBVIOUS
<1> SourcesTypeOK /\ SourcesTypeOK'
  BY SourcesTypeStep DEF SourcesInv
<1> USE DEF Goto, Inside, Begun
<1>1. ASSUME NEW r \in Reader, Lock(r) PROVE SourcesInv'
  <2>1. \A q \in Reader : turn[q] \notin Inside
    BY <1>1 DEF Lock, SourcesInv, Exclusive
  <2>2. Exclusive'
    BY <1>1, <2>1 DEF Lock, SourcesTypeOK, Exclusive
  <2>3. Named'
    BY <1>1 DEF Lock, SourcesInv, SourcesTypeOK, Named
  <2>4. SourcesShed'
    BY <1>1 DEF Lock, SourcesInv, SourcesTypeOK, SourcesShed
  <2>5. Cached'
    BY <1>1, <2>1 DEF Lock, SourcesInv, SourcesTypeOK, Cached, ReadOnce
  <2> QED
    BY <2>2, <2>3, <2>4, <2>5 DEF SourcesInv
<1>2. ASSUME NEW r \in Reader, Join(r) PROVE SourcesInv'
  <2>1. entry'[r] \in Begun /\ of[entry'[r]] = want[r]
    BY <1>2 DEF Join, SourcesInv, Named, SourcesTypeOK
  <2>2. Named'
    BY <1>2, <2>1 DEF Join, SourcesInv, Named, SourcesTypeOK
  <2>3. Exclusive'
    BY <1>2 DEF Join, SourcesInv, Exclusive, SourcesTypeOK
  <2>4. SourcesShed'
    BY <1>2 DEF Join, SourcesInv, SourcesShed, SourcesTypeOK
  <2>5. Cached'
    BY <1>2 DEF Join, SourcesInv, Cached, ReadOnce, SourcesTypeOK
  <2> QED
    BY <2>2, <2>3, <2>4, <2>5 DEF SourcesInv
<1>3. ASSUME NEW r \in Reader, BeginRead(r) PROVE SourcesInv'
  BY <1>3, BeginReadStep
<1>4. ASSUME NEW r \in Reader, StoreReading(r) PROVE SourcesInv'
  <2>1. /\ entry[r] \in Begun /\ of[entry[r]] = want[r] /\ holder = r
        /\ \A q \in Reader : q # r => turn[q] # "store"
    BY <1>4 DEF StoreReading, SourcesInv, Named, Exclusive
  <2>2. Named'
    <3>1. ASSUME NEW p \in Package, read'[p] # Nobody
          PROVE  read'[p] \in Begun /\ of[read'[p]] = p
      BY <1>4, <2>1, <3>1 DEF StoreReading, SourcesInv, Named, SourcesTypeOK
    <3>2. \A q \in Reader : turn'[q] \in {"store", "unlock", "reading", "waiting"} =>
            turn[q] \in {"store", "unlock", "reading", "waiting"}
      BY <1>4 DEF StoreReading, SourcesTypeOK
    <3> QED
      BY <1>4, <3>1, <3>2 DEF StoreReading, SourcesInv, Named
  <2>3. Exclusive'
    BY <1>4 DEF StoreReading, SourcesInv, Exclusive, SourcesTypeOK
  <2>4. SourcesShed'
    BY <1>4 DEF StoreReading, SourcesInv, SourcesShed, SourcesTypeOK
  <2>5. Cached'
    <3>1. ASSUME calm, NEW i \in Begun PROVE read'[of[i]] = i
      BY <1>4, <2>1, <3>1 DEF StoreReading, SourcesInv, Cached, ReadOnce, SourcesTypeOK
    <3> QED
      BY <1>4, <2>1, <3>1 DEF StoreReading, SourcesInv, Cached, ReadOnce, SourcesTypeOK
  <2> QED
    BY <2>2, <2>3, <2>4, <2>5 DEF SourcesInv
<1>5. ASSUME NEW r \in Reader, Unlock(r) PROVE SourcesInv'
  <2>1. Exclusive'
    BY <1>5 DEF Unlock, SourcesInv, SourcesTypeOK, Exclusive
  <2>2. Named'
    BY <1>5 DEF Unlock, SourcesInv, SourcesTypeOK, Named
  <2>3. SourcesShed'
    BY <1>5 DEF Unlock, SourcesInv, SourcesTypeOK, SourcesShed
  <2>4. Cached'
    BY <1>5 DEF Unlock, SourcesInv, SourcesTypeOK, Cached, ReadOnce
  <2> QED
    BY <2>1, <2>2, <2>3, <2>4 DEF SourcesInv
<1>6. ASSUME NEW r \in Reader, Finish(r) PROVE SourcesInv'
  <2>1. Exclusive'
    BY <1>6 DEF Finish, SourcesInv, SourcesTypeOK, Exclusive
  <2>2. Named'
    BY <1>6 DEF Finish, SourcesInv, SourcesTypeOK, Named
  <2>3. SourcesShed'
    BY <1>6 DEF Finish, SourcesInv, SourcesTypeOK, SourcesShed
  <2>4. Cached'
    BY <1>6 DEF Finish, SourcesInv, SourcesTypeOK, Cached, ReadOnce
  <2> QED
    BY <2>1, <2>2, <2>3, <2>4 DEF SourcesInv
<1>7. ASSUME NEW r \in Reader, Wake(r) PROVE SourcesInv'
  <2>1. Exclusive'
    BY <1>7 DEF Wake, SourcesInv, SourcesTypeOK, Exclusive
  <2>2. Named'
    BY <1>7 DEF Wake, SourcesInv, SourcesTypeOK, Named
  <2>3. SourcesShed'
    BY <1>7 DEF Wake, SourcesInv, SourcesTypeOK, SourcesShed
  <2>4. Cached'
    BY <1>7 DEF Wake, SourcesInv, SourcesTypeOK, Cached, ReadOnce
  <2> QED
    BY <2>1, <2>2, <2>3, <2>4 DEF SourcesInv
<1>8. CASE BeginPressure
  BY <1>8 DEF BeginPressure, Governed!Begin, SourcesInv, Exclusive, Named, SourcesShed, Cached
<1>9. CASE dropSources
  BY <1>9 DEF dropSources, Governed!Shed, SourcesInv, Exclusive, Named, SourcesShed, Cached
<1>10. CASE GovernSources
  BY <1>10 DEF GovernSources, Governed!Settle, Governed!Relief, Governed!End, Governed!Stop,
               SourcesInv, Exclusive, Named, SourcesShed, Cached, ReadOnce
<1>11. CASE UNCHANGED sourcesVars
  BY <1>11 DEF sourcesVars, SourcesInv, Exclusive, Named, SourcesShed, Cached, ReadOnce
<1> QED
  BY <1>1, <1>2, <1>3, <1>4, <1>5, <1>6, <1>7, <1>8, <1>9, <1>10, <1>11
     DEF SourcesNext, Reads, Critical

\* What the readers hold and wait for is of its type, always.
THEOREM SourcesTypeCorrect == SourcesSpec => []SourcesTypeOK
<1>1. SourcesInv => SourcesTypeOK
  BY DEF SourcesInv
<1> QED
  BY <1>1, SourcesBegin, SourcesStep, PTL DEF SourcesSpec

\* Once pressure shed the sources the cache stays empty until it ends, whichever readers
\* were between their look at the flag and their store when it began.
THEOREM HoldsNone == SourcesSpec => []NoneUnderPressure
<1>1. SourcesInv => NoneUnderPressure
  BY DEF SourcesInv, SourcesShed, NoneUnderPressure
<1> QED
  BY <1>1, SourcesBegin, SourcesStep, PTL DEF SourcesSpec

\* Until pressure first begins no package is read twice, however many goroutines want it
\* at once.
THEOREM ReadsOnce == SourcesSpec => []ReadOnce
<1>1. SourcesInv => ReadOnce
  BY DEF SourcesInv, Cached, ReadOnce
<1> QED
  BY <1>1, SourcesBegin, SourcesStep, PTL DEF SourcesSpec

\* A goroutine is handed the reading of the package it asked for.
THEOREM ReadsItsOwn == SourcesSpec => []ReadsItsPackage
<1>1. SourcesInv => ReadsItsPackage
  BY DEF SourcesInv, Named, ReadsItsPackage
<1> QED
  BY <1>1, SourcesBegin, SourcesStep, PTL DEF SourcesSpec
-----------------------------------------------------------------------------
(* The configurations *)

USE LoadsAssumption

\* A load the run has returned from is one of a tree, and what is being kept is the
\* first load of its configuration or equal to it.
Carries ==
  /\ stage \in {"compare", "keep", "store"} => one \in Tree
  /\ stage \in {"keep", "store"} => first[at] \in {NoTree, one}

\* The lock is taken to store alone, and a store that follows a shedding finds nothing
\* held: what the shedding dropped it dropped before the lock was taken.
LoadsShed ==
  /\ locked <=> stage = "store"
  /\ stage = "store" /\ mode \in {"fresh", "under", "ended"} => Loaded = {}

LoadsInv == LoadsTypeOK /\ Carries /\ LoadsShed /\ OneUnderPressure /\ SameAsFirst

\* Nothing is added, held or answered at first.
LEMMA LoadsBegin == LoadsInit => LoadsInv
<1> SUFFICES ASSUME LoadsInit PROVE LoadsInv
  OBVIOUS
<1>1. LoadsTypeOK
  <2>1. 1 \in MatrixIndex
    BY DEF MatrixIndex
  <2> QED
    BY <2>1 DEF LoadsInit, LoadsTypeOK, NoAnswer, Load, P!Init, P!TypeOK, P!Mode
<1>2. Loaded = {}
  BY DEF LoadsInit, Loaded
<1> QED
  BY <1>1, <1>2 DEF LoadsInit, LoadsInv, Carries, LoadsShed, OneUnderPressure, SameAsFirst, P!Init

\* The types, one action at a time.
LEMMA LoadsTypeStep == LoadsTypeOK /\ Carries /\ [LoadsNext]_loadsVars => LoadsTypeOK'
<1> SUFFICES ASSUME LoadsTypeOK, Carries, [LoadsNext]_loadsVars PROVE LoadsTypeOK'
  OBVIOUS
<1> USE DEF LoadsTypeOK, Load, NoAnswer, P!TypeOK, P!Mode
<1>1. CASE LoadFirst
  BY <1>1 DEF LoadFirst
<1>2. ASSUME NEW c \in MatrixIndex, At(c) PROVE LoadsTypeOK'
  BY <1>2 DEF At
<1>3. CASE LoadReturns
  BY <1>3 DEF LoadReturns
<1>4. CASE Compare
  BY <1>4 DEF Compare
<1>5. CASE Keep
  BY <1>5 DEF Keep, clear
<1>6. CASE Store
  BY <1>6 DEF Store, Carries
<1>7. CASE Begin
  BY <1>7 DEF Begin, P!Begin, P!TypeOK, P!Mode
<1>8. CASE drop
  BY <1>8 DEF drop, clear, P!Shed, P!TypeOK, P!Mode
<1>9. CASE Govern
  BY <1>9 DEF Govern, P!Settle, P!Relief, P!End, P!Stop, P!TypeOK, P!Mode
<1>10. CASE Edit
  BY <1>10 DEF Edit
<1>11. CASE UNCHANGED loadsVars
  BY <1>11 DEF loadsVars, P!TypeOK
<1> QED
  BY <1>1, <1>2, <1>3, <1>4, <1>5, <1>6, <1>7, <1>8, <1>9, <1>10, <1>11 DEF LoadsNext, Run

\* The rest of the invariant, one action at a time.
LEMMA LoadsStep == LoadsInv /\ [LoadsNext]_loadsVars => LoadsInv'
<1> SUFFICES ASSUME LoadsInv, [LoadsNext]_loadsVars PROVE LoadsInv'
  OBVIOUS
<1> LoadsTypeOK /\ LoadsTypeOK'
  BY LoadsTypeStep DEF LoadsInv
<1> USE DEF LoadsInv, Carries, LoadsShed, OneUnderPressure, SameAsFirst, Loaded
<1>1. CASE LoadFirst
  BY <1>1 DEF LoadFirst
<1>2. ASSUME NEW c \in MatrixIndex, At(c) PROVE LoadsInv'
  BY <1>2 DEF At, LoadsTypeOK, NoAnswer
<1>3. CASE LoadReturns
  BY <1>3 DEF LoadReturns, LoadsTypeOK
<1>4. CASE Compare
  BY <1>4 DEF Compare
<1>5. CASE Keep
  BY <1>5 DEF Keep, clear, P!Pressed, LoadsTypeOK
<1>6. CASE Store
  BY <1>6 DEF Store, LoadsTypeOK, NoAnswer
<1>7. CASE Begin
  BY <1>7 DEF Begin, P!Begin
<1>8. CASE drop
  BY <1>8 DEF drop, clear, P!Shed, LoadsTypeOK
<1>9. CASE Govern
  BY <1>9 DEF Govern, P!Settle, P!Relief, P!End, P!Stop
<1>10. CASE Edit
  BY <1>10 DEF Edit
<1>11. CASE UNCHANGED loadsVars
  BY <1>11 DEF loadsVars
<1> QED
  BY <1>1, <1>2, <1>3, <1>4, <1>5, <1>6, <1>7, <1>8, <1>9, <1>10, <1>11 DEF LoadsNext, Run

\* Everything the run holds, loads and is answered is of its type, always.
THEOREM LoadsTypeCorrect == LoadsSpec => []LoadsTypeOK
<1>1. LoadsInv => LoadsTypeOK
  BY DEF LoadsInv
<1> QED
  BY <1>1, LoadsBegin, LoadsStep, PTL DEF LoadsSpec

\* Once pressure shed the configurations at most one is held, whatever load or store was
\* under way when it began, and however many configurations there are.
THEOREM HoldsOne == LoadsSpec => []OneUnderPressure
<1>1. LoadsInv => OneUnderPressure
  BY DEF LoadsInv
<1> QED
  BY <1>1, LoadsBegin, LoadsStep, PTL DEF LoadsSpec

\* Every configuration held or handed out is what its first load read, though the tree
\* changed in between.
THEOREM ReadsOneTree == LoadsSpec => []SameAsFirst
<1>1. LoadsInv => SameAsFirst
  BY DEF LoadsInv
<1> QED
  BY <1>1, LoadsBegin, LoadsStep, PTL DEF LoadsSpec

\* Outside pressure nothing held is ever forgotten.
THEOREM Kept == LoadsSpec => KeptOutsidePressure
<1>1. LoadsInv /\ [LoadsNext]_loadsVars =>
        [\A c \in Loaded : ~P!Pressed => kept'[c] = kept[c]]_loadsVars
  <2> SUFFICES ASSUME LoadsInv, [LoadsNext]_loadsVars, NEW c \in Loaded, ~P!Pressed
               PROVE  kept'[c] = kept[c]
    OBVIOUS
  <2> USE DEF P!Pressed, Loaded
  <2>1. CASE Store
    BY <2>1 DEF Store, LoadsInv, LoadsTypeOK, Carries, SameAsFirst
  <2>2. CASE Keep
    BY <2>2 DEF Keep
  <2>3. CASE drop
    BY <2>3 DEF drop, P!Shed
  <2>4. CASE UNCHANGED kept
    BY <2>4
  <2> QED
    BY <2>1, <2>2, <2>3, <2>4
       DEF LoadsNext, Run, loadsVars, LoadFirst, At, LoadReturns, Compare, Begin, Govern, Edit
<1> QED
  BY <1>1, LoadsBegin, LoadsStep, PTL DEF LoadsSpec, KeptOutsidePressure
=============================================================================
