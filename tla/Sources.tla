------------------------------ MODULE Sources ------------------------------
(***************************************************************************)
(* The reader of package sources several detectors share                   *)
(* (internal/load/result.go): each package is read once, concurrent        *)
(* readers of one package wait for the reading under way, and pressure     *)
(* forgets every reading without waiting for one.                          *)
(***************************************************************************)
EXTENDS Naturals

CONSTANTS
  Reader,   \* the goroutines that read
  Package,
  MaxReads, \* the bound on the readings begun
  Nobody

ASSUME SourcesAssumption == MaxReads \in Nat /\ Nobody \notin Reader \union 1 .. MaxReads

VARIABLES
  pressure, \* the mode memory pressure is in
  read,     \* per package, the reading the cache holds, Nobody for none
  of,       \* per reading begun, the package it reads
  ready,    \* the readings whose result is there
  holder,   \* the reader holding the lock
  turn, want, \* per reader, where it stands and the package it wants
  entry,    \* per reader, the reading it makes or waits for
  calm      \* whether no pressure has begun yet

sourcesVars == <<pressure, read, of, ready, holder, turn, want, entry, calm>>

Governed == INSTANCE Pressure WITH mode <- pressure

Reading == 1 .. MaxReads
Begun == DOMAIN of

SourcesTypeOK ==
  /\ Governed!TypeOK
  /\ read \in [Package -> Reading \union {Nobody}]
  /\ \E n \in 0 .. MaxReads : of \in [1 .. n -> Package]
  /\ ready \subseteq Begun
  /\ holder \in Reader \union {Nobody}
  /\ turn \in [Reader -> {"idle", "locked", "store", "unlock", "reading", "waiting"}]
  /\ want \in [Reader -> Package]
  /\ entry \in [Reader -> Reading \union {Nobody}]
  /\ \A r \in Reader : entry[r] = Nobody <=> turn[r] \in {"idle", "locked"}
  /\ calm \in BOOLEAN

SourcesInit ==
  /\ Governed!Init
  /\ read = [p \in Package |-> Nobody]
  /\ of = [i \in {} |-> Nobody]
  /\ ready = {} /\ holder = Nobody
  /\ turn = [r \in Reader |-> "idle"]
  /\ want \in [Reader -> Package]
  /\ entry = [r \in Reader |-> Nobody]
  /\ calm = TRUE

Goto(r, place) == turn' = [turn EXCEPT ![r] = place]
-----------------------------------------------------------------------------
(* Read *)

Lock(r) ==
  /\ turn[r] = "idle" /\ holder = Nobody
  /\ Begun # Reading     \* the bound: whoever has the lock may begin one
  /\ holder' = r
  /\ \E p \in Package : want' = [want EXCEPT ![r] = p]
  /\ Goto(r, "locked")
  /\ UNCHANGED <<pressure, read, of, ready, entry, calm>>

\* A reading the cache holds is waited for, outside the lock.
Join(r) ==
  /\ turn[r] = "locked" /\ read[want[r]] # Nobody
  /\ entry' = [entry EXCEPT ![r] = read[want[r]]]
  /\ holder' = Nobody
  /\ Goto(r, "waiting")
  /\ UNCHANGED <<pressure, read, of, ready, want, calm>>

\* Bugs: a reading is kept under pressure; a second reading of a package is begun.
HoardingBeginRead(r) ==
  /\ turn[r] = "locked" /\ read[want[r]] = Nobody
  /\ \E n \in Reading :
       /\ Begun = 1 .. n - 1
       /\ of' = [i \in 1 .. n |-> IF i = n THEN want[r] ELSE of[i]]
       /\ entry' = [entry EXCEPT ![r] = n]
  /\ Goto(r, "store")
  /\ UNCHANGED <<pressure, read, ready, holder, want, calm>>

EagerBeginRead(r) ==
  /\ turn[r] = "locked"
  /\ \E n \in Reading :
       /\ Begun = 1 .. n - 1
       /\ of' = [i \in 1 .. n |-> IF i = n THEN want[r] ELSE of[i]]
       /\ entry' = [entry EXCEPT ![r] = n]
  /\ Goto(r, IF Governed!Pressed THEN "unlock" ELSE "store")
  /\ UNCHANGED <<pressure, read, ready, holder, want, calm>>

\* Otherwise the reader begins one, which the cache will hold only outside pressure.
BeginRead(r) ==
  /\ turn[r] = "locked" /\ read[want[r]] = Nobody
  /\ \E n \in Reading :
       /\ Begun = 1 .. n - 1
       /\ of' = [i \in 1 .. n |-> IF i = n THEN want[r] ELSE of[i]]
       /\ entry' = [entry EXCEPT ![r] = n]
  /\ Goto(r, IF Governed!Pressed THEN "unlock" ELSE "store")
  /\ UNCHANGED <<pressure, read, ready, holder, want, calm>>

StoreReading(r) ==
  /\ turn[r] = "store"
  /\ read' = [read EXCEPT ![want[r]] = entry[r]]
  /\ Goto(r, "unlock")
  /\ UNCHANGED <<pressure, of, ready, holder, want, entry, calm>>

Unlock(r) ==
  /\ turn[r] = "unlock"
  /\ holder' = Nobody
  /\ Goto(r, "reading")
  /\ UNCHANGED <<pressure, read, of, ready, want, entry, calm>>

\* Bug: a package that does not read wakes nobody.
SilentFinish(r) ==
  /\ turn[r] = "reading"
  /\ \/ ready' = ready \union {entry[r]}
     \/ UNCHANGED ready
  /\ entry' = [entry EXCEPT ![r] = Nobody]
  /\ Goto(r, "idle")
  /\ UNCHANGED <<pressure, read, of, holder, want, calm>>

\* The reading ends, whatever it found, and wakes whoever waits for it.
Finish(r) ==
  /\ turn[r] = "reading"
  /\ ready' = ready \union {entry[r]}
  /\ entry' = [entry EXCEPT ![r] = Nobody]
  /\ Goto(r, "idle")
  /\ UNCHANGED <<pressure, read, of, holder, want, calm>>

Wake(r) ==
  /\ turn[r] = "waiting" /\ entry[r] \in ready
  /\ entry' = [entry EXCEPT ![r] = Nobody]
  /\ Goto(r, "idle")
  /\ UNCHANGED <<pressure, read, of, ready, holder, want, calm>>

-----------------------------------------------------------------------------
(* The governor *)

BeginPressure ==
  /\ Governed!Begin
  /\ calm' = FALSE
  /\ UNCHANGED <<read, of, ready, holder, turn, want, entry>>

\* The drop needs the lock, and waits for no reading.
dropSources ==
  /\ holder = Nobody
  /\ Governed!Shed
  /\ read' = [p \in Package |-> Nobody]
  /\ UNCHANGED <<of, ready, holder, turn, want, entry, calm>>

GovernSources ==
  /\ Governed!Settle \/ Governed!Relief \/ Governed!End \/ Governed!Stop
  /\ UNCHANGED <<read, of, ready, holder, turn, want, entry, calm>>

Critical(r) == Join(r) \/ BeginRead(r) \/ StoreReading(r) \/ Unlock(r)
Reads(r) == Lock(r) \/ Critical(r) \/ Finish(r) \/ Wake(r)

SourcesNext == (\E r \in Reader : Reads(r)) \/ BeginPressure \/ dropSources \/ GovernSources

SourcesSpec == SourcesInit /\ [][SourcesNext]_sourcesVars

\* Goroutines are scheduled, a reading returns, and a freed lock goes round; nothing
\* makes a reader want another package.
SourcesFairSpec ==
  /\ SourcesSpec
  /\ \A r \in Reader :
       WF_sourcesVars(Critical(r)) /\ WF_sourcesVars(Finish(r)) /\ WF_sourcesVars(Wake(r))
  /\ SF_sourcesVars(dropSources)

-----------------------------------------------------------------------------
(* Properties *)

\* Once pressure shed the sources the cache holds none until it ends, whichever readers
\* were between their look at the flag and their store when it began.
NoneUnderPressure ==
  pressure \in {"fresh", "under", "ended"} => \A p \in Package : read[p] = Nobody

\* Until pressure first begins each package is read once, however many readers want it
\* at the same time.
ReadOnce == calm => \A i, j \in Begun : of[i] = of[j] => i = j

\* A reader answers the package it asked for, a reading dropped since included.
ReadsItsPackage ==
  \A r \in Reader : turn[r] \in {"store", "unlock", "reading", "waiting"} =>
    of[entry[r]] = want[r]

\* A reader that waits for another's reading is woken, though pressure dropped it.
WaitersWake ==
  \A r \in Reader : turn[r] = "waiting" ~> turn[r] = "idle"
=============================================================================
