------------------------------ MODULE Governor ------------------------------
(***************************************************************************)
(* The memory governor (internal/memory/governor.go): a goroutine that     *)
(* reads the live heap against the memory the machine can give, begins and *)
(* ends memory pressure, and ends the run when it cannot fit.  One tick is *)
(* several steps because the run allocates, collects and stops the         *)
(* governor between them.  Memory is counted in units of which a ceiling   *)
(* holds about a hundred.                                                  *)
(***************************************************************************)
EXTENDS Integers

CONSTANTS
  Demands,     \* what the run itself may hold live
  CacheSizes,  \* what its caches may hold live besides
  Slacks,      \* what the runtime may hold beyond the live heap
  Rooms,       \* the least headroom the sources that answer may report
  Limits       \* the pairs of the caller's and the machine's limit, 0 for none

ASSUME GovernorAssumption ==
  /\ \A S \in {Demands, CacheSizes, Slacks, Rooms} : S \subseteq Nat
  /\ 0 \in CacheSizes
  /\ Limits \subseteq [caller: Nat, machine: Nat]

VARIABLES
  limits,   \* the limits the process started with; constant
  demand, cache, slack,  \* what the run, its caches and the runtime hold
  seen,     \* the live heap at the last collection, which the metrics answer
  pressed, regain,
  ceiling,  \* of the tick that runs
  live, held,            \* what the tick last read
  judged,   \* whether the tick began under pressure
  soft,     \* the memory limit set on the runtime, Found before any
  bound,    \* whether the window closed bound by collection
  window,   \* whether a window is open
  cause,    \* what the run was ended with
  pc,       \* where the governor stands
  stop      \* where the function Start returned stands

run  == <<demand, cache, slack, seen>>
tick == <<ceiling, live, held, judged, bound>>
governorVars == <<limits, run, pressed, regain, tick, soft, window, cause, pc, stop>>

Found == -1  \* the limit the governor found
NoCause == [needed |-> 0, available |-> 0]

softLimitPercent == 85
defaultPercent == 70
abortPercent == 90
pressurePercent == 80
relievedPercent == 50

min(a, b) == IF a <= b THEN a ELSE b
max(a, b) == IF a <= b THEN b ELSE a

\* percent of value, divided first so that no product overflows.
percentOf(value, percent) == (value \div 100) * percent + ((value % 100) * percent) \div 100

\* The cause ending a run whose reading passed the abort line of available.
exhausted(used, available) ==
  [needed |-> (used \div abortPercent) * 100
              + ((used % abortPercent) * 100 + abortPercent - 1) \div abortPercent,
   available |-> available]

TypeOK ==
  /\ limits \in Limits
  /\ demand \in Demands /\ cache \in CacheSizes /\ slack \in Slacks
  /\ {seen, regain, ceiling, live, held} \subseteq Nat
  /\ {pressed, judged, bound, window} \subseteq BOOLEAN
  /\ soft \in Nat \union {Found}
  /\ cause \in [needed: Nat, available: Nat]
  /\ pc \in {"start", "tick", "decide", "before", "shed", "after", "limit", "judge",
             "idle", "finished", "off"}
  /\ stop \in {"starting", "running", "waiting", "stopped"}

GovernorInit ==
  /\ limits \in Limits
  /\ demand \in Demands /\ cache = 0 /\ slack \in Slacks /\ seen = demand
  /\ pressed = FALSE /\ regain = 0 /\ ceiling = 0 /\ live = 0 /\ held = 0
  /\ judged = FALSE /\ soft = Found /\ bound = FALSE /\ window = FALSE
  /\ cause = NoCause /\ pc = "start" /\ stop = "starting"
-----------------------------------------------------------------------------
(* The run the governor governs. *)

Live == demand + cache
Held == Live + slack

\* The run and its caches take or free memory; a cache keeps nothing under pressure.
Allocate ==
  /\ demand' \in Demands
  /\ cache' \in IF pressed THEN {c \in CacheSizes : c <= cache} ELSE CacheSizes
  /\ slack' \in Slacks
  /\ UNCHANGED <<limits, seen, pressed, regain, tick, soft, window, cause, pc, stop>>

\* The runtime collects on its own.
CollectGarbage ==
  /\ seen' = Live
  /\ UNCHANGED <<limits, demand, cache, slack, pressed, regain, tick, soft, window,
                 cause, pc, stop>>
-----------------------------------------------------------------------------
(* One tick. *)

\* The most memory the process may hold, given the least headroom the sources report;
\* None where no source answers.
None == -1
Ceiling(room) ==
  LET cap == max(limits.caller, limits.machine)
  IN IF cap > 0 /\ (room = None \/ cap < Held + room) THEN cap
     ELSE IF room = None THEN None
     ELSE Held + room

Capped(c) ==
  LET share == percentOf(c, softLimitPercent)
  IN IF limits.machine > 0 THEN min(share, percentOf(limits.machine, defaultPercent))
                           ELSE share

\* Start reads the ceiling once: where nothing answers it governs nothing, and
\* otherwise its first tick runs before it returns.
Start ==
  /\ pc = "start"
  /\ \E room \in Rooms \union {None} : pc' = IF Ceiling(room) = None THEN "off" ELSE "tick"
  /\ UNCHANGED <<limits, run, pressed, regain, tick, soft, window, cause, stop>>

\* A tick reads the ceiling; where nothing answers it leaves everything as it is.
Tick ==
  /\ pc \in {"tick", "idle"}
  /\ \E room \in Rooms \union {None} :
       IF Ceiling(room) = None
         THEN pc' = "idle" /\ UNCHANGED ceiling
         ELSE pc' = "decide" /\ ceiling' = Ceiling(room)
  /\ UNCHANGED <<limits, run, pressed, regain, live, held, judged, bound, soft, window,
                 cause, stop>>

Onset  == ~pressed /\ seen > percentOf(Capped(ceiling), pressurePercent)
Relief == pressed /\ seen + regain < percentOf(Capped(ceiling), relievedPercent)

\* What a tick read is its own: it ends with it.
EndTick(to) ==
  /\ pc' = to
  /\ ceiling' = 0 /\ live' = 0 /\ held' = 0 /\ judged' = FALSE /\ bound' = FALSE

\* Bug: the tick pressure begins on judges the run.
HastyDecide ==
  /\ pc = "decide"
  /\ live' = seen /\ held' = Held
  /\ pressed' = (Onset \/ (pressed /\ ~Relief))
  /\ judged' = pressed'
  /\ pc' = IF Onset THEN "before" ELSE "limit"
  /\ UNCHANGED <<limits, run, regain, ceiling, bound, soft, window, cause, stop>>

\* Bug: the tick that ends pressure sets no limit.
IdleRelief ==
  /\ pc = "decide"
  /\ pressed' = (Onset \/ (pressed /\ ~Relief))
  /\ IF Relief THEN EndTick("idle")
     ELSE /\ live' = seen /\ held' = Held /\ judged' = pressed
          /\ pc' = IF Onset THEN "before" ELSE "limit"
          /\ UNCHANGED <<ceiling, bound>>
  /\ UNCHANGED <<limits, run, regain, soft, window, cause, stop>>

\* The heap is read, and pressure begins, ends or goes on.
Decide ==
  /\ pc = "decide"
  /\ live' = seen /\ held' = Held
  /\ judged' = (pressed /\ ~Relief)
  /\ pressed' = (Onset \/ (pressed /\ ~Relief))
  /\ pc' = IF Onset THEN "before" ELSE "limit"
  /\ UNCHANGED <<limits, run, regain, ceiling, bound, soft, window, cause, stop>>

\* Pressure began: a collection, so that what the drops free is counted from what is
\* live now.
Before ==
  /\ pc = "before"
  /\ seen' = Live /\ live' = Live
  /\ pc' = "shed"
  /\ UNCHANGED <<limits, demand, cache, slack, pressed, regain, ceiling, held, judged,
                 bound, soft, window, cause, stop>>

\* Every registered drop runs.
shed ==
  /\ pc = "shed"
  /\ cache' = 0
  /\ pc' = "after"
  /\ UNCHANGED <<limits, demand, slack, seen, pressed, regain, tick, soft, window,
                 cause, stop>>

\* A collection again, and what the drops freed.
After ==
  /\ pc = "after"
  /\ seen' = Live /\ live' = Live /\ held' = Held
  /\ regain' = live - min(Live, live)
  /\ pc' = "limit"
  /\ UNCHANGED <<limits, demand, cache, slack, pressed, ceiling, judged, bound, soft,
                 window, cause, stop>>

\* The runtime's soft limit, then the window of the collector's CPU limiter; a tick that
\* did not begin under pressure judges nothing.
SetLimit ==
  /\ pc = "limit"
  /\ soft' = IF pressed THEN percentOf(ceiling, softLimitPercent) ELSE Capped(ceiling)
  /\ window' = TRUE
  /\ IF judged THEN /\ bound' \in (IF window THEN BOOLEAN ELSE {FALSE})
                     /\ pc' = "judge"
                     /\ UNCHANGED <<ceiling, live, held, judged>>
               ELSE EndTick("idle")
  /\ UNCHANGED <<limits, run, pressed, regain, cause, stop>>

\* A run past the abort line after a collection, or bound by collection past it with
\* what it held, is ended.
Judge ==
  /\ pc = "judge"
  /\ LET line == percentOf(ceiling, abortPercent) IN
       /\ seen' = IF live > line THEN Live ELSE seen
       /\ IF live > line /\ Live > line
            THEN cause' = exhausted(Live, ceiling) /\ EndTick("finished")
          ELSE IF bound /\ held > line
            THEN cause' = exhausted(held, ceiling) /\ EndTick("finished")
          ELSE UNCHANGED cause /\ EndTick("idle")
  /\ UNCHANGED <<limits, demand, cache, slack, pressed, regain, soft, window, stop>>
-----------------------------------------------------------------------------
(* The function Start returned. *)

\* Start returns once its first tick is over.
Return ==
  /\ stop = "starting" /\ pc \in {"idle", "finished", "off"}
  /\ stop' = "running"
  /\ UNCHANGED <<limits, run, pressed, regain, tick, soft, window, cause, pc>>

CallStop ==
  /\ stop = "running"
  /\ stop' = "waiting"
  /\ UNCHANGED <<limits, run, pressed, regain, tick, soft, window, cause, pc>>

\* Bug: the goroutine looks at its context alone.
DeafLeave ==
  /\ pc = "idle" /\ cause # NoCause
  /\ pc' = "finished"
  /\ UNCHANGED <<limits, run, pressed, regain, tick, soft, window, cause, stop>>

\* The goroutine sees, between two ticks, that the run was cancelled, as a signal may
\* at any time, or that the governor is stopped.
Leave ==
  /\ pc = "idle"
  /\ pc' = "finished"
  /\ UNCHANGED <<limits, run, pressed, regain, tick, soft, window, cause, stop>>

\* Bug: the caller restores the limit without waiting.
HastyRestore ==
  /\ stop = "waiting"
  /\ stop' = "stopped" /\ soft' = Found /\ pressed' = FALSE
  /\ UNCHANGED <<limits, run, regain, tick, window, cause, pc>>

\* The caller waits for the goroutine, then restores the limit and clears pressure.
Restore ==
  /\ stop = "waiting" /\ pc \in {"finished", "off"}
  /\ stop' = "stopped" /\ soft' = Found /\ pressed' = FALSE
  /\ UNCHANGED <<limits, run, regain, tick, window, cause, pc>>

Governs == Tick \/ Decide \/ Before \/ shed \/ After \/ SetLimit \/ Judge

GovernorNext ==
  Allocate \/ CollectGarbage \/ Start \/ Governs \/ Return \/ CallStop \/ Leave \/ Restore

GovernorSpec == GovernorInit /\ [][GovernorNext]_governorVars

(***************************************************************************)
(* The goroutine and its caller run.  Once the governor is stopped, a      *)
(* goroutine waiting between ticks is offered `done' at every select, and  *)
(* the runtime chooses among the ready cases at random: strong fairness of *)
(* the leave, and none for a governor nobody stops.                        *)
(***************************************************************************)
GovernorFairSpec ==
  /\ GovernorSpec
  /\ WF_governorVars(Start) /\ WF_governorVars(Governs) /\ WF_governorVars(Restore)
  /\ SF_governorVars(stop = "waiting" /\ Leave)

-----------------------------------------------------------------------------
(* Properties *)

Mode ==
  IF stop = "stopped" THEN "stopped"
  ELSE IF cause # NoCause THEN "ended"
  ELSE IF ~pressed THEN "clear"
  ELSE IF pc \in {"before", "shed"} THEN "shedding"
  ELSE IF pc \in {"after", "limit"} /\ ~judged THEN "fresh"
  ELSE "under"

Abstract == INSTANCE Pressure WITH mode <- Mode

\* A run is judged not to fit only on a reading taken under a pressure that began on an
\* earlier tick, so the caches were shed and the run went on without them first,
\* whatever it allocates while a tick runs (the comment on `tick').
ImplementsPressure == Abstract!Spec

\* The error that ends a run says more was needed than the machine makes available,
\* whichever reading passed the abort line (the comment on `ExhaustedError').
NeededAboveAvailable == cause # NoCause => cause.needed > cause.available

\* Once the function Start returned has come back, the limit the governor found stands
\* and no later reading sets another or leaves the run under pressure.
StopRestores == stop = "stopped" => soft = Found /\ ~pressed

\* Whatever headroom the sources report and however much the runtime already holds, no
\* limit is set above the share of the limit the process started with, no error that ends
\* a run makes more than that limit available, and once pressure has ended the runtime is
\* held to the machine's default share again ("without it the soft limit stays at most
\* 70 % of the machine's limit outside pressure", the comment on `Start').
LimitsKept ==
  LET most == max(limits.caller, limits.machine) IN
  /\ most > 0 => /\ soft # Found => soft <= percentOf(most, softLimitPercent)
                 /\ cause # NoCause => cause.available <= most
  /\ limits.machine > 0 /\ ~pressed /\ pc # "limit" /\ soft # Found =>
       soft <= percentOf(limits.machine, defaultPercent)

\* An ended run is told a shortage, no limit is above its source's share, and a stopped
\* governor leaves nothing behind.
HonestAndStopped == NeededAboveAvailable /\ LimitsKept /\ StopRestores

\* Stopping the governor never waits for ever, whatever tick is under way.
StopReturns == stop = "waiting" ~> stop = "stopped"
=============================================================================
