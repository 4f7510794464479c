------------------------------ MODULE Analyze ------------------------------
(***************************************************************************)
(* One analyze invocation (cmd/deadset-go/analyze.go, exit.go, main.go,    *)
(* internal/run, internal/load/all.go): the stages it runs one after the   *)
(* other, the matrix it loads, the point after which a cancellation no     *)
(* longer ends it, the documents it publishes and the code it exits with.  *)
(* A signal or the memory governor may cancel it at any step, and the      *)
(* system may kill it at any step.                                         *)
(***************************************************************************)
EXTENDS Naturals, Sequences, FiniteSets

CONSTANTS
  Matrices,    \* the numbers of configurations a matrix holds
  Formats,     \* the renderings of the report
  Renderings,  \* the lists of formats an invocation asks for
  Rounds       \* what the rounds of a baseline write are counted modulo

ASSUME AnalyzeAssumption ==
  Matrices \subseteq Nat /\ Renderings \subseteq Seq(Formats) /\ Rounds \in Nat \ {0}

VARIABLES
  asked,      \* what the invocation asked for
  stage,      \* the stage that runs next
  cause,      \* what cancelled the run's context first, None while nothing did
  at,         \* the configuration the matrix loads next, or the document written next
  loads,      \* what the load of each configuration came to
  kept, dropped,  \* the configurations built and those dropped from the matrix
  rounds,     \* the round of the baseline write, modulo Rounds
  writing,    \* whether the run committed to writing, and so dropped its cancellation
  published,  \* the documents of this run on disk; any other is a previous run's
  said,       \* what the run named on stderr as its end
  code        \* the exit code

vars == <<asked, stage, cause, at, loads, kept, dropped, rounds, writing, published, said, code>>

None == "none"
Cause == {"interrupted", "exhausted"}

(***************************************************************************)
(* The error a stage returns: of a class, of the usage table, any other,   *)
(* its own wrapping of the cancellation, or an unwritten document.         *)
(***************************************************************************)
Error == {"classed", "usage", "other"}

Stages == <<"flags", "self", "load", "passes", "prepare", "sweep", "findings", "report",
            "baseline", "facts", "commit", "write", "verdict">>

Asked ==
  [matrix: Matrices, derived: BOOLEAN, formats: Renderings, baseline: BOOLEAN,
   facts: BOOLEAN, exitCode: BOOLEAN]

\* The documents one invocation asked for, in the order write and writeAll publish them.
Documents ==
  <<"report">> \o asked.formats
    \o (IF asked.baseline THEN <<"baseline">> ELSE <<>>)
    \o (IF asked.facts THEN <<"facts">> ELSE <<>>)
-----------------------------------------------------------------------------
Init ==
  /\ asked \in Asked
  /\ stage = "flags"
  /\ cause = None
  /\ at = 1
  /\ loads = <<>>
  /\ kept = {} /\ dropped = {}
  /\ rounds = 0
  /\ writing = FALSE
  /\ published = {}
  /\ said = None
  /\ code = None

\* A signal or the governor cancels the context; the first cause stays.
Cancel ==
  /\ cause = None /\ code = None
  /\ cause' \in Cause
  /\ UNCHANGED <<asked, stage, at, loads, kept, dropped, rounds, writing, published, said, code>>

\* The system kills the process: no exit code, and the documents as they are.
Kill ==
  /\ code = None
  /\ code' = "killed" /\ stage' = "ended"
  /\ UNCHANGED <<asked, cause, at, loads, kept, dropped, rounds, writing, published, said>>

Ends(message, exit) == said' = message /\ code' = exit /\ stage' = "ended"

\* The context the run's errors are named under: once it writes, it is never cancelled.
cancelled == cause # None /\ ~writing

\* Mutant of failed: the error decides, the cancellation names itself only where it wraps.
FailedByError(e) ==
  \/ e = "usage" /\ Ends("usage", "2")
  \/ e = "cancelled" /\ Ends(cause, "3")
  \/ e \notin {"usage", "cancelled"} /\ Ends(e, "3")

\* The end of a run that failed with the error e: a cancelled run names its cause,
\* whatever stage stopped.
failed(e) ==
  \/ cancelled /\ Ends(cause, "3")
  \/ ~cancelled /\ e = "usage" /\ Ends("usage", "2")
  \/ ~cancelled /\ e # "usage" /\ Ends(e, "3")

Errors == Error \union (IF cancelled THEN {"cancelled"} ELSE {})

Quiet == UNCHANGED <<asked, cause, kept, dropped, published>>
Goto(s) == stage' = s /\ UNCHANGED <<said, code>>

\* The flags: a malformed invocation is a usage error whatever the context, a document it
\* names that is not read or is refused is one unless the context ended the read.
Flags ==
  /\ stage = "flags"
  /\ \/ Goto("self")
     \/ Ends("usage", "2")
     \/ \E e \in Errors \ {"usage"} : failed(e)
  /\ UNCHANGED <<at, loads, rounds, writing>> /\ Quiet

\* The analyzer's own identity, embedded: a fault of the product where it is not decoded.
Self ==
  /\ stage = "self"
  /\ Goto("load") \/ Ends("other", "3")
  /\ UNCHANGED <<at, loads, rounds, writing>> /\ Quiet

\* The load stage before the matrix: the scope, the topology, the configurations.
Refused == \/ \E e \in Errors : failed(e)
           \/ asked.matrix = 0 /\ failed("usage")

\* Mutant of LoadNext: a derived configuration that does not load is dropped, whatever
\* ended its load.
LoadHastily ==
  /\ stage = "load"
  /\ at <= asked.matrix
  /\ \E outcome \in {"built", "failed"} \union (IF cancelled THEN {"cancelled"} ELSE {}) :
       /\ loads' = Append(loads, outcome)
       /\ \/ /\ outcome = "built"
             /\ kept' = kept \union {at} /\ dropped' = dropped /\ Goto("load")
          \/ /\ outcome # "built" /\ asked.derived
             /\ dropped' = dropped \union {at} /\ kept' = kept /\ Goto("load")
          \/ /\ outcome # "built" /\ ~asked.derived
             /\ failed("other") /\ UNCHANGED <<kept, dropped>>
  /\ at' = at + 1
  /\ UNCHANGED <<asked, cause, rounds, writing, published>>

\* Matrix.All loads the next configuration: a cancelled run ends, a declared
\* configuration that does not load ends it, a derived one is dropped.
LoadNext ==
  /\ stage = "load"
  /\ at <= asked.matrix
  /\ \E outcome \in {"built", "failed"} \union (IF cancelled THEN {"cancelled"} ELSE {}) :
       /\ loads' = Append(loads, outcome)
       /\ \/ /\ outcome = "built"
             /\ kept' = kept \union {at} /\ dropped' = dropped /\ Goto("load")
          \/ /\ outcome # "built" /\ ~cancelled /\ asked.derived
             /\ dropped' = dropped \union {at} /\ kept' = kept /\ Goto("load")
          \/ /\ outcome # "built" => cancelled \/ ~asked.derived  \* or its enumeration failed
             /\ \E e \in Error : failed(e)
             /\ UNCHANGED <<kept, dropped>>
  /\ at' = at + 1
  /\ UNCHANGED <<asked, cause, rounds, writing, published>>

\* The matrix is loaded: a run with no configuration left ends with a drop's error.
Loaded ==
  /\ stage = "load"
  /\ \/ at = 1 /\ Refused
     \/ /\ at > asked.matrix /\ asked.matrix > 0
        /\ IF kept = {} THEN \E e \in Error : failed(e) ELSE Goto("passes")
  /\ UNCHANGED <<at, loads, rounds, writing>> /\ Quiet

After(s) == Stages[(CHOOSE i \in DOMAIN Stages : Stages[i] = s) + 1]

\* A stage that answers from what the earlier ones hold: the passes and their merge, the
\* exemptions, the sweep, the report, each loading a dropped configuration again.
Stage ==
  /\ stage \in {"passes", "prepare", "sweep", "report"}
  /\ \/ Goto(After(stage))
     \/ \E e \in Errors : failed(e)
  /\ UNCHANGED <<at, loads, rounds, writing>> /\ Quiet

\* Mutant of uncancelled: the passes' answer is used though the run was cancelled.
Uncancelled == TRUE

\* The passes after the load read no context, so their end reads it.
uncancelled == cause = None

\* The findings pass, read for its cancellation before its answer is used.
Findings ==
  /\ stage = "findings"
  /\ \/ uncancelled /\ Goto("report")
     \/ \E e \in Errors : failed(e)
  /\ UNCHANGED <<at, loads, rounds, writing>> /\ Quiet

\* A round of the baseline write sweeps, finds and reports once more, until the rows it
\* reads back are the rows it records.
Baseline ==
  /\ stage = "baseline"
  /\ \/ ~asked.baseline /\ Goto("facts") /\ UNCHANGED rounds
     \/ /\ asked.baseline
        /\ \/ /\ uncancelled
              /\ rounds' = (rounds % Rounds) + 1
              /\ Goto("facts") \/ Goto("baseline")
           \/ (\E e \in Errors : failed(e)) /\ UNCHANGED rounds
  /\ UNCHANGED <<at, loads, writing>> /\ Quiet

\* The facts document, from a findings pass without the generated files' findings.
Facts ==
  /\ stage = "facts"
  /\ \/ (asked.facts => uncancelled) /\ Goto("commit")
     \/ asked.facts /\ \E e \in Errors : failed(e)
  /\ UNCHANGED <<at, loads, rounds, writing>> /\ Quiet

\* Mutant of committed: the writes keep the cancellation of the run.
KeptContext ==
  /\ stage = "commit"
  /\ IF cause # None THEN failed("cancelled") /\ UNCHANGED <<at, writing>>
                     ELSE Goto("write") /\ at' = 1 /\ UNCHANGED writing
  /\ UNCHANGED <<loads, rounds>> /\ Quiet

committed ==
  /\ stage = "commit"
  /\ IF cause # None THEN failed("cancelled") /\ UNCHANGED <<at, writing>>
                     ELSE Goto("write") /\ at' = 1 /\ writing' = TRUE
  /\ UNCHANGED <<loads, rounds>> /\ Quiet

\* The next document is rendered whole and published, or is left as it was and ends the
\* run: not rendered, not written, or a baseline whose present rows are not read.
Publish ==
  /\ stage = "write" /\ at <= Len(Documents)
  /\ \/ published' = published \union {Documents[at]} /\ at' = at + 1 /\ Goto("write")
     \/ failed("unwritten") /\ UNCHANGED <<published, at>>
     \/ cancelled /\ failed("cancelled") /\ UNCHANGED <<published, at>>
  /\ UNCHANGED <<asked, cause, loads, kept, dropped, rounds, writing>>

\* Every document is written: the verdict of the report is the code, unless that is off.
Verdict ==
  /\ stage = "write" /\ at > Len(Documents)
  /\ \E answer \in {"0", "1"} : Ends("verdict", IF asked.exitCode THEN answer ELSE "0")
  /\ UNCHANGED <<at, loads, rounds, writing>> /\ Quiet

analyze ==
  \/ Flags \/ Self \/ LoadNext \/ Loaded \/ Stage \/ Findings \/ Baseline \/ Facts
  \/ committed \/ Publish \/ Verdict

Next == analyze \/ Cancel \/ Kill

Spec == Init /\ [][Next]_vars /\ WF_vars(analyze)
-----------------------------------------------------------------------------
(* Properties *)

TypeOK ==
  /\ asked \in Asked
  /\ stage \in {Stages[i] : i \in DOMAIN Stages} \union {"ended"}
  /\ cause \in Cause \union {None}
  /\ at \in Nat
  /\ loads \in Seq({"built", "failed", "cancelled"})
  /\ kept \subseteq 1 .. asked.matrix /\ dropped \subseteq 1 .. asked.matrix
  /\ kept \intersect dropped = {}
  /\ rounds \in 0 .. Rounds
  /\ writing \in BOOLEAN
  /\ published \subseteq {Documents[i] : i \in DOMAIN Documents}
  /\ said \in Error \union Cause \union {"unwritten", "verdict", None}
  /\ (code = None) = (stage # "ended")

\* A report covers the matrix: every configuration is built or dropped, and only a
\* derived one whose own load failed is dropped, never one whose load was cut short, since
\* the union without a configuration reports dead what only it uses.
WholeMatrix ==
  stage \notin {"flags", "self", "load", "ended"} =>
    /\ kept \union dropped = 1 .. asked.matrix /\ kept # {}
    /\ ~asked.derived => dropped = {}
    /\ \A c \in dropped : loads[c] = "failed"

\* A run cancelled before it starts writing publishes nothing; one that starts writing
\* ends 3 only because a document was not written, never for the memory or the signal.
CommitsWhole ==
  /\ said \in Cause => published = {} /\ code = "3"
  /\ code = "3" /\ published # {} => said = "unwritten"

\* A verdict stands beside every document the invocation asked for, and at any step, a
\* kill included, no document of this run stands without its report.
ReportFirst ==
  /\ code \in {"0", "1"} => published = {Documents[i] : i \in DOMAIN Documents}
  /\ published # {} => "report" \in published

\* What is published is whole, and never without its report.
PublishesWhole == CommitsWhole /\ ReportFirst

\* A cancelled run that ends before it starts writing names its cause whatever stage
\* stopped; a malformed command line and a fault of the product, found by no stage that
\* reads the context, name themselves.
NamesItsCause ==
  [][cancelled /\ code = None /\ code' \in {"2", "3"} /\ stage \notin {"flags", "self"}
       => said' = cause]_vars

\* A cancellation ends the run, however many rounds a baseline write would take.
CancelEnds == cause # None ~> stage = "ended"
=============================================================================
