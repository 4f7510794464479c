--------------------------- MODULE Analyze_proofs ---------------------------
(***************************************************************************)
(* What one invocation promises of its documents, for every matrix, list   *)
(* of formats and interleaving of a cancellation or a kill.                *)
(***************************************************************************)
EXTENDS Analyze, SequenceTheorems, TLAPS

Document == Formats \union {"report", "baseline", "facts"}

Written(n) == {Documents[i] : i \in 1 .. n}

\* The inductive invariant: nothing is published before the run commits to writing, the
\* documents published while it writes are the ones before the next, and what a run that
\* ended says agrees with what it published.
IInv ==
  /\ asked \in Asked
  /\ at \in Nat
  /\ cause \in Cause \union {None}
  /\ (code = None) = (stage # "ended")
  /\ stage \notin {"write", "ended"} => ~writing /\ published = {}
  /\ stage = "write" =>
       /\ writing
       /\ at \in 1 .. Len(Documents) + 1
       /\ published = Written(at - 1)
  /\ stage # "ended" => said = None
  /\ CommitsWhole
  /\ ReportFirst

\* What follows the first of four parts moves no element before it.
LEMMA ConcatHead ==
  ASSUME NEW S, NEW d \in S, NEW s \in Seq(S), NEW t \in Seq(S), NEW u \in Seq(S)
  PROVE  /\ <<d>> \o s \o t \o u \in Seq(S)
         /\ Len(<<d>> \o s \o t \o u) \in Nat \ {0}
         /\ (<<d>> \o s \o t \o u)[1] = d
  <1>1. <<d>> \in Seq(S) /\ Len(<<d>>) = 1 /\ <<d>>[1] = d
    OBVIOUS
  <1> DEFINE p == <<d>> \o s
             q == p \o t
  <1>2. p \in Seq(S) /\ Len(p) \in Nat \ {0} /\ p[1] = d
    BY <1>1, ConcatProperties, LenProperties
  <1> HIDE DEF p
  <1>3. q \in Seq(S) /\ Len(q) \in Nat \ {0} /\ q[1] = d
    BY <1>2, ConcatProperties, LenProperties
  <1> HIDE DEF q
  <1>4. q \o u \in Seq(S) /\ Len(q \o u) \in Nat \ {0} /\ (q \o u)[1] = d
    BY <1>3, ConcatProperties, LenProperties
  <1> QED  BY <1>4 DEF p, q

\* Every invocation publishes its report first.
LEMMA DocumentsType ==
  ASSUME asked \in Asked
  PROVE  /\ Documents \in Seq(Document)
         /\ Len(Documents) \in Nat \ {0}
         /\ Documents[1] = "report"
  <1>1. asked.formats \in Seq(Document)
    <2>1. asked.formats \in Seq(Formats)
      BY AnalyzeAssumption DEF Asked
    <2> QED  BY <2>1 DEF Document
  <1>2. "report" \in Document /\ "baseline" \in Document /\ "facts" \in Document
    BY DEF Document
  <1>3. <<>> \in Seq(Document)
    BY EmptySeq
  <1>4. /\ (IF asked.baseline THEN <<"baseline">> ELSE <<>>) \in Seq(Document)
        /\ (IF asked.facts THEN <<"facts">> ELSE <<>>) \in Seq(Document)
    <2>1. ASSUME NEW d \in Document PROVE <<d>> \in Seq(Document)
      OBVIOUS
    <2>2. <<"baseline">> \in Seq(Document) /\ <<"facts">> \in Seq(Document)
      BY <1>2, <2>1, Zenon
    <2> QED  BY <1>3, <2>2, Zenon
  <1> DEFINE b == IF asked.baseline THEN <<"baseline">> ELSE <<>>
             f == IF asked.facts THEN <<"facts">> ELSE <<>>
  <1>5. Documents = <<"report">> \o asked.formats \o b \o f
    BY DEF Documents
  <1>6. b \in Seq(Document) /\ f \in Seq(Document)
    BY <1>4
  <1> HIDE DEF b, f
  <1>7. \A d \in Document : \A s, t, u \in Seq(Document) :
          /\ <<d>> \o s \o t \o u \in Seq(Document)
          /\ Len(<<d>> \o s \o t \o u) \in Nat \ {0}
          /\ (<<d>> \o s \o t \o u)[1] = d
    BY ConcatHead
  <1> QED  BY <1>1, <1>2, <1>5, <1>6, <1>7, Zenon

\* The run's initial states satisfy the invariant.
LEMMA Initial == Init => IInv
  BY AnalyzeAssumption DEF Init, IInv, CommitsWhole, ReportFirst, None, Cause

\* A step that ends a run or moves it on, before it writes, keeps the invariant.
LEMMA StageStep ==
  ASSUME IInv, stage \notin {"write", "ended"},
         UNCHANGED <<asked, published, writing>>, at' \in Nat, cause' \in Cause \union {None},
         \/ \E s \in {"self", "load", "passes", "prepare", "sweep", "findings", "report",
                      "baseline", "facts", "commit"} : Goto(s)
         \/ \E m \in Cause \union Error \union {"usage", "other"}, c \in {"2", "3"} :
              Ends(m, c) /\ (m \in Cause => c = "3")
  PROVE  IInv'
  <1> USE DEF IInv, CommitsWhole, ReportFirst, None, Cause, Error
  <1>0. ~writing /\ published = {} /\ code = None /\ said = None
    OBVIOUS
  <1>1. CASE \E s \in {"self", "load", "passes", "prepare", "sweep", "findings", "report",
                      "baseline", "facts", "commit"} : Goto(s)
    BY <1>0, <1>1 DEF Goto
  <1>2. CASE \E m \in Cause \union Error \union {"usage", "other"}, c \in {"2", "3"} :
              Ends(m, c) /\ (m \in Cause => c = "3")
    BY <1>0, <1>2 DEF Ends
  <1> QED  BY <1>1, <1>2

\* The run commits: cancelled, it ends with nothing published; else it starts writing.
LEMMA CommitStep == IInv /\ committed => IInv'
  <1> SUFFICES ASSUME IInv, committed PROVE IInv'
    OBVIOUS
  <1>1. CASE cause # None
    BY <1>1 DEF IInv, committed, failed, cancelled, Ends, Quiet, CommitsWhole, ReportFirst, None, Cause
  <1>2. CASE cause = None
    <2>1. Len(Documents) \in Nat \ {0}
      BY DocumentsType DEF IInv
    <2>2. Documents' = Documents
      BY <1>2 DEF committed, Quiet, Documents
    <2>3. Written(0) = {}
      BY DEF Written
    <2> QED
      BY <1>2, <2>1, <2>2, <2>3
      DEF IInv, committed, Goto, Quiet, CommitsWhole, ReportFirst, None, Written
  <1> QED  BY <1>1, <1>2

\* The next document is published, or not written, which ends the run.
LEMMA PublishStep == IInv /\ Publish => IInv'
  <1> SUFFICES ASSUME IInv, Publish PROVE IInv'
    OBVIOUS
  <1>1. /\ Len(Documents) \in Nat \ {0} /\ Documents[1] = "report"
        /\ Documents' = Documents /\ writing /\ at \in 1 .. Len(Documents)
        /\ published = Written(at - 1) /\ code = None /\ said = None /\ asked' = asked
    <2>1. Len(Documents) \in Nat \ {0} /\ Documents[1] = "report"
      BY DocumentsType DEF IInv
    <2>2. asked' = asked /\ stage = "write" /\ at <= Len(Documents)
      BY DEF Publish
    <2>3. Documents' = Documents
      BY <2>2 DEF Documents
    <2>4. /\ writing /\ published = Written(at - 1) /\ code = None /\ said = None
          /\ at \in 1 .. Len(Documents) + 1
      BY <2>2 DEF IInv
    <2>5. at \in 1 .. Len(Documents)
      BY <2>1, <2>2, <2>4
    <2> QED  BY <2>1, <2>2, <2>3, <2>4, <2>5
  <1>2. CASE published' = published \union {Documents[at]} /\ at' = at + 1 /\ Goto("write")
    <2>1. Written(at) = Written(at - 1) \union {Documents[at]}
      BY <1>1 DEF Written
    <2>2. published' = Written(at) /\ "report" \in published'
      BY <1>1, <1>2, <2>1 DEF Written
    <2>3. /\ at' - 1 = at /\ at' \in 1 .. Len(Documents) + 1 /\ stage' = "write"
          /\ code' = None /\ said' = None /\ writing' = writing
      BY <1>1, <1>2 DEF Goto, Publish
    <2>4. published' = Written(at - 1)'
      BY <1>1, <2>2, <2>3 DEF Written
    <2>5. /\ at' \in (1 .. Len(Documents) + 1)' /\ at' \in Nat /\ asked' \in Asked
          /\ cause' \in Cause \union {None}
      BY <1>1, <2>3 DEF IInv, Publish
    <2>6. CommitsWhole' /\ ReportFirst'
      BY <2>2, <2>3 DEF CommitsWhole, ReportFirst, None, Cause
    <2> QED
      BY <1>1, <2>3, <2>4, <2>5, <2>6 DEF IInv, None
  <1>3. CASE failed("unwritten") /\ UNCHANGED <<published, at>>
    <2>1. published # {} => "report" \in published
      BY DEF IInv, ReportFirst
    <2> QED
      BY <1>1, <1>3, <2>1
      DEF IInv, Publish, failed, cancelled, Ends, CommitsWhole, ReportFirst, None, Cause
  <1>4. CASE cancelled
    BY <1>1, <1>4 DEF cancelled
  <1> QED  BY <1>2, <1>3, <1>4 DEF Publish

\* The verdict is given once every document is written.
LEMMA VerdictStep == IInv /\ Verdict => IInv'
  <1> SUFFICES ASSUME IInv, Verdict PROVE IInv'
    OBVIOUS
  <1>1a. /\ Documents \in Seq(Document) /\ Len(Documents) \in Nat \ {0}
         /\ Documents[1] = "report"
    BY DocumentsType DEF IInv
  <1>1b. asked' = asked /\ published' = published
    BY DEF Verdict, Quiet
  <1>1c. Documents' = Documents
    BY <1>1b DEF Documents
  <1>1d. stage = "write" /\ at > Len(Documents) /\ at \in 1 .. Len(Documents) + 1
         /\ published = Written(at - 1)
    BY DEF IInv, Verdict
  <1>1e. at - 1 = Len(Documents)
    BY <1>1a, <1>1d
  <1>1. published = Written(Len(Documents)) /\ DOMAIN Documents = 1 .. Len(Documents)
    BY <1>1a, <1>1d, <1>1e
  <1>2. published' = {Documents'[i] : i \in DOMAIN Documents'} /\ "report" \in published'
    BY <1>1, <1>1a, <1>1b, <1>1c DEF Written
  <1>3. /\ said' = "verdict" /\ code' \in {"0", "1"} /\ stage' = "ended"
        /\ asked' = asked /\ at' = at /\ cause' = cause
    BY DEF Verdict, Ends, Quiet
  <1> QED
    BY <1>2, <1>3 DEF IInv, CommitsWhole, ReportFirst, None, Cause

\* A step that neither ends the run nor touches its documents keeps the invariant.
LEMMA StutterStep ==
  ASSUME IInv, UNCHANGED <<asked, stage, at, writing, published, said, code>>,
         cause' \in Cause \union {None}
  PROVE  IInv'
  <1>1. Documents' = Documents
    BY DEF Documents
  <1>2. Written(at - 1)' = Written(at - 1)
    BY <1>1 DEF Written
  <1> QED  BY <1>1, <1>2 DEF IInv, CommitsWhole, ReportFirst

\* A kill ends the run with no code of its own.
LEMMA KillStep == IInv /\ Kill => IInv'
  <1> SUFFICES ASSUME IInv, Kill PROVE IInv'
    OBVIOUS
  <1>1. Documents' = Documents
    BY DEF Documents, Kill
  <1>2. code = None /\ said = None /\ ("report" \in published \/ published = {})
    BY DEF IInv, Kill, ReportFirst
  <1> QED  BY <1>1, <1>2 DEF IInv, Kill, CommitsWhole, ReportFirst, None, Cause

\* Every step keeps the invariant.
LEMMA Step == IInv /\ [Next]_vars => IInv'
  <1> SUFFICES ASSUME IInv, [Next]_vars PROVE IInv'
    OBVIOUS
  <1> DEFINE GoesOn == \E s \in {"self", "load", "passes", "prepare", "sweep", "findings",
                                 "report", "baseline", "facts", "commit"} : Goto(s)
             Stops == \E m \in Cause \union Error \union {"usage", "other"}, c \in {"2", "3"} :
                        Ends(m, c) /\ (m \in Cause => c = "3")
             Early == stage \notin {"write", "ended"} /\ UNCHANGED <<asked, published, writing, cause>>
                      /\ at' \in Nat /\ (GoesOn \/ Stops)
  <1>e. Early => IInv'
    BY StageStep DEF IInv
  <1>f. ASSUME NEW e \in Errors \union Error, failed(e) PROVE Stops
    <2>1. CASE cancelled
      <3>1. cause \in Cause
        BY <2>1 DEF cancelled, IInv
      <3>2. Ends(cause, "3")
        BY <1>f, <2>1 DEF failed
      <3> QED  BY <3>1, <3>2
    <2>2. CASE ~cancelled
      <3>1. e \in Error
        BY <2>2 DEF Errors
      <3>2. (e = "usage" /\ Ends("usage", "2")) \/ Ends(e, "3")
        BY <1>f, <2>2 DEF failed
      <3>3. "usage" \notin Cause /\ e \notin Cause
        BY <3>1 DEF Cause, Error
      <3> QED  BY <3>1, <3>2, <3>3 DEF Error
    <2> QED  BY <2>1, <2>2
  <1>g. "usage" \in Error /\ "other" \in Error /\ "usage" \notin Cause /\ "other" \notin Cause
    BY DEF Error, Cause
  <1>1. CASE Flags
    <2>1. GoesOn \/ Stops
      <3>1. CASE Goto("self")
        BY <3>1
      <3>2. CASE Ends("usage", "2")
        BY <3>2, <1>g
      <3>3. CASE \E e \in Errors \ {"usage"} : failed(e)
        BY <3>3, <1>f
      <3> QED  BY <1>1, <3>1, <3>2, <3>3 DEF Flags
    <2> QED  BY <1>1, <2>1, <1>e DEF Flags, Quiet, IInv
  <1>2. CASE Self
    <2>1. GoesOn \/ Stops
      BY <1>2, <1>g DEF Self
    <2> QED  BY <1>2, <2>1, <1>e DEF Self, Quiet, IInv
  <1>3. CASE LoadNext
    <2>1. GoesOn \/ Stops
      BY <1>3, <1>f DEF LoadNext
    <2> QED  BY <1>3, <2>1, <1>e DEF LoadNext, IInv
  <1>4. CASE Loaded
    <2>1. GoesOn \/ Stops
      <3>1. CASE Refused
        BY <3>1, <1>f, <1>g DEF Refused
      <3>2. CASE (\E e \in Error : failed(e)) \/ Goto("passes")
        BY <3>2, <1>f
      <3> QED  BY <1>4, <3>1, <3>2 DEF Loaded
    <2> QED  BY <1>4, <2>1, <1>e DEF Loaded, Quiet, IInv
  <1>5. CASE Stage
    <2>1. stage \in {"passes", "prepare", "sweep", "report"} /\ (Goto(After(stage)) \/ Stops)
      BY <1>5, <1>f DEF Stage
    <2>2. After(stage) \in {"prepare", "sweep", "findings", "baseline"}
      <3>1. /\ After("passes") = "prepare" /\ After("prepare") = "sweep"
            /\ After("sweep") = "findings" /\ After("report") = "baseline"
        BY DEF After, Stages
      <3> QED  BY <2>1, <3>1
    <2>3. GoesOn \/ Stops
      BY <2>1, <2>2
    <2> QED  BY <1>5, <2>1, <2>3, <1>e DEF Stage, Quiet, IInv
  <1>6. CASE Findings
    <2>1. GoesOn \/ Stops
      BY <1>6, <1>f DEF Findings
    <2> QED  BY <1>6, <2>1, <1>e DEF Findings, Quiet, IInv
  <1>7. CASE Baseline
    <2>1. GoesOn \/ Stops
      BY <1>7, <1>f DEF Baseline
    <2> QED  BY <1>7, <2>1, <1>e DEF Baseline, Quiet, IInv
  <1>8. CASE Facts
    <2>1. GoesOn \/ Stops
      BY <1>8, <1>f DEF Facts
    <2> QED  BY <1>8, <2>1, <1>e DEF Facts, Quiet, IInv
  <1>9. CASE Cancel
    BY <1>9, StutterStep DEF Cancel
  <1>10. CASE UNCHANGED vars
    BY <1>10, StutterStep DEF vars, IInv
  <1> QED
    BY <1>1, <1>2, <1>3, <1>4, <1>5, <1>6, <1>7, <1>8, <1>9, <1>10,
       CommitStep, PublishStep, VerdictStep, KillStep
    DEF Next, analyze

\* For every matrix, format list and baseline: a run that a signal or the memory governor
\* cancels before it writes leaves no document, one that writes never exits 3 but for a
\* document it could not write, and a verdict stands beside every document asked for.
THEOREM Documented == Spec => []PublishesWhole
  <1>1. Spec => []IInv
    BY Initial, Step, PTL DEF Spec
  <1>2. IInv => PublishesWhole
    BY DEF IInv, PublishesWhole
  <1> QED  BY <1>1, <1>2, PTL
-----------------------------------------------------------------------------
\* The configurations the matrix has loaded so far are those built and those dropped, and a
\* dropped one is a derived one whose own load failed.
Accounted(n) ==
  /\ kept \union dropped = 1 .. n
  /\ ~asked.derived => dropped = {}
  /\ \A c \in dropped : loads[c] = "failed"

\* What the stages of the load leave to those after them.
LoadInv ==
  /\ asked \in Asked
  /\ stage \in {"flags", "self"} => at = 1 /\ loads = <<>> /\ kept = {} /\ dropped = {}
  /\ stage = "load" =>
       /\ at \in 1 .. asked.matrix + 1
       /\ loads \in Seq({"built", "failed", "cancelled"}) /\ Len(loads) = at - 1
       /\ Accounted(at - 1)
  /\ WholeMatrix

\* A matrix holds some number of configurations.
LEMMA MatrixType == asked \in Asked => asked.matrix \in Nat
<1>1. asked \in Asked => asked.matrix \in Matrices
  BY DEF Asked
<1> QED
  BY <1>1, AnalyzeAssumption

\* A step of a stage after the load, or one that ends the run, drops no configuration.
LEMMA KeepsMatrix ==
  ASSUME LoadInv, UNCHANGED <<asked, loads, kept, dropped>>,
         \/ stage' = "ended"
         \/ stage' = stage /\ at' = at
         \/ stage' # "load" /\ stage' \notin {"flags", "self"}
              /\ stage \notin {"flags", "self", "load", "ended"}
  PROVE  LoadInv'
BY DEF LoadInv, Accounted, WholeMatrix

\* The next configuration is built, or dropped as a derived one that failed by itself, or
\* ends the run.
LEMMA LoadStep == LoadInv /\ LoadNext => LoadInv'
<1> SUFFICES ASSUME LoadInv, LoadNext PROVE LoadInv'
  OBVIOUS
<1>1. PICK outcome \in {"built", "failed"} \union (IF cancelled THEN {"cancelled"} ELSE {}) :
        /\ loads' = Append(loads, outcome)
        /\ \/ /\ outcome = "built"
              /\ kept' = kept \union {at} /\ dropped' = dropped /\ Goto("load")
           \/ /\ outcome # "built" /\ ~cancelled /\ asked.derived
              /\ dropped' = dropped \union {at} /\ kept' = kept /\ Goto("load")
           \/ \E e \in Error : failed(e)
  BY DEF LoadNext
<1>2. /\ stage = "load" /\ at \in 1 .. asked.matrix /\ asked' = asked /\ at' = at + 1
      /\ asked.matrix \in Nat /\ loads \in Seq({"built", "failed", "cancelled"})
      /\ Len(loads) = at - 1 /\ Accounted(at - 1) /\ asked \in Asked
  <2>1. stage = "load" /\ at <= asked.matrix /\ asked' = asked /\ at' = at + 1
    BY DEF LoadNext
  <2>2. /\ asked.matrix \in Nat /\ asked \in Asked /\ at \in 1 .. asked.matrix + 1
        /\ loads \in Seq({"built", "failed", "cancelled"})
        /\ Len(loads) = at - 1 /\ Accounted(at - 1)
    BY <2>1, MatrixType DEF LoadInv
  <2> QED
    BY <2>1, <2>2
<1>3. /\ loads' \in Seq({"built", "failed", "cancelled"}) /\ Len(loads') = at
      /\ \A c \in 1 .. at - 1 : loads'[c] = loads[c]
      /\ loads'[at] = outcome
  BY <1>1, <1>2
<1>4. at' - 1 = at /\ at' \in 1 .. asked.matrix + 1 /\ 1 .. at = (1 .. at - 1) \union {at}
  BY <1>2
<1>5. CASE stage' = "ended"
  BY <1>2, <1>5 DEF LoadInv, WholeMatrix
<1>6. CASE /\ outcome = "built"
           /\ kept' = kept \union {at} /\ dropped' = dropped /\ Goto("load")
  <2>1. Accounted(at - 1)'
    BY <1>2, <1>3, <1>4, <1>6 DEF Accounted
  <2> QED
    BY <1>2, <1>3, <1>4, <1>6, <2>1 DEF LoadInv, WholeMatrix, Goto
<1>7. CASE /\ outcome # "built" /\ ~cancelled /\ asked.derived
           /\ dropped' = dropped \union {at} /\ kept' = kept /\ Goto("load")
  <2>1. outcome = "failed"
    BY <1>7
  <2>2. Accounted(at - 1)'
    BY <1>2, <1>3, <1>4, <1>7, <2>1 DEF Accounted
  <2> QED
    BY <1>2, <1>3, <1>4, <1>7, <2>2 DEF LoadInv, WholeMatrix, Goto
<1> QED
  BY <1>1, <1>5, <1>6, <1>7 DEF failed, Ends

\* Every step keeps what the load leaves.
LEMMA LoadInvStep == LoadInv /\ [Next]_vars => LoadInv'
<1> SUFFICES ASSUME LoadInv, [Next]_vars PROVE LoadInv'
  OBVIOUS
<1>f. \A e : failed(e) => stage' = "ended"
  BY DEF failed, Ends
<1>1. CASE Flags \/ Self
  <2>1. UNCHANGED <<asked, loads, kept, dropped, at>> /\ stage \in {"flags", "self"}
        /\ stage' \in {"self", "load", "ended"}
    BY <1>1, <1>f DEF Flags, Self, Goto, Ends, Quiet
  <2>2. /\ asked.matrix \in Nat /\ <<>> \in Seq({"built", "failed", "cancelled"})
        /\ Len(<<>>) = 0
    BY MatrixType DEF LoadInv
  <2>3. at = 1 /\ loads = <<>> /\ kept = {} /\ dropped = {} /\ asked \in Asked
    BY <2>1 DEF LoadInv
  <2>4. (at \in 1 .. asked.matrix + 1)' /\ (Len(loads) = at - 1)' /\ Accounted(at - 1)'
    BY <2>1, <2>2, <2>3 DEF Accounted
  <2> QED
    BY <2>1, <2>2, <2>3, <2>4 DEF LoadInv, WholeMatrix
<1>2. CASE LoadNext
  BY <1>2, LoadStep
<1>3. CASE Loaded
  <2>1. CASE stage' = "ended"
    BY <1>3, <2>1, KeepsMatrix DEF Loaded, Quiet
  <2>2. CASE at > asked.matrix /\ kept # {} /\ stage' = "passes"
    <3>1. at - 1 = asked.matrix /\ Accounted(at - 1)
      <4>1. at \in 1 .. asked.matrix + 1 /\ asked.matrix \in Nat /\ Accounted(at - 1)
        BY <1>3, <2>2, MatrixType DEF LoadInv, Loaded
      <4> QED
        BY <2>2, <4>1
    <3> QED
      BY <1>3, <2>2, <3>1 DEF LoadInv, WholeMatrix, Accounted, Loaded, Quiet
  <2> QED
    BY <1>3, <1>f, <2>1, <2>2 DEF Loaded, Refused, Goto
<1>4. CASE Stage
  <2>1. /\ After("passes") = "prepare" /\ After("prepare") = "sweep"
        /\ After("sweep") = "findings" /\ After("report") = "baseline"
    BY DEF After, Stages
  <2> QED
    BY <1>4, <1>f, <2>1, KeepsMatrix DEF Stage, Goto, Quiet
<1>5. CASE Findings \/ Baseline \/ Facts
  BY <1>5, <1>f, KeepsMatrix DEF Findings, Baseline, Facts, Goto, Quiet
<1>6. CASE committed \/ Publish \/ Verdict
  BY <1>6, <1>f, KeepsMatrix DEF committed, Publish, Verdict, Goto, Ends, Quiet
<1>7. CASE Cancel \/ Kill \/ UNCHANGED vars
  BY <1>7, KeepsMatrix DEF Cancel, Kill, vars
<1> QED
  BY <1>1, <1>2, <1>3, <1>4, <1>5, <1>6, <1>7 DEF Next, analyze

\* However many configurations the matrix holds and wherever a cancellation falls among
\* their loads, the stages after the load answer for all of them, and none was dropped
\* because its load was cut short.
THEOREM CoversMatrix == Spec => []WholeMatrix
<1>1. Init => LoadInv
  BY DEF Init, LoadInv, WholeMatrix
<1>2. LoadInv => WholeMatrix
  BY DEF LoadInv
<1> QED
  BY <1>1, <1>2, LoadInvStep, PTL DEF Spec

\* Whatever error the stage a cancellation falls in returns, the run that ends on it names
\* the cancellation's cause.
THEOREM CauseNamed == Spec => NamesItsCause
<1>1. ASSUME [Next]_vars, cancelled, code = None, code' \in {"2", "3"},
             stage \notin {"flags", "self"}
      PROVE  said' = cause
  <2>1. \A e : failed(e) => said' = cause
    BY <1>1 DEF failed, Ends
  <2>2. \A s : Goto(s) => code' = None
    BY <1>1 DEF Goto
  <2>3. "none" \notin {"2", "3"} /\ code' # None
    BY <1>1 DEF None
  <2>4. CASE LoadNext \/ Loaded
    BY <2>1, <2>2, <2>3, <2>4 DEF LoadNext, Loaded, Refused
  <2>5. CASE Stage \/ Findings \/ Baseline \/ Facts
    BY <2>1, <2>2, <2>3, <2>5 DEF Stage, Findings, Baseline, Facts
  <2>6. CASE committed \/ Publish
    BY <2>1, <2>2, <2>3, <2>6 DEF committed, Publish
  <2>7. CASE Verdict
    BY <1>1, <2>7 DEF Verdict, Ends
  <2>8. CASE Cancel \/ Kill \/ UNCHANGED vars
    BY <1>1, <2>3, <2>8 DEF Cancel, Kill, vars
  <2> QED
    BY <1>1, <2>4, <2>5, <2>6, <2>7, <2>8 DEF Next, analyze, Flags, Self
<1> QED
  BY <1>1, PTL DEF Spec, NamesItsCause
=============================================================================
