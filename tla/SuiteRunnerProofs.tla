-------------------------- MODULE SuiteRunnerProofs --------------------------
(***************************************************************************)
(* Proofs about SuiteRunner, for a suite of any number of tests, any       *)
(* fixtures, benchmarks of any length and a queue of any capacity: what    *)
(* run() returns is what happened.                                         *)
(*                                                                         *)
(* The argument: the runner waits for its call and a test for its fixture, *)
(* so where one of them is tells where the others are (OuterFits,          *)
(* InnerFits).  A call is on its way until it has reported, then its       *)
(* report is in the queue until the tracker has counted it; so the tests   *)
(* that were passed over by the runner are those counted and those in the  *)
(* queue (Accounted), and a method that went wrong is seen in its call, in *)
(* the queue or in the result (TroubleIsKept).  The deferred TearDownTest  *)
(* is due exactly when the test is set up or its SetUpTest panicked        *)
(* (SetUpFits).                                                            *)
(***************************************************************************)
EXTENDS SuiteRunner, FiniteSetTheorems, TLAPS

One(p) == IF p THEN 1 ELSE 0

SuiteFixtures == {"SetUpSuite", "TearDownSuite"}
FixtureStatus == {"succeeded", "failed", "skipped", "panicked"}
Waits == {"setupWait", "betweenWait", "teardownWait"}

\* CallRecord but for the n of a benchmark, which is computed with powers of 10.
IsCall(c) ==
    c \in [name : Fixtures \cup {"Test", "Report", "none"}, kind : {"fixture", "test"},
           pc : {"none", "setup", "setupWait", "body", "betweenRuns", "betweenWait",
                 "teardown", "teardownWait", "done", "signalled"},
           status : CallStatus, mustFail : BOOLEAN, skipped : BOOLEAN, n : {c.n},
           panic : {"no", "value", "fixture", "skip"}]

Report == [kind : {"fixture", "test"}, status : CallStatus, mustFail : BOOLEAN]

Typed ==
    /\ suite \in Suites
    /\ runner \in [pc : {"start", "args", "setup", "tests", "skip", "skipAll", "teardown",
                         "stop", "returned"}, i : 1..Tests + 1, status : CallStatus]
    /\ IsCall(outer) /\ IsCall(inner)
    /\ tracker \in [running : BOOLEAN, waiting : Nat]
    /\ doneChan \in Seq(Report)
    /\ result \in [Counters -> Nat]
    /\ fixtureFailed \in Nat
    /\ isSetUp \in BOOLEAN /\ trouble \in BOOLEAN /\ tearDownSkips \in BOOLEAN

-----------------------------------------------------------------------------
(* Where the goroutines are. *)

Progress ==
    /\ runner.pc \in {"start", "args", "setup"} => runner.i = 1
    /\ runner.pc \in {"teardown", "stop", "returned"} => runner.i = Tests + 1
    /\ outer.name \in {"Test", "Report"} /\ outer.kind = "test" => runner.i <= Tests
    /\ tracker.running <=> runner.pc \notin {"start", "returned"}
    /\ ~tracker.running => tracker.waiting = 0

OuterFits ==
    \/ outer = NoCall
    \/ /\ outer.name = "Test" /\ outer.kind = "test"
       /\ outer.pc # "none" /\ runner.pc = "tests"
    \/ /\ outer.name \in SuiteFixtures \cap suite.fixtures /\ outer.kind = "fixture"
       /\ outer.pc \in {"body", "done", "signalled"}
       /\ runner.pc = IF outer.name = "SetUpSuite" THEN "setup" ELSE "teardown"
    \/ /\ outer.name = "Report"
       /\ outer.pc \in {"done", "signalled"} /\ outer.panic = "no" /\ ~outer.mustFail
       /\ IF outer.kind = "fixture"
          THEN outer.status = "panicked" /\ runner.pc = "args"
          ELSE runner.pc \in {"skip", "skipAll"}

InnerFits ==
    \/ inner = NoCall /\ outer.pc \notin Waits
    \/ /\ inner.kind = "fixture" /\ inner.pc \in {"body", "done", "signalled"}
       /\ \/ outer.pc = "setupWait" /\ inner.name = "SetUpTest"
          \/ outer.pc \in {"betweenWait", "teardownWait"} /\ inner.name = "TearDownTest"

\* A fixture neither expects a failure nor calls another fixture.
FixtureFits(c) ==
    c.kind = "fixture" =>
        ~c.mustFail /\ c.panic \in {"no", "value"} /\ c.status \in FixtureStatus

ReportFits(e) == e.kind = "fixture" => ~e.mustFail /\ e.status \in FixtureStatus

CallsFit ==
    /\ OuterFits /\ InnerFits
    /\ FixtureFits(outer) /\ FixtureFits(inner)
    /\ \A i \in 1..Len(doneChan) : ReportFits(doneChan[i])

-----------------------------------------------------------------------------
(* What is on its way to the result. *)

OnItsWay(c) == c.pc \notin {"none", "signalled"}

Expected == tracker.waiting = Len(doneChan) + One(OnItsWay(outer)) + One(OnItsWay(inner))

\* What Counted counts: a test, or a fixture that failed.
Counts(e) == e.kind = "test" \/ e.status = "failed"
Places(s) == {i \in 1..Len(s) : Counts(s[i])}

\* A fixture that called Fail and has not reported.
FailedNow(c) == c.kind = "fixture" /\ c.pc = "done" /\ c.status = "failed" /\ c.panic = "no"

\* A test that has reported and that the runner has not gone past.
PassedNow == outer.kind = "test" /\ outer.pc = "signalled"

Accounted ==
    Counted + Cardinality(Places(doneChan)) + One(FailedNow(outer)) + One(FailedNow(inner))
    = runner.i - 1 + One(PassedNow) + fixtureFailed

-----------------------------------------------------------------------------
(* What went wrong. *)

BadCounters == {"Failed", "Panicked", "FixturePanicked", "Missed"}
BadReport(e) == CountedAs(e) \cap BadCounters # {}

\* A call that will report that it went wrong, unless its TearDownTest skips.
WillReport(c) ==
    /\ c.pc \in {"teardown", "teardownWait", "done"}
    /\ BadReport([kind |-> c.kind, status |-> FinalStatus(c), mustFail |-> c.mustFail])

TroubleIsKept ==
    trouble /\ ~tearDownSkips =>
        \/ ~SuitePassed
        \/ \E i \in 1..Len(doneChan) : BadReport(doneChan[i])
        \/ WillReport(outer) \/ WillReport(inner)
        \/ runner.pc = "args" /\ outer = NoCall

\* A skip of a TearDownTest is remembered.
SkipIsKept ==
    inner.name = "TearDownTest" /\ inner.pc # "body" /\ inner.panic = "no"
        /\ inner.status = "skipped" => tearDownSkips

-----------------------------------------------------------------------------
(* What is set up. *)

\* The status with which SetUpTest and TearDownTest will report, or have.
SetUpFits ==
    /\ outer.name # "Test" => ~isSetUp
    /\ outer.pc \in {"setup", "done", "signalled"} => ~isSetUp
    /\ outer.name = "Test" /\ outer.pc \in {"body", "betweenRuns"} => isSetUp
    /\ outer.pc \in {"setup", "setupWait", "body"} => outer.panic = "no" /\ ~outer.skipped
    /\ outer.pc \in {"betweenRuns", "betweenWait"} => outer.panic = "no"
    /\ outer.pc = "setupWait" =>
          (isSetUp <=> inner.pc # "body" /\ ~(inner.panic = "no" /\ inner.status = "skipped"))
    /\ outer.pc = "betweenWait" => (isSetUp <=> inner.pc = "body")
    /\ outer.pc = "teardown" =>
          IF outer.skipped THEN ~isSetUp ELSE isSetUp \/ outer.panic = "fixture"
    /\ outer.pc = "teardownWait" =>
          IF inner.pc = "body" THEN isSetUp \/ outer.panic = "fixture" ELSE ~isSetUp

\* What a fixture leaves until its caller looks.
PanicIsSeen ==
    /\ inner.pc = "body" => inner.panic = "no"
    /\ inner.pc = "signalled" => (inner.panic = "value" <=> inner.status = "panicked")
    /\ inner.pc = "done" => inner.status # "panicked"

IInv ==
    /\ Typed /\ Progress /\ CallsFit
    /\ Expected /\ Accounted
    /\ TroubleIsKept /\ SkipIsKept
    /\ SetUpFits /\ PanicIsSeen

-----------------------------------------------------------------------------
(* What the operators return. *)

LEMMA CallFields ==
    ASSUME NEW c, IsCall(c)
    PROVE  /\ c.name \in Fixtures \cup {"Test", "Report", "none"}
           /\ c.kind \in {"fixture", "test"}
           /\ c.pc \in {"none", "setup", "setupWait", "body", "betweenRuns", "betweenWait",
                        "teardown", "teardownWait", "done", "signalled"}
           /\ c.status \in CallStatus /\ c.mustFail \in BOOLEAN /\ c.skipped \in BOOLEAN
           /\ c.panic \in {"no", "value", "fixture", "skip"}
  BY DEF IsCall

LEMMA NewCallFields ==
    ASSUME NEW name \in Fixtures \cup {"Test", "Report", "none"},
           NEW kind \in {"fixture", "test"},
           NEW pc \in {"none", "setup", "body", "done"}, NEW status \in CallStatus
    PROVE  LET c == NewCall(name, kind, pc, status)
           IN /\ IsCall(c)
              /\ c.name = name /\ c.kind = kind /\ c.pc = pc /\ c.status = status
              /\ ~c.mustFail /\ ~c.skipped /\ c.panic = "no"
  BY DEF NewCall, IsCall

\* The calls that the runner forks.
LEMMA ForkedFields ==
    ASSUME NEW name \in {"Test", "Report"}, NEW kind \in {"fixture", "test"},
           NEW pc \in {"setup", "done"}, NEW status \in CallStatus
    PROVE  LET c == NewCall(name, kind, pc, status)
           IN /\ c.name = name /\ c.kind = kind /\ c.pc = pc /\ c.status = status
              /\ ~c.mustFail /\ c.panic = "no"
  BY DEF NewCall

LEMMA NoCallFields ==
    /\ IsCall(NoCall)
    /\ NoCall.name = "none" /\ NoCall.kind = "test" /\ NoCall.pc = "none"
    /\ NoCall.panic = "no" /\ NoCall.status = "succeeded"
  BY DEF NoCall, NewCall, IsCall, CallStatus

LEMMA NewCallIsNew ==
    ASSUME NEW name, NEW kind, NEW pc, NEW status, pc # "none"
    PROVE  NewCall(name, kind, pc, status) # NoCall
  BY DEF NoCall, NewCall

LEMMA FinalStatusType ==
    ASSUME NEW c, IsCall(c)
    PROVE  FinalStatus(c) \in CallStatus
<1>1. Recovered(c) \in CallStatus
  BY CallFields DEF Recovered, CallStatus
<1> QED
  BY <1>1, CallFields DEF FinalStatus, CallStatus

LEMMA FixtureFinal ==
    ASSUME NEW c, IsCall(c), FixtureFits(c), c.kind = "fixture"
    PROVE  /\ FinalStatus(c) = IF c.panic = "value" THEN "panicked" ELSE c.status
           /\ FinalStatus(c) \in FixtureStatus
  BY CallFields DEF FinalStatus, Recovered, FixtureFits, FixtureStatus

LEMMA BadFixture ==
    ASSUME NEW e \in Report, e.kind = "fixture", ReportFits(e)
    PROVE  BadReport(e) <=> e.status \in {"failed", "panicked"}
<1>1. CASE e.status = "succeeded"
  BY <1>1 DEF BadReport, CountedAs, BadCounters
<1>2. CASE e.status = "failed"
  BY <1>2 DEF BadReport, CountedAs, BadCounters
<1>3. CASE e.status = "skipped"
  BY <1>3 DEF BadReport, CountedAs, BadCounters
<1>4. CASE e.status = "panicked"
  BY <1>4 DEF BadReport, CountedAs, BadCounters
<1> QED
  BY <1>1, <1>2, <1>3, <1>4 DEF ReportFits, FixtureStatus

LEMMA BadTest ==
    ASSUME NEW e \in Report, e.kind = "test",
           e.status \in {"failed", "panicked", "fixturePanicked", "missed"}
    PROVE  BadReport(e)
<1>1. CASE e.status = "failed"
  BY <1>1 DEF BadReport, CountedAs, BadCounters
<1>2. CASE e.status = "panicked"
  BY <1>2 DEF BadReport, CountedAs, BadCounters
<1>3. CASE e.status \in {"fixturePanicked", "missed"}
  BY <1>3 DEF BadReport, CountedAs, BadCounters
<1> QED
  BY <1>1, <1>2, <1>3

\* The counters that a report adds to: one of Counted if it Counts, else none of it.
LEMMA CountedAsOne ==
    ASSUME NEW e \in Report, ReportFits(e)
    PROVE  \/ Counts(e) /\ \E k \in Counters \ {"FixturePanicked"} : CountedAs(e) = {k}
           \/ ~Counts(e) /\ CountedAs(e) \subseteq {"FixturePanicked"}
<1> USE DEF Report, Counts, Counters, ReportFits, FixtureStatus
<1>1. CASE e.status = "succeeded"
  BY <1>1 DEF CountedAs
<1>2. CASE e.status = "failed"
  BY <1>2 DEF CountedAs
<1>3. CASE e.status = "panicked"
  BY <1>3 DEF CountedAs
<1>4. CASE e.status = "skipped"
  BY <1>4 DEF CountedAs
<1>5. CASE e.status \in {"fixturePanicked", "missed"}
  BY <1>5 DEF CountedAs
<1> QED
  BY <1>1, <1>2, <1>3, <1>4, <1>5 DEF CallStatus

-----------------------------------------------------------------------------
(* The queue. *)

LEMMA PlacesFinite ==
    ASSUME NEW s \in Seq(Report)
    PROVE  IsFiniteSet(Places(s)) /\ Cardinality(Places(s)) \in Nat
<1>1. Places(s) \subseteq 1..Len(s) /\ IsFiniteSet(1..Len(s))
  BY FS_Interval DEF Places
<1>2. IsFiniteSet(Places(s))
  BY <1>1, FS_Subset
<1> QED
  BY <1>2, FS_CardinalityType

LEMMA EmptyPlaces ==
    Places(<<>>) = {} /\ Cardinality(Places(<<>>)) = 0
  BY FS_EmptySet DEF Places

LEMMA AppendPlaces ==
    ASSUME NEW s \in Seq(Report), NEW e \in Report
    PROVE  Cardinality(Places(Append(s, e))) = Cardinality(Places(s)) + One(Counts(e))
<1> DEFINE n == Len(s) + 1
           t == Append(s, e)
<1>1. /\ Len(t) = n /\ t[n] = e /\ n \in Nat
      /\ \A i \in 1..Len(s) : t[i] = s[i]
  OBVIOUS
<1>2. n \notin Places(s)
  BY DEF Places
<1>3. CASE Counts(e)
  <2>1. Places(t) = Places(s) \cup {n}
    BY <1>1, <1>3 DEF Places
  <2>2. Cardinality(Places(s) \cup {n}) = Cardinality(Places(s)) + 1
    BY <1>2, PlacesFinite, FS_AddElement
  <2> QED
    BY <1>3, <2>1, <2>2 DEF One
<1>4. CASE ~Counts(e)
  <2>1. Places(t) = Places(s)
    BY <1>1, <1>4 DEF Places
  <2> QED
    BY <1>4, <2>1, PlacesFinite DEF One
<1> QED
  BY <1>3, <1>4

LEMMA TailPlaces ==
    ASSUME NEW s \in Seq(Report), s # <<>>
    PROVE  Cardinality(Places(s)) = Cardinality(Places(Tail(s))) + One(Counts(Head(s)))
<1> DEFINE t == Tail(s)
           f == [i \in Places(t) |-> i + 1]
<1>1. /\ t \in Seq(Report) /\ Len(t) = Len(s) - 1 /\ Len(s) \in Nat \ {0}
      /\ \A i \in 1..Len(t) : t[i] = s[i + 1]
      /\ Head(s) = s[1]
  OBVIOUS
<1>2. Places(t) \subseteq 1..Len(t) /\ Places(s) \subseteq 1..Len(s)
  BY DEF Places
<1>3. Places(s) \ {1} = {i + 1 : i \in Places(t)}
  <2>1. ASSUME NEW j \in Places(s) \ {1} PROVE j - 1 \in Places(t) /\ j = (j - 1) + 1
    BY <1>1, <1>2 DEF Places
  <2>2. ASSUME NEW i \in Places(t) PROVE i + 1 \in Places(s) \ {1}
    BY <1>1, <1>2 DEF Places
  <2> QED
    BY <2>1, <2>2
<1>4. f \in Bijection(Places(t), Places(s) \ {1})
  <2>1. f \in [Places(t) -> Places(s) \ {1}]
    BY <1>3
  <2>2. \A i, j \in Places(t) : f[i] = f[j] => i = j
    BY <1>1, <1>2
  <2>3. \A j \in Places(s) \ {1} : \E i \in Places(t) : f[i] = j
    BY <1>3
  <2> QED
    BY <2>1, <2>2, <2>3 DEF Bijection, Injection, Surjection, IsInjective
<1>5. /\ IsFiniteSet(Places(t)) /\ Cardinality(Places(t)) \in Nat
      /\ Cardinality(Places(s) \ {1}) = Cardinality(Places(t))
  <2>1. IsFiniteSet(Places(t)) /\ Cardinality(Places(t)) \in Nat
    BY <1>1, PlacesFinite
  <2>2. ExistsBijection(Places(t), Places(s) \ {1})
    BY <1>4 DEF ExistsBijection
  <2> QED
    BY <2>1, <2>2, FS_Bijection
<1>6. IsFiniteSet(Places(s)) /\ Cardinality(Places(s)) \in Nat
  BY PlacesFinite
<1>7. 1 \in Places(s) <=> Counts(Head(s))
  BY <1>1 DEF Places
<1>8. CASE Counts(Head(s))
  <2>1. Cardinality(Places(s) \ {1}) = Cardinality(Places(s)) - 1
    BY <1>6, <1>7, <1>8, FS_RemoveElement
  <2> QED
    BY <1>5, <1>6, <1>8, <2>1 DEF One
<1>9. CASE ~Counts(Head(s))
  <2>1. Cardinality(Places(s) \ {1}) = Cardinality(Places(s))
    BY <1>6, <1>7, <1>9, FS_RemoveElement
  <2> QED
    BY <1>5, <1>9, <2>1 DEF One
<1> QED
  BY <1>8, <1>9

-----------------------------------------------------------------------------
(* The tracker. *)

LEMMA ResultGrows ==
    ASSUME result \in [Counters -> Nat], NEW e \in Report, ReportFits(e),
           result' = [k \in Counters |->
                        IF k \in CountedAs(e) THEN result[k] + 1 ELSE result[k]]
    PROVE  /\ result' \in [Counters -> Nat]
           /\ Counted' = Counted + One(Counts(e)) /\ Counted \in Nat
           /\ SuitePassed' => SuitePassed /\ ~BadReport(e)
<1>1. \A k \in Counters : result[k] \in Nat
  OBVIOUS
<1>2. result' \in [Counters -> Nat]
  BY <1>1
<1>3. \A k \in Counters :
          result'[k] = IF k \in CountedAs(e) THEN result[k] + 1 ELSE result[k]
  OBVIOUS
<1>4. Counted' = Counted + One(Counts(e)) /\ Counted \in Nat
  <2>1. CASE Counts(e) /\ \E k \in Counters \ {"FixturePanicked"} : CountedAs(e) = {k}
    <3>1. PICK k \in Counters \ {"FixturePanicked"} : CountedAs(e) = {k}
      BY <2>1
    <3>2. \A l \in Counters : result'[l] = IF l = k THEN result[l] + 1 ELSE result[l]
      BY <1>3, <3>1
    <3> QED
      BY <1>1, <2>1, <3>2 DEF Counters, Counted, One
  <2>2. CASE ~Counts(e) /\ CountedAs(e) \subseteq {"FixturePanicked"}
    <3>1. \A l \in Counters \ {"FixturePanicked"} : result'[l] = result[l]
      BY <1>3, <2>2
    <3> QED
      BY <1>1, <2>2, <3>1 DEF Counters, Counted, One
  <2> QED
    BY <2>1, <2>2, CountedAsOne
<1>5. SuitePassed' => SuitePassed /\ ~BadReport(e)
  BY <1>1, <1>3 DEF SuitePassed, BadReport, BadCounters, Counters
<1> QED
  BY <1>2, <1>4, <1>5

LEMMA TrackerFields ==
    ASSUME tracker \in [running : BOOLEAN, waiting : Nat], NEW n \in Nat,
           tracker' = [tracker EXCEPT !.waiting = n]
    PROVE  /\ tracker' \in [running : BOOLEAN, waiting : Nat]
           /\ tracker'.running = tracker.running /\ tracker'.waiting = n
  OBVIOUS

LEMMA SuiteInitFits == SuiteInit => IInv
<1> SUFFICES ASSUME SuiteInit PROVE IInv
  OBVIOUS
<1>1. /\ outer = NoCall /\ inner = NoCall /\ doneChan = <<>>
      /\ runner = [pc |-> "start", i |-> 1, status |-> "missed"]
      /\ tracker = [running |-> FALSE, waiting |-> 0]
      /\ result = [k \in Counters |-> 0]
      /\ fixtureFailed = 0 /\ ~trouble /\ ~isSetUp /\ ~tearDownSkips
  BY DEF SuiteInit
<1>2. Typed
  <2>1. suite \in Suites
    BY DEF SuiteInit
  <2>2. isSetUp \in BOOLEAN /\ trouble \in BOOLEAN /\ tearDownSkips \in BOOLEAN
    BY DEF SuiteInit
  <2>3. /\ runner \in [pc : {"start", "args", "setup", "tests", "skip", "skipAll", "teardown",
                            "stop", "returned"}, i : 1..Tests + 1, status : CallStatus]
        /\ tracker \in [running : BOOLEAN, waiting : Nat]
    BY <1>1, SuiteAssumption DEF CallStatus
  <2>4. IsCall(outer) /\ IsCall(inner)
    BY <1>1, NoCallFields
  <2>5. doneChan \in Seq(Report) /\ result \in [Counters -> Nat] /\ fixtureFailed \in Nat
    BY <1>1
  <2> QED
    BY <2>1, <2>2, <2>3, <2>4, <2>5 DEF Typed
<1>3. Progress
  BY <1>1, NoCallFields DEF Progress
<1>4. CallsFit
  BY <1>1, NoCallFields DEF CallsFit, OuterFits, InnerFits, FixtureFits, Waits
<1>5. Expected
  BY <1>1, NoCallFields DEF Expected, OnItsWay, One
<1>6. Accounted
  <2>1. Counted = 0
    BY <1>1 DEF Counted, Counters
  <2> QED
    BY <1>1, <2>1, NoCallFields, EmptyPlaces DEF Accounted, FailedNow, PassedNow, One
<1>7. TroubleIsKept /\ SkipIsKept /\ SetUpFits /\ PanicIsSeen
  BY <1>1, NoCallFields DEF TroubleIsKept, SkipIsKept, SetUpFits, PanicIsSeen
<1> QED
  BY <1>2, <1>3, <1>4, <1>5, <1>6, <1>7 DEF IInv

LEMMA TrackerCountsFits ==
    ASSUME IInv, TrackerCounts
    PROVE  IInv'
<1> DEFINE h == Head(doneChan)
<1>1. /\ doneChan # <<>> /\ doneChan' = Tail(doneChan)
      /\ tracker' = [tracker EXCEPT !.waiting = @ - 1]
      /\ tracker.running /\ tracker.waiting > 0
      /\ result' = [k \in Counters |->
                      IF k \in CountedAs(h) THEN result[k] + 1 ELSE result[k]]
      /\ UNCHANGED <<suite, runner, outer, inner, isSetUp, fixtureFailed, trouble, tearDownSkips>>
  BY DEF TrackerCounts, suiteHistory
<1>2. Typed
  BY DEF IInv
<1>3. /\ doneChan \in Seq(Report) /\ h \in Report /\ h = doneChan[1]
      /\ doneChan' \in Seq(Report) /\ Len(doneChan') = Len(doneChan) - 1
      /\ Len(doneChan) \in Nat \ {0}
      /\ \A i \in 1..Len(doneChan') : doneChan'[i] = doneChan[i + 1]
      /\ \A i \in 1..Len(doneChan) : i = 1 \/ (i - 1 \in 1..Len(doneChan') /\ i = (i - 1) + 1)
  BY <1>1, <1>2 DEF Typed
<1>4. ReportFits(h)
  BY <1>3 DEF IInv, CallsFit
<1>5. /\ result' \in [Counters -> Nat]
      /\ Counted' = Counted + One(Counts(h)) /\ Counted \in Nat
      /\ SuitePassed' => SuitePassed /\ ~BadReport(h)
  BY <1>1, <1>2, <1>3, <1>4, ResultGrows DEF Typed
<1>6. Cardinality(Places(doneChan)) = Cardinality(Places(doneChan')) + One(Counts(h))
  BY <1>1, <1>3, TailPlaces
<1>7. /\ tracker' \in [running : BOOLEAN, waiting : Nat] /\ tracker'.running = tracker.running
      /\ tracker'.waiting = tracker.waiting - 1 /\ tracker.waiting \in Nat
  <2>1. tracker \in [running : BOOLEAN, waiting : Nat]
    BY <1>2 DEF Typed
  <2>2. tracker.waiting \in Nat /\ tracker.waiting - 1 \in Nat
    BY <1>1, <2>1
  <2> QED
    BY <1>1, <2>1, <2>2, TrackerFields
<1> HIDE DEF h
<1>8. Typed'
  BY <1>1, <1>2, <1>3, <1>5, <1>7 DEF Typed, IsCall
<1>9. Progress'
  BY <1>1, <1>7 DEF IInv, Progress
<1>10. CallsFit'
  <2>1. \A i \in 1..Len(doneChan') : ReportFits(doneChan'[i])
    BY <1>3 DEF IInv, CallsFit
  <2> QED
    BY <1>1, <2>1 DEF IInv, CallsFit, OuterFits, InnerFits
<1>11. Expected'
  BY <1>1, <1>3, <1>7 DEF IInv, Expected, One
<1>12. Accounted'
  <2>1. /\ Cardinality(Places(doneChan)) \in Nat /\ Cardinality(Places(doneChan')) \in Nat
    BY <1>3, PlacesFinite
  <2>2. runner.i \in Nat /\ fixtureFailed \in Nat
    BY <1>2, SuiteAssumption DEF Typed
  <2>3. /\ One(FailedNow(outer))' = One(FailedNow(outer))
        /\ One(FailedNow(inner))' = One(FailedNow(inner))
        /\ One(PassedNow)' = One(PassedNow)
        /\ One(FailedNow(outer)) \in Nat /\ One(FailedNow(inner)) \in Nat
        /\ One(PassedNow) \in Nat /\ One(Counts(h)) \in Nat
    BY <1>1 DEF One, PassedNow
  <2>4. Accounted
    BY DEF IInv
  <2> QED
    BY <1>1, <1>5, <1>6, <2>1, <2>2, <2>3, <2>4 DEF Accounted
<1>13. TroubleIsKept'
  <2>1. \A i \in 1..Len(doneChan) :
            doneChan[i] = h \/ (i - 1 \in 1..Len(doneChan') /\ doneChan[i] = doneChan'[i - 1])
    BY <1>3
  <2> QED
    BY <1>1, <1>5, <2>1 DEF IInv, TroubleIsKept
<1>14. SkipIsKept' /\ SetUpFits' /\ PanicIsSeen'
  BY <1>1 DEF IInv, SkipIsKept, SetUpFits, PanicIsSeen
<1> QED
  BY <1>8, <1>9, <1>10, <1>11, <1>12, <1>13, <1>14 DEF IInv

-----------------------------------------------------------------------------
(* A call reports. *)

LEMMA Finished ==
    ASSUME NEW c, IsCall(c)
    PROVE  LET d == CallFinished(c)
           IN /\ IsCall(d)
              /\ d.name = c.name /\ d.kind = c.kind /\ d.pc = "signalled"
              /\ d.status = FinalStatus(c) /\ d.mustFail = c.mustFail
              /\ d.skipped = c.skipped /\ d.panic = c.panic
              /\ d # NoCall
<1>1. c.name \in Fixtures \cup {"Test", "Report", "none"}
  BY CallFields
<1> QED
  BY FinalStatusType DEF CallFinished, IsCall, NoCall, NewCall

LEMMA FinishedFits ==
    ASSUME NEW c, IsCall(c), FixtureFits(c)
    PROVE  FixtureFits(CallFinished(c))
  BY Finished, FixtureFinal DEF FixtureFits

ReportOf(c) == [kind |-> c.kind, status |-> FinalStatus(c), mustFail |-> c.mustFail]

LEMMA ReportOfType ==
    ASSUME NEW c, IsCall(c), FixtureFits(c)
    PROVE  /\ ReportOf(c) \in Report /\ ReportFits(ReportOf(c))
           /\ ReportOf(c).kind = c.kind /\ ReportOf(c).status = FinalStatus(c)
<1>1. ReportOf(c) \in Report
  BY CallFields, FinalStatusType DEF ReportOf, Report
<1>2. ReportFits(ReportOf(c))
  BY FixtureFinal DEF ReportFits, ReportOf, FixtureFits
<1> QED
  BY <1>1, <1>2 DEF ReportOf

LEMMA Reported ==
    ASSUME Typed, NEW c, IsCall(c), FixtureFits(c), CallReported(c)
    PROVE  /\ ReportOf(c) \in Report /\ ReportFits(ReportOf(c))
           /\ doneChan' \in Seq(Report) /\ Len(doneChan') = Len(doneChan) + 1
           /\ \A i \in 1..Len(doneChan) : doneChan'[i] = doneChan[i]
           /\ doneChan'[Len(doneChan')] = ReportOf(c)
           /\ Len(doneChan) \in Nat
           /\ Cardinality(Places(doneChan)) \in Nat
           /\ Cardinality(Places(doneChan'))
              = Cardinality(Places(doneChan)) + One(Counts(ReportOf(c)))
<1>1. doneChan \in Seq(Report) /\ doneChan' = Append(doneChan, ReportOf(c))
  BY DEF Typed, CallReported, ReportOf
<1>2. ReportOf(c) \in Report /\ ReportFits(ReportOf(c))
  BY ReportOfType
<1> HIDE DEF ReportOf
<1> QED
  BY <1>1, <1>2, AppendPlaces, PlacesFinite

\* What the queue holds of trouble and of the fixtures, after a report.
LEMMA QueueKeeps ==
    ASSUME Typed, NEW c, IsCall(c), FixtureFits(c), CallReported(c),
           \A i \in 1..Len(doneChan) : ReportFits(doneChan[i])
    PROVE  /\ \A i \in 1..Len(doneChan') : ReportFits(doneChan'[i])
           /\ \/ \E i \in 1..Len(doneChan) : BadReport(doneChan[i])
              \/ WillReport(c)
              => \E i \in 1..Len(doneChan') : BadReport(doneChan'[i])
<1>1. /\ ReportFits(ReportOf(c)) /\ Len(doneChan') = Len(doneChan) + 1 /\ Len(doneChan) \in Nat
      /\ \A i \in 1..Len(doneChan) : doneChan'[i] = doneChan[i]
      /\ doneChan'[Len(doneChan')] = ReportOf(c)
  BY Reported
<1>2. WillReport(c) => BadReport(ReportOf(c))
  BY DEF WillReport, ReportOf
<1>3. \A i \in 1..Len(doneChan') : i = Len(doneChan') \/ i \in 1..Len(doneChan)
  BY <1>1
<1>4. /\ \A i \in 1..Len(doneChan) : i \in 1..Len(doneChan')
      /\ Len(doneChan') \in 1..Len(doneChan')
  BY <1>1
<1> QED
  BY <1>1, <1>2, <1>3, <1>4

LEMMA OuterDoneFits ==
    ASSUME IInv, OuterDone
    PROVE  IInv'
<1>1. /\ outer.pc = "done" /\ outer' = CallFinished(outer) /\ CallReported(outer)
      /\ UNCHANGED <<suite, runner, inner, tracker, result, isSetUp, fixtureFailed, trouble,
                     tearDownSkips>>
  BY DEF OuterDone, suiteHistory
<1>2. Typed /\ IsCall(outer) /\ FixtureFits(outer) /\ OuterFits /\ InnerFits /\ FixtureFits(inner)
  BY DEF IInv, Typed, CallsFit
<1>3. /\ IsCall(outer')
      /\ outer'.name = outer.name /\ outer'.kind = outer.kind /\ outer'.pc = "signalled"
      /\ outer'.status = FinalStatus(outer) /\ outer'.mustFail = outer.mustFail
      /\ outer'.skipped = outer.skipped /\ outer'.panic = outer.panic
      /\ outer' # NoCall /\ FixtureFits(outer')
  BY <1>1, <1>2, Finished, FinishedFits
<1>4. outer # NoCall
  BY <1>1, NoCallFields
<1>5. Typed'
  <2>1. doneChan' \in Seq(Report)
    BY <1>1, <1>2, Reported
  <2> QED
    BY <1>1, <1>2, <1>3, <2>1 DEF Typed, IsCall
<1>6. Progress'
  BY <1>1, <1>3 DEF IInv, Progress
<1>7. CallsFit'
  <2>1. \A i \in 1..Len(doneChan') : ReportFits(doneChan'[i])
    BY <1>1, <1>2, QueueKeeps DEF IInv, CallsFit
  <2>2. OuterFits'
    <3>1. CASE outer.name = "Report"
      <4>1. /\ outer.panic = "no" /\ ~outer.mustFail
            /\ IF outer.kind = "fixture"
               THEN outer.status = "panicked" /\ runner.pc = "args"
               ELSE runner.pc \in {"skip", "skipAll"}
        BY <1>2, <1>4, <3>1 DEF OuterFits, SuiteFixtures
      <4>2. outer.status = "panicked" => FinalStatus(outer) = "panicked"
        BY <4>1 DEF FinalStatus, Recovered
      <4> QED
        BY <1>1, <1>3, <3>1, <4>1, <4>2 DEF OuterFits
    <3>2. CASE outer.name # "Report"
      BY <1>1, <1>2, <1>3, <1>4, <3>2 DEF OuterFits
    <3> QED
      BY <3>1, <3>2
  <2>3. InnerFits'
    BY <1>1, <1>2, <1>3 DEF InnerFits, Waits
  <2> QED
    BY <1>1, <1>2, <1>3, <2>1, <2>2, <2>3 DEF CallsFit
<1>8. Expected'
  <2>1. Len(doneChan') = Len(doneChan) + 1 /\ Len(doneChan) \in Nat
    BY <1>1, <1>2, Reported
  <2>2. One(OnItsWay(outer)) = 1 /\ One(OnItsWay(outer')) = 0
    BY <1>1, <1>3 DEF One, OnItsWay
  <2>3. One(OnItsWay(inner)) \in Nat /\ One(OnItsWay(inner'))= One(OnItsWay(inner))
    BY <1>1 DEF One
  <2>4. Expected
    BY DEF IInv
  <2> QED
    BY <1>1, <2>1, <2>2, <2>3, <2>4 DEF Expected
<1>9. Accounted'
  <2>1. /\ Cardinality(Places(doneChan)) \in Nat
        /\ Cardinality(Places(doneChan'))
           = Cardinality(Places(doneChan)) + One(Counts(ReportOf(outer)))
    BY <1>1, <1>2, Reported
  <2>2. One(Counts(ReportOf(outer))) = One(FailedNow(outer)) + One(outer.kind = "test")
    <3>1. CASE outer.kind = "test"
      BY <3>1 DEF Counts, ReportOf, FailedNow, One
    <3>2. CASE outer.kind = "fixture"
      <4>1. FinalStatus(outer) = IF outer.panic = "value" THEN "panicked" ELSE outer.status
        BY <1>2, <3>2, FixtureFinal
      <4>2. outer.panic \in {"no", "value"}
        BY <1>2, <3>2 DEF FixtureFits
      <4> QED
        BY <1>1, <3>2, <4>1, <4>2 DEF Counts, ReportOf, FailedNow, One
    <3> QED
      BY <1>2, <3>1, <3>2, CallFields
  <2>3. /\ One(PassedNow) = 0 /\ One(PassedNow)' = One(outer.kind = "test")
        /\ One(FailedNow(outer)') = 0 /\ One(FailedNow(inner)') = One(FailedNow(inner))
        /\ One(FailedNow(inner)) \in Nat /\ One(FailedNow(outer)) \in Nat
        /\ One(outer.kind = "test") \in Nat
    BY <1>1, <1>3 DEF One, PassedNow, FailedNow
  <2>4. Counted' = Counted /\ Counted \in Nat
    BY <1>1, <1>2 DEF Counted, Counters, Typed
  <2>5. runner.i \in Nat /\ fixtureFailed \in Nat
    BY <1>2, SuiteAssumption DEF Typed
  <2>6. Accounted
    BY DEF IInv
  <2> QED
    BY <1>1, <2>1, <2>2, <2>3, <2>4, <2>5, <2>6 DEF Accounted
<1>10. TroubleIsKept'
  <2>1. \/ \E i \in 1..Len(doneChan) : BadReport(doneChan[i])
        \/ WillReport(outer)
        => \E i \in 1..Len(doneChan') : BadReport(doneChan'[i])
    BY <1>1, <1>2, QueueKeeps DEF IInv, CallsFit
  <2>2. SuitePassed' = SuitePassed /\ WillReport(inner') = WillReport(inner)
    BY <1>1 DEF SuitePassed
  <2> QED
    BY <1>1, <1>4, <2>1, <2>2 DEF IInv, TroubleIsKept
<1>11. SkipIsKept' /\ PanicIsSeen'
  BY <1>1 DEF IInv, SkipIsKept, PanicIsSeen
<1>12. SetUpFits'
  BY <1>1, <1>3 DEF IInv, SetUpFits
<1> QED
  BY <1>5, <1>6, <1>7, <1>8, <1>9, <1>10, <1>11, <1>12 DEF IInv

LEMMA InnerDoneFits ==
    ASSUME IInv, InnerDone
    PROVE  IInv'
<1>1. /\ inner.pc = "done" /\ inner' = CallFinished(inner) /\ CallReported(inner)
      /\ UNCHANGED <<suite, runner, outer, tracker, result, isSetUp, fixtureFailed, trouble,
                     tearDownSkips>>
  BY DEF InnerDone, suiteHistory
<1>2. Typed /\ IsCall(inner) /\ FixtureFits(inner) /\ OuterFits /\ InnerFits /\ FixtureFits(outer)
  BY DEF IInv, Typed, CallsFit
<1>3. /\ IsCall(inner')
      /\ inner'.name = inner.name /\ inner'.kind = inner.kind /\ inner'.pc = "signalled"
      /\ inner'.status = FinalStatus(inner) /\ inner'.mustFail = inner.mustFail
      /\ inner'.skipped = inner.skipped /\ inner'.panic = inner.panic
      /\ FixtureFits(inner')
  BY <1>1, <1>2, Finished, FinishedFits
<1>4. inner.kind = "fixture" /\ inner # NoCall
  BY <1>1, <1>2, NoCallFields DEF InnerFits
<1>5. /\ FinalStatus(inner) = IF inner.panic = "value" THEN "panicked" ELSE inner.status
      /\ inner.panic \in {"no", "value"}
  BY <1>2, <1>4, FixtureFinal DEF FixtureFits
<1>6. Typed'
  <2>1. doneChan' \in Seq(Report)
    BY <1>1, <1>2, Reported
  <2> QED
    BY <1>1, <1>2, <1>3, <2>1 DEF Typed, IsCall
<1>7. Progress'
  BY <1>1 DEF IInv, Progress
<1>8. CallsFit'
  <2>1. \A i \in 1..Len(doneChan') : ReportFits(doneChan'[i])
    BY <1>1, <1>2, QueueKeeps DEF IInv, CallsFit
  <2>2. OuterFits'
    BY <1>1, <1>2 DEF OuterFits
  <2>3. InnerFits'
    BY <1>1, <1>2, <1>3, <1>4 DEF InnerFits
  <2> QED
    BY <1>1, <1>2, <1>3, <2>1, <2>2, <2>3 DEF CallsFit
<1>9. Expected'
  <2>1. Len(doneChan') = Len(doneChan) + 1 /\ Len(doneChan) \in Nat
    BY <1>1, <1>2, Reported
  <2>2. One(OnItsWay(inner)) = 1 /\ One(OnItsWay(inner')) = 0
    BY <1>1, <1>3 DEF One, OnItsWay
  <2>3. One(OnItsWay(outer)) \in Nat /\ One(OnItsWay(outer'))= One(OnItsWay(outer))
    BY <1>1 DEF One
  <2>4. Expected
    BY DEF IInv
  <2> QED
    BY <1>1, <2>1, <2>2, <2>3, <2>4 DEF Expected
<1>10. Accounted'
  <2>1. /\ Cardinality(Places(doneChan)) \in Nat
        /\ Cardinality(Places(doneChan'))
           = Cardinality(Places(doneChan)) + One(Counts(ReportOf(inner)))
    BY <1>1, <1>2, Reported
  <2>2. One(Counts(ReportOf(inner))) = One(FailedNow(inner))
    BY <1>1, <1>4, <1>5 DEF Counts, ReportOf, FailedNow, One
  <2>3. /\ One(PassedNow)' = One(PassedNow) /\ One(PassedNow) \in Nat
        /\ One(FailedNow(inner)') = 0 /\ One(FailedNow(outer)') = One(FailedNow(outer))
        /\ One(FailedNow(inner)) \in Nat /\ One(FailedNow(outer)) \in Nat
    BY <1>1, <1>3 DEF One, PassedNow, FailedNow
  <2>4. Counted' = Counted /\ Counted \in Nat
    BY <1>1, <1>2 DEF Counted, Counters, Typed
  <2>5. runner.i \in Nat /\ fixtureFailed \in Nat
    BY <1>2, SuiteAssumption DEF Typed
  <2>6. Accounted
    BY DEF IInv
  <2> QED
    BY <1>1, <2>1, <2>2, <2>3, <2>4, <2>5, <2>6 DEF Accounted
<1>11. TroubleIsKept'
  <2>1. \/ \E i \in 1..Len(doneChan) : BadReport(doneChan[i])
        \/ WillReport(inner)
        => \E i \in 1..Len(doneChan') : BadReport(doneChan'[i])
    BY <1>1, <1>2, QueueKeeps DEF IInv, CallsFit
  <2>2. SuitePassed' = SuitePassed /\ WillReport(outer') = WillReport(outer)
    BY <1>1 DEF SuitePassed
  <2> QED
    BY <1>1, <2>1, <2>2 DEF IInv, TroubleIsKept
<1>12. SkipIsKept' /\ PanicIsSeen'
  <2>1. SkipIsKept'
    BY <1>1, <1>3, <1>5 DEF IInv, SkipIsKept
  <2>2. PanicIsSeen'
    BY <1>1, <1>3, <1>5 DEF IInv, PanicIsSeen
  <2> QED
    BY <2>1, <2>2
<1>13. SetUpFits'
  BY <1>1, <1>2, <1>3, <1>5 DEF IInv, SetUpFits, InnerFits
<1> QED
  BY <1>6, <1>7, <1>8, <1>9, <1>10, <1>11, <1>12, <1>13 DEF IInv

-----------------------------------------------------------------------------
(* A fixture runs. *)

LEMMA OutcomeFields ==
    ASSUME NEW o \in Outcomes("fixture")
    PROVE  /\ o.status \in {"succeeded", "failed", "skipped"}
           /\ o.mustFail = FALSE /\ o.panic \in {"no", "value"}
           /\ o.status # "succeeded" => o.panic = "no"
<1>1. CASE o \in [status : {"succeeded", "failed"}, mustFail : {FALSE}, panic : {"no"}]
  BY <1>1
<1>2. CASE o = [status |-> "skipped", mustFail |-> FALSE, panic |-> "no"]
  BY <1>2
<1>3. CASE o = [status |-> "succeeded", mustFail |-> FALSE, panic |-> "value"]
  BY <1>3
<1> QED
  BY <1>1, <1>2, <1>3 DEF Outcomes

LEMMA TestOutcomeFields ==
    ASSUME NEW kind, NEW o \in Outcomes(kind)
    PROVE  /\ o.status \in {"succeeded", "failed", "skipped"}
           /\ o.mustFail \in BOOLEAN /\ o.panic \in {"no", "value"}
<1>1. CASE o \in [status : {"succeeded", "failed"}, panic : {"no"},
                  mustFail : IF kind = "test" THEN BOOLEAN ELSE {FALSE}]
  BY <1>1
<1>2. CASE o = [status |-> "skipped", mustFail |-> FALSE, panic |-> "no"]
  BY <1>2
<1>3. CASE o = [status |-> "succeeded", mustFail |-> FALSE, panic |-> "value"]
  BY <1>3
<1> QED
  BY <1>1, <1>2, <1>3 DEF Outcomes

LEMMA AfterFields ==
    ASSUME NEW c, IsCall(c), NEW kind \in {"fixture", "test"}, NEW o \in Outcomes(kind),
           NEW pc \in {"betweenRuns", "teardown", "done"}
    PROVE  LET d == After(c, o, pc)
           IN /\ IsCall(d)
              /\ d.name = c.name /\ d.kind = c.kind /\ d.pc = pc
              /\ d.status = o.status /\ d.skipped = c.skipped /\ d.panic = o.panic
              /\ d.mustFail <=> (c.mustFail \/ o.mustFail)
<1>1. /\ o.status \in {"succeeded", "failed", "skipped"}
      /\ o.mustFail \in BOOLEAN /\ o.panic \in {"no", "value"}
  BY TestOutcomeFields
<1>2. PICK fails \in BOOLEAN : fails <=> (c.mustFail \/ o.mustFail)
  OBVIOUS
<1>3. o.status \in CallStatus
  BY <1>1 DEF CallStatus
<1> DEFINE d == [c EXCEPT !.status = o.status, !.mustFail = fails, !.panic = o.panic, !.pc = pc]
<1>4. After(c, o, pc) = d
  <2>1. (c.mustFail \/ o.mustFail) = fails
    BY <1>2
  <2> QED
    BY <2>1, Zenon DEF After
<1>5. /\ IsCall(d)
      /\ d.name = c.name /\ d.kind = c.kind /\ d.pc = pc
      /\ d.status = o.status /\ d.skipped = c.skipped /\ d.panic = o.panic
      /\ d.mustFail = fails
  BY <1>1, <1>3 DEF IsCall
<1> HIDE DEF d
<1> QED
  BY <1>2, <1>4, <1>5

\* What a fixture leaves in its call.
LEMMA FixtureRan ==
    ASSUME NEW c, IsCall(c), FixtureFits(c), c.kind = "fixture", NEW o \in Outcomes("fixture")
    PROVE  LET d == After(c, o, "done")
           IN /\ IsCall(d) /\ FixtureFits(d) /\ ~d.mustFail
              /\ d.name = c.name /\ d.kind = "fixture" /\ d.pc = "done"
              /\ d.status = o.status /\ d.panic = o.panic
              /\ FailedNow(d) <=> o.status = "failed"
              /\ d.status # "panicked" /\ d # NoCall
              /\ IsTrouble(d) => WillReport(d)
<1> DEFINE d == After(c, o, "done")
<1>1. /\ IsCall(d)
      /\ d.name = c.name /\ d.kind = "fixture" /\ d.pc = "done"
      /\ d.status = o.status /\ d.panic = o.panic /\ ~d.mustFail
  <2>1. /\ IsCall(d) /\ d.name = c.name /\ d.kind = c.kind /\ d.pc = "done"
        /\ d.status = o.status /\ d.panic = o.panic
        /\ d.mustFail <=> (c.mustFail \/ o.mustFail)
    BY AfterFields
  <2> HIDE DEF d
  <2> QED
    BY <2>1, OutcomeFields DEF FixtureFits
<1> HIDE DEF d
<1>2. FixtureFits(d)
  BY <1>1, OutcomeFields DEF FixtureFits, FixtureStatus
<1>3. (FailedNow(d) <=> o.status = "failed") /\ d.status # "panicked" /\ d # NoCall
  BY <1>1, OutcomeFields, NoCallFields DEF FailedNow
<1>4. ASSUME IsTrouble(d) PROVE WillReport(d)
  <2>1. d.panic = "value" \/ d.status = "failed"
    BY <1>1, <1>4 DEF IsTrouble
  <2>2. FinalStatus(d) \in {"failed", "panicked"}
    BY <1>1, <1>2, <2>1, FixtureFinal
  <2>3. ReportOf(d) \in Report /\ ReportFits(ReportOf(d)) /\ ReportOf(d).kind = "fixture"
        /\ ReportOf(d).status = FinalStatus(d)
    BY <1>1, <1>2, ReportOfType
  <2>4. BadReport(ReportOf(d))
    BY <2>2, <2>3, BadFixture
  <2> QED
    BY <1>1, <2>4 DEF WillReport, ReportOf
<1> QED
  BY <1>1, <1>2, <1>3, <1>4 DEF d

LEMMA SuiteFixtureFits ==
    ASSUME IInv, SuiteFixture
    PROVE  IInv'
<1>1. PICK o \in Outcomes("fixture") :
          outer' = After(outer, o, "done") /\ FixtureHistory(outer, o)
  BY DEF SuiteFixture
<1>2. /\ outer.name \in Fixtures /\ outer.pc = "body"
      /\ UNCHANGED <<suite, runner, inner, tracker, doneChan, result>>
  BY DEF SuiteFixture
<1>3. Typed /\ IsCall(outer) /\ FixtureFits(outer) /\ OuterFits /\ InnerFits /\ FixtureFits(inner)
  BY DEF IInv, Typed, CallsFit
<1>4. outer.kind = "fixture" /\ outer.name \in SuiteFixtures
  BY <1>2, <1>3, NoCallFields DEF OuterFits, Fixtures
<1>5. /\ IsCall(outer') /\ FixtureFits(outer') /\ ~outer'.mustFail
      /\ outer'.name = outer.name /\ outer'.kind = "fixture" /\ outer'.pc = "done"
      /\ outer'.status = o.status /\ outer'.panic = o.panic
      /\ FailedNow(outer') <=> o.status = "failed"
      /\ outer' # NoCall
      /\ IsTrouble(outer') => WillReport(outer')
  BY <1>1, <1>3, <1>4, FixtureRan
<1>6. /\ fixtureFailed' = fixtureFailed + One(o.status = "failed")
      /\ fixtureFailed \in Nat /\ One(o.status = "failed") \in {0, 1}
      /\ trouble' = (trouble \/ IsTrouble(outer'))
      /\ tearDownSkips' = tearDownSkips /\ isSetUp' = isSetUp
  <2>1. outer.name # "SetUpTest" /\ outer.name # "TearDownTest"
    BY <1>4 DEF SuiteFixtures
  <2>2. fixtureFailed' = fixtureFailed + One(o.status = "failed") /\ fixtureFailed \in Nat
    BY <1>1, <1>3 DEF FixtureHistory, One, Typed
  <2>3. isSetUp' = isSetUp
    BY <1>1, <2>1 DEF FixtureHistory
  <2>4. tearDownSkips' = tearDownSkips
    BY <1>1, <1>3, <2>1 DEF FixtureHistory, Typed
  <2>5. trouble' = (trouble \/ IsTrouble(outer'))
    BY <1>1 DEF FixtureHistory
  <2> QED
    BY <2>2, <2>3, <2>4, <2>5 DEF One
<1>7. Typed'
  BY <1>2, <1>3, <1>5, <1>6 DEF Typed, IsCall
<1>8. Progress'
  BY <1>2, <1>5 DEF IInv, Progress
<1>9. CallsFit'
  <2>1. OuterFits'
    BY <1>2, <1>3, <1>4, <1>5, NoCallFields DEF OuterFits, SuiteFixtures
  <2>2. InnerFits'
    BY <1>2, <1>3, <1>5 DEF InnerFits, Waits
  <2> QED
    BY <1>2, <1>3, <1>5, <2>1, <2>2 DEF IInv, CallsFit
<1>10. Expected'
  <2>1. One(OnItsWay(outer)) = 1 /\ One(OnItsWay(outer')) = 1
    BY <1>2, <1>5 DEF One, OnItsWay
  <2> QED
    BY <1>2, <2>1 DEF IInv, Expected
<1>11. Accounted'
  <2>1. One(FailedNow(outer)) = 0 /\ One(FailedNow(outer)') = One(o.status = "failed")
    BY <1>2, <1>5 DEF One, FailedNow
  <2>2. One(PassedNow)' = One(PassedNow) /\ One(PassedNow) \in Nat
    BY <1>2, <1>5 DEF One, PassedNow
  <2>3. /\ One(FailedNow(inner)') = One(FailedNow(inner)) /\ One(FailedNow(inner)) \in Nat
    BY <1>2 DEF One
  <2>4. Counted' = Counted /\ Counted \in Nat
    BY <1>2, <1>3 DEF Counted, Counters, Typed
  <2>5. runner.i \in Nat /\ Cardinality(Places(doneChan)) \in Nat
    BY <1>3, SuiteAssumption, PlacesFinite DEF Typed
  <2>6. Accounted
    BY DEF IInv
  <2> QED
    BY <1>2, <1>6, <2>1, <2>2, <2>3, <2>4, <2>5, <2>6 DEF Accounted
<1>12. TroubleIsKept'
  <2>1. ~WillReport(outer) /\ outer # NoCall
    BY <1>2, NoCallFields DEF WillReport
  <2>2. SuitePassed' = SuitePassed /\ WillReport(inner') = WillReport(inner)
    BY <1>2 DEF SuitePassed
  <2> QED
    BY <1>2, <1>5, <1>6, <2>1, <2>2 DEF IInv, TroubleIsKept
<1>13. SkipIsKept' /\ PanicIsSeen'
  BY <1>2, <1>6 DEF IInv, SkipIsKept, PanicIsSeen
<1>14. SetUpFits'
  BY <1>2, <1>4, <1>5, <1>6 DEF IInv, SetUpFits, SuiteFixtures
<1> QED
  BY <1>7, <1>8, <1>9, <1>10, <1>11, <1>12, <1>13, <1>14 DEF IInv

LEMMA TestFixtureFits ==
    ASSUME IInv, TestFixture
    PROVE  IInv'
<1>1. PICK o \in Outcomes("fixture") :
          inner' = After(inner, o, "done") /\ FixtureHistory(inner, o)
  BY DEF TestFixture
<1>2. inner.pc = "body" /\ UNCHANGED <<suite, runner, outer, tracker, doneChan, result>>
  BY DEF TestFixture
<1>3. Typed /\ IsCall(inner) /\ FixtureFits(inner) /\ OuterFits /\ InnerFits /\ FixtureFits(outer)
  BY DEF IInv, Typed, CallsFit
<1>4. /\ inner.kind = "fixture"
      /\ \/ outer.pc = "setupWait" /\ inner.name = "SetUpTest"
         \/ outer.pc \in {"betweenWait", "teardownWait"} /\ inner.name = "TearDownTest"
  BY <1>2, <1>3, NoCallFields DEF InnerFits
<1>5. /\ IsCall(inner') /\ FixtureFits(inner') /\ ~inner'.mustFail
      /\ inner'.name = inner.name /\ inner'.kind = "fixture" /\ inner'.pc = "done"
      /\ inner'.status = o.status /\ inner'.panic = o.panic
      /\ FailedNow(inner') <=> o.status = "failed"
      /\ inner'.status # "panicked"
      /\ IsTrouble(inner') => WillReport(inner')
  BY <1>1, <1>3, <1>4, FixtureRan
<1>6. /\ fixtureFailed' = fixtureFailed + One(o.status = "failed")
      /\ fixtureFailed \in Nat /\ One(o.status = "failed") \in {0, 1}
      /\ trouble' = (trouble \/ IsTrouble(inner'))
      /\ tearDownSkips' = (tearDownSkips \/ (inner.name = "TearDownTest" /\ o.status = "skipped"))
      /\ inner.name = "SetUpTest" => isSetUp' = (o.status # "skipped")
      /\ inner.name = "TearDownTest" => isSetUp' = FALSE
  <2>1. fixtureFailed' = fixtureFailed + One(o.status = "failed") /\ fixtureFailed \in Nat
    BY <1>1, <1>3 DEF FixtureHistory, One, Typed
  <2>2. /\ inner.name = "SetUpTest" => isSetUp' = (o.status # "skipped")
        /\ inner.name = "TearDownTest" => isSetUp' = FALSE
    BY <1>1 DEF FixtureHistory
  <2>3. /\ trouble' = (trouble \/ IsTrouble(inner'))
        /\ tearDownSkips' = (tearDownSkips \/ (inner.name = "TearDownTest" /\ o.status = "skipped"))
    BY <1>1 DEF FixtureHistory
  <2> QED
    BY <2>1, <2>2, <2>3 DEF One
<1>7. Typed'
  <2>1. isSetUp' \in BOOLEAN /\ trouble' \in BOOLEAN /\ tearDownSkips' \in BOOLEAN
    BY <1>4, <1>6
  <2>2. fixtureFailed' \in Nat
    BY <1>6
  <2> QED
    BY <1>2, <1>3, <1>5, <2>1, <2>2 DEF Typed, IsCall
<1>8. Progress'
  BY <1>2 DEF IInv, Progress
<1>9. CallsFit'
  <2>1. OuterFits'
    BY <1>2, <1>3 DEF OuterFits
  <2>2. InnerFits'
    BY <1>2, <1>4, <1>5 DEF InnerFits
  <2> QED
    BY <1>2, <1>3, <1>5, <2>1, <2>2 DEF IInv, CallsFit
<1>10. Expected'
  <2>1. One(OnItsWay(inner)) = 1 /\ One(OnItsWay(inner')) = 1
    BY <1>2, <1>5 DEF One, OnItsWay
  <2> QED
    BY <1>2, <2>1 DEF IInv, Expected
<1>11. Accounted'
  <2>1. One(FailedNow(inner)) = 0 /\ One(FailedNow(inner)') = One(o.status = "failed")
    BY <1>2, <1>5 DEF One, FailedNow
  <2>2. One(PassedNow)' = One(PassedNow) /\ One(PassedNow) \in Nat
    BY <1>2 DEF One, PassedNow
  <2>3. One(FailedNow(outer)') = One(FailedNow(outer)) /\ One(FailedNow(outer)) \in Nat
    BY <1>2 DEF One
  <2>4. Counted' = Counted /\ Counted \in Nat
    BY <1>2, <1>3 DEF Counted, Counters, Typed
  <2>5. runner.i \in Nat /\ Cardinality(Places(doneChan)) \in Nat
    BY <1>3, SuiteAssumption, PlacesFinite DEF Typed
  <2>6. Accounted
    BY DEF IInv
  <2> QED
    BY <1>2, <1>6, <2>1, <2>2, <2>3, <2>4, <2>5, <2>6 DEF Accounted
<1>12. TroubleIsKept'
  <2>1. ~WillReport(inner)
    BY <1>2 DEF WillReport
  <2>2. SuitePassed' = SuitePassed /\ WillReport(outer') = WillReport(outer)
    BY <1>2 DEF SuitePassed
  <2> QED
    BY <1>2, <1>5, <1>6, <2>1, <2>2 DEF IInv, TroubleIsKept
<1>13. SkipIsKept'
  BY <1>5, <1>6 DEF SkipIsKept
<1>14. PanicIsSeen'
  BY <1>5 DEF PanicIsSeen
<1>15. SetUpFits'
  <2>1. SetUpFits /\ outer.name = "Test" /\ o.status \in {"succeeded", "failed", "skipped"}
        /\ (o.status # "succeeded" => o.panic = "no")
    BY <1>3, <1>4, OutcomeFields, NoCallFields DEF IInv, OuterFits
  <2>2. CASE outer.pc = "setupWait"
    BY <1>2, <1>4, <1>5, <1>6, <2>1, <2>2 DEF SetUpFits
  <2>3. CASE outer.pc \in {"betweenWait", "teardownWait"}
    BY <1>2, <1>4, <1>5, <1>6, <2>1, <2>3 DEF SetUpFits
  <2> QED
    BY <1>4, <2>2, <2>3
<1> QED
  BY <1>7, <1>8, <1>9, <1>10, <1>11, <1>12, <1>13, <1>14, <1>15 DEF IInv

-----------------------------------------------------------------------------
(* A test goes on. *)

TestOnly == {"setup", "setupWait", "betweenRuns", "betweenWait", "teardown", "teardownWait"}

LEMMA AtTest ==
    ASSUME IInv, outer.pc \in TestOnly
    PROVE  /\ outer.name = "Test" /\ outer.kind = "test" /\ runner.pc = "tests"
           /\ OnItsWay(outer) /\ outer # NoCall
  BY NoCallFields DEF IInv, CallsFit, OuterFits, TestOnly, OnItsWay

LEMMA BadCall ==
    ASSUME NEW c, IsCall(c), c.kind = "test", c.pc \in {"teardown", "teardownWait", "done"},
           FinalStatus(c) \in {"failed", "panicked", "fixturePanicked", "missed"}
    PROVE  WillReport(c)
<1>1. ReportOf(c) \in Report /\ ReportOf(c).kind = "test" /\ ReportOf(c).status = FinalStatus(c)
  BY ReportOfType DEF FixtureFits, ReportOf
<1>2. BadReport(ReportOf(c))
  BY <1>1, BadTest
<1> QED
  BY <1>2 DEF WillReport, ReportOf

\* A step of a test that waits for no fixture, or not any more.
LEMMA TestMoves ==
    ASSUME IInv, outer.name = "Test", OnItsWay(outer),
           inner = NoCall \/ inner.pc = "signalled", inner' = NoCall,
           IsCall(outer'), outer'.name = "Test", outer'.kind = outer.kind,
           outer'.pc \notin {"none", "signalled"} \cup Waits,
           UNCHANGED <<suite, runner, tracker, doneChan, result, fixtureFailed, tearDownSkips>>,
           isSetUp' \in BOOLEAN, trouble' \in BOOLEAN,
           trouble' /\ ~tearDownSkips => WillReport(outer') \/ (trouble /\ ~WillReport(outer)),
           SetUpFits'
    PROVE  IInv'
<1>1. Typed /\ OuterFits /\ CallsFit /\ IsCall(outer) /\ IsCall(inner)
  BY DEF IInv, CallsFit, Typed
<1>2. outer.kind = "test" /\ runner.pc = "tests" /\ outer # NoCall /\ outer' # NoCall
  BY <1>1, NoCallFields DEF OuterFits, SuiteFixtures
<1>3. Typed'
  <2>1. IsCall(inner')
    BY NoCallFields
  <2> QED
    BY <1>1, <2>1 DEF Typed, IsCall
<1>4. Progress'
  BY DEF IInv, Progress
<1>5. CallsFit'
  <2>1. OuterFits'
    BY <1>2 DEF OuterFits
  <2>2. InnerFits'
    BY DEF InnerFits
  <2>3. FixtureFits(outer') /\ FixtureFits(inner')
    BY <1>2, NoCallFields DEF FixtureFits
  <2> QED
    BY <1>1, <2>1, <2>2, <2>3 DEF CallsFit
<1>6. Expected'
  <2>1. /\ One(OnItsWay(outer)) = 1 /\ One(OnItsWay(outer')) = 1
        /\ One(OnItsWay(inner)) = 0 /\ One(OnItsWay(inner')) = 0
    BY NoCallFields DEF One, OnItsWay
  <2> QED
    BY <2>1 DEF IInv, Expected
<1>7. Accounted'
  <2>1. /\ One(FailedNow(outer)) = 0 /\ One(FailedNow(outer)') = 0
        /\ One(FailedNow(inner)) = 0 /\ One(FailedNow(inner)') = 0
        /\ One(PassedNow) = 0 /\ One(PassedNow)' = 0
    BY <1>2, NoCallFields DEF One, FailedNow, PassedNow, OnItsWay
  <2>2. Counted' = Counted
    BY DEF Counted
  <2> QED
    BY <2>1, <2>2 DEF IInv, Accounted
<1>8. TroubleIsKept'
  <2>1. ~WillReport(inner)
    BY NoCallFields DEF WillReport
  <2>2. SuitePassed' = SuitePassed
    BY DEF SuitePassed
  <2> QED
    BY <1>2, <2>1, <2>2 DEF IInv, TroubleIsKept
<1>9. SkipIsKept' /\ PanicIsSeen'
  BY NoCallFields DEF SkipIsKept, PanicIsSeen
<1> QED
  BY <1>3, <1>4, <1>5, <1>6, <1>7, <1>8, <1>9 DEF IInv

LEMMA PcMoved ==
    ASSUME NEW c, IsCall(c), NEW pc \in Waits, NEW d, d = [c EXCEPT !.pc = pc]
    PROVE  /\ IsCall(d) /\ d.name = c.name /\ d.kind = c.kind /\ d.pc = pc
           /\ d.status = c.status /\ d.mustFail = c.mustFail
           /\ d.skipped = c.skipped /\ d.panic = c.panic
  BY DEF IsCall, Waits

\* A step of a test that begins a fixture and waits for it.
LEMMA TestForks ==
    ASSUME IInv, NEW f \in {"SetUpTest", "TearDownTest"}, NEW wait \in Waits,
           outer.pc \in {"setup", "betweenRuns", "teardown"}, Expects,
           inner' = NewCall(f, "fixture", "body", "succeeded"),
           outer' = [outer EXCEPT !.pc = wait],
           UNCHANGED <<suite, runner, doneChan, result, isSetUp, fixtureFailed, trouble,
                       tearDownSkips>>,
           IF f = "SetUpTest" THEN outer.pc = "setup" /\ wait = "setupWait"
           ELSE \/ outer.pc = "betweenRuns" /\ wait = "betweenWait"
                \/ outer.pc = "teardown" /\ wait = "teardownWait" /\ ~outer.skipped
    PROVE  IInv'
<1>1. /\ Typed /\ OuterFits /\ InnerFits /\ CallsFit /\ IsCall(outer) /\ IsCall(inner)
  BY DEF IInv, CallsFit, Typed
<1>2. /\ outer.name = "Test" /\ outer.kind = "test" /\ runner.pc = "tests"
      /\ OnItsWay(outer) /\ outer # NoCall
  BY AtTest DEF TestOnly
<1>3. inner = NoCall
  BY <1>1 DEF InnerFits, Waits
<1>4. /\ IsCall(outer') /\ outer'.name = "Test" /\ outer'.kind = "test" /\ outer'.pc = wait
      /\ outer'.status = outer.status /\ outer'.mustFail = outer.mustFail
      /\ outer'.skipped = outer.skipped /\ outer'.panic = outer.panic
  BY <1>1, <1>2, PcMoved DEF Waits
<1>5. /\ IsCall(inner') /\ inner'.name = f /\ inner'.kind = "fixture" /\ inner'.pc = "body"
      /\ inner'.status = "succeeded" /\ ~inner'.mustFail /\ inner'.panic = "no"
  <2>1. f \in Fixtures \cup {"Test", "Report", "none"} /\ "succeeded" \in CallStatus
    BY DEF Fixtures, CallStatus
  <2> QED
    BY <2>1, NewCallFields
<1>6. /\ tracker' \in [running : BOOLEAN, waiting : Nat]
      /\ tracker'.running = tracker.running /\ tracker'.waiting = tracker.waiting + 1
      /\ tracker.waiting \in Nat
  <2>1. tracker \in [running : BOOLEAN, waiting : Nat] /\ tracker.waiting + 1 \in Nat
    BY <1>1 DEF Typed
  <2> QED
    BY <2>1, TrackerFields DEF Expects
<1>7. Typed'
  BY <1>1, <1>4, <1>5, <1>6 DEF Typed, IsCall
<1>8. Progress'
  BY <1>2, <1>4, <1>6 DEF IInv, Progress
<1>9. CallsFit'
  <2>1. OuterFits'
    BY <1>2, <1>4 DEF OuterFits, Waits
  <2>2. InnerFits'
    BY <1>4, <1>5 DEF InnerFits
  <2>3. FixtureFits(outer') /\ FixtureFits(inner')
    BY <1>4, <1>5 DEF FixtureFits, FixtureStatus
  <2> QED
    BY <1>1, <2>1, <2>2, <2>3 DEF CallsFit
<1>10. Expected'
  <2>1. /\ One(OnItsWay(outer)) = 1 /\ One(OnItsWay(outer')) = 1
        /\ One(OnItsWay(inner)) = 0 /\ One(OnItsWay(inner')) = 1
    BY <1>2, <1>3, <1>4, <1>5, NoCallFields DEF One, OnItsWay, Waits
  <2>2. Len(doneChan) \in Nat
    BY <1>1 DEF Typed
  <2> QED
    BY <1>6, <2>1, <2>2 DEF IInv, Expected
<1>11. Accounted'
  <2>1. /\ One(FailedNow(outer)) = 0 /\ One(FailedNow(outer)') = 0
        /\ One(FailedNow(inner)) = 0 /\ One(FailedNow(inner)') = 0
        /\ One(PassedNow) = 0 /\ One(PassedNow)' = 0
    BY <1>2, <1>3, <1>4, <1>5, NoCallFields DEF One, FailedNow, PassedNow, OnItsWay, Waits
  <2>2. Counted' = Counted
    BY DEF Counted
  <2> QED
    BY <2>1, <2>2 DEF IInv, Accounted
<1>12. TroubleIsKept'
  <2>1. ~WillReport(inner)
    BY <1>3, NoCallFields DEF WillReport
  <2>2. SuitePassed' = SuitePassed
    BY DEF SuitePassed
  <2>3. WillReport(outer) => WillReport(outer')
    BY <1>4, <1>2 DEF WillReport, FinalStatus, Recovered, Waits
  <2> QED
    BY <1>2, <2>1, <2>2, <2>3 DEF IInv, TroubleIsKept
<1>13. SkipIsKept' /\ PanicIsSeen'
  BY <1>5 DEF SkipIsKept, PanicIsSeen
<1>14. SetUpFits'
  <2>1. SetUpFits
    BY DEF IInv
  <2>2. CASE wait = "setupWait" /\ outer.pc = "setup"
    BY <1>2, <1>4, <1>5, <2>1, <2>2 DEF SetUpFits
  <2>3. CASE wait = "betweenWait" /\ outer.pc = "betweenRuns"
    BY <1>2, <1>4, <1>5, <2>1, <2>3 DEF SetUpFits
  <2>4. CASE wait = "teardownWait" /\ outer.pc = "teardown" /\ ~outer.skipped
    BY <1>2, <1>4, <1>5, <2>1, <2>4 DEF SetUpFits
  <2> QED
    BY <2>2, <2>3, <2>4
<1> QED
  BY <1>7, <1>8, <1>9, <1>10, <1>11, <1>12, <1>13, <1>14 DEF IInv

(* What a step of a test leaves of its call. *)

LEMMA SetUpOverIs ==
    ASSUME IsCall(outer), outer' = SetUpOver
    PROVE  /\ IsCall(outer') /\ outer'.name = outer.name /\ outer'.kind = outer.kind
           /\ outer'.status = outer.status /\ outer'.mustFail = outer.mustFail
           /\ outer'.pc = "body" /\ outer'.skipped = outer.skipped
           /\ outer'.panic = outer.panic
  BY DEF SetUpOver, IsCall

LEMMA AgainIs ==
    ASSUME IsCall(outer), outer' = Again
    PROVE  /\ IsCall(outer') /\ outer'.name = outer.name /\ outer'.kind = outer.kind
           /\ outer'.status = outer.status /\ outer'.mustFail = outer.mustFail
           /\ outer'.pc = "setup" /\ ~outer'.skipped /\ outer'.panic = outer.panic
  BY DEF Again, IsCall

LEMMA TearDownOverIs ==
    ASSUME IsCall(outer), outer' = TearDownOver
    PROVE  /\ IsCall(outer') /\ outer'.name = outer.name /\ outer'.kind = outer.kind
           /\ outer'.status = outer.status /\ outer'.mustFail = outer.mustFail
           /\ outer'.pc = "done" /\ outer'.skipped = outer.skipped
           /\ outer'.panic = outer.panic
  BY DEF TearDownOver, IsCall

LEMMA SetUpPanicsIs ==
    ASSUME IsCall(outer), outer' = SetUpPanics(outer, inner)
    PROVE  /\ IsCall(outer') /\ outer'.name = outer.name /\ outer'.kind = outer.kind
           /\ outer'.status = outer.status /\ outer'.mustFail = outer.mustFail
           /\ outer'.pc = "teardown"
           /\ IF inner.status = "skipped" THEN outer'.panic = "skip" /\ outer'.skipped
              ELSE outer'.panic = "fixture" /\ ~outer'.skipped
<1>1. CASE inner.status = "skipped"
  <2>1. outer' = [outer EXCEPT !.panic = "skip", !.skipped = TRUE, !.pc = "teardown"]
    BY <1>1 DEF SetUpPanics, FixturePanic
  <2> QED
    BY <1>1, <2>1 DEF IsCall
<1>2. CASE inner.status # "skipped"
  <2>1. outer' = [outer EXCEPT !.panic = "fixture", !.skipped = FALSE, !.pc = "teardown"]
    BY <1>2 DEF SetUpPanics, FixturePanic
  <2> QED
    BY <1>2, <2>1 DEF IsCall
<1> QED
  BY <1>1, <1>2

LEMMA TearDownPanicsIs ==
    ASSUME IsCall(outer), outer' = TearDownPanics(outer, inner)
    PROVE  /\ IsCall(outer') /\ outer'.name = outer.name /\ outer'.kind = outer.kind
           /\ outer'.status = outer.status /\ outer'.mustFail = outer.mustFail
           /\ outer'.pc = "done" /\ outer'.skipped = outer.skipped
           /\ outer'.panic = IF inner.status = "skipped" THEN "skip" ELSE "fixture"
  BY DEF TearDownPanics, FixturePanic, IsCall

LEMMA TestSetUpFits ==
    ASSUME IInv, TestSetUp
    PROVE  IInv'
<1>1. /\ outer.pc = "setup"
      /\ UNCHANGED <<suite, runner, doneChan, result, fixtureFailed, trouble, tearDownSkips>>
  BY DEF TestSetUp, RunsFixture
<1>2. Typed /\ IsCall(outer) /\ InnerFits /\ SetUpFits
  BY DEF IInv, Typed, CallsFit
<1>3. outer.name = "Test" /\ OnItsWay(outer)
  BY <1>1, AtTest DEF TestOnly
<1>4. CASE "SetUpTest" \in suite.fixtures
  <2>1. /\ Expects /\ inner' = NewCall("SetUpTest", "fixture", "body", "succeeded")
        /\ outer' = [outer EXCEPT !.pc = "setupWait"] /\ UNCHANGED isSetUp
    BY <1>4 DEF TestSetUp, RunsFixture
  <2> QED
    BY <1>1, <2>1, TestForks DEF Waits
<1>5. CASE "SetUpTest" \notin suite.fixtures
  <2>1. outer' = SetUpOver /\ isSetUp' = TRUE /\ UNCHANGED <<tracker, inner>>
    <3>1. /\ outer' = SetUpOver /\ isSetUp' = ("SetUpTest" = "SetUpTest")
          /\ UNCHANGED <<tracker, inner>>
      BY <1>5 DEF TestSetUp, RunsFixture
    <3>2. ("SetUpTest" = "SetUpTest") = TRUE
      OBVIOUS
    <3> QED
      BY <3>1, <3>2
  <2>2. /\ IsCall(outer') /\ outer'.name = "Test" /\ outer'.kind = outer.kind
        /\ outer'.pc = "body" /\ outer'.skipped = outer.skipped /\ outer'.panic = outer.panic
    BY <1>2, <1>3, <2>1, SetUpOverIs
  <2>3. inner = NoCall
    BY <1>1, <1>2 DEF InnerFits, Waits
  <2>4. SetUpFits'
    BY <1>1, <1>2, <2>1, <2>2 DEF SetUpFits
  <2>5. ~WillReport(outer) /\ trouble \in BOOLEAN
    BY <1>1, <1>2 DEF WillReport, Typed
  <2> QED
    BY <1>1, <1>3, <2>1, <2>2, <2>3, <2>4, <2>5, TestMoves DEF Waits
<1> QED
  BY <1>4, <1>5

LEMMA BetweenRunsFits ==
    ASSUME IInv, BetweenRuns
    PROVE  IInv'
<1>1. /\ outer.pc = "betweenRuns"
      /\ UNCHANGED <<suite, runner, doneChan, result, fixtureFailed, trouble, tearDownSkips>>
  BY DEF BetweenRuns, RunsFixture
<1>2. Typed /\ IsCall(outer) /\ InnerFits /\ SetUpFits
  BY DEF IInv, Typed, CallsFit
<1>3. outer.name = "Test" /\ OnItsWay(outer)
  BY <1>1, AtTest DEF TestOnly
<1>4. CASE "TearDownTest" \in suite.fixtures
  <2>1. /\ Expects /\ inner' = NewCall("TearDownTest", "fixture", "body", "succeeded")
        /\ outer' = [outer EXCEPT !.pc = "betweenWait"] /\ UNCHANGED isSetUp
    BY <1>4 DEF BetweenRuns, RunsFixture
  <2> QED
    BY <1>1, <2>1, TestForks DEF Waits
<1>5. CASE "TearDownTest" \notin suite.fixtures
  <2>1. outer' = Again /\ isSetUp' = FALSE /\ UNCHANGED <<tracker, inner>>
    BY <1>5 DEF BetweenRuns, RunsFixture
  <2>2. /\ IsCall(outer') /\ outer'.name = "Test" /\ outer'.kind = outer.kind
        /\ outer'.pc = "setup" /\ ~outer'.skipped /\ outer'.panic = outer.panic
    BY <1>2, <1>3, <2>1, AgainIs
  <2>3. inner = NoCall
    BY <1>1, <1>2 DEF InnerFits, Waits
  <2>4. SetUpFits'
    BY <1>1, <1>2, <2>1, <2>2 DEF SetUpFits
  <2>5. ~WillReport(outer) /\ trouble \in BOOLEAN
    BY <1>1, <1>2 DEF WillReport, Typed
  <2> QED
    BY <1>1, <1>3, <2>1, <2>2, <2>3, <2>4, <2>5, TestMoves DEF Waits
<1> QED
  BY <1>4, <1>5

\* The call that ends with the TearDownTest, or without, will report the same.
LEMMA SameReport ==
    ASSUME NEW c, NEW d, c.kind = d.kind, c.status = d.status, c.mustFail = d.mustFail,
           c.panic = d.panic, d.pc = "done", WillReport(c)
    PROVE  WillReport(d)
  BY DEF WillReport, FinalStatus, Recovered

LEMMA TestTearDownFits ==
    ASSUME IInv, TestTearDown
    PROVE  IInv'
<1>1. /\ outer.pc = "teardown" /\ ~outer.skipped
      /\ UNCHANGED <<suite, runner, doneChan, result, fixtureFailed, trouble, tearDownSkips>>
  BY DEF TestTearDown, RunsFixture
<1>2. Typed /\ IsCall(outer) /\ InnerFits /\ SetUpFits
  BY DEF IInv, Typed, CallsFit
<1>3. outer.name = "Test" /\ OnItsWay(outer)
  BY <1>1, AtTest DEF TestOnly
<1>4. CASE "TearDownTest" \in suite.fixtures
  <2>1. /\ Expects /\ inner' = NewCall("TearDownTest", "fixture", "body", "succeeded")
        /\ outer' = [outer EXCEPT !.pc = "teardownWait"] /\ UNCHANGED isSetUp
    BY <1>4 DEF TestTearDown, RunsFixture
  <2> QED
    BY <1>1, <2>1, TestForks DEF Waits
<1>5. CASE "TearDownTest" \notin suite.fixtures
  <2>1. outer' = TearDownOver /\ isSetUp' = FALSE /\ UNCHANGED <<tracker, inner>>
    BY <1>5 DEF TestTearDown, RunsFixture
  <2>2. /\ IsCall(outer') /\ outer'.name = "Test" /\ outer'.kind = outer.kind
        /\ outer'.pc = "done" /\ outer'.panic = outer.panic
        /\ outer'.status = outer.status /\ outer'.mustFail = outer.mustFail
    BY <1>2, <1>3, <2>1, TearDownOverIs
  <2>3. inner = NoCall
    BY <1>1, <1>2 DEF InnerFits, Waits
  <2>4. SetUpFits'
    BY <2>1, <2>2 DEF SetUpFits
  <2>5. (WillReport(outer) => WillReport(outer')) /\ trouble \in BOOLEAN
    BY <1>2, <2>2, SameReport DEF Typed
  <2> QED
    BY <1>1, <1>3, <2>1, <2>2, <2>3, <2>4, <2>5, TestMoves DEF Waits
<1> QED
  BY <1>4, <1>5

LEMMA NoTearDownFits ==
    ASSUME IInv, NoTearDown
    PROVE  IInv'
<1>1. /\ outer.pc = "teardown" /\ outer.skipped /\ outer' = [outer EXCEPT !.pc = "done"]
      /\ UNCHANGED <<suite, runner, inner, tracker, doneChan, result, isSetUp, fixtureFailed,
                     trouble, tearDownSkips>>
  BY DEF NoTearDown, suiteHistory
<1>2. Typed /\ IsCall(outer) /\ InnerFits /\ SetUpFits
  BY DEF IInv, Typed, CallsFit
<1>3. outer.name = "Test" /\ OnItsWay(outer)
  BY <1>1, AtTest DEF TestOnly
<1>4. /\ IsCall(outer') /\ outer'.name = "Test" /\ outer'.kind = outer.kind
      /\ outer'.pc = "done" /\ outer'.panic = outer.panic
      /\ outer'.status = outer.status /\ outer'.mustFail = outer.mustFail
  BY <1>1, <1>2, <1>3, TearDownOverIs DEF TearDownOver
<1>5. inner = NoCall
  BY <1>1, <1>2 DEF InnerFits, Waits
<1>6. SetUpFits'
  BY <1>1, <1>2, <1>4 DEF SetUpFits
<1>7. (WillReport(outer) => WillReport(outer')) /\ trouble \in BOOLEAN /\ isSetUp \in BOOLEAN
  BY <1>2, <1>4, SameReport DEF Typed
<1> QED
  BY <1>1, <1>3, <1>4, <1>5, <1>6, <1>7, TestMoves DEF Waits

\* A fixture that has reported, as its test finds it.
LEMMA FixtureIsBack ==
    ASSUME IInv, inner.pc = "signalled"
    PROVE  /\ inner.kind = "fixture" /\ inner.status \in FixtureStatus
           /\ inner.status = "skipped" => inner.panic = "no"
           /\ inner.status = "succeeded" => inner.panic = "no"
<1>1. IsCall(inner) /\ inner.kind = "fixture" /\ FixtureFits(inner)
  BY NoCallFields DEF IInv, Typed, CallsFit, InnerFits
<1> QED
  BY <1>1 DEF IInv, PanicIsSeen, FixtureFits, FixtureStatus

LEMMA TestIsSetUpFits ==
    ASSUME IInv, TestIsSetUp
    PROVE  IInv'
<1>1. /\ outer.pc = "setupWait" /\ inner.pc = "signalled" /\ inner' = NoCall
      /\ outer' = IF inner.status = "succeeded" THEN SetUpOver ELSE SetUpPanics(outer, inner)
      /\ UNCHANGED <<suite, runner, tracker, doneChan, result, isSetUp, fixtureFailed, trouble,
                     tearDownSkips>>
  BY DEF TestIsSetUp, AfterFixture, suiteHistory
<1>2. Typed /\ IsCall(outer) /\ SetUpFits /\ isSetUp \in BOOLEAN
  BY DEF IInv, Typed
<1>3. outer.name = "Test" /\ OnItsWay(outer)
  BY <1>1, AtTest DEF TestOnly
<1>4. ~WillReport(outer) /\ trouble \in BOOLEAN
  BY <1>1, <1>2 DEF WillReport, Typed
<1>5. CASE inner.status = "succeeded"
  <2>1. /\ IsCall(outer') /\ outer'.name = "Test" /\ outer'.kind = outer.kind
        /\ outer'.pc = "body" /\ outer'.skipped = outer.skipped /\ outer'.panic = outer.panic
    BY <1>1, <1>2, <1>3, <1>5, SetUpOverIs
  <2>2. SetUpFits'
    BY <1>1, <1>2, <1>3, <1>5, <2>1 DEF SetUpFits
  <2> QED
    BY <1>1, <1>2, <1>3, <1>4, <2>1, <2>2, TestMoves DEF Waits
<1>6. CASE inner.status # "succeeded"
  <2>1. /\ IsCall(outer') /\ outer'.name = "Test" /\ outer'.kind = outer.kind
        /\ outer'.pc = "teardown"
        /\ IF inner.status = "skipped" THEN outer'.panic = "skip" /\ outer'.skipped
           ELSE outer'.panic = "fixture" /\ ~outer'.skipped
    BY <1>1, <1>2, <1>3, <1>6, SetUpPanicsIs
  <2>2. SetUpFits'
    <3>1. inner.status = "skipped" => ~isSetUp
      BY <1>1, <1>2, FixtureIsBack DEF SetUpFits
    <3> QED
      BY <1>1, <1>2, <1>3, <2>1, <3>1 DEF SetUpFits
  <2> QED
    BY <1>1, <1>2, <1>3, <1>4, <2>1, <2>2, TestMoves DEF Waits
<1> QED
  BY <1>5, <1>6

LEMMA RunsAgainFits ==
    ASSUME IInv, RunsAgain
    PROVE  IInv'
<1>1. /\ outer.pc = "betweenWait" /\ inner.pc = "signalled" /\ inner' = NoCall
      /\ outer' = IF inner.status = "succeeded" THEN Again ELSE TearDownPanics(outer, inner)
      /\ UNCHANGED <<suite, runner, tracker, doneChan, result, isSetUp, fixtureFailed, trouble,
                     tearDownSkips>>
  BY DEF RunsAgain, AfterFixture, suiteHistory
<1>2. Typed /\ IsCall(outer) /\ SetUpFits /\ isSetUp \in BOOLEAN
  BY DEF IInv, Typed
<1>3. outer.name = "Test" /\ OnItsWay(outer)
  BY <1>1, AtTest DEF TestOnly
<1>4. ~WillReport(outer) /\ trouble \in BOOLEAN /\ ~isSetUp
  BY <1>1, <1>2 DEF WillReport, Typed, SetUpFits
<1>5. CASE inner.status = "succeeded"
  <2>1. /\ IsCall(outer') /\ outer'.name = "Test" /\ outer'.kind = outer.kind
        /\ outer'.pc = "setup" /\ ~outer'.skipped /\ outer'.panic = outer.panic
    BY <1>1, <1>2, <1>3, <1>5, AgainIs
  <2>2. SetUpFits'
    BY <1>1, <1>2, <1>3, <1>4, <2>1 DEF SetUpFits
  <2> QED
    BY <1>1, <1>2, <1>3, <1>4, <2>1, <2>2, TestMoves DEF Waits
<1>6. CASE inner.status # "succeeded"
  <2>1. /\ IsCall(outer') /\ outer'.name = "Test" /\ outer'.kind = outer.kind
        /\ outer'.pc = "done"
    BY <1>1, <1>2, <1>3, <1>6, TearDownPanicsIs
  <2>2. SetUpFits'
    BY <1>1, <1>3, <1>4, <2>1 DEF SetUpFits
  <2> QED
    BY <1>1, <1>2, <1>3, <1>4, <2>1, <2>2, TestMoves DEF Waits
<1> QED
  BY <1>5, <1>6

LEMMA TestIsTornDownFits ==
    ASSUME IInv, TestIsTornDown
    PROVE  IInv'
<1>1. /\ outer.pc = "teardownWait" /\ inner.pc = "signalled" /\ inner' = NoCall
      /\ outer' = IF inner.status = "succeeded" THEN TearDownOver
                  ELSE TearDownPanics(outer, inner)
      /\ UNCHANGED <<suite, runner, tracker, doneChan, result, isSetUp, fixtureFailed, trouble,
                     tearDownSkips>>
  BY DEF TestIsTornDown, AfterFixture, suiteHistory
<1>2. Typed /\ IsCall(outer) /\ SetUpFits /\ InnerFits /\ SkipIsKept /\ isSetUp \in BOOLEAN
  BY DEF IInv, Typed, CallsFit
<1>3. outer.name = "Test" /\ OnItsWay(outer) /\ outer.kind = "test"
  BY <1>1, AtTest DEF TestOnly
<1>4. trouble \in BOOLEAN /\ ~isSetUp
  BY <1>1, <1>2 DEF Typed, SetUpFits
<1>5. CASE inner.status = "succeeded"
  <2>1. /\ IsCall(outer') /\ outer'.name = "Test" /\ outer'.kind = outer.kind
        /\ outer'.pc = "done" /\ outer'.panic = outer.panic
        /\ outer'.status = outer.status /\ outer'.mustFail = outer.mustFail
    BY <1>1, <1>2, <1>3, <1>5, TearDownOverIs
  <2>2. SetUpFits'
    BY <1>1, <1>3, <1>4, <2>1 DEF SetUpFits
  <2>3. WillReport(outer) => WillReport(outer')
    BY <2>1, SameReport
  <2> QED
    BY <1>1, <1>2, <1>3, <1>4, <2>1, <2>2, <2>3, TestMoves DEF Waits
<1>6. CASE inner.status # "succeeded"
  <2>1. /\ IsCall(outer') /\ outer'.name = "Test" /\ outer'.kind = outer.kind
        /\ outer'.pc = "done"
        /\ outer'.panic = IF inner.status = "skipped" THEN "skip" ELSE "fixture"
    BY <1>1, <1>2, <1>3, <1>6, TearDownPanicsIs
  <2>2. SetUpFits'
    BY <1>1, <1>3, <1>4, <2>1 DEF SetUpFits
  <2>3. ~tearDownSkips => WillReport(outer')
    <3> SUFFICES ASSUME ~tearDownSkips PROVE WillReport(outer')
      OBVIOUS
    <3>1. inner.name = "TearDownTest"
      BY <1>1, <1>2, NoCallFields DEF InnerFits
    <3>2. inner.status # "skipped"
      BY <1>1, <1>2, <3>1, FixtureIsBack DEF SkipIsKept
    <3>3. FinalStatus(outer') = "fixturePanicked"
      BY <2>1, <3>2 DEF FinalStatus, Recovered
    <3> QED
      BY <1>3, <2>1, <3>3, BadCall
  <2> QED
    BY <1>1, <1>2, <1>3, <1>4, <2>1, <2>2, <2>3, TestMoves DEF Waits
<1> QED
  BY <1>5, <1>6

LEMMA TestBodyFits ==
    ASSUME IInv, TestBody
    PROVE  IInv'
<1>1. /\ outer.name = "Test" /\ outer.pc = "body"
      /\ UNCHANGED <<suite, runner, inner, tracker, doneChan, result, isSetUp, fixtureFailed,
                     tearDownSkips>>
  BY DEF TestBody
<1>2. Typed /\ IsCall(outer) /\ SetUpFits /\ InnerFits /\ OuterFits
  BY DEF IInv, Typed, CallsFit
<1>3. /\ OnItsWay(outer) /\ outer.kind = "test" /\ inner = NoCall
      /\ isSetUp \in BOOLEAN /\ trouble \in BOOLEAN
      /\ isSetUp /\ outer.panic = "no" /\ ~outer.skipped /\ ~WillReport(outer)
  <2>1. OnItsWay(outer) /\ outer.kind = "test" /\ inner = NoCall /\ ~WillReport(outer)
    BY <1>1, <1>2, NoCallFields
       DEF OnItsWay, OuterFits, InnerFits, WillReport, SuiteFixtures, Waits
  <2>2. isSetUp /\ outer.panic = "no" /\ ~outer.skipped
    BY <1>1, <1>2 DEF SetUpFits
  <2> QED
    BY <1>2, <2>1, <2>2 DEF Typed
<1>4. CASE suite.wrongTest
  <2>1. /\ outer' = [outer EXCEPT !.status = "panicked", !.pc = "teardown"]
        /\ trouble' = TRUE
    BY <1>4 DEF TestBody
  <2>2. /\ IsCall(outer') /\ outer'.name = "Test" /\ outer'.kind = outer.kind
        /\ outer'.pc = "teardown" /\ outer'.status = "panicked"
        /\ outer'.panic = "no" /\ ~outer'.skipped
    BY <1>1, <1>2, <1>3, <2>1 DEF IsCall, CallStatus
  <2>3. FinalStatus(outer') = "panicked"
    BY <2>2 DEF FinalStatus, Recovered
  <2>4. WillReport(outer')
    BY <1>3, <2>2, <2>3, BadCall
  <2>5. SetUpFits'
    BY <1>1, <1>3, <2>2 DEF SetUpFits
  <2> QED
    BY <1>1, <1>3, <2>1, <2>2, <2>4, <2>5, TestMoves DEF Waits
<1>5. ASSUME NEW o \in Outcomes("test"), outer' = After(outer, o, "teardown"),
             trouble' = (trouble \/ IsTrouble(outer'))
      PROVE  IInv'
  <2>1. /\ IsCall(outer') /\ outer'.name = "Test" /\ outer'.kind = outer.kind
        /\ outer'.pc = "teardown" /\ ~outer'.skipped /\ outer'.panic = o.panic
        /\ outer'.status = o.status
    BY <1>1, <1>2, <1>3, <1>5, AfterFields
  <2>2. ASSUME IsTrouble(outer') PROVE WillReport(outer')
    <3>1. o.panic \in {"no", "value"}
      BY TestOutcomeFields
    <3>2. FinalStatus(outer') \in {"failed", "panicked"}
      BY <2>1, <2>2, <3>1 DEF IsTrouble, FinalStatus, Recovered
    <3> QED
      BY <1>3, <2>1, <3>2, BadCall
  <2>3. SetUpFits'
    BY <1>1, <1>3, <2>1 DEF SetUpFits
  <2>4. trouble' \in BOOLEAN /\ (trouble' => trouble \/ WillReport(outer'))
    BY <1>3, <1>5, <2>2
  <2> QED
    BY <1>1, <1>3, <2>1, <2>3, <2>4, TestMoves DEF Waits
<1>6. ASSUME NEW o \in Outcomes("test"), MayRunAgain(o), NEW perOp,
             outer' = [After(outer, o, "betweenRuns") EXCEPT
                         !.n = NextN(outer.n, perOp), !.skipped = TRUE],
             UNCHANGED trouble
      PROVE  IInv'
  <2> DEFINE d == After(outer, o, "betweenRuns")
  <2>1. /\ IsCall(d) /\ d.name = "Test" /\ d.kind = outer.kind
        /\ d.pc = "betweenRuns" /\ d.panic = "no"
    <3>1. o.panic = "no"
      BY <1>6 DEF MayRunAgain
    <3> HIDE DEF d
    <3> QED
      BY <1>1, <1>2, <3>1, AfterFields DEF d
  <2>2. outer' = [d EXCEPT !.n = NextN(outer.n, perOp), !.skipped = TRUE]
    BY <1>6
  <2> HIDE DEF d
  <2>3. /\ IsCall(outer') /\ outer'.name = "Test" /\ outer'.kind = outer.kind
        /\ outer'.pc = "betweenRuns" /\ outer'.panic = "no"
    BY <2>1, <2>2 DEF IsCall
  <2>4. SetUpFits'
    BY <1>1, <1>3, <2>3 DEF SetUpFits
  <2> QED
    BY <1>1, <1>3, <1>6, <2>3, <2>4, TestMoves DEF Waits
<1> QED
  BY <1>4, <1>5, <1>6 DEF TestBody

-----------------------------------------------------------------------------
(* The runner. *)

LEMMA RunnerForks ==
    ASSUME IInv, NEW name \in SuiteFixtures \cup {"Test", "Report"},
           NEW kind \in {"fixture", "test"}, NEW pc \in {"setup", "body", "done"},
           NEW status \in CallStatus,
           outer = NoCall, Expects, outer' = NewCall(name, kind, pc, status),
           UNCHANGED <<suite, runner, inner, doneChan, result, isSetUp, fixtureFailed, trouble,
                       tearDownSkips>>,
           kind = "test" => runner.i <= Tests,
           kind = "fixture" => status \in {"succeeded", "panicked"},
           runner.pc = "args" => kind = "fixture" /\ status = "panicked" /\ pc = "done",
           name = "Test" => pc = "setup",
           OuterFits'
    PROVE  IInv'
<1>1. Typed /\ InnerFits /\ CallsFit /\ IsCall(inner) /\ SetUpFits
  BY DEF IInv, CallsFit, Typed
<1>2. /\ IsCall(outer') /\ outer'.name = name /\ outer'.kind = kind /\ outer'.pc = pc
      /\ outer'.status = status /\ ~outer'.mustFail /\ ~outer'.skipped /\ outer'.panic = "no"
      /\ outer' # NoCall
  <2>1. /\ name \in Fixtures \cup {"Test", "Report", "none"}
        /\ pc \in {"none", "setup", "body", "done"} /\ pc # "none"
    BY DEF Fixtures, SuiteFixtures
  <2> QED
    BY <2>1, NewCallFields, NewCallIsNew
<1>3. inner = NoCall /\ ~isSetUp
  BY <1>1, NoCallFields DEF InnerFits, SetUpFits
<1>4. /\ tracker.running /\ tracker' \in [running : BOOLEAN, waiting : Nat]
      /\ tracker'.running = tracker.running /\ tracker'.waiting = tracker.waiting + 1
      /\ tracker.waiting \in Nat
  <2>1. tracker \in [running : BOOLEAN, waiting : Nat] /\ tracker.waiting + 1 \in Nat
    BY <1>1 DEF Typed
  <2> QED
    BY <2>1, TrackerFields DEF Expects
<1>5. Typed'
  BY <1>1, <1>2, <1>4 DEF Typed, IsCall
<1>6. Progress'
  BY <1>2, <1>4 DEF IInv, Progress
<1>7. CallsFit'
  <2>1. InnerFits'
    BY <1>2, <1>3 DEF InnerFits, Waits
  <2>2. FixtureFits(outer') /\ FixtureFits(inner')
    BY <1>1, <1>2 DEF FixtureFits, FixtureStatus, CallsFit
  <2> QED
    BY <1>1, <2>1, <2>2 DEF CallsFit
<1>8. Expected'
  <2>1. One(OnItsWay(outer)) = 0 /\ One(OnItsWay(outer')) = 1 /\ One(OnItsWay(inner)) = 0
    BY <1>2, <1>3, NoCallFields DEF One, OnItsWay
  <2>2. Len(doneChan) \in Nat
    BY <1>1 DEF Typed
  <2> QED
    BY <1>4, <2>1, <2>2 DEF IInv, Expected
<1>9. Accounted'
  <2>1. /\ One(FailedNow(outer)) = 0 /\ One(FailedNow(outer)') = 0
        /\ One(PassedNow) = 0 /\ One(PassedNow)' = 0
    BY <1>2, NoCallFields DEF One, FailedNow, PassedNow
  <2>2. Counted' = Counted /\ One(FailedNow(inner)') = One(FailedNow(inner))
    BY DEF Counted
  <2> QED
    BY <2>1, <2>2 DEF IInv, Accounted
<1>10. TroubleIsKept'
  <2>1. ~WillReport(outer) /\ SuitePassed' = SuitePassed
    BY NoCallFields DEF WillReport, SuitePassed
  <2>2. runner.pc = "args" => WillReport(outer')
    <3> SUFFICES ASSUME runner.pc = "args" PROVE WillReport(outer')
      OBVIOUS
    <3>1. FinalStatus(outer') = "panicked"
      BY <1>2 DEF FinalStatus, Recovered
    <3>2. /\ ReportOf(outer') \in Report /\ ReportFits(ReportOf(outer'))
          /\ ReportOf(outer').kind = "fixture" /\ ReportOf(outer').status = "panicked"
      <4>1. FixtureFits(outer') /\ kind = "fixture"
        BY <1>2 DEF FixtureFits, FixtureStatus
      <4> QED
        BY <1>2, <3>1, <4>1, ReportOfType
    <3>3. BadReport(ReportOf(outer'))
      BY <3>2, BadFixture
    <3> QED
      BY <1>2, <3>3 DEF WillReport, ReportOf
  <2>3. TroubleIsKept
    BY DEF IInv
  <2> QED
    BY <1>2, <2>1, <2>2, <2>3 DEF TroubleIsKept
<1>11. SkipIsKept' /\ PanicIsSeen'
  BY DEF IInv, SkipIsKept, PanicIsSeen
<1>12. SetUpFits'
  BY <1>2, <1>3 DEF SetUpFits, Waits
<1> QED
  BY <1>5, <1>6, <1>7, <1>8, <1>9, <1>10, <1>11, <1>12 DEF IInv

LEMMA RunnerReturns ==
    ASSUME IInv, NEW pc \in {"setup", "tests", "skip", "skipAll", "teardown", "stop"},
           NEW i \in 1..Tests + 1, NEW status \in CallStatus,
           CallReturns, GoesOn(pc, i, status),
           UNCHANGED <<suite, inner, doneChan, result, isSetUp, fixtureFailed, trouble,
                       tearDownSkips>>,
           i = runner.i + One(outer.kind = "test"),
           pc = "setup" => i = 1,
           pc \in {"teardown", "stop"} => i = Tests + 1
    PROVE  IInv'
<1>1. outer.pc = "signalled" /\ outer' = NoCall /\ UNCHANGED tracker
  BY DEF CallReturns
<1>2. runner' = [pc |-> pc, i |-> i, status |-> status]
  BY DEF GoesOn
<1>3. Typed /\ InnerFits /\ CallsFit /\ OuterFits /\ IsCall(inner) /\ SetUpFits
  BY DEF IInv, CallsFit, Typed
<1>4. inner = NoCall /\ ~isSetUp /\ outer # NoCall
  BY <1>1, <1>3, NoCallFields DEF InnerFits, SetUpFits
<1>5. runner.pc \notin {"start", "returned"}
  BY <1>3, <1>4 DEF OuterFits
<1>6. runner'.pc = pc /\ runner'.i = i /\ runner'.status = status
  BY <1>2
<1>7. Typed'
  BY <1>1, <1>2, <1>3, NoCallFields DEF Typed, IsCall
<1>8. Progress'
  BY <1>1, <1>5, <1>6, NoCallFields DEF IInv, Progress
<1>9. CallsFit'
  <2>1. OuterFits' /\ InnerFits'
    BY <1>1, <1>4, NoCallFields DEF OuterFits, InnerFits, Waits
  <2>2. FixtureFits(outer') /\ FixtureFits(inner')
    BY <1>1, <1>3, NoCallFields DEF FixtureFits, CallsFit
  <2> QED
    BY <1>3, <2>1, <2>2 DEF CallsFit
<1>10. Expected'
  <2>1. One(OnItsWay(outer)) = 0 /\ One(OnItsWay(outer')) = 0
    BY <1>1, NoCallFields DEF One, OnItsWay
  <2> QED
    BY <1>1, <2>1 DEF IInv, Expected
<1>11. Accounted'
  <2>1. /\ One(FailedNow(outer)) = 0 /\ One(FailedNow(outer)') = 0
        /\ One(PassedNow) = One(outer.kind = "test") /\ One(PassedNow)' = 0
        /\ One(outer.kind = "test") \in Nat
    BY <1>1, NoCallFields DEF One, FailedNow, PassedNow
  <2>2. Counted' = Counted /\ One(FailedNow(inner)') = One(FailedNow(inner))
    BY DEF Counted
  <2>3. runner.i \in Nat /\ fixtureFailed \in Nat
    BY <1>3, SuiteAssumption DEF Typed
  <2> QED
    BY <1>6, <2>1, <2>2, <2>3 DEF IInv, Accounted
<1>12. TroubleIsKept'
  <2>1. ~WillReport(outer) /\ SuitePassed' = SuitePassed /\ (WillReport(inner') <=> WillReport(inner))
    BY <1>1 DEF WillReport, SuitePassed
  <2> QED
    BY <1>1, <1>4, <2>1 DEF IInv, TroubleIsKept
<1>13. SkipIsKept' /\ PanicIsSeen'
  BY DEF IInv, SkipIsKept, PanicIsSeen
<1>14. SetUpFits'
  BY <1>1, <1>4, NoCallFields DEF SetUpFits
<1> QED
  BY <1>7, <1>8, <1>9, <1>10, <1>11, <1>12, <1>13, <1>14 DEF IInv

\* The runner goes on while no call is in progress.
LEMMA RunnerMoves ==
    ASSUME IInv, outer = NoCall, UNCHANGED outer,
           NEW pc \in {"args", "setup", "tests", "skip", "skipAll", "teardown", "stop", "returned"},
           GoesOn(pc, runner.i, runner'.status), runner'.status \in CallStatus,
           UNCHANGED <<suite, inner, doneChan, result, isSetUp, fixtureFailed, tearDownSkips>>,
           tracker' \in [running : BOOLEAN, waiting : Nat], tracker'.waiting = tracker.waiting,
           tracker'.running <=> pc # "returned",
           pc = "returned" => tracker.waiting = 0,
           pc \in {"args", "setup"} => runner.i = 1,
           pc \in {"teardown", "stop", "returned"} => runner.i = Tests + 1,
           trouble' \in BOOLEAN,
           IF runner.pc \in {"start", "args"} THEN trouble' => pc = "args" ELSE UNCHANGED trouble
    PROVE  IInv'
<1>1. runner' = [pc |-> pc, i |-> runner.i, status |-> runner'.status]
  BY DEF GoesOn
<1>2. Typed /\ InnerFits /\ CallsFit /\ OuterFits
  BY DEF IInv, CallsFit, Typed
<1>3. runner'.pc = pc /\ runner'.i = runner.i
  BY <1>1
<1>4. Typed'
  <2>1. runner.i \in 1..Tests + 1
    BY <1>2 DEF Typed
  <2> QED
    BY <1>1, <1>2, <2>1 DEF Typed, IsCall
<1>5. Progress'
  BY <1>3, NoCallFields DEF Progress
<1>6. CallsFit'
  BY <1>2 DEF CallsFit, OuterFits, InnerFits
<1>7. Expected'
  BY DEF IInv, Expected
<1>8. Accounted'
  <2>1. Counted' = Counted
    BY DEF Counted
  <2>2. One(PassedNow)' = One(PassedNow)
    BY DEF PassedNow
  <2> QED
    BY <1>3, <2>1, <2>2 DEF IInv, Accounted
<1>9. TroubleIsKept'
  <2>1. SuitePassed' = SuitePassed
    BY DEF SuitePassed
  <2> QED
    BY <1>3, <2>1 DEF IInv, TroubleIsKept
<1>10. SkipIsKept' /\ PanicIsSeen' /\ SetUpFits'
  BY DEF IInv, SkipIsKept, PanicIsSeen, SetUpFits
<1> QED
  BY <1>4, <1>5, <1>6, <1>7, <1>8, <1>9, <1>10 DEF IInv

\* CallReturns: the call that is back is the one that this place of run() forks.
LEMMA CallIsBack ==
    ASSUME IInv, CallReturns
    PROVE  /\ outer.pc = "signalled" /\ outer # NoCall /\ IsCall(outer) /\ OuterFits
           /\ outer.status \in CallStatus /\ outer.kind \in {"fixture", "test"}
           /\ runner.i \in 1..Tests + 1
           /\ outer.kind = "test" => runner.i <= Tests /\ runner.i + 1 \in 1..Tests + 1
<1>1. /\ outer.pc = "signalled" /\ IsCall(outer) /\ OuterFits /\ Progress
      /\ runner.i \in 1..Tests + 1
  BY DEF IInv, Typed, CallsFit, CallReturns
<1>2. outer # NoCall
  BY <1>1, NoCallFields
<1>3. outer.kind = "test" => runner.i <= Tests
  BY <1>1, <1>2 DEF OuterFits, Progress
<1> QED
  BY <1>1, <1>2, <1>3, CallFields, SuiteAssumption

LEMMA StartsSuiteFits ==
    ASSUME IInv, StartsSuite
    PROVE  IInv'
<1>1. /\ runner.pc = "start"
      /\ tracker' = [tracker EXCEPT !.running = TRUE]
      /\ trouble' = (suite.wrong # {})
      /\ GoesOn(IF suite.wrong = {} THEN "setup" ELSE "args", 1, "missed")
      /\ UNCHANGED <<suite, inner, doneChan, result, outer, isSetUp, fixtureFailed,
                     tearDownSkips>>
  BY DEF StartsSuite, RunnerAt
<1>2. Typed /\ Progress /\ OuterFits
  BY DEF IInv, CallsFit
<1>3. outer = NoCall /\ runner.i = 1
  BY <1>1, <1>2 DEF OuterFits, Progress
<1>4. /\ tracker' \in [running : BOOLEAN, waiting : Nat]
      /\ tracker'.running /\ tracker'.waiting = tracker.waiting
  BY <1>1, <1>2 DEF Typed
<1>5. runner'.status = "missed" /\ "missed" \in CallStatus
  BY <1>1 DEF GoesOn, CallStatus
<1>6. trouble' \in BOOLEAN
  BY <1>1
<1>7. CASE suite.wrong = {}
  <2>1. GoesOn("setup", runner.i, runner'.status) /\ ~trouble'
    BY <1>1, <1>3, <1>5, <1>7
  <2> QED
    BY <1>1, <1>3, <1>4, <1>5, <1>6, <2>1, RunnerMoves
<1>8. CASE suite.wrong # {}
  <2>1. GoesOn("args", runner.i, runner'.status)
    BY <1>1, <1>3, <1>5, <1>8
  <2> QED
    BY <1>1, <1>3, <1>4, <1>5, <1>6, <2>1, RunnerMoves
<1> QED
  BY <1>7, <1>8

LEMMA ReportsArgsFits ==
    ASSUME IInv, ReportsArgs
    PROVE  IInv'
<1>1. /\ runner.pc = "args"
      /\ UNCHANGED <<suite, inner, doneChan, result, isSetUp, fixtureFailed, trouble,
                     tearDownSkips>>
  BY DEF ReportsArgs, RunnerAt, suiteHistory
<1>2. ASSUME Forks(NewCall("Report", "fixture", "done", "panicked")), UNCHANGED runner
      PROVE  IInv'
  <2>1. outer = NoCall /\ Expects /\ outer' = NewCall("Report", "fixture", "done", "panicked")
    BY <1>2 DEF Forks
  <2>2. "panicked" \in CallStatus
    BY DEF CallStatus
  <2>3. OuterFits'
    <3>1. /\ outer'.name = "Report" /\ outer'.kind = "fixture" /\ outer'.pc = "done"
          /\ outer'.status = "panicked" /\ ~outer'.mustFail /\ outer'.panic = "no"
      BY <2>1, <2>2, ForkedFields
    <3> QED
      BY <1>1, <1>2, <3>1 DEF OuterFits
  <2> QED
    BY <1>1, <1>2, <2>1, <2>2, <2>3, RunnerForks
<1>3. ASSUME CallReturns, GoesOn("skipAll", 1, "missed")
      PROVE  IInv'
  <2>0. OuterFits /\ outer # NoCall /\ Progress
    BY <1>3, CallIsBack DEF IInv
  <2>1. outer.kind = "fixture" /\ runner.i = 1 /\ 1 \in 1..Tests + 1 /\ "missed" \in CallStatus
    BY <1>1, <2>0, SuiteAssumption DEF OuterFits, Progress, CallStatus
  <2>2. 1 = runner.i + One(outer.kind = "test")
    BY <2>1 DEF One
  <2> QED
    BY <1>1, <1>3, <2>1, <2>2, RunnerReturns
<1> QED
  BY <1>2, <1>3 DEF ReportsArgs

LEMMA SetsUpSuiteFits ==
    ASSUME IInv, SetsUpSuite
    PROVE  IInv'
<1>1. /\ runner.pc = "setup"
      /\ UNCHANGED <<suite, inner, doneChan, result, isSetUp, fixtureFailed, trouble,
                     tearDownSkips>>
  BY DEF SetsUpSuite, RunnerAt, suiteHistory
<1>2. runner.i = 1 /\ 1 \in 1..Tests + 1 /\ {"missed", "skipped", "succeeded"} \subseteq CallStatus
  BY <1>1, SuiteAssumption DEF IInv, Progress, CallStatus
<1>3. ASSUME "SetUpSuite" \in suite.fixtures, UNCHANGED runner,
             Forks(NewCall("SetUpSuite", "fixture", "body", "succeeded"))
      PROVE  IInv'
  <2>1. /\ outer = NoCall /\ Expects
        /\ outer' = NewCall("SetUpSuite", "fixture", "body", "succeeded")
    BY <1>3 DEF Forks
  <2>2. "SetUpSuite" \in SuiteFixtures /\ SuiteFixtures \subseteq Fixtures
    BY DEF SuiteFixtures, Fixtures
  <2>3. OuterFits'
    <3>1. outer'.name = "SetUpSuite" /\ outer'.kind = "fixture" /\ outer'.pc = "body"
      BY <1>2, <2>1, <2>2, NewCallFields
    <3> QED
      BY <1>1, <1>3, <2>2, <3>1 DEF OuterFits
  <2> QED
    BY <1>1, <1>2, <1>3, <2>1, <2>2, <2>3, RunnerForks
<1>4. ASSUME CallReturns, NEW pc \in {"tests", "skip"}, NEW status \in {"missed", "skipped"},
             GoesOn(pc, 1, status)
      PROVE  IInv'
  <2>1. outer.kind = "fixture"
    BY <1>1, <1>4, CallIsBack DEF OuterFits
  <2>2. 1 = runner.i + One(outer.kind = "test")
    BY <1>2, <2>1 DEF One
  <2> QED
    BY <1>1, <1>2, <1>4, <2>2, RunnerReturns
<1>5. ASSUME "SetUpSuite" \notin suite.fixtures, GoesOn("tests", 1, "missed"),
             UNCHANGED <<outer, tracker>>
      PROVE  IInv'
  <2>1. OuterFits /\ Typed /\ Progress
    BY DEF IInv, CallsFit
  <2>2. outer = NoCall
    BY <1>1, <1>5, <2>1 DEF OuterFits
  <2>3. runner'.status = "missed" /\ GoesOn("tests", runner.i, runner'.status)
    BY <1>2, <1>5 DEF GoesOn
  <2>4. tracker' \in [running : BOOLEAN, waiting : Nat] /\ tracker'.running
    BY <1>1, <1>5, <2>1 DEF Typed, Progress
  <2>5. trouble' \in BOOLEAN
    BY <1>1, <2>1 DEF Typed
  <2> QED
    BY <1>1, <1>2, <1>5, <2>2, <2>3, <2>4, <2>5, RunnerMoves
<1>6. CASE "SetUpSuite" \in suite.fixtures
  <2>1. ASSUME CallReturns,
               CASE outer.status = "succeeded" -> GoesOn("tests", 1, "missed")
                 [] outer.status = "skipped"   -> GoesOn("skip", 1, "skipped")
                 [] OTHER                      -> GoesOn("skip", 1, "missed")
        PROVE  IInv'
    BY <1>4, <2>1
  <2> QED
    BY <1>3, <1>6, <2>1 DEF SetsUpSuite
<1> QED
  BY <1>5, <1>6 DEF SetsUpSuite

LEMMA RunsTestsFits ==
    ASSUME IInv, RunsTests
    PROVE  IInv'
<1>1. /\ runner.pc = "tests"
      /\ UNCHANGED <<suite, inner, doneChan, result, isSetUp, fixtureFailed, trouble,
                     tearDownSkips>>
  BY DEF RunsTests, RunnerAt, suiteHistory
<1>2. {"missed", "succeeded"} \subseteq CallStatus
  BY DEF CallStatus
<1>3. ASSUME runner.i <= Tests, UNCHANGED runner,
             Forks(NewCall("Test", "test", "setup", "succeeded"))
      PROVE  IInv'
  <2>1. outer = NoCall /\ Expects /\ outer' = NewCall("Test", "test", "setup", "succeeded")
    BY <1>3 DEF Forks
  <2>2. OuterFits'
    <3>1. outer'.name = "Test" /\ outer'.kind = "test" /\ outer'.pc = "setup"
      BY <1>2, <2>1, ForkedFields
    <3> QED
      BY <1>1, <1>3, <3>1 DEF OuterFits
  <2> QED
    BY <1>1, <1>2, <1>3, <2>1, <2>2, RunnerForks
<1>4. ASSUME CallReturns, NEW pc \in {"tests", "skip"}, GoesOn(pc, runner.i + 1, "missed")
      PROVE  IInv'
  <2>1. outer.kind = "test" /\ runner.i + 1 \in 1..Tests + 1
    BY <1>1, <1>4, CallIsBack DEF OuterFits, SuiteFixtures
  <2>2. runner.i + 1 = runner.i + One(outer.kind = "test")
    BY <2>1 DEF One
  <2> QED
    BY <1>1, <1>2, <1>4, <2>1, <2>2, RunnerReturns
<1>5. ASSUME runner.i > Tests, GoesOn("teardown", runner.i, "missed"),
             UNCHANGED <<outer, tracker>>
      PROVE  IInv'
  <2>1. OuterFits /\ Typed /\ Progress
    BY DEF IInv, CallsFit
  <2>2. runner.i = Tests + 1
    BY <1>5, <2>1, SuiteAssumption DEF Typed
  <2>3. outer = NoCall
    <3>1. ~(runner.i <= Tests)
      BY <2>2, SuiteAssumption
    <3> QED
      BY <1>1, <2>1, <3>1 DEF OuterFits, Progress, SuiteFixtures
  <2>4. runner'.status = "missed" /\ GoesOn("teardown", runner.i, runner'.status)
    BY <1>5 DEF GoesOn
  <2>5. tracker' \in [running : BOOLEAN, waiting : Nat] /\ tracker'.running
    BY <1>1, <1>5, <2>1 DEF Typed, Progress
  <2>6. trouble' \in BOOLEAN
    BY <1>1, <2>1 DEF Typed
  <2> QED
    BY <1>1, <1>2, <1>5, <2>2, <2>3, <2>4, <2>5, <2>6, RunnerMoves
<1>6. ASSUME CallReturns,
             GoesOn(IF SkipsRest(outer) THEN "skip" ELSE "tests", runner.i + 1, "missed")
      PROVE  IInv'
  BY <1>4, <1>6
<1> QED
  BY <1>3, <1>5, <1>6 DEF RunsTests

LEMMA SkipsTestsFits ==
    ASSUME IInv, SkipsTests
    PROVE  IInv'
<1>1. /\ runner.pc \in {"skip", "skipAll"}
      /\ UNCHANGED <<suite, inner, doneChan, result, isSetUp, fixtureFailed, trouble,
                     tearDownSkips>>
  BY DEF SkipsTests, RunnerAt, suiteHistory
<1>2. /\ runner.status \in CallStatus /\ runner.i \in 1..Tests + 1
      /\ OuterFits /\ Typed /\ Progress /\ outer.kind \in {"fixture", "test"}
  BY CallFields DEF IInv, Typed, CallsFit
<1>3. ASSUME runner.i <= Tests, UNCHANGED runner,
             Forks(NewCall("Report", "test", "done", runner.status))
      PROVE  IInv'
  <2>1. outer = NoCall /\ Expects /\ outer' = NewCall("Report", "test", "done", runner.status)
    BY <1>3 DEF Forks
  <2>2. OuterFits'
    <3>1. /\ outer'.name = "Report" /\ outer'.kind = "test" /\ outer'.pc = "done"
          /\ ~outer'.mustFail /\ outer'.panic = "no"
      BY <1>2, <2>1, ForkedFields
    <3> QED
      BY <1>1, <1>3, <3>1 DEF OuterFits
  <2> QED
    BY <1>1, <1>2, <1>3, <2>1, <2>2, RunnerForks
<1>4. ASSUME CallReturns, GoesOn(runner.pc, runner.i + 1, runner.status)
      PROVE  IInv'
  <2>1. outer.kind = "test" /\ runner.i + 1 \in 1..Tests + 1
    BY <1>1, <1>4, CallIsBack DEF OuterFits, SuiteFixtures
  <2>2. runner.i + 1 = runner.i + One(outer.kind = "test")
    BY <2>1 DEF One
  <2> QED
    BY <1>1, <1>2, <1>4, <2>1, <2>2, RunnerReturns
<1>5. ASSUME runner.i > Tests, UNCHANGED <<outer, tracker>>,
             NEW pc \in {"teardown", "stop"}, GoesOn(pc, runner.i, runner.status)
      PROVE  IInv'
  <2>1. runner.i = Tests + 1
    BY <1>2, <1>5, SuiteAssumption
  <2>2. outer = NoCall
    <3>1. ~(runner.i <= Tests)
      BY <2>1, SuiteAssumption
    <3> QED
      BY <1>1, <1>2, <3>1 DEF OuterFits, Progress, SuiteFixtures
  <2>3. runner'.status = runner.status /\ GoesOn(pc, runner.i, runner'.status)
    BY <1>5 DEF GoesOn
  <2>4. tracker' \in [running : BOOLEAN, waiting : Nat] /\ tracker'.running
    BY <1>1, <1>2, <1>5 DEF Typed, Progress
  <2>5. trouble' \in BOOLEAN
    BY <1>1, <1>2 DEF Typed
  <2> QED
    BY <1>1, <1>2, <1>5, <2>1, <2>2, <2>3, <2>4, <2>5, RunnerMoves
<1>6. ASSUME runner.i > Tests, UNCHANGED <<outer, tracker>>,
             GoesOn(IF runner.pc = "skip" THEN "teardown" ELSE "stop", runner.i, runner.status)
      PROVE  IInv'
  BY <1>5, <1>6
<1> QED
  BY <1>3, <1>4, <1>6 DEF SkipsTests

LEMMA TearsDownSuiteFits ==
    ASSUME IInv, TearsDownSuite
    PROVE  IInv'
<1>1. /\ runner.pc = "teardown"
      /\ UNCHANGED <<suite, inner, doneChan, result, isSetUp, fixtureFailed, trouble,
                     tearDownSkips>>
  BY DEF TearsDownSuite, RunnerAt, suiteHistory
<1>2. /\ runner.status \in CallStatus /\ runner.i = Tests + 1 /\ Tests + 1 \in 1..Tests + 1
      /\ OuterFits /\ Typed /\ Progress /\ "succeeded" \in CallStatus
  BY <1>1, SuiteAssumption DEF IInv, Typed, CallsFit, Progress, CallStatus
<1>3. ASSUME "TearDownSuite" \in suite.fixtures, UNCHANGED runner,
             Forks(NewCall("TearDownSuite", "fixture", "body", "succeeded"))
      PROVE  IInv'
  <2>1. /\ outer = NoCall /\ Expects
        /\ outer' = NewCall("TearDownSuite", "fixture", "body", "succeeded")
    BY <1>3 DEF Forks
  <2>2. "TearDownSuite" \in SuiteFixtures /\ SuiteFixtures \subseteq Fixtures
    BY DEF SuiteFixtures, Fixtures
  <2>3. OuterFits'
    <3>1. outer'.name = "TearDownSuite" /\ outer'.kind = "fixture" /\ outer'.pc = "body"
      BY <1>2, <2>1, <2>2, NewCallFields
    <3> QED
      BY <1>1, <1>3, <2>2, <3>1 DEF OuterFits
  <2> QED
    BY <1>1, <1>2, <1>3, <2>1, <2>2, <2>3, RunnerForks
<1>4. ASSUME CallReturns, GoesOn("stop", runner.i, runner.status)
      PROVE  IInv'
  <2>1. outer.kind = "fixture"
    BY <1>1, <1>4, CallIsBack DEF OuterFits
  <2>2. runner.i = runner.i + One(outer.kind = "test")
    BY <1>2, <2>1, SuiteAssumption DEF One
  <2> QED
    BY <1>1, <1>2, <1>4, <2>2, RunnerReturns
<1>5. ASSUME "TearDownSuite" \notin suite.fixtures, GoesOn("stop", runner.i, runner.status),
             UNCHANGED <<outer, tracker>>
      PROVE  IInv'
  <2>1. outer = NoCall
    BY <1>1, <1>2, <1>5 DEF OuterFits, SuiteFixtures
  <2>2. runner'.status = runner.status /\ GoesOn("stop", runner.i, runner'.status)
    BY <1>5 DEF GoesOn
  <2>3. tracker' \in [running : BOOLEAN, waiting : Nat] /\ tracker'.running
    BY <1>1, <1>2, <1>5 DEF Typed, Progress
  <2>4. trouble' \in BOOLEAN
    BY <1>1, <1>2 DEF Typed
  <2> QED
    BY <1>1, <1>2, <1>5, <2>1, <2>2, <2>3, <2>4, RunnerMoves
<1> QED
  BY <1>3, <1>4, <1>5 DEF TearsDownSuite

LEMMA StopsSuiteFits ==
    ASSUME IInv, StopsSuite
    PROVE  IInv'
<1>1. /\ runner.pc = "stop" /\ tracker.waiting = 0
      /\ tracker' = [tracker EXCEPT !.running = FALSE]
      /\ GoesOn("returned", runner.i, runner.status)
      /\ UNCHANGED <<suite, inner, doneChan, result, outer, isSetUp, fixtureFailed, trouble,
                     tearDownSkips>>
  BY DEF StopsSuite, RunnerAt, MayStop, suiteHistory
<1>2. Typed /\ Progress /\ OuterFits
  BY DEF IInv, CallsFit
<1>3. outer = NoCall /\ runner.i = Tests + 1
  BY <1>1, <1>2 DEF OuterFits, Progress
<1>4. /\ tracker' \in [running : BOOLEAN, waiting : Nat]
      /\ ~tracker'.running /\ tracker'.waiting = tracker.waiting
  BY <1>1, <1>2 DEF Typed
<1>5. runner'.status = runner.status /\ GoesOn("returned", runner.i, runner'.status)
  BY <1>1 DEF GoesOn
<1>6. runner'.status \in CallStatus /\ trouble' \in BOOLEAN
  BY <1>1, <1>2, <1>5 DEF Typed
<1> QED
  BY <1>1, <1>3, <1>4, <1>5, <1>6, RunnerMoves

-----------------------------------------------------------------------------
(* The invariant holds, and is what the run's property says. *)

LEMMA StutterFits ==
    ASSUME IInv, UNCHANGED suiteVars
    PROVE  IInv'
<1>1. UNCHANGED <<suite, runner, outer, inner, tracker, doneChan, result, isSetUp,
                  fixtureFailed, trouble, tearDownSkips>>
  BY DEF suiteVars
<1>2. Typed' /\ Progress' /\ CallsFit'
  BY <1>1 DEF IInv, Typed, Progress, CallsFit, OuterFits, InnerFits, IsCall
<1>3. Expected' /\ Accounted'
  BY <1>1 DEF IInv, Expected, Accounted, Counted, PassedNow
<1>4. TroubleIsKept' /\ SkipIsKept' /\ SetUpFits' /\ PanicIsSeen'
  BY <1>1 DEF IInv, TroubleIsKept, SkipIsKept, SetUpFits, PanicIsSeen, SuitePassed
<1> QED
  BY <1>2, <1>3, <1>4 DEF IInv

LEMMA NextFits ==
    ASSUME IInv, [SuiteNext]_suiteVars
    PROVE  IInv'
<1>1. CASE RunnerStep
  BY <1>1, StartsSuiteFits, ReportsArgsFits, SetsUpSuiteFits, RunsTestsFits, SkipsTestsFits,
     TearsDownSuiteFits, StopsSuiteFits DEF RunnerStep
<1>2. CASE TestSteps
  BY <1>2, TestSetUpFits, TestIsSetUpFits, TestBodyFits, BetweenRunsFits, RunsAgainFits,
     NoTearDownFits, TestTearDownFits, TestIsTornDownFits DEF TestSteps
<1>3. CASE SuiteFixture \/ TestFixture \/ OuterDone \/ InnerDone
  BY <1>3, SuiteFixtureFits, TestFixtureFits, OuterDoneFits, InnerDoneFits
<1>4. CASE TrackerCounts
  BY <1>4, TrackerCountsFits
<1>5. CASE UNCHANGED suiteVars
  BY <1>5, StutterFits
<1> QED
  BY <1>1, <1>2, <1>3, <1>4, <1>5 DEF SuiteNext, SuiteStep, CallStep

\* Once nothing is expected, nothing is on its way.
LEMMA NothingOnItsWay ==
    ASSUME IInv, tracker.waiting = 0
    PROVE  doneChan = <<>> /\ ~OnItsWay(outer) /\ ~OnItsWay(inner)
<1>1. Len(doneChan) \in Nat /\ doneChan \in Seq(Report)
  BY DEF IInv, Typed
<1>2. One(OnItsWay(outer)) \in {0, 1} /\ One(OnItsWay(inner)) \in {0, 1}
  BY DEF One
<1>3. Len(doneChan) = 0 /\ One(OnItsWay(outer)) = 0 /\ One(OnItsWay(inner)) = 0
  BY <1>1, <1>2 DEF IInv, Expected
<1>4. ~OnItsWay(outer) /\ ~OnItsWay(inner)
  BY <1>3 DEF One
<1> QED
  BY <1>1, <1>3, <1>4

LEMMA IInvReports == IInv => RunIsReported
<1> SUFFICES ASSUME IInv PROVE RunIsReported
  OBVIOUS
<1>1. Typed /\ Progress /\ OuterFits /\ InnerFits /\ SetUpFits
  BY DEF IInv, CallsFit
<1>2. ASSUME SuiteOver
      PROVE  outer = NoCall /\ inner = NoCall /\ doneChan = <<>> /\ runner.i = Tests + 1
  <2>1. tracker.waiting = 0 /\ runner.i = Tests + 1 /\ outer = NoCall
    BY <1>1, <1>2 DEF SuiteOver, Progress, OuterFits
  <2>2. inner = NoCall
    BY <1>1, <2>1, NoCallFields DEF InnerFits
  <2> QED
    BY <2>1, <2>2, NothingOnItsWay
<1>3. EveryTestIsCounted
  <2> SUFFICES ASSUME SuiteOver PROVE Counted = Tests + fixtureFailed
    BY <1>2 DEF EveryTestIsCounted
  <2>1. Cardinality(Places(doneChan)) = 0
    BY <1>2, EmptyPlaces
  <2>2. One(FailedNow(outer)) = 0 /\ One(FailedNow(inner)) = 0 /\ One(PassedNow) = 0
    BY <1>2, NoCallFields DEF One, FailedNow, PassedNow
  <2>3. Counted \in Nat /\ fixtureFailed \in Nat /\ runner.i = Tests + 1
    <3>1. \A k \in Counters : result[k] \in Nat
      BY <1>1 DEF Typed
    <3> QED
      BY <1>1, <1>2, <3>1 DEF Typed, Counted, Counters
  <2> QED
    BY <2>1, <2>2, <2>3, SuiteAssumption DEF IInv, Accounted
<1>4. NoUnexpectedDone
  <2>1. Len(doneChan) \in Nat
    BY <1>1 DEF Typed
  <2>2. One(OnItsWay(outer)) \in {0, 1} /\ One(OnItsWay(inner)) \in {0, 1}
    BY DEF One
  <2> QED
    BY <2>1, <2>2 DEF IInv, Expected, NoUnexpectedDone
<1>5. TroubleIsReported
  <2> SUFFICES ASSUME SuiteOver, trouble, ~tearDownSkips PROVE ~SuitePassed
    BY DEF TroubleIsReported
  <2>1. ~WillReport(outer) /\ ~WillReport(inner) /\ runner.pc # "args" /\ Len(doneChan) = 0
    BY <1>2, NoCallFields DEF WillReport, SuiteOver
  <2> QED
    BY <2>1 DEF IInv, TroubleIsKept
<1>6. FixturesArePaired
  <2>1. ASSUME inner.name = "SetUpTest", inner.pc = "body" PROVE ~isSetUp
    BY <1>1, <2>1, NoCallFields DEF InnerFits, SetUpFits
  <2>2. ASSUME inner.name = "TearDownTest", inner.pc = "body"
        PROVE  isSetUp \/ outer.panic = "fixture"
    BY <1>1, <2>2, NoCallFields DEF InnerFits, SetUpFits
  <2>3. outer.name = "Test" /\ outer.pc = "body" => isSetUp
    BY <1>1 DEF SetUpFits
  <2>4. SuiteOver => ~isSetUp
    BY <1>1, <1>2, NoCallFields DEF SetUpFits
  <2> QED
    BY <2>1, <2>2, <2>3, <2>4 DEF FixturesArePaired
<1> QED
  BY <1>3, <1>4, <1>5, <1>6 DEF RunIsReported

\* Where each goroutine is, what it may report, and the types of all but a
\* benchmark's n hold all the time.
THEOREM SuiteInvariant == SuiteSpec => []IInv
<1>1. IInv /\ [SuiteNext]_suiteVars => IInv'
  BY NextFits
<1> QED
  BY <1>1, SuiteInitFits, PTL DEF SuiteSpec

\* run() of suiteRunner: when it returns every test was counted exactly once and
\* no goroutine is left; the tracker never gets a done call that it does not
\* expect; what failed or panicked is not lost; SetUpTest and TearDownTest
\* alternate, in a benchmark's loop too.
THEOREM RunTellsTheTruth == SuiteSpec => []RunIsReported
  BY SuiteInvariant, IInvReports, PTL
=============================================================================
