---------------------------- MODULE SuiteRunner ----------------------------
(***************************************************************************)
(* gocheck's suiteRunner: one suite is run by the runner, by a goroutine   *)
(* for the call in progress (a test, a suite fixture, or a test that is    *)
(* only reported), by a second one for the test fixture which that call    *)
(* waits for, and by the tracker, which counts the results and is behind.  *)
(***************************************************************************)
EXTENDS Naturals, Sequences, SequencesExt, FiniteSets

CONSTANTS
    Tests,     \* how many tests the suite has
    BenchTime, \* whether a benchmark run may last its benchTime (else it never does)
    MaxN,      \* the n that ends a benchmark, 10^9 in the code
    DoneCap    \* the capacity of _doneChan, 32

ASSUME SuiteAssumption ==
    /\ Tests \in Nat \ {0} /\ DoneCap \in Nat \ {0}
    /\ BenchTime \in BOOLEAN /\ MaxN \in Nat

VARIABLES
    suite,    \* the suite: its fixtures, which methods have a wrong argument
    runner,   \* where run() is: pc, the next test, the status skipTests gives
    outer,    \* the call the runner waits for
    inner,    \* the fixture call that a test waits for
    tracker,  \* whether the tracker's loop runs, and _waiting
    doneChan, \* _doneChan
    result,   \* the counters of Result
    \* History:
    isSetUp,  \* SetUpTest was run, and not skipped, since the last TearDownTest
    fixtureFailed, \* how many fixtures called Fail
    trouble,  \* some method failed or panicked against its author's expectation
    tearDownSkips \* some TearDownTest called Skip

suiteVars == <<suite, runner, outer, inner, tracker, doneChan, result,
               isSetUp, fixtureFailed, trouble, tearDownSkips>>

Fixtures == {"SetUpSuite", "TearDownSuite", "SetUpTest", "TearDownTest"}
CallStatus == {"succeeded", "failed", "skipped", "panicked", "fixturePanicked", "missed"}
Counters == {"Succeeded", "Failed", "Skipped", "Panicked", "FixturePanicked",
             "ExpectedFailures", "Missed"}

\* A C: name is the method ("Test" for a test, "Report" for a call that only
\* sets a status), panic what is on its way to callDone's recover.
CallRecord == [name : Fixtures \cup {"Test", "Report", "none"}, kind : {"fixture", "test"},
         pc : {"none", "setup", "setupWait", "body", "betweenRuns", "betweenWait",
               "teardown", "teardownWait", "done", "signalled"},
         status : CallStatus, mustFail : BOOLEAN, skipped : BOOLEAN, n : Nat,
         panic : {"no", "value", "fixture", "skip"}]
NewCall(name, kind, pc, status) ==
    [name |-> name, kind |-> kind, pc |-> pc, status |-> status, mustFail |-> FALSE,
     skipped |-> FALSE, n |-> 1, panic |-> "no"]
NoCall == NewCall("none", "test", "none", "succeeded")

\* What newSuiteRunner finds: at most one method has a wrong argument.
Suites == [fixtures : SUBSET Fixtures, bench : BOOLEAN,
           wrong : {{}} \cup {{f} : f \in Fixtures}, wrongTest : BOOLEAN]

SuiteInit ==
    /\ suite \in {s \in Suites : s.wrong \subseteq s.fixtures /\ (s.wrongTest => s.wrong = {})}
    /\ runner = [pc |-> "start", i |-> 1, status |-> "missed"]
    /\ outer = NoCall /\ inner = NoCall
    /\ tracker = [running |-> FALSE, waiting |-> 0]
    /\ doneChan = <<>>
    /\ result = [k \in Counters |-> 0]
    /\ isSetUp = FALSE /\ fixtureFailed = 0 /\ trouble = FALSE /\ tearDownSkips = FALSE

suiteHistory == <<isSetUp, fixtureFailed, trouble, tearDownSkips>>

-----------------------------------------------------------------------------
(* Mistakes the code does not make; each must break a property. *)

BugCountsMissed(c) == IF c.status = "missed" THEN {} ELSE {"Succeeded"}
BugExpectsNothing == tracker.running /\ UNCHANGED tracker
BugTearsDownSkipped(c, f) == [c EXCEPT !.panic = "skip", !.skipped = FALSE, !.pc = "teardown"]
BugSameN(n, perOp) == n

-----------------------------------------------------------------------------
(* The tracker. *)

\* expectCall: the tracker's loop always listens to it.
Expects == tracker.running /\ tracker' = [tracker EXCEPT !.waiting = @ + 1]

\* The counters that a finished call adds to.
CountedAs(c) ==
    CASE c.status = "succeeded" ->
           IF c.kind = "fixture" THEN {}
           ELSE IF c.mustFail THEN {"ExpectedFailures"} ELSE {"Succeeded"}
      [] c.status = "failed" -> {"Failed"}
      [] c.status = "panicked" ->
           IF c.kind = "fixture" THEN {"FixturePanicked"} ELSE {"Panicked"}
      [] c.status = "skipped" -> IF c.kind = "test" THEN {"Skipped"} ELSE {}
      [] c.status \in {"fixturePanicked", "missed"} -> {"Missed"}

\* A done call while none is expected would panic instead.
TrackerCounts ==
    /\ tracker.running /\ tracker.waiting > 0
    /\ doneChan # <<>>
    /\ tracker' = [tracker EXCEPT !.waiting = @ - 1]
    /\ doneChan' = Tail(doneChan)
    /\ result' = [k \in Counters |->
                    IF k \in CountedAs(Head(doneChan)) THEN result[k] + 1 ELSE result[k]]
    /\ UNCHANGED <<suite, runner, outer, inner, suiteHistory>>

MayStop == tracker.waiting = 0

-----------------------------------------------------------------------------
(* A call's goroutine; it is in slot outer or inner. *)

\* callDone: what recover finds decides the status, then mustFail inverts it.
Recovered(c) ==
    CASE c.panic = "skip"    -> "skipped"
      [] c.panic = "fixture" -> "fixturePanicked"
      [] c.panic = "value"   -> "panicked"
      [] OTHER               -> c.status

\* (Another mistake: a panic for an expected failure.)
BugInvertsAll(c) ==
    IF ~c.mustFail THEN Recovered(c)
    ELSE IF Recovered(c) = "succeeded" THEN "failed" ELSE "succeeded"

FinalStatus(c) ==
    LET s == Recovered(c)
    IN IF ~c.mustFail THEN s
       ELSE IF s = "failed" THEN "succeeded"
       ELSE IF s = "succeeded" THEN "failed" ELSE s

\* reportCallDone and c.done <- c; the tracker looks at three fields of c.
CallFinished(c) == [c EXCEPT !.status = FinalStatus(c), !.pc = "signalled"]
CallReported(c) ==
    /\ Len(doneChan) < DoneCap
    /\ doneChan' = Append(doneChan, [kind |-> c.kind, status |-> FinalStatus(c),
                                     mustFail |-> c.mustFail])

OuterDone ==
    /\ outer.pc = "done"
    /\ outer' = CallFinished(outer)
    /\ CallReported(outer)
    /\ UNCHANGED <<suite, runner, inner, tracker, result, suiteHistory>>

InnerDone ==
    /\ inner.pc = "done"
    /\ inner' = CallFinished(inner)
    /\ CallReported(inner)
    /\ UNCHANGED <<suite, runner, outer, tracker, result, suiteHistory>>

\* What a method may do: return with a status, skip, or panic.
Outcomes(kind) ==
    [status : {"succeeded", "failed"}, mustFail : IF kind = "test" THEN BOOLEAN ELSE {FALSE},
     panic : {"no"}]
    \cup {[status |-> "skipped", mustFail |-> FALSE, panic |-> "no"],
          [status |-> "succeeded", mustFail |-> FALSE, panic |-> "value"]}
After(c, o, pc) ==
    [c EXCEPT !.status = o.status, !.mustFail = @ \/ o.mustFail, !.panic = o.panic, !.pc = pc]
IsTrouble(c) ==
    c.panic = "value" \/ c.status = (IF c.mustFail THEN "succeeded" ELSE "failed")

FixtureHistory(c, o) ==
    /\ fixtureFailed' = IF o.status = "failed" THEN fixtureFailed + 1 ELSE fixtureFailed
    /\ trouble' = (trouble \/ IsTrouble(After(c, o, "done")))
    /\ tearDownSkips' = (tearDownSkips \/ (c.name = "TearDownTest" /\ o.status = "skipped"))
    /\ isSetUp' = CASE c.name = "SetUpTest"    -> o.status # "skipped"
                    [] c.name = "TearDownTest" -> FALSE
                    [] OTHER                   -> isSetUp

\* The method of a suite fixture, or of a test fixture.
SuiteFixture ==
    /\ outer.name \in Fixtures /\ outer.pc = "body"
    /\ \E o \in Outcomes("fixture") :
          outer' = After(outer, o, "done") /\ FixtureHistory(outer, o)
    /\ UNCHANGED <<suite, runner, inner, tracker, doneChan, result>>

TestFixture ==
    /\ inner.pc = "body"
    /\ \E o \in Outcomes("fixture") :
          inner' = After(inner, o, "done") /\ FixtureHistory(inner, o)
    /\ UNCHANGED <<suite, runner, outer, tracker, doneChan, result>>

\* runFixtureWithPanic: run the fixture, or go on if there is none.
RunsFixture(f, at, wait, ok) ==
    /\ outer.pc = at
    /\ IF f \in suite.fixtures
       THEN /\ Expects
            /\ inner' = NewCall(f, "fixture", "body", "succeeded")
            /\ outer' = [outer EXCEPT !.pc = wait]
            /\ UNCHANGED isSetUp
       ELSE /\ outer' = ok
            /\ isSetUp' = (f = "SetUpTest")
            /\ UNCHANGED <<tracker, inner>>
    /\ UNCHANGED <<suite, runner, doneChan, result, fixtureFailed, trouble, tearDownSkips>>

FixturePanic(f) == IF f.status = "skipped" THEN "skip" ELSE "fixture"

\* The panic of SetUpTest's caller runs the deferred TearDownTest.
SetUpPanics(c, f) ==
    [c EXCEPT !.panic = FixturePanic(f), !.skipped = (f.status = "skipped"), !.pc = "teardown"]
TearDownPanics(c, f) == [c EXCEPT !.panic = FixturePanic(f), !.pc = "done"]

\* The test goes on when its fixture is done.
AfterFixture(wait, ok, panicked) ==
    /\ outer.pc = wait
    /\ inner.pc = "signalled"
    /\ inner' = NoCall
    /\ outer' = IF inner.status = "succeeded" THEN ok ELSE panicked
    /\ UNCHANGED <<suite, runner, tracker, doneChan, result, suiteHistory>>

SetUpOver == [outer EXCEPT !.pc = "body"]
TestSetUp == RunsFixture("SetUpTest", "setup", "setupWait", SetUpOver)
TestIsSetUp == AfterFixture("setupWait", SetUpOver, SetUpPanics(outer, inner))

\* benchmark.go: round up to 1, 2 or 5 times a power of 10.
RoundDown10(n) == 10^Cardinality({k \in 0..9 : n \div 10^k > 10})
RoundUp(n) == LET base == RoundDown10(n)
              IN IF n < 2 * base THEN 2 * base ELSE IF n < 5 * base THEN 5 * base ELSE 10 * base
Least(x, y) == IF x < y THEN x ELSE y
Most(x, y) == IF x < y THEN y ELSE x

\* (From 10^8 on 100 * n is beyond perOp, which is at most 10^9.)
NextN(n, perOp) ==
    LET few == perOp + perOp \div 2
    IN RoundUp(Most(IF n < 10000000 THEN Least(few, 100 * n) ELSE few, n + 1))

\* perOpN: the runs that fit into benchTime, 10^9 if the last one took no time.
\* The last n did fit, or the benchmark would be over.
PerOp(n) == {n, 1000000000}

\* Whether a benchmark may run once more, or may end, after an outcome.
MayRunAgain(o) ==
    suite.bench /\ o.status = "succeeded" /\ o.panic = "no" /\ outer.n < MaxN
MayEnd(o) == MayRunAgain(o) => BenchTime

\* The test method, and for a benchmark the decision to run it again.
TestBody ==
    /\ outer.name = "Test" /\ outer.pc = "body"
    /\ IF suite.wrongTest
       THEN /\ outer' = [outer EXCEPT !.status = "panicked", !.pc = "teardown"]
            /\ trouble' = TRUE
       ELSE \E o \in Outcomes("test") :
               \/ /\ MayEnd(o)
                  /\ outer' = After(outer, o, "teardown")
                  /\ trouble' = (trouble \/ IsTrouble(outer'))
               \/ /\ MayRunAgain(o)
                  /\ \E perOp \in PerOp(outer.n) :
                        outer' = [After(outer, o, "betweenRuns") EXCEPT
                                    !.n = NextN(outer.n, perOp), !.skipped = TRUE]
                  /\ UNCHANGED trouble
    /\ UNCHANGED <<suite, runner, inner, tracker, doneChan, result,
                   isSetUp, fixtureFailed, tearDownSkips>>

Again == [outer EXCEPT !.pc = "setup", !.skipped = FALSE]
BetweenRuns == RunsFixture("TearDownTest", "betweenRuns", "betweenWait", Again)
RunsAgain == AfterFixture("betweenWait", Again, TearDownPanics(outer, inner))

\* The deferred TearDownTest.
NoTearDown ==
    /\ outer.pc = "teardown" /\ outer.skipped
    /\ outer' = [outer EXCEPT !.pc = "done"]
    /\ UNCHANGED <<suite, runner, inner, tracker, doneChan, result, suiteHistory>>
TearDownOver == [outer EXCEPT !.pc = "done"]
TestTearDown ==
    ~outer.skipped /\ RunsFixture("TearDownTest", "teardown", "teardownWait", TearDownOver)
TestIsTornDown == AfterFixture("teardownWait", TearDownOver, TearDownPanics(outer, inner))

TestSteps ==
    \/ TestSetUp \/ TestIsSetUp \/ TestBody \/ BetweenRuns \/ RunsAgain
    \/ NoTearDown \/ TestTearDown \/ TestIsTornDown

-----------------------------------------------------------------------------
(* The runner. *)

Forks(call) == outer = NoCall /\ Expects /\ outer' = call
CallReturns == outer.pc = "signalled" /\ outer' = NoCall /\ UNCHANGED tracker
GoesOn(pc, i, status) == runner' = [pc |-> pc, i |-> i, status |-> status]
RunnerAt(pc) == runner.pc = pc /\ UNCHANGED <<suite, inner, doneChan, result>>

StartsSuite ==
    /\ RunnerAt("start")
    /\ tracker' = [tracker EXCEPT !.running = TRUE]
    /\ trouble' = (suite.wrong # {})
    /\ GoesOn(IF suite.wrong = {} THEN "setup" ELSE "args", 1, "missed")
    /\ UNCHANGED <<outer, isSetUp, fixtureFailed, tearDownSkips>>

\* checkFixtureArgs reports the fixture that has a wrong argument.
ReportsArgs ==
    /\ RunnerAt("args")
    /\ \/ Forks(NewCall("Report", "fixture", "done", "panicked")) /\ UNCHANGED runner
       \/ CallReturns /\ GoesOn("skipAll", 1, "missed")
    /\ UNCHANGED suiteHistory

\* SetUpSuite, if there is one, and what its status means for the tests.
SetsUpSuite ==
    /\ RunnerAt("setup")
    /\ IF "SetUpSuite" \in suite.fixtures
       THEN \/ /\ Forks(NewCall("SetUpSuite", "fixture", "body", "succeeded"))
               /\ UNCHANGED runner
            \/ /\ CallReturns
               /\ CASE outer.status = "succeeded" -> GoesOn("tests", 1, "missed")
                    [] outer.status = "skipped"   -> GoesOn("skip", 1, "skipped")
                    [] OTHER                      -> GoesOn("skip", 1, "missed")
       ELSE GoesOn("tests", 1, "missed") /\ UNCHANGED <<outer, tracker>>
    /\ UNCHANGED suiteHistory

\* A panic in a test's fixture makes the runner give up the rest.
SkipsRest(c) == c.status = "fixturePanicked"

RunsTests ==
    /\ RunnerAt("tests")
    /\ \/ /\ runner.i <= Tests
          /\ \/ Forks(NewCall("Test", "test", "setup", "succeeded")) /\ UNCHANGED runner
             \/ /\ CallReturns
                /\ GoesOn(IF SkipsRest(outer) THEN "skip" ELSE "tests", runner.i + 1, "missed")
       \/ /\ runner.i > Tests
          /\ GoesOn("teardown", runner.i, "missed")
          /\ UNCHANGED <<outer, tracker>>
    /\ UNCHANGED suiteHistory

\* skipTests: every remaining test is reported with the status.
SkipsTests ==
    /\ runner.pc \in {"skip", "skipAll"} /\ RunnerAt(runner.pc)
    /\ \/ /\ runner.i <= Tests
          /\ \/ Forks(NewCall("Report", "test", "done", runner.status)) /\ UNCHANGED runner
             \/ CallReturns /\ GoesOn(runner.pc, runner.i + 1, runner.status)
       \/ /\ runner.i > Tests
          /\ GoesOn(IF runner.pc = "skip" THEN "teardown" ELSE "stop", runner.i, runner.status)
          /\ UNCHANGED <<outer, tracker>>
    /\ UNCHANGED suiteHistory

TearsDownSuite ==
    /\ RunnerAt("teardown")
    /\ IF "TearDownSuite" \in suite.fixtures
       THEN \/ /\ Forks(NewCall("TearDownSuite", "fixture", "body", "succeeded"))
               /\ UNCHANGED runner
            \/ CallReturns /\ GoesOn("stop", runner.i, runner.status)
       ELSE GoesOn("stop", runner.i, runner.status) /\ UNCHANGED <<outer, tracker>>
    /\ UNCHANGED suiteHistory

\* waitAndStop, then tempDir.removeAll.
StopsSuite ==
    /\ RunnerAt("stop")
    /\ tracker.running /\ MayStop
    /\ tracker' = [tracker EXCEPT !.running = FALSE]
    /\ GoesOn("returned", runner.i, runner.status)
    /\ UNCHANGED <<outer, suiteHistory>>

RunnerStep ==
    \/ StartsSuite \/ ReportsArgs \/ SetsUpSuite \/ RunsTests
    \/ SkipsTests \/ TearsDownSuite \/ StopsSuite

SuiteOver == runner.pc = "returned"

CallStep == SuiteFixture \/ TestFixture \/ TestSteps \/ OuterDone \/ InnerDone

SuiteStep == RunnerStep \/ CallStep \/ TrackerCounts

SuiteNext ==
    \/ SuiteStep
    \/ SuiteOver /\ UNCHANGED suiteVars

SuiteSpec == SuiteInit /\ [][SuiteNext]_suiteVars

\* Every goroutine runs on, and the methods of the suite end.
SuiteFairSpec == SuiteSpec /\ WF_suiteVars(SuiteStep)

-----------------------------------------------------------------------------
(* Properties. *)

SuiteTypeOK ==
    /\ suite \in Suites
    /\ runner \in [pc : {"start", "args", "setup", "tests", "skip", "skipAll", "teardown",
                         "stop", "returned"}, i : 1..Tests + 1, status : CallStatus]
    /\ outer \in CallRecord /\ inner \in CallRecord
    /\ tracker \in [running : BOOLEAN, waiting : Nat]
    /\ doneChan \in Seq([kind : {"fixture", "test"}, status : CallStatus, mustFail : BOOLEAN])
    /\ result \in [Counters -> Nat]

Counted == result["Succeeded"] + result["Failed"] + result["Skipped"] + result["Panicked"]
       + result["ExpectedFailures"] + result["Missed"]

\* When run returns, every test was counted once, as one thing, and every
\* fixture that failed besides them, whatever panicked or was skipped; the
\* tracker has seen all calls, none is running and uses the temporary directory.
EveryTestIsCounted ==
    SuiteOver => /\ Counted = Tests + fixtureFailed
                /\ outer = NoCall /\ inner = NoCall /\ doneChan = <<>>

\* "Tracker got an unexpected done call" does not happen, however far the
\* tracker is behind.
NoUnexpectedDone == tracker.waiting >= Len(doneChan)

SuitePassed ==
    \A k \in {"Failed", "Panicked", "FixturePanicked", "Missed"} : result[k] = 0

\* A method that fails or panics makes the suite fail, whatever the fixtures
\* around it do afterwards; except that a TearDownTest that calls Skip turns its
\* test into a skipped one.
TroubleIsReported == SuiteOver /\ trouble /\ ~tearDownSkips => ~SuitePassed

\* SetUpTest and TearDownTest alternate: no SetUpTest comes on top of another,
\* no TearDownTest runs twice, also when a benchmark runs them in its loop and
\* any of them panics.
FixturesArePaired ==
    /\ inner.name = "SetUpTest" /\ inner.pc = "body" => ~isSetUp
    /\ inner.name = "TearDownTest" /\ inner.pc = "body" =>
          isSetUp \/ outer.panic = "fixture"
    /\ outer.name = "Test" /\ outer.pc = "body" => isSetUp
    /\ SuiteOver => ~isSetUp

\* What RunAll returns is what happened: every test counted once, nothing still
\* running, no failure lost, every fixture run with its test.
RunIsReported ==
    EveryTestIsCounted /\ NoUnexpectedDone /\ TroubleIsReported /\ FixturesArePaired

\* A suite whose methods all end is over some day once it was begun: nothing
\* waits for a call that will not report, and a benchmark's loop ends even if no
\* run of it takes any time.
RunEnds == tracker.running ~> SuiteOver
=============================================================================
