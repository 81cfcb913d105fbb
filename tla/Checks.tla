------------------------------- MODULE Checks -------------------------------
(***************************************************************************)
(* gocheck: what a test does with its *C, and the checkers.  A test makes  *)
(* checks and assertions and calls the methods that fail, skip or pass it; *)
(* SuiteRunner has what becomes of its status.  A Go value is [kind, type, *)
(* nil, id, text, says, n, panics]: id tells pointers apart, text is what  *)
(* it holds, or says with its method "error" or "string", n a number or a  *)
(* length, panics what a function panics with, <<>> if it does not.        *)
(***************************************************************************)
EXTENDS Integers, Sequences, SequencesExt

CONSTANTS
    Obtained, \* values that the tests check
    Expected, \* values and regular expressions that they are checked against
    MaxCalls  \* bound: calls that a test makes

VARIABLES
    test,    \* C: status, mustFail, and whether the test goes on
    check,   \* the one with a checker: [checker, negated, params, shown, result, error]
    told,    \* the problems in the log
    calls,   \* how many were made
    forgiven \* history: Succeed or Skip was called since a problem was told

checkVars == <<test, check, told, calls, forgiven>>

-----------------------------------------------------------------------------
(* Values. *)

Value(kind, type, n) ==
    [kind |-> kind, type |-> type, nil |-> FALSE, id |-> 0, text |-> <<>>, says |-> "nothing",
     n |-> n, panics |-> <<>>]
NilInterface == Value("invalid", "none", 0)
Str(s) == [Value("string", "string", Len(s)) EXCEPT !.text = s]
Number(n) == Value("int", "int", n)

Nilable == {"chan", "func", "map", "ptr", "slice"}
Comparable(v) == v.kind \notin {"slice", "map", "func", "struct"}

IsNil(v) == v = NilInterface \/ (v.kind \in Nilable /\ v.nil)

\* reflect.DeepEqual: behind pointers too; functions are never equal, if not nil.
Same(v, w) == [v EXCEPT !.id = 0] = [w EXCEPT !.id = 0] /\ (v.kind = "func" => v.nil)

-----------------------------------------------------------------------------
(* Regular expressions: characters, "|" between alternatives, "(" a mistake. *)

Bar(re) == SelectInSeq(re, LAMBDA x : x = "|")

\* regexp.MatchString("^" + re + "$"): the signs belong to the first and last alternative.
MatchString(re, s) ==
    IF Bar(re) = 0 THEN s = re
    ELSE \/ IsPrefix(SubSeq(re, 1, Bar(re) - 1), s)
         \/ IsSuffix(SubSeq(re, Bar(re) + 1, Len(re)), s)

-----------------------------------------------------------------------------
(* The checkers: [result, error], and what they leave in params[0]. *)

Verdict(result) == [result |-> result, error |-> FALSE]
Fails == [result |-> FALSE, error |-> TRUE]

Matches(v, re) ==
    IF re.kind # "string" \/ (v.kind # "string" /\ v.says # "string") \/ "(" \in ToSet(re.text)
    THEN Fails ELSE Verdict(MatchString(re.text, v.text))

\* A function that takes arguments is not called, one that does not panic is an error.
Panics(f, v) ==
    IF f.kind # "func" \/ f.n # 0 \/ f.panics = <<>> THEN Fails
    ELSE Verdict(Same(f.panics[1], v))
PanicMatches(f, re) ==
    LET v == f.panics[1] IN
    IF f.kind # "func" \/ f.n # 0 \/ f.panics = <<>> THEN Fails
    ELSE IF v.says # "error" /\ v.kind # "string" THEN Fails
    ELSE Matches(Str(v.text), re)

HasLen(v, n) ==
    IF n.kind # "int" \/ v.kind \notin {"map", "array", "slice", "chan", "string"} THEN Fails
    ELSE Verdict(v.n = n.n)

\* A comparison that panics is an error.
Equals(v, w) ==
    IF v.type = w.type /\ ~Comparable(v) THEN Fails ELSE Verdict(v = w)

ErrorMatches(v, re) == IF v.says # "error" THEN Fails ELSE Matches(Str(v.text), re)

FitsTypeOf(v, sample) ==
    IF v = NilInterface THEN Verdict(FALSE)
    ELSE IF sample = NilInterface THEN Fails ELSE Verdict(v.type = sample.type)

\* The second is a pointer to a variable of an interface, with the method that text names.
Implements(v, iface) ==
    IF v = NilInterface THEN Verdict(FALSE)
    ELSE IF iface.kind # "ifaceptr" THEN Fails ELSE Verdict(<<v.says>> = iface.text)

Parameters(checker) == IF checker \in {"IsNil", "NotNil"} THEN 1 ELSE 2
Checkers ==
    {"IsNil", "NotNil", "Equals", "DeepEquals", "HasLen", "ErrorMatches", "Matches", "Panics",
     "PanicMatches", "FitsTypeOf", "Implements"}

Base(checker, p) ==
    CASE checker = "IsNil" -> Verdict(IsNil(p[1]))
      [] checker = "NotNil" -> Verdict(~IsNil(p[1]))
      [] checker = "Equals" -> Equals(p[1], p[2])
      [] checker = "DeepEquals" -> Verdict(Same(p[1], p[2]))
      [] checker = "HasLen" -> HasLen(p[1], p[2])
      [] checker = "ErrorMatches" -> ErrorMatches(p[1], p[2])
      [] checker = "Matches" -> Matches(p[1], p[2])
      [] checker = "Panics" -> Panics(p[1], p[2])
      [] checker = "PanicMatches" -> PanicMatches(p[1], p[2])
      [] checker = "FitsTypeOf" -> FitsTypeOf(p[1], p[2])
      [] checker = "Implements" -> Implements(p[1], p[2])

\* (a mistake, for the properties to find)
BugForgets(negated, v) == [result |-> ~v.result, error |-> v.error /\ ~negated]

\* Not turns the result and keeps the error.
Negated(negated, v) == IF negated THEN [v EXCEPT !.result = ~@] ELSE v

\* What the checker shows in place of the function or the error.
Shown(checker, p) ==
    CASE checker = "ErrorMatches" /\ p[1].says = "error" -> Str(p[1].text)
      [] checker = "Panics" /\ p[1].kind = "func" /\ p[1].panics # <<>> /\ p[1].n = 0 -> p[1].panics[1]
      [] checker = "PanicMatches" /\ p[1].kind = "func" /\ p[1].panics # <<>> /\ p[1].n = 0
            /\ (p[1].panics[1].says = "error" \/ p[1].panics[1].kind = "string") ->
            Str(p[1].panics[1].text)
      [] OTHER -> p[1]

-----------------------------------------------------------------------------
(* internalCheck, and the other methods of C. *)

\* (a mistake, for the properties to find)
BugResultAlone(v) == v.result

Passes(v) == v.result /\ ~v.error

NoCheck ==
    [checker |-> "none", negated |-> FALSE, params |-> <<>>, shown |-> NilInterface,
     result |-> FALSE, error |-> FALSE]

\* What fails is told and fails the test; Assert stops it then.
Judged(asserts, passes) ==
    /\ test' = IF passes THEN test
            ELSE [test EXCEPT !.status = "failed", !.goesOn = ~asserts]
    /\ told' = IF passes THEN told ELSE told + 1
    /\ forgiven' = (forgiven /\ passes)

\* A comment at the end of the arguments is taken off first.  (Bound: one check with a
\* checker in a test, before and after its other calls.)
Check(asserts, checker, negated, params) ==
    LET v == Negated(negated, Base(checker, params)) IN
    /\ check = NoCheck
    /\ Len(params) = Parameters(checker)
    /\ Judged(asserts, Passes(v))
    /\ check' = [checker |-> checker, negated |-> negated, params |-> params,
                shown |-> Shown(checker, params), result |-> v.result, error |-> v.error]

\* No checker, or too few or too many parameters for it.
CheckIsWrong(asserts) == Judged(asserts, FALSE) /\ UNCHANGED check

Judges(status, stops, tells) ==
    /\ test' = [test EXCEPT !.status = status, !.goesOn = ~stops]
    /\ told' = told + tells
    /\ forgiven' = (status # "failed")
    /\ UNCHANGED check

\* Fail, FailNow, Error (or Errorf), Fatal (or Fatalf)
FailsTest == \E stops \in BOOLEAN, tells \in {0, 1} : Judges("failed", stops, tells)
\* Succeed, SucceedNow
PassesTest == \E stops \in BOOLEAN : Judges("succeeded", stops, 0)
\* Skip, also after a failure.
SkipsTest == Judges("skipped", TRUE, 0)
ExpectFailure == test' = [test EXCEPT !.mustFail = TRUE] /\ UNCHANGED <<check, told, forgiven>>

Calls ==
    /\ test.goesOn
    /\ calls < MaxCalls
    /\ calls' = calls + 1
    /\ \/ FailsTest \/ PassesTest \/ SkipsTest \/ ExpectFailure
       \/ \E asserts \in BOOLEAN : CheckIsWrong(asserts)
       \/ \E asserts, negated \in BOOLEAN, checker \in Checkers, v \in Obtained :
            \E w \in Expected : Check(asserts, checker, negated, SubSeq(<<v, w>>, 1, Parameters(checker)))

Returned == (~test.goesOn \/ calls = MaxCalls) /\ UNCHANGED checkVars

CheckNext == Calls \/ Returned

CheckInit ==
    /\ test = [status |-> "succeeded", mustFail |-> FALSE, goesOn |-> TRUE]
    /\ check = NoCheck
    /\ told = 0
    /\ calls = 0
    /\ forgiven = FALSE

CheckSpec == CheckInit /\ [][CheckNext]_checkVars

-----------------------------------------------------------------------------
(* Properties. *)

\* Check, Assert (helpers.go): a test that failed a check is failed, unless it was passed
\* or skipped on purpose afterwards, and what failed it by a check is in the log.
FailuresStay ==
    /\ told > 0 /\ ~forgiven => test.status = "failed"
    /\ ~test.goesOn => test.status # "succeeded" \/ forgiven

Passed == check.result /\ ~check.error
Opposite ==
    Passes(Negated(~check.negated, Base(check.checker, check.params)))

\* Not (checkers.go): of a check and its negation one passes, unless the checker could not
\* be asked: then neither does.
NegationIsSound ==
    check.checker # "none" => IF check.error THEN ~Passed /\ ~Opposite ELSE Passed # Opposite

\* Checkers (checkers.go) agree with each other: what is Equal is DeepEqual, or told of as
\* not comparable; an error matches as its text does; a function that PanicMatches Panics
\* with that text or with an error of it; a nil value has no length but 0; what the log
\* shows of a failed match is what was matched.
CheckersAgree ==
    Passed /\ ~check.negated =>
        LET v == check.params[1]
            w == check.params[Len(check.params)]
        IN CASE check.checker = "Equals" -> Same(v, w) /\ ~(v # NilInterface /\ IsNil(v) /\ w = NilInterface)
             [] check.checker = "DeepEquals" -> v.type = w.type
             [] check.checker \in {"ErrorMatches", "PanicMatches"} ->
                    /\ check.shown.kind = "string"
                    /\ Passes(Matches(check.shown, w))
                    /\ check.checker = "PanicMatches" => Passes(Panics(v, v.panics[1]))
             [] check.checker = "HasLen" -> IsNil(v) => w = Number(0)
             [] check.checker = "FitsTypeOf" -> v # NilInterface
             [] check.checker = "Implements" -> v.says # "nothing"
             [] OTHER -> TRUE

ChecksAreSound == FailuresStay /\ NegationIsSound /\ CheckersAgree
=============================================================================
