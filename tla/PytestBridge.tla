---------------------------- MODULE PytestBridge ----------------------------
(***************************************************************************)
(* A pytest session under the test runner: the hooks of PytestBridgePlugin *)
(* and pytest_harness (trunner/harness/pytest.py), over the phases that    *)
(* pytest runs for every test case (external: modelled from the reports    *)
(* the hooks expect).  A test case is the sequence of the fixtures it      *)
(* requires, in the order of their set-up; fixtures of function scope are  *)
(* set up anew for every test case.  Every set-up that passes is followed  *)
(* by a call, which is so unless the options of the yaml file hold         *)
(* --setup-only or --setup-plan.  Messages are left out.                   *)
(*                                                                         *)
(* pytest reports a phase that raises as failed, or as skipped if the test *)
(* case is marked xfail for that exception.  The marks need no state: they *)
(* only widen what a phase may be reported as.                             *)
(***************************************************************************)
EXTENDS TestResult, Sequences

CONSTANTS
    Fixtures,
    UNKNOWN,        \* _unknown_fixture_str
    Sessions        \* the sequences of test cases that may be collected

ASSUME SessionsAssumption ==
    /\ UNKNOWN \notin Fixtures
    /\ Sessions \subseteq Seq(Seq(Fixtures))

VARIABLES
    cases,              \* fixed for the session
    current,            \* the current test case
    when,               \* what pytest does next
    pending_result,     \* its status
    broken_fixtures,
    started,            \* fixtures whose set-up was run in the last set-up phase
    failing,            \* fixtures that failed with their source in the traceback,
                        \* with what the phase was reported as
    own,                \* outcomes of set-up and call of the current test case
    owns,               \* outcomes of the test cases that were reported
    subresults,         \* statuses of the sub-results, in order
    result              \* the TestResult

bridgeVars == <<cases, current, when, pending_result, broken_fixtures, started,
                failing, own, owns, subresults, result>>

Outcome == {"passed", "failed", "skipped"}

\* What an exception in a phase is reported as.
Raised == {"failed", "skipped"}

Required(c) == {c[n] : n \in 1 .. Len(c)}

BridgeInit ==
    /\ cases \in Sessions
    /\ current = 1
    /\ when = "setup"
    /\ pending_result = "OK"
    /\ broken_fixtures = {}
    /\ started = {}
    /\ failing = {}
    /\ own = {}
    /\ owns = <<>>
    /\ subresults = <<>>
    /\ result = NewResult

\* Mutant: only the first broken fixture is remembered.
RecordSetupPhaseFirst(outcome, fixture) ==
    /\ pending_result' = CASE outcome = "failed" -> "FAIL"
                           [] outcome = "skipped" -> "SKIP"
                           [] outcome = "passed" -> pending_result
    /\ broken_fixtures' = IF outcome = "failed" /\ broken_fixtures = {}
                          THEN {fixture} \ {UNKNOWN} ELSE broken_fixtures

\* _record_setup_phase: a set-up that passes leaves the pending result alone.
RecordSetupPhase(outcome, fixture) ==
    /\ pending_result' = CASE outcome = "failed" -> "FAIL"
                           [] outcome = "skipped" -> "SKIP"
                           [] outcome = "passed" -> pending_result
    /\ broken_fixtures' = IF outcome = "failed"
                          THEN broken_fixtures \cup ({fixture} \ {UNKNOWN}) ELSE broken_fixtures

\* Mutant: XFAIL and skips are not recorded.
RecordCallPhaseFails(outcome) ==
    pending_result' = IF outcome = "failed" THEN "FAIL" ELSE pending_result

RecordCallPhase(outcome) ==
    pending_result' = CASE outcome = "failed" -> "FAIL"
                        [] outcome = "skipped" -> "SKIP"
                        [] outcome = "passed" -> "OK"

(***************************************************************************)
(* pytest_runtest_setup fails a test case that needs a broken fixture.     *)
(* Whether an xfail mark is heeded here depends on which of two hooks that *)
(* ask to be first comes first, this one or the one that reads the marks;  *)
(* the model allows both.                                                  *)
(***************************************************************************)
FastFail ==
    /\ when = "setup"
    /\ current <= Len(cases)
    /\ \E f \in Required(cases[current]) \cap broken_fixtures, outcome \in Raised :
          RecordSetupPhase(outcome, f) /\ own' = {outcome}
    /\ started' = {}
    /\ when' = "teardown"
    /\ UNCHANGED <<cases, current, failing, owns, subresults, result>>

\* The first n fixtures of the current test case.
SetUp(n) == {cases[current][m] : m \in 1 .. n}

\* The n-th fixture fails.  If its source is shown in the traceback,
\* _extract_broken_fixture finds it there.
FixtureFails ==
    /\ when = "setup"
    /\ current <= Len(cases)
    /\ Required(cases[current]) \cap broken_fixtures = {}
    /\ \E n \in 1 .. Len(cases[current]), outcome \in Raised :
          /\ \/ /\ RecordSetupPhase(outcome, cases[current][n])
                /\ failing' = failing \cup {<<cases[current][n], outcome>>}
             \/ RecordSetupPhase(outcome, UNKNOWN) /\ UNCHANGED failing
          /\ started' = SetUp(n)
          /\ own' = {outcome}
    /\ when' = "teardown"
    /\ UNCHANGED <<cases, current, owns, subresults, result>>

\* The set-up passes, or a mark or a fixture skips the test case.
Setup ==
    /\ when = "setup"
    /\ current <= Len(cases)
    /\ Required(cases[current]) \cap broken_fixtures = {}
    /\ \E outcome \in {"passed", "skipped"}, n \in 0 .. Len(cases[current]) :
          /\ outcome = "passed" => n = Len(cases[current])
          /\ RecordSetupPhase(outcome, UNKNOWN)
          /\ started' = SetUp(n)
          /\ own' = {outcome}
          /\ when' = IF outcome = "passed" THEN "call" ELSE "teardown"
    /\ UNCHANGED <<cases, current, failing, owns, subresults, result>>

Call ==
    /\ when = "call"
    /\ \E outcome \in Outcome : RecordCallPhase(outcome) /\ own' = own \cup {outcome}
    /\ started' = {}
    /\ when' = "teardown"
    /\ UNCHANGED <<cases, current, broken_fixtures, failing, owns, subresults, result>>

\* _finalize_and_report: only a teardown that is reported as failed counts.
FinalizeAndReport(outcome) ==
    LET final_status == IF outcome = "failed" THEN "FAIL" ELSE pending_result IN
    /\ subresults' = Append(subresults, final_status)
    /\ result' = AddSubresults(result, {final_status})

Teardown ==
    /\ when = "teardown"
    /\ \E outcome \in Outcome :
          /\ FinalizeAndReport(outcome)
          /\ owns' = Append(owns, [body |-> own, teardown |-> outcome])
    /\ own' = {}
    /\ started' = {}
    /\ current' = current + 1
    /\ when' = "setup"
    /\ UNCHANGED <<cases, pending_result, broken_fixtures, failing>>

(***************************************************************************)
(* The end of pytest.main: all test cases done (OK, TESTS_FAILED or        *)
(* NO_TESTS_COLLECTED); -x after a failure (TESTS_FAILED); or, at any      *)
(* time, an interrupt, pytest.exit or an error in pytest itself.  PyHarness *)
(* then overwrites the result with itself.  A pytest.exit whose return code *)
(* is one of the accepted ones is left out.                                *)
(***************************************************************************)
\* Mutant: the exit code is not looked at.
HarnessEndIgnores(accepted) == result' = Overwrite(result, result)

HarnessEnd(accepted) ==
    LET r == IF accepted THEN result ELSE Fail(result) IN result' = Overwrite(r, r)

SessionEnds ==
    /\ when = "setup"
    /\ current > Len(cases) \/ "FAIL" \in {subresults[n] : n \in 1 .. Len(subresults)}
    /\ HarnessEnd(TRUE)
    /\ when' = "ended"
    /\ UNCHANGED <<cases, current, pending_result, broken_fixtures, started, failing, own, owns,
                   subresults>>

SessionBreaks ==
    /\ when \notin {"ended", "broken"}
    /\ HarnessEnd(FALSE)
    /\ when' = "broken"
    /\ UNCHANGED <<cases, current, pending_result, broken_fixtures, started, failing, own, owns,
                   subresults>>

BridgeOver == when \in {"ended", "broken"} /\ UNCHANGED bridgeVars

BridgeNext ==
    \/ FastFail \/ FixtureFails \/ Setup \/ Call \/ Teardown
    \/ SessionEnds \/ SessionBreaks \/ BridgeOver

BridgeSpec == BridgeInit /\ [][BridgeNext]_bridgeVars

-----------------------------------------------------------------------------
(***************************************************************************)
(* Properties.                                                             *)
(***************************************************************************)
\* Every variable keeps its type.
BridgeTypeOK ==
    /\ when \in {"setup", "call", "teardown", "ended", "broken"}
    /\ current \in 1 .. Len(cases) + 1
    /\ pending_result \in Status
    /\ broken_fixtures \subseteq Fixtures
    /\ started \subseteq Fixtures
    /\ failing \subseteq Fixtures \X Raised
    /\ own \subseteq Outcome
    /\ owns \in Seq([body : SUBSET Outcome, teardown : Outcome])
    /\ subresults \in Seq(Status)
    /\ result \in Result

\* A phase of the test case was reported as failed.
AnyFailed(o) == "failed" \in o.body \cup {o.teardown}

\* "accurately capturing each subresult's runtime and status": the status of a
\* sub-result is that of the phases of its own test case, although one pending
\* result serves all of them and a set-up that passes does not reset it.  A
\* skipped set-up or call makes it SKIP; a teardown that is reported as skipped
\* (it raised under an xfail mark, or a finalizer skipped) counts for nothing.
OwnResult ==
    /\ Len(subresults) = Len(owns)
    /\ \A n \in 1 .. Len(subresults) :
          subresults[n] = IF AnyFailed(owns[n]) THEN "FAIL"
                    ELSE IF "skipped" \in owns[n].body THEN "SKIP" ELSE "OK"

\* A fixture whose failure was reported as failed, with its source in the
\* traceback, is set up by no later test case (_broken_fixtures), whatever was
\* reported of it before and whichever other fixtures broke.
BrokenNotRerun ==
    [][started' # started => \A f \in started' : <<f, "failed">> \notin failing]_bridgeVars

\* "fixtures failing at startup should not be re-run": the same of every fixture
\* that failed with its source in the traceback, also in a test case that is
\* marked xfail.
FailingNotRerun ==
    [][started' # started =>
          \A f \in started', outcome \in Raised : <<f, outcome>> \notin failing]_bridgeVars

\* A session counts as failed exactly if a phase of some test case was reported
\* as failed or pytest did not get to its end; and if it does not count as
\* failed, every test case that was collected has its sub-result.
VerdictIsSound ==
    /\ when = "broken" => StatusOf(result) = "FAIL"
    /\ when = "ended" =>
          /\ StatusOf(result) = "FAIL" <=> \E n \in 1 .. Len(owns) : AnyFailed(owns[n])
          /\ StatusOf(result) # "FAIL" => Len(subresults) = Len(cases)

=============================================================================
