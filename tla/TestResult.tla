----------------------------- MODULE TestResult -----------------------------
(***************************************************************************)
(* The result object that the test runner threads through a harness chain  *)
(* (trunner/types.py).  Messages, names and timings are left out; what     *)
(* stays is what decides a verdict: the explicit status, the stage, and    *)
(* the statuses of the sub-results.  Since the code only ever asks whether *)
(* some sub-result failed or all were skipped, sub-results are a set.      *)
(***************************************************************************)
EXTENDS Naturals

Status == {"OK", "FAIL", "SKIP"}

\* Status of a result that nobody has set (the None of __init__).
UNSET == "UNSET"

\* class TestStage: the order of the enumeration is the order of the stages.
INIT == 1
REBOOT == 2
FLASH == 3
RUN == 4
DONE == 5
TestStage == INIT .. DONE

Result == [status : Status \cup {UNSET}, stage : TestStage, subs : SUBSET Status]

NewResult == [status |-> UNSET, stage |-> INIT, subs |-> {}]

ComputeStatus(subs) ==
    IF "FAIL" \in subs THEN "FAIL" ELSE IF subs = {"SKIP"} THEN "SKIP" ELSE "OK"

\* The status property: an explicit status wins over the sub-results.
StatusOf(r) ==
    IF r.status # UNSET THEN r.status
    ELSE IF r.subs # {} THEN ComputeStatus(r.subs) ELSE "OK"

\* set_stage; the assertion it makes is StagesInOrder of module Campaign.
SetStage(r, stage) == [r EXCEPT !.stage = stage]

Fail(r) == [r EXCEPT !.status = "FAIL", !.stage = DONE]

Skip(r) == [r EXCEPT !.status = "SKIP", !.stage = DONE]

\* overwrite copies the status of another result and keeps the sub-results.
Overwrite(r, other) == [r EXCEPT !.status = StatusOf(other), !.stage = DONE]

AddSubresults(r, subs) == [r EXCEPT !.subs = @ \cup subs]

\* Mutant: the current part of a composite test is left alone.
FailCompositeNoPart(r) == Fail(r)

\* fail_pexpect and fail_assertion also fail the current part of a composite
\* test; the other fail_* methods (Fail) leave the parts alone.
FailComposite(r) ==
    LET f == Fail(r) IN IF r.subs = {} THEN f ELSE AddSubresults(f, {"FAIL"})

\* The statuses that the test cases of to_junit_testsuite carry: the parts if
\* there are any, and the verdict of the test itself only otherwise.
JunitStatuses(r) == IF r.subs = {} THEN {StatusOf(r)} ELSE r.subs

=============================================================================
