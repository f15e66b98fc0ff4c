----------------------------- MODULE UnityLink -----------------------------
(***************************************************************************)
(* A unity test program on the device and the harness that reads it over   *)
(* the console: UnityMain, UnityTestRunner and UnityIgnoreTest             *)
(* (unity/unity_fixture.c), the assertions of unity/unity.c, and           *)
(* unity_harness (trunner/harness/unity.py).  The console carries whole    *)
(* lines in order; a line may get lost (characters dropped by a serial     *)
(* line, or a kernel message in the middle of it, which no pattern then    *)
(* matches).  The program may crash, and it may be slower than the         *)
(* harness is patient.                                                     *)
(*                                                                         *)
(* A message is the number of the test that it was printed for, 0 for no   *)
(* message.  Tests that -g or -n leave out print and count nothing; -r,    *)
(* which the test runner never passes, is not modelled.                    *)
(***************************************************************************)
EXTENDS TestResult, Integers, Sequences

CONSTANT N      \* number of tests the program runs

ASSUME NAssumption == N \in Nat

Tests == 1 .. N

VARIABLES
    at,             \* the test that runs, N + 1 after the last one
    phase,          \* where in UnityTestRunner the program is
    flag,           \* CurrentTestFailed and CurrentTestIgnored of struct Unity
    count,          \* NumberOfTests, TestFailures and TestIgnores
    truth,          \* what really became of a test, "none" if it is not over
    wire,           \* the lines on the console
    last_assertion, \* the message of last_assertion, 0 for an empty one
    stats,
    subs,           \* the sub-results, in order
    verdict         \* what the harness has come to

vars == <<at, phase, flag, count, truth, wire, last_assertion, stats, subs, verdict>>
program == <<at, phase, flag, count, truth>>
harness == <<last_assertion, stats, subs, verdict>>

Line ==
    [kind : {"assertion"}, status : {"FAIL", "IGNORE", "INFO"}, msg : 0 .. N]
        \cup [kind : {"result"}, status : {"PASS", "FAIL", "IGNORE"}, test : Tests]
        \cup [kind : {"final"}, total : Nat, fail : Nat, ignore : Nat]

SubResult == [test : Tests, status : Status, msg : 0 .. N]

Init ==
    /\ at = 1
    /\ phase = "next"
    /\ flag = "none"
    /\ count = [total |-> 0, fail |-> 0, ignore |-> 0]
    /\ truth = [t \in Tests |-> "none"]
    /\ wire = <<>>
    /\ last_assertion = 0
    /\ stats = [PASS |-> 0, FAIL |-> 0, IGNORE |-> 0]
    /\ subs = <<>>
    /\ verdict = "none"

-----------------------------------------------------------------------------
(* The program.                                                             *)

Says(line) == wire' = Append(wire, line)

\* RUN_TEST_CASE
Start ==
    /\ phase = "next"
    /\ at <= N
    /\ count' = [count EXCEPT !.total = @ + 1]
    /\ phase' = "body"
    /\ UNCHANGED <<at, flag, truth, wire, harness>>

\* IGNORE_TEST_CASE
IgnoreTest ==
    /\ phase = "next"
    /\ at <= N
    /\ count' = [total |-> count.total + 1, fail |-> count.fail, ignore |-> count.ignore + 1]
    /\ truth' = [truth EXCEPT ![at] = "IGNORE"]
    /\ Says([kind |-> "result", status |-> "IGNORE", test |-> at])
    /\ at' = at + 1
    /\ UNCHANGED <<phase, flag, harness>>

\* A bound: TEST_MESSAGE has at most one line on the console at a time.
InfoBound == ~ \E k \in 1 .. Len(wire) : wire[k].kind = "assertion" /\ wire[k].status = "INFO"

\* TEST_MESSAGE
Message ==
    /\ phase \in {"body", "teardown"}
    /\ InfoBound
    /\ Says([kind |-> "assertion", status |-> "INFO", msg |-> at])
    /\ UNCHANGED <<program, harness>>

\* Where longjmp, or the end of a protected part, leads to.
After == IF phase = "body" THEN "teardown" ELSE "conclude"

Return ==
    /\ phase \in {"body", "teardown"}
    /\ phase' = After
    /\ UNCHANGED <<at, flag, count, truth, wire, harness>>

\* Mutant: an assertion in the teardown of an ignored test is carried out.
AssertAnyway(status) ==
    /\ phase \in {"body", "teardown"}
    /\ flag' = status
    /\ truth' = [truth EXCEPT ![at] = IF @ = "FAIL" THEN @ ELSE status]
    /\ \E msg \in {0, at} : Says([kind |-> "assertion", status |-> status, msg |-> msg])
    /\ phase' = After
    /\ UNCHANGED <<at, count, harness>>

\* An assertion that does not hold, or TEST_IGNORE.  If the test has already
\* failed or is ignored, RETURN_IF_FAIL_OR_IGNORE leaves before it is evaluated.
Assert(status) ==
    /\ phase \in {"body", "teardown"}
    /\ IF flag # "none"
       THEN UNCHANGED <<flag, truth, wire>>
       ELSE /\ flag' = status
            /\ truth' = [truth EXCEPT ![at] = status]
            /\ \E msg \in {0, at} : Says([kind |-> "assertion", status |-> status, msg |-> msg])
    /\ phase' = After
    /\ UNCHANGED <<at, count, harness>>

\* UnityConcludeFixtureTest
Conclude ==
    /\ phase = "conclude"
    /\ LET status == IF flag = "none" THEN "PASS" ELSE flag IN
       /\ Says([kind |-> "result", status |-> status, test |-> at])
       /\ truth' = [truth EXCEPT ![at] = IF @ = "none" THEN "PASS" ELSE @]
       /\ count' = [total |-> count.total,
                    fail |-> count.fail + (IF status = "FAIL" THEN 1 ELSE 0),
                    ignore |-> count.ignore + (IF status = "IGNORE" THEN 1 ELSE 0)]
    /\ flag' = "none"
    /\ at' = at + 1
    /\ phase' = "next"
    /\ UNCHANGED harness

UnityEnd ==
    /\ phase = "next"
    /\ at > N
    /\ Says([kind |-> "final", total |-> count.total, fail |-> count.fail, ignore |-> count.ignore])
    /\ phase' = "over"
    /\ UNCHANGED <<at, flag, count, truth, harness>>

Crash ==
    /\ phase # "over"
    /\ phase' = "over"
    /\ UNCHANGED <<at, flag, count, truth, wire, harness>>

Program ==
    \/ Start \/ IgnoreTest \/ Message \/ Return \/ Assert("FAIL") \/ Assert("IGNORE")
    \/ Conclude \/ UnityEnd

-----------------------------------------------------------------------------
(* The console and the harness.                                             *)

Lose ==
    /\ wire # <<>>
    /\ verdict = "none"
    /\ wire' = Tail(wire)
    /\ UNCHANGED <<program, harness>>

\* expect matches the next line, which is of this kind.
Expect(kind) ==
    /\ verdict = "none"
    /\ wire # <<>>
    /\ Head(wire).kind = kind
    /\ wire' = Tail(wire)
    /\ UNCHANGED program

Assertion ==
    /\ Expect("assertion")
    /\ last_assertion' = IF Head(wire).status = "INFO" THEN last_assertion ELSE Head(wire).msg
    /\ UNCHANGED <<stats, subs, verdict>>

\* Status.from_str
FromStr(s) == CASE s = "PASS" -> "OK" [] s = "FAIL" -> "FAIL" [] s = "IGNORE" -> "SKIP"

\* Mutant: last_assertion is not emptied.
ResultKeeps ==
    /\ Expect("result")
    /\ subs' = Append(subs, [test |-> Head(wire).test, status |-> FromStr(Head(wire).status),
                             msg |-> last_assertion])
    /\ stats' = [stats EXCEPT ![Head(wire).status] = @ + 1]
    /\ UNCHANGED <<last_assertion, verdict>>

TestLine ==
    /\ Expect("result")
    /\ subs' = Append(subs, [test |-> Head(wire).test, status |-> FromStr(Head(wire).status),
                             msg |-> last_assertion])
    /\ last_assertion' = 0
    /\ stats' = [stats EXCEPT ![Head(wire).status] = @ + 1]
    /\ UNCHANGED verdict

\* Mutant: the totals of the program are not compared with what was read.
FinalTrusts ==
    /\ Expect("final")
    /\ verdict' = IF stats.FAIL # 0 THEN "FAIL" ELSE "OK"
    /\ UNCHANGED <<last_assertion, stats, subs>>

\* The totals are asserted; an AssertionError fails the test.
Final ==
    /\ Expect("final")
    /\ LET f == Head(wire) IN
       verdict' = IF f.total = stats.PASS + stats.FAIL + stats.IGNORE
                        /\ f.fail = stats.FAIL /\ f.ignore = stats.IGNORE
                  THEN IF stats.FAIL # 0 THEN "FAIL" ELSE "OK"
                  ELSE "mismatch"
    /\ UNCHANGED <<last_assertion, stats, subs>>

\* Mutant: the harness tries again after a timeout.
TimeoutRetries ==
    /\ verdict = "none"
    /\ wire = <<>>
    /\ UNCHANGED vars

\* Nothing that matches within the timeout.
Timeout ==
    /\ verdict = "none"
    /\ wire = <<>>
    /\ verdict' = "timeout"
    /\ UNCHANGED <<program, wire, last_assertion, stats, subs>>

Harness == Assertion \/ TestLine \/ Final \/ Timeout

Over == verdict # "none" /\ UNCHANGED vars

Next == Program \/ Crash \/ Lose \/ Harness \/ Over

\* expect returns or times out; nothing is assumed of the program.
Spec == Init /\ [][Next]_vars /\ WF_vars(Harness)

-----------------------------------------------------------------------------
(***************************************************************************)
(* Properties.                                                             *)
(***************************************************************************)
\* What PyHarness makes of it: the harness returns a result of its own, or an
\* AssertionError or TIMEOUT fails the test and its current part.
HarnessResult ==
    LET r == AddSubresults(NewResult, {subs[k].status : k \in 1 .. Len(subs)}) IN
    IF verdict \in {"OK", "FAIL"}
    THEN Overwrite(r, [NewResult EXCEPT !.status = verdict])
    ELSE FailComposite(r)

\* Every variable keeps its type.
TypeOK ==
    /\ at \in 1 .. N + 1
    /\ phase \in {"next", "body", "teardown", "conclude", "over"}
    /\ flag \in {"none", "FAIL", "IGNORE"}
    /\ count \in [total : Nat, fail : Nat, ignore : Nat]
    /\ truth \in [Tests -> {"none", "PASS", "FAIL", "IGNORE"}]
    /\ wire \in Seq(Line)
    /\ last_assertion \in 0 .. N
    /\ stats \in [PASS : Nat, FAIL : Nat, IGNORE : Nat]
    /\ subs \in Seq(SubResult)
    /\ verdict \in {"none", "OK", "FAIL", "mismatch", "timeout"}

\* If the harness accepts the totals, nothing is missing from its report, lost
\* lines or not: there is one sub-result for every test, in order, with what
\* really became of the test in its body and its teardown.
CompleteReport ==
    verdict \in {"OK", "FAIL"} =>
        /\ Len(subs) = N
        /\ \A k \in 1 .. N : subs[k].test = k /\ subs[k].status = FromStr(truth[k])

\* If the harness accepts the totals, no sub-result carries the message of
\* another test, although last_assertion outlives a result line that is lost.
MessageIsOwn ==
    verdict \in {"OK", "FAIL"} => \A k \in 1 .. Len(subs) : subs[k].msg \in {0, k}

\* The xml report, which shows only the parts of a composite test, shows a
\* failure exactly if the unity test failed, also if it failed after its parts
\* ("if composite test case - fail the sub-result").
XmlShowsVerdict ==
    verdict # "none" =>
        ("FAIL" \in JunitStatuses(HarnessResult) <=> StatusOf(HarnessResult) = "FAIL")

\* When the program has ended or crashed, the harness comes to a verdict,
\* whatever lines were lost.
HarnessEnds == (phase = "over") ~> (verdict # "none")

-----------------------------------------------------------------------------
(***************************************************************************)
(* The inductive invariant: result lines come in the order of the tests,   *)
(* and a message lies between the result lines around it.                  *)
(***************************************************************************)
Pos(line) ==
    CASE line.kind = "result" -> line.test
      [] line.kind = "assertion" -> line.msg
      [] line.kind = "final" -> N + 1

ProgramInv ==
    /\ phase \in {"body", "teardown", "conclude"} => at <= N /\ count.total = at
    /\ phase = "next" => flag = "none" /\ count.total = at - 1
    /\ phase # "over" /\ at <= N => truth[at] = flag
    /\ \A t \in Tests : (t < at => truth[t] # "none") /\ (t > at => truth[t] = "none")

WireInv ==
    /\ \A k \in 1 .. Len(wire) :
          /\ wire[k].kind = "result" =>
                wire[k].test < at /\ wire[k].status = truth[wire[k].test]
          /\ wire[k].kind = "assertion" =>
                wire[k].msg <= at /\ (phase = "next" => wire[k].msg < at)
          /\ wire[k].kind = "final" => k = Len(wire) /\ phase = "over" /\ wire[k].total = N
    /\ \A j, k \in 1 .. Len(wire) :
          j < k /\ Pos(wire[j]) # 0 /\ Pos(wire[k]) # 0 =>
              Pos(wire[j]) <= Pos(wire[k]) /\ (wire[j].kind = "result" => Pos(wire[j]) < Pos(wire[k]))

SubsInv ==
    /\ Len(subs) = stats.PASS + stats.FAIL + stats.IGNORE
    /\ \A k \in 1 .. Len(subs) :
          subs[k].test < at /\ subs[k].status = FromStr(truth[subs[k].test])
    /\ \A j, k \in 1 .. Len(subs) : j < k => subs[k].test - subs[j].test >= k - j
    /\ \A j \in 1 .. Len(subs), k \in 1 .. Len(wire) :
          Pos(wire[k]) # 0 => subs[j].test < Pos(wire[k])

MessageInv ==
    /\ last_assertion <= at /\ (phase = "next" => last_assertion < at)
    /\ last_assertion # 0 =>
          /\ \A j \in 1 .. Len(subs) : subs[j].test < last_assertion
          /\ \A k \in 1 .. Len(wire) : Pos(wire[k]) # 0 => last_assertion <= Pos(wire[k])
    /\ \A k \in 1 .. Len(subs) :
          subs[k].msg # 0 =>
              /\ subs[k].msg <= subs[k].test
              /\ \A j \in 1 .. k - 1 : subs[j].test < subs[k].msg

\* All of it together.
Inductive ==
    /\ TypeOK /\ ProgramInv /\ WireInv /\ SubsInv /\ MessageInv
    /\ verdict \in {"OK", "FAIL"} => Len(subs) = N

=============================================================================
