--------------------------- MODULE CampaignProofs ---------------------------
(***************************************************************************)
(* Proofs about module Campaign, for every set of targets and options and  *)
(* every number of tests.                                                  *)
(***************************************************************************)
EXTENDS Campaign, SequenceTheorems, TLAPS

-----------------------------------------------------------------------------
(***************************************************************************)
(* What the operations of TestResult do to status and stage.               *)
(***************************************************************************)
\* Every operation of types.py yields a result again, and a verdict is one of
\* the three statuses.
LEMMA ResultTypes ==
    /\ NewResult \in Result
    /\ \A r \in Result :
          /\ StatusOf(r) \in Status
          /\ \A s \in TestStage : SetStage(r, s) \in Result
          /\ Fail(r) \in Result
          /\ Skip(r) \in Result
          /\ FailComposite(r) \in Result
          /\ \A o \in Result : Overwrite(r, o) \in Result
          /\ \A subs \in SUBSET Status : AddSubresults(r, subs) \in Result
<1>1. \A r \in Result : StatusOf(r) \in Status
  BY DEF Result, StatusOf, ComputeStatus, Status, UNSET
<1>2. NewResult \in Result
  BY DEF Result, NewResult, UNSET, TestStage, INIT, DONE
<1>3. DONE \in TestStage
  BY DEF TestStage, INIT, DONE
<1>4. ASSUME NEW r \in Result PROVE \A s \in TestStage : SetStage(r, s) \in Result
  BY DEF Result, SetStage
<1>5. ASSUME NEW r \in Result PROVE Fail(r) \in Result /\ Skip(r) \in Result
  BY <1>3, Zenon DEF Result, Fail, Skip, Status
<1>6. ASSUME NEW r \in Result, NEW subs \in SUBSET Status
      PROVE  AddSubresults(r, subs) \in Result
  BY DEF Result, AddSubresults
<1>7. ASSUME NEW r \in Result PROVE FailComposite(r) \in Result
  BY <1>5, <1>6 DEF FailComposite, Status
<1>8. ASSUME NEW r \in Result, NEW o \in Result PROVE Overwrite(r, o) \in Result
  BY <1>1, <1>3, Zenon DEF Result, Overwrite
<1> QED
  BY <1>1, <1>2, <1>4, <1>5, <1>6, <1>7, <1>8

\* fail, skip and overwrite settle the verdict, set_stage and add_subresult
\* leave the explicit status alone, and each of them sets the stage it names.
LEMMA ResultFacts ==
    /\ NewResult.stage = INIT
    /\ \A r \in Result :
          /\ StatusOf(Fail(r)) = "FAIL" /\ Fail(r).stage = DONE
          /\ StatusOf(Skip(r)) = "SKIP" /\ Skip(r).stage = DONE
          /\ StatusOf(FailComposite(r)) = "FAIL" /\ FailComposite(r).stage = DONE
          /\ \A s : SetStage(r, s).stage = s
          /\ \A o \in Result : StatusOf(Overwrite(r, o)) = StatusOf(o) /\ Overwrite(r, o).stage = DONE
          /\ \A subs : AddSubresults(r, subs).stage = r.stage
<1>1. ASSUME NEW r \in Result, NEW o \in Result
      PROVE  StatusOf(Overwrite(r, o)) = StatusOf(o) /\ Overwrite(r, o).stage = DONE
  <2>1. Overwrite(r, o).status = StatusOf(o) /\ Overwrite(r, o).stage = DONE
    BY DEF Overwrite, Result
  <2>2. StatusOf(o) # UNSET
    BY ResultTypes DEF Status, UNSET
  <2> QED
    BY <2>1, <2>2 DEF StatusOf
<1>2. ASSUME NEW r \in Result
      PROVE  /\ StatusOf(Fail(r)) = "FAIL" /\ Fail(r).stage = DONE
             /\ StatusOf(FailComposite(r)) = "FAIL" /\ FailComposite(r).stage = DONE
             /\ StatusOf(Skip(r)) = "SKIP" /\ Skip(r).stage = DONE
  BY DEF Fail, Skip, FailComposite, AddSubresults, Result, StatusOf, UNSET
<1> QED
  BY <1>1, <1>2 DEF NewResult, SetStage, AddSubresults, Result

-----------------------------------------------------------------------------
(***************************************************************************)
(* Type correctness.                                                       *)
(***************************************************************************)
\* Appending a verdict to the results gives results again.
LEMMA AppendResult ==
    ASSUME NEW S, NEW s \in Seq(S), NEW e \in S
    PROVE  /\ Append(s, e) \in Seq(S)
           /\ Len(Append(s, e)) = Len(s) + 1
           /\ \A k \in 1 .. Len(s) : Append(s, e)[k] = s[k]
           /\ Append(s, e)[Len(s) + 1] = e
OBVIOUS

\* A campaign starts in a state of the right type (TestRunner.__init__ and main).
LEMMA TypeInit == Init => TypeOK
<1> SUFFICES ASSUME Init PROVE TypeOK
  OBVIOUS
<1>1. NewResult \in Result
  BY ResultTypes
<1>2. results \in Seq([status : Status, subs : SUBSET Status])
  BY DEF Init
<1>3. test \in TestOption
  BY DEF Init, NoTest, TestOption
<1>4. i \in 0 .. NTests
  BY OptionsAssumption DEF Init
<1> QED
  BY <1>1, <1>2, <1>3, <1>4, Zenon DEF Init, TypeOK, Stages, Exception, DevState

\* What the chain of harnesses can lead to.
LEMMA ChainTypes ==
    /\ ToServer(test) \in Stages
    /\ ToReboot(test) \in Stages
    /\ ToPlo(test) \in Stages
    /\ ToClose(test) \in Stages
    /\ ToShell \in Stages
BY DEF ToServer, ToReboot, ToPlo, ToClose, ToShell, Stages

\* Every step of run_tests, of a harness or of the device keeps the types.
LEMMA TypeNext == TypeOK /\ [Next]_vars => TypeOK'
<1> SUFFICES ASSUME TypeOK, [Next]_vars PROVE TypeOK'
  OBVIOUS
<1>a. Verdict(result) \in [status : Status, subs : SUBSET Status]
  BY ResultTypes DEF TypeOK, Verdict, Result
<1>1. CASE OpenTarget
  BY <1>1, Zenon DEF OpenTarget, TypeOK, env, StartTests, Stages, Final
<1>2. CASE Flash
  <2> DEFINE r == SetStage(NewResult, RUN)
  <2>1. r \in Result /\ SetStage(r, DONE) \in Result /\ Fail(r) \in Result
    <3>1. r \in Result
      BY ResultTypes DEF TestStage, RUN, DONE, INIT
    <3> QED
      BY <3>1, ResultTypes DEF TestStage, RUN, DONE, INIT
  <2>2. PICK e \in FlashOutcomes :
          /\ result' = CASE e = "none" -> SetStage(r, DONE)
                         [] e = "harness" -> Fail(r)
                         [] e = "other" -> r
          /\ results' = IF e = "other" THEN results ELSE Append(results, Verdict(result'))
          /\ pc' = CASE e = "none" -> StartTests
                     [] e = "harness" -> "export"
                     [] e = "other" -> "crashed"
          /\ exit' = IF e = "other" THEN 1 ELSE exit
    BY <1>2, Zenon DEF Flash
  <2>3. e \in Exception
    BY <2>2 DEF FlashOutcomes, Exception
  <2>4. result' \in Result
    BY <2>1, <2>2, <2>3 DEF Exception
  <2>5. Verdict(result') \in [status : Status, subs : SUBSET Status]
    BY <2>4, ResultTypes DEF Verdict, Result
  <2>6. pc' \in Stages \cup Final
    BY <2>2, <2>3 DEF Exception, StartTests, Stages, Final
  <2>7. results' \in Seq([status : Status, subs : SUBSET Status])
    <3>1. results \in Seq([status : Status, subs : SUBSET Status])
      BY DEF TypeOK
    <3> QED
      BY <2>2, <2>5, <3>1, AppendResult, Zenon
  <2> QED
    BY <1>2, <2>2, <2>4, <2>6, <2>7, Zenon DEF Flash, TypeOK, env, device
<1>3. CASE FlashHangs
  BY <1>3 DEF FlashHangs, TypeOK, env, device, Final
<1>4. CASE Export
  BY <1>4 DEF Export, TypeOK, env, device, Final
<1>5. CASE NextTest
  <2>1. tests[i + 1] \in TestOption
    BY <1>5, OptionsAssumption DEF NextTest, TypeOK
  <2>2. test' \in TestOption
    BY <1>5, <2>1, TargetsAssumption, Zenon DEF NextTest, TypeOK, TestOption, ShouldReboot, Context, TargetClass
  <2>3. result' \in Result
    BY <1>5, ResultTypes DEF NextTest
  <2> QED
    BY <1>5, <2>2, <2>3, OptionsAssumption DEF NextTest, TypeOK, env, device, Stages
<1>6. CASE NoMoreTests
  BY <1>6 DEF NoMoreTests, TypeOK, env, device, Stages
<1>7. CASE Build
  BY <1>7, ChainTypes, ResultTypes DEF Build, TypeOK, env, device, Stages, Exception
<1>8. CASE Unwind
  BY <1>8, ResultTypes DEF Unwind, TypeOK, env, device, Stages, Final, Exception
<1>9. CASE Record
  <2>1. results \in Seq([status : Status, subs : SUBSET Status])
    BY DEF TypeOK
  <2>2. results' \in Seq([status : Status, subs : SUBSET Status])
    BY <1>9, <1>a, <2>1, AppendResult DEF Record
  <2> QED
    BY <1>9, <2>2, Zenon DEF Record, TypeOK, env, device, Stages
<1>10. CASE StartServer
  <2>1. pc' \in Stages
    BY <1>10, ChainTypes DEF StartServer, Raise, Stages
  <2> QED
    BY <1>10, <2>1, Zenon DEF StartServer, TypeOK, env, Exception, Raise, Spoil, Restarted, DevState
<1>11. CASE CloseServer
  BY <1>11, ChainTypes, Zenon DEF CloseServer, TypeOK, env, Stages, Exception, Spoil, DevState
<1>12. CASE Reboot
  <2>1. RebootOutcomes \subseteq Exception
    BY DEF RebootOutcomes, Exception
  <2>2. result' \in Result
    BY <1>12, ResultTypes DEF Reboot, TypeOK, TestStage, REBOOT, INIT, DONE
  <2> QED
    BY <1>12, <2>1, <2>2, ChainTypes, ZenonT(40) DEF Reboot, TypeOK, env, Stages, Exception, Raise,
       Spoil, Restarted, DevState
<1>13. CASE Plo
  <2>1. result' \in Result
    BY <1>13, ResultTypes DEF Plo, TypeOK, TestStage, FLASH, INIT, DONE
  <2>2. pc' \in Stages
    BY <1>13, ChainTypes DEF Plo, Raise, Stages
  <2>3. exc' \in Exception
    BY <1>13 DEF Plo, TypeOK, Raise, Exception
  <2>4. dev' \in DevState /\ tainted' \in BOOLEAN
    BY <1>13, Zenon DEF Plo, TypeOK, Spoil, DevState
  <2> QED
    BY <1>13, <2>1, <2>2, <2>3, <2>4 DEF Plo, TypeOK, env
<1>14. CASE Shell
  <2>1. result' \in Result
    BY <1>14, ResultTypes DEF Shell, TypeOK, TestStage, RUN, INIT, DONE
  <2> QED
    BY <1>14, <2>1, Zenon DEF Shell, TypeOK, env, Stages, Exception, Raise, Spoil, DevState
<1>15. CASE Exec
  <2>1. result' \in Result
    BY <1>15, ResultTypes DEF Exec, TypeOK, TestStage, RUN, FLASH, INIT, DONE
  <2> QED
    BY <1>15, <2>1, Zenon DEF Exec, TypeOK, env, Stages, Exception, Raise, Spoil, DevState
<1>16. CASE Body
  <2>1. PICK subs \in SubSets :
          LET r == AddSubresults(result, subs) IN
          \/ /\ result' \in PyHarnessResults(r)
             /\ dev' \in {"psh", "running"}
             /\ tainted' = (StatusOf(result') = "FAIL")
             /\ pc' = IF target.dut = "exec" THEN "wait" ELSE "post"
             /\ UNCHANGED exc
          \/ result' = r /\ Raise("harness") /\ Spoil
    BY <1>16 DEF Body
  <2>2. AddSubresults(result, subs) \in Result
    BY ResultTypes, OptionsAssumption, Zenon DEF TypeOK
  <2>3. PyHarnessResults(AddSubresults(result, subs)) \subseteq Result
    <3>1. \A v \in Status : [NewResult EXCEPT !.status = v] \in Result
      BY DEF NewResult, Result, Status, UNSET, TestStage, INIT, DONE
    <3> QED
      BY <2>2, <3>1, ResultTypes, Zenon DEF PyHarnessResults
  <2>4. result' \in Result
    BY <2>1, <2>2, <2>3
  <2> QED
    BY <1>16, <2>1, <2>4, Zenon DEF Body, TypeOK, env, Stages, Exception, Raise, Spoil, DevState
<1>17. CASE Post
  <2>1. result' \in Result
    BY <1>17, ResultTypes DEF Post, TypeOK
  <2> QED
    BY <1>17, <2>1, ZenonT(40) DEF Post, TypeOK, env, Stages, Exception, Raise, Spoil, DevState
<1>18. CASE Wait
  <2>1. result' \in Result
    BY <1>18, ResultTypes, Zenon DEF Wait, TypeOK
  <2> QED
    BY <1>18, <2>1, Zenon DEF Wait, TypeOK, env, Stages
<1>19. CASE UNCHANGED vars
  BY <1>19 DEF vars, env, device, TypeOK
<1> QED
  BY <1>1, <1>2, <1>3, <1>4, <1>5, <1>6, <1>7, <1>8, <1>9, <1>10, <1>11, <1>12, <1>13,
     <1>14, <1>15, <1>16, <1>17, <1>18, <1>19 DEF Next, Over

\* Type correctness: whatever the targets, options and number of tests.
THEOREM TypeCorrect == Spec => []TypeOK
BY TypeInit, TypeNext, PTL DEF Spec

-----------------------------------------------------------------------------
(***************************************************************************)
(* The inductive invariant, one conjunct at a time.                        *)
(***************************************************************************)
\* What the assumption on the targets says of the target of the campaign.
LEMMA TargetFacts ==
    ASSUME TypeOK
    PROVE  /\ target.plo \in BOOLEAN /\ target.rootfs \in BOOLEAN /\ target.dmesg \in BOOLEAN
           /\ target.dut \in {"serial", "process", "exec"}
           /\ target.server \in {"none", "reset", "plain"}
           /\ target.plo => ~target.rootfs
           /\ target.server # "none" => target.plo /\ target.dut = "serial"
           /\ target.server = "plain" => target.rebooter = "debugger"
           /\ target.dut # "exec" => target.rebooter # "none"
           /\ target.dut = "exec" => ~target.plo /\ target.rebooter = "none"
BY TargetsAssumption DEF TypeOK, TargetClass

\* What a test and a campaign are made of.
LEMMA TestFacts ==
    ASSUME TypeOK
    PROVE  /\ test.reboot \in BOOLEAN /\ test.bootloader \in BOOLEAN
           /\ test.ignore \in BOOLEAN /\ test.cmd \in BOOLEAN
           /\ ctx.flash \in BOOLEAN /\ ctx.test \in BOOLEAN
BY DEF TypeOK, TestOption, Context

\* The chain that build_test makes is walked in its own order, with the facts
\* about the test that each harness was added for.
LEMMA ChainInit == Init => ChainInv /\ DeviceInv /\ StageInv /\ CountInv
BY DEF Init, ChainInv, DeviceInv, StageInv, CountInv, Chain

\* Every step keeps what the harness chain and the reboot decisions rely on.
LEMMA ChainNext == TypeOK /\ ChainInv /\ [Next]_vars => ChainInv'
<1> SUFFICES ASSUME TypeOK, ChainInv, [Next]_vars PROVE ChainInv'
  OBVIOUS
<1> USE DEF ChainInv, Chain, HasServer, HasReboot, HasPlo
<1>1. CASE OpenTarget
  BY <1>1 DEF OpenTarget, env, StartTests
<1>2. CASE Flash
  <2>1. pc' \in {"next", "export", "crashed"}
    BY <1>2 DEF Flash, StartTests, FlashOutcomes, Exception
  <2> QED
    BY <1>2, <2>1, Zenon DEF Flash, env
<1>3. CASE FlashHangs
  BY <1>3 DEF FlashHangs, env
<1>4. CASE Export
  BY <1>4 DEF Export, env
<1>5. CASE NextTest
  <2>1. tests[i + 1] \in TestOption
    BY <1>5, OptionsAssumption DEF NextTest, TypeOK
  <2>2. /\ test'.ignore = tests[i + 1].ignore
        /\ test'.bootloader = tests[i + 1].bootloader
        /\ test'.reboot = ShouldReboot(tests[i + 1])
    BY <1>5, <2>1 DEF NextTest, TestOption
  <2> QED
    BY <1>5, <2>2 DEF NextTest, env, ShouldReboot
<1>6. CASE NoMoreTests
  BY <1>6 DEF NoMoreTests, env
<1>7. CASE Build
  BY <1>7, TargetFacts, TestFacts DEF Build, env, ToServer, ToReboot, ToPlo, ToClose, ToShell
<1>8. CASE Unwind
  BY <1>8 DEF Unwind, env
<1>9. CASE Record
  BY <1>9 DEF Record, env
<1>10. CASE StartServer
  BY <1>10, TargetFacts, TestFacts DEF StartServer, env, ToReboot, ToPlo, ToClose, ToShell, Raise
<1>11. CASE CloseServer
  BY <1>11 DEF CloseServer, env, ToShell
<1>12. CASE Reboot
  BY <1>12, TargetFacts, TestFacts DEF Reboot, env, ToPlo, ToClose, ToShell, Raise
<1>13. CASE Plo
  BY <1>13, TargetFacts, TestFacts DEF Plo, env, ToClose, ToShell, Raise
<1>14. CASE Shell
  BY <1>14 DEF Shell, env, Raise
<1>15. CASE Exec
  BY <1>15 DEF Exec, env, Raise
<1>16. CASE Body
  BY <1>16 DEF Body, env, Raise
<1>17. CASE Post
  BY <1>17 DEF Post, env, Raise
<1>18. CASE Wait
  BY <1>18 DEF Wait, env
<1>19. CASE UNCHANGED vars
  BY <1>19 DEF vars, env
<1> QED
  BY <1>1, <1>2, <1>3, <1>4, <1>5, <1>6, <1>7, <1>8, <1>9, <1>10, <1>11, <1>12, <1>13,
     <1>14, <1>15, <1>16, <1>17, <1>18, <1>19, Zenon DEF Next, Over

\* A harness either hands the device on in the state that the next one counts
\* on, or fails; a test that is not failed leaves a device that is ready.
LEMMA DeviceNext == TypeOK /\ ChainInv /\ DeviceInv /\ [Next]_vars => DeviceInv'
<1> SUFFICES ASSUME TypeOK, ChainInv, DeviceInv, [Next]_vars PROVE DeviceInv'
  OBVIOUS
<1> USE DEF ChainInv, Chain, DeviceInv, Ready
<1>a. result \in Result
  BY DEF TypeOK
<1>1. CASE OpenTarget
  BY <1>1, Zenon DEF OpenTarget, env, StartTests
<1>2. CASE Flash
  <2>1. pc' \in {"next", "export", "crashed"}
    BY <1>2 DEF Flash, StartTests, FlashOutcomes, Exception
  <2> QED
    BY <1>2, <2>1, Zenon DEF Flash, env, device
<1>3. CASE FlashHangs
  BY <1>3 DEF FlashHangs, env, device
<1>4. CASE Export
  BY <1>4 DEF Export, env, device
<1>5. CASE NextTest
  <2>1. tests[i + 1] \in TestOption
    BY <1>5, OptionsAssumption DEF NextTest, TypeOK
  <2>2. /\ test'.ignore = tests[i + 1].ignore
        /\ test'.reboot = ShouldReboot(tests[i + 1])
    BY <1>5, <2>1 DEF NextTest, TestOption
  <2>3. StatusOf(Skip(NewResult)) = "SKIP"
    BY ResultTypes, ResultFacts
  <2> QED
    BY <1>5, <2>2, <2>3 DEF NextTest, env, device, ShouldReboot
<1>6. CASE NoMoreTests
  BY <1>6 DEF NoMoreTests, env, device
<1>7. CASE Build
  <2>1. StatusOf(Fail(result)) = "FAIL"
    BY <1>a, ResultFacts
  <2> QED
    BY <1>7, <2>1, TargetFacts, TestFacts DEF Build, env, device, ToServer, ToReboot, ToPlo,
       ToClose, ToShell, HasServer, HasReboot, HasPlo
<1>8. CASE Unwind
  <2>1. StatusOf(Fail(result)) = "FAIL"
    BY <1>a, ResultFacts
  <2> QED
    BY <1>8, <2>1 DEF Unwind, env, device
<1>9. CASE Record
  BY <1>9, Zenon DEF Record, env, device
<1>10. CASE StartServer
  BY <1>10, TargetFacts, TestFacts DEF StartServer, env, ToReboot, ToPlo, ToClose, ToShell,
     Raise, HasServer, HasReboot, HasPlo, Restarted, Spoil
<1>11. CASE CloseServer
  BY <1>11, TargetFacts, TestFacts DEF CloseServer, env, ToShell, Spoil, HasServer
<1>12. CASE Reboot
  BY <1>12, TargetFacts, TestFacts DEF Reboot, env, ToPlo, ToClose, ToShell, Raise,
     HasServer, HasReboot, HasPlo, Restarted, Spoil
<1>13. CASE Plo
  BY <1>13, TargetFacts, TestFacts DEF Plo, env, ToClose, ToShell, Raise, HasServer,
     HasPlo, Spoil
<1>14. CASE Shell
  BY <1>14, TargetFacts DEF Shell, env, Raise, Spoil
<1>15. CASE Exec
  BY <1>15 DEF Exec, env, Raise, Spoil
<1>16. CASE Body
  BY <1>16, Zenon DEF Body, env, Raise, Spoil
<1>17. CASE Post
  <2>1. StatusOf(Overwrite(result, result)) = StatusOf(result)
    BY <1>a, ResultFacts
  <2> QED
    BY <1>17, <2>1, TargetFacts DEF Post, env, Raise, Spoil
<1>18. CASE Wait
  <2>1. /\ StatusOf(Overwrite(result, result)) = StatusOf(result)
        /\ StatusOf(Fail(result)) = "FAIL"
    BY <1>a, ResultFacts
  <2> QED
    BY <1>18, <2>1 DEF Wait, env
<1>19. CASE UNCHANGED vars
  BY <1>19 DEF vars, env, device
<1> QED
  BY <1>1, <1>2, <1>3, <1>4, <1>5, <1>6, <1>7, <1>8, <1>9, <1>10, <1>11, <1>12, <1>13,
     <1>14, <1>15, <1>16, <1>17, <1>18, <1>19, Zenon DEF Next, Over

\* The stage of a result is never beyond what the coming harness will set.
LEMMA StageNext == TypeOK /\ ChainInv /\ StageInv /\ [Next]_vars => StageInv'
<1> SUFFICES ASSUME TypeOK, ChainInv, StageInv, [Next]_vars PROVE StageInv'
  OBVIOUS
<1> USE DEF StageInv, INIT, REBOOT, FLASH, RUN, DONE
<1>a. result \in Result /\ result.stage \in 1 .. 5
  BY DEF TypeOK, Result, TestStage
<1>b. ASSUME NEW s PROVE SetStage(result, s).stage = s
  BY <1>a, ResultFacts
<1>1. CASE OpenTarget
  BY <1>1 DEF OpenTarget, StartTests
<1>2. CASE Flash
  <2>1. pc' \in {"next", "export", "crashed"}
    BY <1>2 DEF Flash, StartTests, FlashOutcomes, Exception
  <2> QED
    BY <2>1
<1>3. CASE FlashHangs
  BY <1>3 DEF FlashHangs
<1>4. CASE Export
  BY <1>4 DEF Export
<1>5. CASE NextTest
  BY <1>5, ResultFacts DEF NextTest
<1>6. CASE NoMoreTests
  BY <1>6 DEF NoMoreTests
<1>7. CASE Build
  BY <1>7, <1>a DEF Build, ToServer, ToReboot, ToPlo, ToClose, ToShell
<1>8. CASE Unwind
  BY <1>8 DEF Unwind
<1>9. CASE Record
  BY <1>9 DEF Record
<1>10. CASE StartServer
  BY <1>10, <1>a DEF StartServer, ToReboot, ToPlo, ToClose, ToShell, Raise
<1>11. CASE CloseServer
  BY <1>11, TargetFacts DEF CloseServer, ToShell, ChainInv, HasServer
<1>12. CASE Reboot
  <2>1. result'.stage = REBOOT
    BY <1>12, <1>b DEF Reboot
  <2>2. ToPlo(test) # "exec"
    BY <1>12, TargetFacts DEF Reboot, ToPlo, ToClose, ToShell, ChainInv, HasReboot
  <2> QED
    BY <1>12, <2>1, <2>2 DEF Reboot, ToPlo, ToClose, ToShell, Raise
<1>13. CASE Plo
  <2>1. result'.stage = FLASH
    BY <1>13, <1>b DEF Plo
  <2> QED
    BY <1>13, <2>1, TargetFacts DEF Plo, ToClose, ToShell, Raise, ChainInv, HasPlo
<1>14. CASE Shell
  BY <1>14, <1>b DEF Shell, Raise
<1>15. CASE Exec
  BY <1>15, <1>b DEF Exec, Raise
<1>16. CASE Body
  <2>1. PICK subs \in SubSets :
          LET r == AddSubresults(result, subs) IN
          \/ /\ result' \in PyHarnessResults(r)
             /\ pc' = IF target.dut = "exec" THEN "wait" ELSE "post"
          \/ Raise("harness")
    BY <1>16 DEF Body
  <2>2. AddSubresults(result, subs) \in Result
    BY <1>a, ResultTypes, OptionsAssumption
  <2>3. \A x \in PyHarnessResults(AddSubresults(result, subs)) : x.stage = DONE
    <3>1. \A v \in Status : [NewResult EXCEPT !.status = v] \in Result
      BY DEF NewResult, Result, Status, UNSET, TestStage
    <3> DEFINE r == AddSubresults(result, subs)
    <3>2. \A v \in Status : Overwrite(r, [NewResult EXCEPT !.status = v]).stage = DONE
      BY <2>2, <3>1, ResultFacts
    <3>3. Overwrite(r, r).stage = DONE /\ FailComposite(r).stage = DONE /\ Fail(r).stage = DONE
      BY <2>2, ResultFacts
    <3> QED
      BY <3>2, <3>3, Zenon DEF PyHarnessResults
  <2> QED
    BY <1>16, <2>1, <2>3 DEF Body, Raise
<1>17. CASE Post
  BY <1>17 DEF Post, Raise
<1>18. CASE Wait
  BY <1>18 DEF Wait
<1>19. CASE UNCHANGED vars
  BY <1>19 DEF vars
<1> QED
  BY <1>1, <1>2, <1>3, <1>4, <1>5, <1>6, <1>7, <1>8, <1>9, <1>10, <1>11, <1>12, <1>13,
     <1>14, <1>15, <1>16, <1>17, <1>18, <1>19 DEF Next, Over

\* Exactly one verdict is recorded for the flashing and for each test taken from
\* the list; only a failed flashing leads to an export before the list is done.
LEMMA CountNext == TypeOK /\ CountInv /\ [Next]_vars => CountInv'
<1> SUFFICES ASSUME TypeOK, CountInv, [Next]_vars PROVE CountInv'
  OBVIOUS
<1> USE DEF CountInv, Chain, Flashes
<1>a. /\ results \in Seq([status : Status, subs : SUBSET Status])
      /\ i \in Int /\ NTests \in Nat
  BY OptionsAssumption DEF TypeOK
<1>b. ASSUME NEW r \in Result, results' = Append(results, Verdict(r))
      PROVE  /\ Len(results') = Len(results) + 1
             /\ results'[Len(results) + 1].status = StatusOf(r)
  <2>1. Verdict(r) \in [status : Status, subs : SUBSET Status]
    BY ResultTypes DEF Verdict, Result
  <2> QED
    BY <1>a, <1>b, <2>1, AppendResult DEF Verdict
<1>1. CASE OpenTarget
  <2>1. pc = "main" /\ results = <<>> /\ i = 0 /\ Len(results) = 0 /\ exit = -1
    BY <1>1 DEF OpenTarget
  <2>2. CASE pc' = "exited" /\ exit' = 2
    BY <1>1, <2>2 DEF OpenTarget, env
  <2>3. CASE ctx.flash /\ pc' = "flash" /\ exit' = exit
    BY <1>1, <2>1, <2>3 DEF OpenTarget, env
  <2>4. CASE ~ctx.flash /\ ctx.test /\ pc' = "next" /\ exit' = exit
    BY <1>1, <2>1, <2>4 DEF OpenTarget, env
  <2>5. CASE ~ctx.flash /\ ~ctx.test /\ pc' = "export" /\ exit' = exit
    BY <1>1, <2>1, <2>5 DEF OpenTarget, env, Planned
  <2> QED
    BY <1>1, <2>2, <2>3, <2>4, <2>5 DEF OpenTarget, StartTests
<1>2. CASE Flash
  <2> DEFINE r == SetStage(NewResult, RUN)
  <2>1. r \in Result
    BY ResultTypes DEF TestStage, RUN, INIT, DONE
  <2>2. SetStage(r, DONE) \in Result /\ Fail(r) \in Result /\ StatusOf(Fail(r)) = "FAIL"
    BY <2>1, ResultTypes, ResultFacts DEF TestStage, INIT, DONE
  <2> HIDE DEF r
  <2>0. pc = "flash" /\ i' = i /\ ctx' = ctx
    BY <1>2 DEF Flash, env
  <2>3. CASE pc' = "crashed" /\ exit' = 1
    BY <2>0, <2>3
  <2>4. CASE /\ results' = Append(results, Verdict(SetStage(r, DONE)))
             /\ pc' = StartTests /\ exit' = exit
    <3>1. ctx.flash /\ i = 0 /\ Len(results) = 0 /\ exit = -1
      BY <2>0
    <3>2. Len(results') = 1
      BY <1>b, <2>2, <2>4, <3>1
    <3>3. CASE ctx.test /\ pc' = "next"
      BY <2>0, <2>4, <3>1, <3>2, <3>3
    <3>4. CASE ~ctx.test /\ pc' = "export"
      BY <2>0, <2>4, <3>1, <3>2, <3>4 DEF Planned
    <3> QED
      BY <2>4, <3>3, <3>4 DEF StartTests
  <2>5. CASE results' = Append(results, Verdict(Fail(r))) /\ pc' = "export" /\ exit' = exit
    <3>1. Len(results') = Len(results) + 1 /\ results'[Len(results) + 1].status = "FAIL"
      BY <1>b, <2>2, <2>5
    <3>2. AnyFailed'
      BY <1>a, <3>1 DEF AnyFailed
    <3> QED
      BY <2>0, <2>5, <3>2
  <2> QED
    BY <1>2, <2>3, <2>4, <2>5 DEF Flash, FlashOutcomes, Exception, r
<1>3. CASE FlashHangs
  BY <1>3 DEF FlashHangs, env
<1>4. CASE Export
  BY <1>4 DEF Export, env
<1>5. CASE NextTest
  BY <1>5, <1>a DEF NextTest, env, TypeOK
<1>6. CASE NoMoreTests
  BY <1>6, <1>a DEF NoMoreTests, env, Planned
<1>7. CASE Build
  BY <1>7 DEF Build, env, ToServer, ToReboot, ToPlo, ToClose, ToShell
<1>8. CASE Unwind
  BY <1>8 DEF Unwind, env
<1>9. CASE Record
  <2>1. Len(results') = Len(results) + 1
    BY <1>9, <1>b DEF Record, TypeOK
  <2> QED
    BY <1>9, <1>a, <2>1 DEF Record, env
<1>10. CASE StartServer
  BY <1>10 DEF StartServer, env, ToReboot, ToPlo, ToClose, ToShell, Raise
<1>11. CASE CloseServer
  BY <1>11 DEF CloseServer, env, ToShell
<1>12. CASE Reboot
  BY <1>12 DEF Reboot, env, ToPlo, ToClose, ToShell, Raise
<1>13. CASE Plo
  BY <1>13 DEF Plo, env, ToClose, ToShell, Raise
<1>14. CASE Shell
  BY <1>14 DEF Shell, env, Raise
<1>15. CASE Exec
  BY <1>15 DEF Exec, env, Raise
<1>16. CASE Body
  BY <1>16 DEF Body, env, Raise
<1>17. CASE Post
  BY <1>17 DEF Post, env, Raise
<1>18. CASE Wait
  BY <1>18 DEF Wait, env
<1>19. CASE UNCHANGED vars
  BY <1>19 DEF vars, env, Planned, AnyFailed
<1> QED
  BY <1>1, <1>2, <1>3, <1>4, <1>5, <1>6, <1>7, <1>8, <1>9, <1>10, <1>11, <1>12, <1>13,
     <1>14, <1>15, <1>16, <1>17, <1>18, <1>19 DEF Next, Over

-----------------------------------------------------------------------------
(***************************************************************************)
(* The theorems.                                                           *)
(***************************************************************************)
\* The inductive invariant holds in every reachable state of a campaign.
THEOREM InductiveHolds == Spec => []Inductive
<1>1. Init => Inductive
  BY TypeInit, ChainInit DEF Inductive
<1>2. Inductive /\ [Next]_vars => Inductive'
  BY TypeNext, ChainNext, DeviceNext, StageNext, CountNext DEF Inductive
<1> QED
  BY <1>1, <1>2, PTL DEF Spec

\* No harness function runs on a device that carries the state of a test that
\* went wrong (run_tests, last_test_failed).
THEOREM DeviceIsClean == Spec => []CleanStart
<1>1. Inductive => CleanStart
  BY DEF Inductive, DeviceInv, CleanStart
<1> QED
  BY <1>1, InductiveHolds, PTL

\* A test that left the device in a bad state is recorded as failed.
THEOREM SpoiltIsFailed == Spec => []SpoiltMeansFailed
<1>1. Inductive => SpoiltMeansFailed
  BY DEF Inductive, DeviceInv, Ready, SpoiltMeansFailed
<1> QED
  BY <1>1, InductiveHolds, PTL

\* Kernel messages are back on when the next test reaches the shell, on every
\* target that suppresses them.
THEOREM KlogIsRestored == Spec => []KlogRestored
<1>1. Inductive => KlogRestored
  BY DEF Inductive, DeviceInv, KlogRestored
<1> QED
  BY <1>1, InductiveHolds, PTL

\* Without a reboot there is an open dut and a shell that prompts.
THEOREM PromptIsThere == Spec => []PromptWithoutReboot
<1>1. Inductive => PromptWithoutReboot
  BY DEF Inductive, DeviceInv, Ready, PromptWithoutReboot
<1> QED
  BY <1>1, InductiveHolds, PTL

\* PloHarness is only called on a device that waits in the loader.
THEOREM LoaderAnswers == Spec => []LoaderIsThere
<1>1. Inductive => LoaderIsThere
  BY DEF Inductive, DeviceInv, LoaderIsThere
<1> QED
  BY <1>1, InductiveHolds, PTL

-----------------------------------------------------------------------------
(***************************************************************************)
(* The action property, and the implementation of CampaignReport.          *)
(***************************************************************************)
\* Only the start of a test and the flashing put a new result in place; every
\* other step sets a stage that is not below the one the result has.
LEMMA StageStep ==
    ASSUME Inductive, [Next]_vars
    PROVE  NextTest \/ Flash \/ result'.stage >= result.stage
<1> USE DEF INIT, REBOOT, FLASH, RUN, DONE
<1>a. result \in Result /\ result.stage \in 1 .. 5
  BY DEF Inductive, TypeOK, Result, TestStage
<1>b. ASSUME NEW s PROVE SetStage(result, s).stage = s
  BY <1>a, ResultFacts
<1>c. Fail(result).stage = 5 /\ Overwrite(result, result).stage = 5
  BY <1>a, ResultFacts
<1>1. CASE UNCHANGED result
  BY <1>1, <1>a
<1>2. CASE Build \/ Unwind \/ Wait \/ Post
  BY <1>2, <1>a, <1>c DEF Build, Unwind, Wait, Post
<1>3. CASE Reboot
  BY <1>3, <1>a, <1>b DEF Reboot, Inductive, StageInv
<1>4. CASE Plo
  BY <1>4, <1>a, <1>b DEF Plo, Inductive, StageInv
<1>5. CASE Shell
  BY <1>5, <1>a, <1>b DEF Shell, Inductive, StageInv
<1>6. CASE Exec
  BY <1>6, <1>a, <1>b DEF Exec, Inductive, StageInv
<1>7. CASE Body
  <2>1. PICK subs \in SubSets :
          LET r == AddSubresults(result, subs) IN
          result' \in PyHarnessResults(r) \/ result' = r
    BY <1>7 DEF Body
  <2> DEFINE r == AddSubresults(result, subs)
  <2>2. r \in Result
    BY <1>a, ResultTypes, OptionsAssumption
  <2>3. \A v \in Status : [NewResult EXCEPT !.status = v] \in Result
    BY DEF NewResult, Result, Status, UNSET, TestStage
  <2>4. \A v \in Status : Overwrite(r, [NewResult EXCEPT !.status = v]).stage = 5
    BY <2>2, <2>3, ResultFacts
  <2>5. Overwrite(r, r).stage = 5 /\ FailComposite(r).stage = 5 /\ Fail(r).stage = 5
    BY <2>2, ResultFacts
  <2>6. r.stage = result.stage
    BY <1>a, ResultFacts
  <2> HIDE DEF r
  <2>7. \A x \in PyHarnessResults(r) : x.stage = 5
    BY <2>4, <2>5, Zenon DEF PyHarnessResults
  <2> QED
    BY <1>a, <2>1, <2>6, <2>7 DEF r
<1>8. CASE OpenTarget \/ FlashHangs \/ Export \/ NoMoreTests \/ Record
  BY <1>1, <1>8 DEF OpenTarget, FlashHangs, Export, NoMoreTests, Record
<1>9. CASE StartServer \/ CloseServer \/ Over \/ UNCHANGED vars
  BY <1>1, <1>9 DEF StartServer, CloseServer, Over, vars
<1> QED
  BY <1>2, <1>3, <1>4, <1>5, <1>6, <1>7, <1>8, <1>9 DEF Next

\* The assertion of set_stage never fails.
THEOREM StagesGoUp == Spec => StagesInOrder
<1>1. Inductive /\ [Next]_vars => [NextTest \/ Flash \/ result'.stage >= result.stage]_vars
  BY StageStep
<1> QED
  BY <1>1, InductiveHolds, PTL DEF Spec, StagesInOrder

\* The statuses of a sequence of recorded verdicts, in their order.
Recorded == [status : Status, subs : SUBSET Status]

StatusesOf(s) == [k \in 1 .. Len(s) |-> s[k].status]

\* A sequence of verdicts as the abstract specification sees it.
LEMMA StatusesSeq ==
    ASSUME NEW s \in Seq(Recorded)
    PROVE  /\ StatusesOf(s) \in Seq(Status)
           /\ Len(StatusesOf(s)) = Len(s)
           /\ \A k \in 1 .. Len(s) : StatusesOf(s)[k] = s[k].status
<1>1. Len(s) \in Nat
  BY LenProperties
<1>2. \A k \in 1 .. Len(s) : s[k] \in Recorded
  BY ElementOfSeq
<1>3. \A k \in 1 .. Len(s) : s[k].status \in Status
  BY <1>2 DEF Recorded
<1>4. StatusesOf(s) \in [1 .. Len(s) -> Status]
  BY <1>3 DEF StatusesOf
<1>5. StatusesOf(s) \in Seq(Status)
  BY <1>1, <1>4, SeqDef
<1>6. Len(StatusesOf(s)) \in Nat /\ DOMAIN StatusesOf(s) = 1 .. Len(StatusesOf(s))
  BY <1>5, LenProperties
<1>7. DOMAIN StatusesOf(s) = 1 .. Len(s)
  BY DEF StatusesOf
<1>8. Len(StatusesOf(s)) = Len(s)
  BY <1>1, <1>6, <1>7
<1> QED
  BY <1>5, <1>8 DEF StatusesOf

\* Recording a verdict appends it to what the abstract specification reports.
LEMMA StatusesAppend ==
    ASSUME NEW s \in Seq(Recorded), NEW v \in Recorded
    PROVE  StatusesOf(Append(s, v)) = Append(StatusesOf(s), v.status)
<1>1. /\ Append(s, v) \in Seq(Recorded)
      /\ Len(Append(s, v)) = Len(s) + 1
      /\ \A k \in 1 .. Len(s) : Append(s, v)[k] = s[k]
      /\ Append(s, v)[Len(s) + 1] = v
  BY AppendResult
<1>2. Len(s) \in Nat /\ v.status \in Status
  BY LenProperties DEF Recorded
<1> DEFINE t == StatusesOf(s)
           u == StatusesOf(Append(s, v))
<1>3. /\ t \in Seq(Status) /\ Len(t) = Len(s)
      /\ \A k \in 1 .. Len(s) : t[k] = s[k].status
  BY StatusesSeq
<1>4. /\ u \in Seq(Status) /\ Len(u) = Len(s) + 1
      /\ \A k \in 1 .. Len(s) + 1 : u[k] = Append(s, v)[k].status
  BY <1>1, StatusesSeq, Zenon
<1> HIDE DEF t, u
<1>5. /\ Append(t, v.status) \in Seq(Status)
      /\ Len(Append(t, v.status)) = Len(s) + 1
      /\ \A k \in 1 .. Len(s) : Append(t, v.status)[k] = t[k]
      /\ Append(t, v.status)[Len(s) + 1] = v.status
  BY <1>2, <1>3, AppendResult
<1>6. ASSUME NEW k \in 1 .. Len(s) + 1 PROVE u[k] = Append(t, v.status)[k]
  <2>1. CASE k \in 1 .. Len(s)
    BY <1>1, <1>3, <1>4, <1>5, <2>1
  <2>2. CASE k = Len(s) + 1
    BY <1>1, <1>4, <1>5, <2>2
  <2>3. \A n \in Nat : k \in 1 .. n + 1 => k \in 1 .. n \/ k = n + 1
    OBVIOUS
  <2> QED
    BY <1>2, <2>1, <2>2, <2>3, Zenon
<1>7. u = Append(t, v.status)
  BY <1>4, <1>5, <1>6, SeqEqual
<1> QED
  BY <1>7 DEF t, u

\* In every state the reported verdicts are the statuses of the results.
LEMMA ReportedIs == Reported = StatusesOf(results)
BY DEF Reported, StatusesOf

\* The next verdict is reported: a step of Flash or of Record.
LEMMA ReportStep ==
    ASSUME TypeOK, exit = -1, NEW r \in Result, results' = Append(results, Verdict(r)),
           Len(results) < Planned, UNCHANGED <<env, exit>>
    PROVE  Report!Report
<1>1. results \in Seq(Recorded)
  BY DEF TypeOK, Recorded
<1>2. Verdict(r) \in Recorded /\ Verdict(r).status = StatusOf(r) /\ StatusOf(r) \in Status
  BY ResultTypes DEF Verdict, Result, Recorded
<1>3. Reported' = Append(Reported, StatusOf(r))
  <2>1. Reported' = StatusesOf(Append(results, Verdict(r)))
    BY DEF Reported, StatusesOf
  <2> QED
    BY <1>1, <1>2, <2>1, StatusesAppend, ReportedIs
<1>4. Len(Reported) = Len(results)
  BY <1>1, StatusesSeq, ReportedIs
<1>5. UNCHANGED <<Planned, exit>>
  BY DEF env, Planned
<1>6. StatusOf(r) \in Report!Verdict
  BY <1>2 DEF Status, Report!Verdict
<1> QED
  BY <1>3, <1>4, <1>5, <1>6 DEF Report!Report, Report!RUNNING

\* The process ends: a step of Export.
LEMMA FinishStep ==
    ASSUME TypeOK, CountInv, Export
    PROVE  Report!Finish
<1>1. results \in Seq(Recorded)
  BY DEF TypeOK, Recorded
<1>2. AnyFailed <=> Report!Failed
  BY <1>1, StatusesSeq, ReportedIs DEF AnyFailed, Report!Failed
<1>3. Len(Reported) = Len(results)
  BY <1>1, StatusesSeq, ReportedIs
<1>4. UNCHANGED <<Planned, Reported>>
  BY DEF Export, env, Planned, Reported
<1>5. exit = -1 /\ (Len(results) = Planned \/ AnyFailed)
  BY DEF Export, CountInv
<1>6. exit' = IF AnyFailed THEN 1 ELSE 0
  BY DEF Export
<1> QED
  BY <1>2, <1>3, <1>4, <1>5, <1>6 DEF Report!Finish, Report!RUNNING

\* Any other step leaves what is reported alone, or is cut short.
LEMMA OtherStep ==
    ASSUME CountInv, pc \notin {"exited", "crashed"}, UNCHANGED <<env, results>>,
           exit' \in {exit, 1, 2}
    PROVE  Report!CutShort \/ UNCHANGED Report!rvars
<1>1. UNCHANGED <<Planned, Reported>>
  BY DEF env, Planned, Reported
<1>2. exit = -1
  BY DEF CountInv
<1> QED
  BY <1>1, <1>2 DEF Report!CutShort, Report!RUNNING, Report!rvars

\* Every step of a campaign is a step of CampaignReport or leaves it unchanged.
LEMMA ReportNext ==
    ASSUME Inductive, [Next]_vars
    PROVE  [Report!Next]_(Report!rvars)
<1> USE DEF Inductive
<1>a. Report!Report \/ Report!Finish \/ Report!CutShort \/ UNCHANGED Report!rvars
      => [Report!Next]_(Report!rvars)
  BY DEF Report!Next
<1>b. NTests \in Nat /\ i \in 0 .. NTests /\ result \in Result
  BY OptionsAssumption DEF TypeOK
<1>1. CASE Flash
  <2> DEFINE r == SetStage(NewResult, RUN)
  <2>1. r \in Result
    BY ResultTypes DEF TestStage, RUN, INIT, DONE
  <2>2. SetStage(r, DONE) \in Result /\ Fail(r) \in Result
    BY <2>1, ResultTypes DEF TestStage, INIT, DONE
  <2> HIDE DEF r
  <2>3. pc = "flash" /\ UNCHANGED env
    BY <1>1 DEF Flash
  <2>4. Len(results) < Planned /\ exit = -1
    BY <1>b, <2>3 DEF CountInv, Planned
  <2>5. CASE results' = results /\ exit' = 1
    BY <1>a, <2>3, <2>5, OtherStep
  <2>6. CASE results' = Append(results, Verdict(SetStage(r, DONE))) /\ exit' = exit
    BY <1>a, <2>2, <2>3, <2>4, <2>6, ReportStep
  <2>7. CASE results' = Append(results, Verdict(Fail(r))) /\ exit' = exit
    BY <1>a, <2>2, <2>3, <2>4, <2>7, ReportStep
  <2> QED
    BY <1>1, <2>5, <2>6, <2>7 DEF Flash, FlashOutcomes, Exception, r
<1>2. CASE Record
  <2>1. Len(results) < Planned /\ exit = -1
    BY <1>2, <1>b DEF Record, CountInv, Planned, Flashes
  <2> QED
    BY <1>2, <1>a, <1>b, <2>1, ReportStep DEF Record
<1>3. CASE Export
  BY <1>3, <1>a, FinishStep
<1>4. CASE OpenTarget \/ FlashHangs \/ NextTest \/ NoMoreTests \/ Build \/ Unwind
  <2>1. pc \notin {"exited", "crashed"} /\ UNCHANGED <<env, results>> /\ exit' \in {exit, 1, 2}
    BY <1>4 DEF OpenTarget, FlashHangs, NextTest, NoMoreTests, Build, Unwind
  <2> QED
    BY <1>a, <2>1, OtherStep
<1>5. CASE StartServer \/ CloseServer \/ Reboot \/ Plo \/ Shell \/ Exec \/ Body \/ Post \/ Wait
  <2>1. pc \notin {"exited", "crashed"} /\ UNCHANGED <<env, results>> /\ exit' \in {exit, 1, 2}
    BY <1>5 DEF StartServer, CloseServer, Reboot, Plo, Shell, Exec, Body, Post, Wait
  <2> QED
    BY <1>a, <2>1, OtherStep
<1>6. CASE Over \/ UNCHANGED vars
  <2>1. UNCHANGED Report!rvars
    BY <1>6 DEF Over, vars, env, Report!rvars, Planned, Reported
  <2> QED
    BY <1>a, <2>1
<1> QED
  BY <1>1, <1>2, <1>3, <1>4, <1>5, <1>6 DEF Next

\* A campaign starts with nothing reported.
LEMMA ReportInit == Init => Report!Init
<1> SUFFICES ASSUME Init PROVE Report!Init
  OBVIOUS
<1>1. Reported = <<>>
  BY DEF Init, Reported
<1>2. Planned \in Nat
  BY OptionsAssumption DEF Planned
<1> QED
  BY <1>1, <1>2 DEF Init, Report!Init, Report!RUNNING

\* A campaign implements CampaignReport: verdicts are reported one at a time and
\* stay, and the exit code 0 means that all was reported and nothing failed.
THEOREM ReportIsFaithful == Spec => ReportsFaithfully
<1>1. Inductive /\ [Next]_vars => [Report!Next]_(Report!rvars)
  BY ReportNext
<1> QED
  BY <1>1, ReportInit, InductiveHolds, PTL DEF Spec, ReportsFaithfully, Report!Spec

=============================================================================
