------------------------------ MODULE Campaign ------------------------------
(***************************************************************************)
(* A test campaign: TestRunner.run and run_tests (trunner/test_runner.py), *)
(* main (runner.py), the harness chains that the targets' build_test       *)
(* methods put together, and the device under test as far as the runner    *)
(* depends on it: whether a prompt can be had, whether kernel messages are *)
(* suppressed, and whether it carries state of a test that went wrong.     *)
(*                                                                         *)
(* One action is one harness __call__ up to the call of the next harness,  *)
(* or what it does after that call returns.  Exceptions are explicit:      *)
(* "harness" is any subclass of HarnessError (run_tests turns it into a    *)
(* FAIL), "other" is anything else (nobody catches it).                    *)
(***************************************************************************)
EXTENDS TestResult, Integers, Sequences

CONSTANTS
    Targets,    \* the targets a campaign may run on
    Options,    \* the test options (TestOptions) a yaml file may give a test
    NTests,     \* number of tests in the campaign
    SubSets     \* the sets of sub-result statuses a harness may report

(***************************************************************************)
(* A target class: how the dut is reached, whether it has a root file      *)
(* system, what build_test puts in the chain, and how the rebooter works.  *)
(***************************************************************************)
TargetClass ==
    [ dut : {"serial", "process", "exec"},
      rootfs : BOOLEAN,
      plo : BOOLEAN,                           \* build_test adds a PloHarness
      server : {"none", "reset", "plain"},     \* gdb server around the set-up
      dmesg : BOOLEAN,                         \* suppress_dmesg
      rebooter : {"respawn", "reset_pin", "debugger", "none"},
      boot_pin : BOOLEAN,                      \* rebooter calls set_flash_mode
      slow_flash : BOOLEAN ]                   \* flash_dut waits without timeout

TestOption == [ignore : BOOLEAN, reboot : BOOLEAN, bootloader : BOOLEAN, cmd : BOOLEAN]

Context == [flash : BOOLEAN, test : BOOLEAN, nightly : BOOLEAN, gpio : BOOLEAN]

ASSUME TargetsAssumption ==
    /\ Targets \subseteq TargetClass
    /\ \A t \in Targets : t.plo => ~t.rootfs
    /\ \A t \in Targets : t.server # "none" => t.plo /\ t.dut = "serial"
    /\ \A t \in Targets : t.server = "plain" => t.rebooter = "debugger"
    /\ \A t \in Targets : t.dut = "serial" => t.rebooter \in {"reset_pin", "debugger"}
    /\ \A t \in Targets : t.dut = "process" => t.rebooter = "respawn"
    /\ \A t \in Targets : t.dut = "exec" => ~t.plo /\ t.rebooter = "none"

ASSUME OptionsAssumption ==
    Options \subseteq TestOption /\ NTests \in Nat /\ SubSets \subseteq SUBSET Status

VARIABLES
    ctx, target, tests,     \* fixed for the whole campaign
    pc,                     \* the harness about to be called
    i,                      \* number of tests taken from the list
    test,                   \* the current test, with should_reboot settled
    result, results,
    last_test_failed,
    exc,                    \* the exception on its way up, "none" if there is none
    dev,                    \* what the console of the device shows
    klog,                   \* kernel messages go to the console
    open,                   \* dut.pexpect_proc is not None
    tainted,                \* the device carries state of a test that went wrong
    exit

env == <<ctx, target, tests>>
device == <<dev, klog, open, tainted>>
vars == <<env, pc, i, test, result, results, last_test_failed, exc, device, exit>>

DevState == {"unknown", "boot", "psh", "running"}

Exception == {"none", "harness", "other"}

Final == {"exited", "crashed", "hung"}

Stages == {"main", "flash", "next", "build", "server", "reboot", "plo", "close",
           "shell", "exec", "body", "post", "wait", "unwind", "record", "export"}

NoTest == [ignore |-> TRUE, reboot |-> FALSE, bootloader |-> FALSE, cmd |-> FALSE]

Verdict(r) == [status |-> StatusOf(r), subs |-> r.subs]

\* Mutant: only the last verdict decides.
AnyFailedLast == results # <<>> /\ results[Len(results)].status = "FAIL"

AnyFailed == \E k \in 1 .. Len(results) : results[k].status = "FAIL"

-----------------------------------------------------------------------------
(***************************************************************************)
(* build_test: which harnesses the chain has, and the links between them   *)
(* in the order in which HarnessBuilder.add chains them.                   *)
(***************************************************************************)
\* STM32L4x6 leaves the reset to the gdb server when it loads applications.
HasReboot(t) ==
    /\ t.reboot
    /\ target.rebooter # "none"
    /\ ~(target.server = "reset" /\ t.bootloader)

HasPlo(t) == target.plo /\ t.bootloader /\ (target.server = "plain" => t.reboot)

HasServer(t) ==
    \/ target.server = "reset" /\ t.bootloader
    \/ target.server = "plain" /\ t.reboot

ToShell == IF target.dut = "exec" THEN "exec" ELSE "shell"

ToClose(t) == IF HasServer(t) THEN "close" ELSE ToShell

ToPlo(t) == IF HasPlo(t) THEN "plo" ELSE ToClose(t)

ToReboot(t) == IF HasReboot(t) THEN "reboot" ELSE ToPlo(t)

ToServer(t) == IF HasServer(t) THEN "server" ELSE ToReboot(t)

\* An exception leaves the current harness.  Inside the gdb server context the
\* context manager's finally clause runs first.
Raise(e) ==
    /\ exc' = e
    /\ pc' = IF HasServer(test) /\ pc \in {"server", "reboot", "plo"} THEN "close" ELSE "unwind"

\* What a harness that fails leaves behind.
Spoil == dev' = "unknown" /\ tainted' = TRUE

Restarted == dev' = "boot" /\ klog' = TRUE /\ tainted' = FALSE

-----------------------------------------------------------------------------
(***************************************************************************)
(* main and TestRunner.run.                                                *)
(***************************************************************************)
Init ==
    /\ ctx \in Context
    /\ target \in Targets
    /\ tests \in [1 .. NTests -> Options]
    /\ pc = "main"
    /\ i = 0
    /\ test = NoTest
    /\ result = NewResult
    /\ results = <<>>
    /\ last_test_failed = TRUE
    /\ exc = "none"
    /\ dev = "unknown"
    /\ klog \in BOOLEAN
    /\ open = FALSE
    /\ tainted = TRUE
    /\ exit = -1

StartTests == IF ctx.test THEN "next" ELSE "export"

\* from_context opens the serial port; a PortError makes main return 2.
OpenTarget ==
    /\ pc = "main"
    /\ \/ /\ open' = (target.dut = "serial")
          /\ pc' = IF ctx.flash THEN "flash" ELSE StartTests
          /\ UNCHANGED exit
       \/ /\ target.dut = "serial"
          /\ pc' = "exited"
          /\ exit' = 2
          /\ UNCHANGED open
    /\ UNCHANGED <<env, i, test, result, results, last_test_failed, exc, dev, klog, tainted>>

\* The emulators' and the host's flash_dut does nothing.  A board with a boot
\* mode pin is first put in flash mode, which a host without gpio cannot do.
FlashOutcomes ==
    IF target.dut # "serial" THEN {"none"}
    ELSE IF target.boot_pin /\ ~ctx.gpio THEN {"other"} ELSE Exception

Flash ==
    /\ pc = "flash"
    /\ \E e \in FlashOutcomes :
          LET r == SetStage(NewResult, RUN) IN
          /\ result' = CASE e = "none" -> SetStage(r, DONE)
                         [] e = "harness" -> Fail(r)
                         [] e = "other" -> r
          /\ results' = IF e = "other" THEN results ELSE Append(results, Verdict(result'))
          /\ pc' = CASE e = "none" -> StartTests
                     [] e = "harness" -> "export"
                     [] e = "other" -> "crashed"
          /\ exit' = IF e = "other" THEN 1 ELSE exit
    /\ UNCHANGED <<env, i, test, last_test_failed, exc, device>>

\* erase and jffs2 wait for the plo prompt with timeout None: if the loader
\* hangs there, so does the campaign.
FlashHangs ==
    /\ pc = "flash"
    /\ target.slow_flash
    /\ FlashOutcomes = Exception
    /\ pc' = "hung"
    /\ UNCHANGED <<env, i, test, result, results, last_test_failed, exc, device, exit>>

Export ==
    /\ pc = "export"
    /\ exit' = IF AnyFailed THEN 1 ELSE 0
    /\ pc' = "exited"
    /\ UNCHANGED <<env, i, test, result, results, last_test_failed, exc, device>>

-----------------------------------------------------------------------------
(***************************************************************************)
(* run_tests, one iteration of the loop.                                   *)
(***************************************************************************)
\* Mutant: tests that need the loader are not rebooted into it.
ShouldRebootNoLoader(t) == t.reboot \/ last_test_failed \/ ctx.nightly

ShouldReboot(t) ==
    \/ t.reboot
    \/ last_test_failed
    \/ ctx.nightly
    \/ ~target.rootfs /\ t.bootloader

NextTest ==
    /\ pc = "next"
    /\ i < NTests
    /\ i' = i + 1
    /\ test' = [tests[i + 1] EXCEPT !.reboot = ShouldReboot(tests[i + 1])]
    /\ result' = IF test'.ignore THEN Skip(NewResult) ELSE NewResult
    /\ pc' = IF test'.ignore THEN "record" ELSE "build"
    /\ UNCHANGED <<env, results, last_test_failed, exc, device, exit>>

NoMoreTests ==
    /\ pc = "next"
    /\ i = NTests
    /\ pc' = "export"
    /\ UNCHANGED <<env, i, test, result, results, last_test_failed, exc, device, exit>>

\* build_test, then the newline that makes the shell prompt again: without an
\* open dut that is an AttributeError.  The host target's chain is a lone
\* failing harness if the test has no command.
Build ==
    /\ pc = "build"
    /\ IF ~test.reboot /\ ~open
       THEN exc' = "other" /\ pc' = "unwind" /\ UNCHANGED result
       ELSE IF target.dut = "exec" /\ ~test.cmd
       THEN result' = Fail(result) /\ pc' = "record" /\ UNCHANGED exc
       ELSE pc' = ToServer(test) /\ UNCHANGED <<result, exc>>
    /\ UNCHANGED <<env, i, test, results, last_test_failed, device, exit>>

\* Mutant: the test is tried again instead of being failed.
UnwindRetry ==
    /\ pc = "unwind"
    /\ exc' = "none"
    /\ IF exc = "harness" THEN pc' = "build" /\ UNCHANGED exit
                          ELSE pc' = "crashed" /\ exit' = 1
    /\ UNCHANGED <<env, i, test, result, results, last_test_failed, device>>

\* The except clause of run_tests; any other exception ends the process.
Unwind ==
    /\ pc = "unwind"
    /\ exc' = "none"
    /\ IF exc = "harness"
       THEN result' = Fail(result) /\ pc' = "record" /\ UNCHANGED exit
       ELSE pc' = "crashed" /\ exit' = 1 /\ UNCHANGED result
    /\ UNCHANGED <<env, i, test, results, last_test_failed, device>>

\* Mutant: a skipped test counts as the last test.
RecordSkipped ==
    /\ pc = "record"
    /\ results' = Append(results, Verdict(result))
    /\ last_test_failed' = (StatusOf(result) = "FAIL")
    /\ pc' = "next"
    /\ UNCHANGED <<env, i, test, result, exc, device, exit>>

Record ==
    /\ pc = "record"
    /\ results' = Append(results, Verdict(result))
    /\ last_test_failed' = IF StatusOf(result) = "SKIP" THEN last_test_failed
                           ELSE StatusOf(result) = "FAIL"
    /\ pc' = "next"
    /\ UNCHANGED <<env, i, test, result, exc, device, exit>>

-----------------------------------------------------------------------------
(***************************************************************************)
(* The harnesses that prepare the device.                                  *)
(***************************************************************************)
\* OpenocdGdbServer.run, entry; STM32L4x6 has the server reset the device.
StartServer ==
    /\ pc = "server"
    /\ \/ /\ pc' = ToReboot(test)
          /\ IF target.server = "reset" THEN Restarted ELSE UNCHANGED <<dev, klog, tainted>>
          /\ UNCHANGED exc
       \/ /\ Raise("harness")
          /\ Spoil
          /\ UNCHANGED klog
    /\ UNCHANGED <<env, i, test, result, results, last_test_failed, open, exit>>

\* Its exit: shutdown and _close may raise an OpenocdError, which replaces
\* whatever exception is on its way.
CloseServer ==
    /\ pc = "close"
    /\ exc' \in {exc, "harness"}
    /\ pc' = IF exc' = "none" THEN ToShell ELSE "unwind"
    /\ IF exc' = "none" THEN UNCHANGED <<dev, tainted>> ELSE Spoil
    /\ UNCHANGED <<env, i, test, result, results, last_test_failed, klog, open, exit>>

\* Without gpio the host has no set_flash_mode, and no target implements
\* _reboot_dut_text.
RebootOutcomes ==
    IF ~ctx.gpio /\ (target.boot_pin \/ target.rebooter = "reset_pin") THEN {"other"}
    ELSE CASE target.rebooter = "reset_pin" -> {"none"}
           [] target.rebooter = "respawn" -> {"none", "other"}
           [] OTHER -> Exception

Reboot ==
    /\ pc = "reboot"
    /\ result' = SetStage(result, REBOOT)
    /\ \E e \in RebootOutcomes :
          IF e = "none"
          THEN pc' = ToPlo(test) /\ Restarted /\ open' = TRUE /\ UNCHANGED exc
          ELSE Raise(e) /\ Spoil /\ UNCHANGED <<klog, open>>
    /\ UNCHANGED <<env, i, test, results, last_test_failed, exit>>

\* PloHarness: only a loader that has just been started waits for input.  A
\* PloError is raised for a timeout, while the EOF of a lost console gets through.
Plo ==
    /\ pc = "plo"
    /\ result' = SetStage(result, FLASH)
    /\ \/ /\ dev = "boot"
          /\ pc' = ToClose(test)
          /\ UNCHANGED <<exc, dev, tainted>>
       \/ \E e \in {"harness", "other"} : Raise(e) /\ Spoil
    /\ UNCHANGED <<env, i, test, results, last_test_failed, klog, open, exit>>

-----------------------------------------------------------------------------
(***************************************************************************)
(* The harnesses that run the test.                                        *)
(***************************************************************************)
\* ShellHarness up to the call of the next harness.  If it fails after "dmesg
\* -D" was sent, kernel messages stay suppressed.
Shell ==
    /\ pc = "shell"
    /\ \/ /\ dev \in {"boot", "psh"}
          /\ dev' = "running"
          /\ klog' = (klog /\ ~target.dmesg)
          /\ result' = SetStage(result, RUN)
          /\ pc' = "body"
          /\ UNCHANGED <<exc, tainted>>
       \/ /\ Raise("harness")
          /\ Spoil
          /\ klog' \in {klog, klog /\ ~target.dmesg}
          /\ UNCHANGED result
    /\ UNCHANGED <<env, i, test, results, last_test_failed, open, exit>>

\* ExecHarness up to the call of the next harness: a process of its own for
\* every test.  That spawn fails (no such binary) is not a HarnessError.
Exec ==
    /\ pc = "exec"
    /\ \/ /\ open' = TRUE
          /\ dev' = "running"
          /\ tainted' = FALSE
          /\ result' = SetStage(result, RUN)
          /\ pc' = "body"
          /\ UNCHANGED exc
       \/ /\ Raise("other")
          /\ Spoil
          /\ result' = SetStage(result, FLASH)
          /\ UNCHANGED open
    /\ UNCHANGED <<env, i, test, results, last_test_failed, klog, exit>>

\* PyHarness when the harness function returns a result or None, and when it
\* raises: a pexpect or assertion failure also fails the current part.
PyHarnessResults(r) ==
    {Overwrite(r, [NewResult EXCEPT !.status = v]) : v \in Status}
        \cup {Overwrite(r, r), FailComposite(r), Fail(r)}

\* The harness function of the test, with the sub-results it adds; it may leave
\* the program running or end it.  PyHarness itself raises a HarnessError if the
\* signature or the type of the returned value is wrong.
Body ==
    /\ pc = "body"
    /\ \E subs \in SubSets :
          LET r == AddSubresults(result, subs) IN
          \/ /\ result' \in PyHarnessResults(r)
             /\ dev' \in {"psh", "running"}
             /\ tainted' = (StatusOf(result') = "FAIL")
             /\ pc' = IF target.dut = "exec" THEN "wait" ELSE "post"
             /\ UNCHANGED exc
          \/ result' = r /\ Raise("harness") /\ Spoil
    /\ UNCHANGED <<env, i, test, results, last_test_failed, klog, open, exit>>

\* Mutant: kernel messages are not released after the test.
PostNoRelease ==
    /\ pc = "post"
    /\ \/ /\ StatusOf(result) = "FAIL" \/ dev = "psh"
          /\ pc' = "record"
          /\ result' = Overwrite(result, result)
          /\ UNCHANGED <<exc, dev, klog, tainted>>
       \/ /\ StatusOf(result) # "FAIL"
          /\ Raise("harness")
          /\ Spoil
          /\ UNCHANGED <<klog, result>>
    /\ UNCHANGED <<env, i, test, results, last_test_failed, open, exit>>

\* Mutant: the prompt is not asserted after the test.
PostNoPrompt ==
    /\ pc = "post"
    /\ klog' = (klog \/ (StatusOf(result) # "FAIL" /\ target.dmesg))
    /\ pc' = "record"
    /\ result' = Overwrite(result, result)
    /\ UNCHANGED <<exc, dev, tainted>>
    /\ UNCHANGED <<env, i, test, results, last_test_failed, open, exit>>

\* ShellHarness after the next harness returned.  Unless the test failed, the
\* shell must prompt again and kernel messages are released.
Post ==
    /\ pc = "post"
    /\ \/ /\ StatusOf(result) = "FAIL"
          /\ pc' = "record"
          /\ result' = Overwrite(result, result)
          /\ UNCHANGED <<exc, dev, klog, tainted>>
       \/ /\ StatusOf(result) # "FAIL"
          /\ dev = "psh"
          /\ klog' = (klog \/ target.dmesg)
          /\ pc' = "record"
          /\ result' = Overwrite(result, result)
          /\ UNCHANGED <<exc, dev, tainted>>
       \/ /\ StatusOf(result) # "FAIL"
          /\ Raise("harness")
          /\ Spoil
          /\ klog' \in {klog, klog \/ target.dmesg}
          /\ UNCHANGED result
    /\ UNCHANGED <<env, i, test, results, last_test_failed, open, exit>>

\* Mutant: the exit status of the process does not reach the result.
WaitIgnoresStatus ==
    /\ pc = "wait"
    /\ result' = Overwrite(result, result)
    /\ tainted' \in {tainted, TRUE}
    /\ pc' = "record"
    /\ UNCHANGED <<env, i, test, results, last_test_failed, exc, dev, klog, open, exit>>

\* Mutant: the wait for the end of the process has no timeout.
WaitNoTimeout ==
    /\ pc = "wait"
    /\ \/ result' = Overwrite(result, result) /\ UNCHANGED tainted /\ pc' = "record"
       \/ UNCHANGED <<result, tainted>> /\ pc' = "hung"
    /\ UNCHANGED <<env, i, test, results, last_test_failed, exc, dev, klog, open, exit>>

\* ExecHarness after the next harness returned: a non-zero exit status or a
\* process that does not end fails the test whatever the harness said.
Wait ==
    /\ pc = "wait"
    /\ \/ result' = Overwrite(result, result) /\ UNCHANGED tainted
       \/ result' = Fail(result) /\ tainted' = TRUE
    /\ pc' = "record"
    /\ UNCHANGED <<env, i, test, results, last_test_failed, exc, dev, klog, open, exit>>

\* The process is over, or waits for ever.
Over == pc \in Final /\ UNCHANGED vars

Next ==
    \/ OpenTarget \/ Flash \/ FlashHangs \/ Export
    \/ NextTest \/ NoMoreTests \/ Build \/ Unwind \/ Record
    \/ StartServer \/ CloseServer \/ Reboot \/ Plo
    \/ Shell \/ Exec \/ Body \/ Post \/ Wait
    \/ Over

Spec == Init /\ [][Next]_vars /\ WF_vars(Next)

-----------------------------------------------------------------------------
(***************************************************************************)
(* Properties.                                                             *)
(***************************************************************************)
\* Every variable stays in its type; test and result are records of the shape
\* TestOptions and TestResult give them.
TypeOK ==
    /\ ctx \in Context
    /\ target \in Targets
    /\ tests \in [1 .. NTests -> Options]
    /\ pc \in Stages \cup Final
    /\ i \in 0 .. NTests
    /\ test \in TestOption
    /\ result \in Result
    /\ results \in Seq([status : Status, subs : SUBSET Status])
    /\ last_test_failed \in BOOLEAN
    /\ exc \in Exception
    /\ dev \in DevState
    /\ klog \in BOOLEAN
    /\ open \in BOOLEAN
    /\ tainted \in BOOLEAN
    /\ exit \in {-1, 0, 1, 2}

\* No harness function ever runs on a device that still carries the state of a
\* test that went wrong: run_tests has it rebooted first, also when skipped or
\* ignored tests lie in between, and whichever component of the target's chain
\* does the rebooting (test_runner.py, last_test_failed).
CleanStart == pc = "body" => ~tainted

\* A test that left the device in a bad state is recorded as failed, so that
\* the next iteration knows: no later harness turns the verdict around.
SpoiltMeansFailed ==
    pc = "record" /\ ~test.ignore /\ tainted => StatusOf(result) = "FAIL"

\* Kernel messages suppressed for one test ("dmesg -D") are back on when the
\* next test reaches the shell, although ShellHarness releases them only after
\* tests that did not fail.
KlogRestored == pc = "shell" /\ target.dmesg => klog

\* When the runner decides not to reboot, there is a dut to send the newline to
\* and a shell that answers it (test_runner.py: "force new prompt to appear").
PromptWithoutReboot ==
    /\ pc = "build" /\ ~test.reboot => open
    /\ pc = "shell" /\ ~test.reboot => dev = "psh"

\* PloHarness is only called on a device that has just been restarted and still
\* waits for input in the loader, by the rebooter or by the gdb server.
LoaderIsThere == pc = "plo" => dev = "boot"

\* The assertion of set_stage never fails: within one test the stages only go up.
StagesInOrder == [][NextTest \/ Flash \/ result'.stage >= result.stage]_vars

\* The abstract specification: verdicts are reported in order and never change,
\* and exit code 0 means that all that was planned was reported and passed.
Planned == (IF ctx.flash THEN 1 ELSE 0) + (IF ctx.test THEN NTests ELSE 0)

Reported == [k \in 1 .. Len(results) |-> results[k].status]

Report == INSTANCE CampaignReport WITH planned <- Planned, reported <- Reported

ReportsFaithfully == Report!Spec

\* Every wait of the test phase is bounded, so a campaign comes to an end; the
\* only place where it may wait for ever is the flashing of a device whose
\* loader is waited for without a timeout.
Terminates == <>(pc \in {"exited", "crashed"} \/ (pc = "hung" /\ target.slow_flash))

\* A test that is being run gets a verdict or takes the whole campaign down.
EveryTestEnds == (pc = "build") ~> (pc \in {"record", "crashed"})

-----------------------------------------------------------------------------
(***************************************************************************)
(* The inductive invariant behind the properties above.                    *)
(***************************************************************************)
\* The state in which the next test may start without a reboot.
Ready ==
    /\ open
    /\ ~tainted
    /\ target.dut # "exec" => dev = "psh" /\ (target.dmesg => klog)

Chain == {"build", "server", "reboot", "plo", "close", "shell", "exec", "body",
          "post", "wait", "unwind"}

\* Which exception may be pending where, and what the chain says of the test.
ChainInv ==
    /\ pc \notin {"close", "unwind"} => exc = "none"
    /\ pc = "unwind" => exc # "none"
    /\ pc \in Chain => ~test.ignore
    /\ pc \in Chain /\ ~target.rootfs /\ test.bootloader => test.reboot
    /\ pc \in {"server", "close"} => HasServer(test)
    /\ pc = "reboot" => HasReboot(test)
    /\ pc = "plo" => HasPlo(test)
    /\ pc \in {"exec", "wait"} => target.dut = "exec"
    /\ pc \in {"shell", "post"} => target.dut # "exec"

\* What the device is like at each point of the chain.
DeviceInv ==
    /\ target.dut = "serial" /\ pc \notin {"main", "exited"} => open
    /\ pc \in {"main", "flash"} => last_test_failed
    /\ pc = "next" /\ ~last_test_failed => Ready
    /\ pc = "build" /\ ~test.reboot => Ready
    /\ pc = "plo" \/ (pc = "close" /\ exc = "none") =>
          dev = "boot" /\ ~tainted /\ klog /\ open
    /\ pc = "shell" =>
          /\ open /\ ~tainted /\ (target.dmesg => klog)
          /\ dev = IF test.reboot THEN "boot" ELSE "psh"
    /\ pc = "body" => open /\ ~tainted
    /\ pc \in {"post", "wait"} => open /\ (tainted <=> StatusOf(result) = "FAIL")
    /\ pc = "record" /\ test.ignore =>
          StatusOf(result) = "SKIP" /\ (~last_test_failed => Ready)
    /\ pc = "record" /\ ~test.ignore /\ StatusOf(result) # "FAIL" => Ready

\* How far the stage of the result can have come.
StageInv ==
    /\ pc \in {"build", "server", "reboot", "exec"} => result.stage = INIT
    /\ pc = "plo" => result.stage <= REBOOT
    /\ pc \in {"close", "shell"} => result.stage <= FLASH
    /\ pc = "body" => result.stage = RUN
    /\ pc \in {"post", "wait"} => result.stage = DONE

\* How many verdicts have been reported.
Flashes == IF ctx.flash THEN 1 ELSE 0

CountInv ==
    /\ pc \in {"main", "flash"} => results = <<>> /\ i = 0
    /\ pc = "flash" => ctx.flash
    /\ pc \in Chain \cup {"next", "record"} => ctx.test
    /\ pc = "next" => Len(results) = Flashes + i
    /\ pc \in Chain \cup {"record"} => i > 0 /\ Len(results) = Flashes + i - 1
    /\ pc = "export" => Len(results) = Planned \/ AnyFailed
    /\ exit = -1 <=> pc \notin {"exited", "crashed"}

\* All of it together: what the proofs of the properties rest on.
Inductive == TypeOK /\ ChainInv /\ DeviceInv /\ StageInv /\ CountInv

=============================================================================
