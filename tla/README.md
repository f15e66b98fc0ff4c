# A TLA+ model of the Phoenix-RTOS tests and their runner

The repository holds the tests of Phoenix-RTOS and the *test runner* that
builds a device, loads a test onto it, talks to it over a console and turns
what it says into a verdict. The operating system itself is not part of it.
This project models two things:

- the **runner**, with its threads, error paths and unreliable peers, and the
  half of the unity framework that speaks to it. The question is whether a
  verdict is what happened on the device;
- the **test programs that run several threads or processes**. The questions
  are whether a test can fail, hang or leave something behind on a system that
  does nothing wrong, and whether it can pass on one that does.

## The system

| part | code | model |
|---|---|---|
| results: status, stage, sub-results, export | `trunner/types.py` | `TestResult` |
| campaign: `main`, `run`, `flash`, `run_tests`, harness chain | `runner.py`, `trunner/test_runner.py`, `trunner/harness/{base,psh,pyharness}.py` | `Campaign`, abstract `CampaignReport` |
| target classes: `build_test`, rebooters, flashing | `trunner/target/*.py`, `trunner/host.py` | `Campaign`, `TargetClasses` |
| phoenixd handler: main thread, reader threads, processes | `trunner/tools/phoenix.py` | `Phoenixd` |
| loading through a debugger | `trunner/harness/plo.py`, `trunner/target/{emulated,armv7m4,armv8m33,armv8m55}.py` | `SyspageLoader` |
| yaml configuration | `trunner/config.py` | `Config` |
| unity: fixture runner, assertions, console, harness | `unity/unity_fixture.c`, `unity/unity.c`, `trunner/harness/unity.py` | `UnityLink` |
| pytest bridge | `trunner/harness/pytest.py` | `PytestBridge` |
| tests of kernel condition variables and mutexes | `sys/cond`, `sys/mutex` | `SysCondTests`, `SysMutexTests` |
| tests of user-space locks and futexes | `libc/mutex` | `LibcMutexTests` |
| tests of semaphores | `libc/semaphore` | `SemaphoreTests` |
| tests of pthreads | `libc/pthread` | `PthreadTests` |
| tests of cancellation and of the lifetime of threads | `libc/pthread/pthread_canceltype.c`, `libc/pthread_lifetime` | `CancelTests` |
| tests of abandoned messages and of priority inheritance | `proc/test_msg_abandon.c`, `proc/test_priority.c` | `ProcTests` |
| what these tests run on | the kernel and libphoenix, external | `ThreadCode`, `TestThreads` |
| spawn storm: worker, children, monitor | `spawnstorm/spawn_storm.c` | `SpawnStorm` |
| poll wake-ups of sockets | `libc/unix-poll-wake` | `PollWake` |
| the non-blocking pipe under contention | `libc/unix-poll-wake` | `PipeContention` |
| console stream; plo protocol; gdb, openocd, pyocd, J-Link | `trunner/dut.py`, `trunner/harness/plo.py`, `trunner/tools/gdb.py` | outcomes only, in `Campaign` |
| suite harnesses, other test programs, build files, plug-ins | the rest | not modelled |

How the runner fits together: `Config` yields the options of the tests, which
`Campaign` runs one after another. Each test is a chain of harnesses that the
target class puts together: a gdb server, a reboot, the loader (where `Phoenixd`
and `SyspageLoader` do their work), the shell, and the harness function of the
test (`UnityLink`, `PytestBridge`). What the harness function returns or raises
ends up in a `TestResult`, which decides whether the next test gets a reboot,
what is exported and the exit code. `Campaign`, `UnityLink` and `PytestBridge`
share `TestResult`; `Campaign` takes from the other components the set of their
outcomes. The test programs are on the other end of the console: the verdict of
one of them is what a `UnityLink` test does, or what a program exits with.

## The modules

### The runner

**`TestResult`** has the operations on a result as pure operators. The code only
asks of the sub-results whether one failed and whether all were skipped, so they
are a set of statuses. `StatusOf` is the `status` property: an explicit status
wins over the parts. `FailComposite` is `fail_pexpect` and `fail_assertion`,
which also fail the current part; `Fail` stands for the other `fail_*` methods.

**`Campaign`**. `pc` names the harness that is called next. One action is one
`__call__` up to the call of the next harness, or what it does after that call
returns, so the chain of a test is a path through `server`, `reboot`, `plo`,
`close`, `shell` or `exec`, `body`, and `post` or `wait`. `HasReboot`, `HasPlo`,
`HasServer` and the `To...` operators are `build_test` of all target classes.
Exceptions are state: `exc` is `"harness"` for a `HarnessError`, which
`run_tests` turns into a FAIL (`Unwind`), and `"other"` for what nobody catches.
The device is `dev` (what the console shows), `klog` (kernel messages are not
suppressed), `open` (there is a dut) and `tainted`, a history variable: something
went wrong on the device since its last restart. Contexts, target and test
options are chosen in `Init`. A campaign starts with `tainted` and an unknown
device, as in the code, which sets `last_test_failed = True` first.

**`TargetClasses`** has a record for each of the ten target classes.
**`CampaignReport`** is what a campaign promises: verdicts are appended and never
withdrawn, and exit code 0 means that everything planned was reported and
nothing failed.

**`Phoenixd`** models several uses of one handler. Run `r` has process `r` and
reader thread `r`. The attributes `self.proc`, `self.dispatcher_event` and
`self.reader_thread` are those of run `cur`; a reader of an earlier run that
outlived its join reads the attributes of the current run, as in the code.
pexpect's `isalive` and the waiting for a process that is at its end are two
steps for the reader (`Eof`, `Note`), so the main thread can come in between.

**`SyspageLoader`** models the two passes of a loader over applications and files.

**`Config`** models `ConfigParser` with the state it keeps from file to file.

**`UnityLink`** has the program on the device (`Start`, `IgnoreTest`, `Message`,
`Assert`, `Return`, `Conclude`, `UnityEnd`, `Crash`), the console (`wire`, `Lose`)
and `unity_harness` (`Assertion`, `TestLine`, `Final`, `Timeout`). A message is
the number of the test it was printed for. `truth` is a history variable: what
became of a test, independent of what is printed.

**`PytestBridge`** has the hooks of `PytestBridgePlugin` under the phases that
pytest runs for each test case, and the end of `pytest_harness`. A phase that raises
is reported as failed, or as skipped if the test case is marked xfail; the model
allows either in every phase. `own`, `owns`, `started` and `failing` are history
variables. **`MCHarnesses`** runs `UnityLink` or `PytestBridge`: the variables of the
other one keep an initial value.

### The threaded tests

**`ThreadCode`** has the instructions that a threaded test is written in, one per
library call or memory access that another thread can observe, and the control
structures of C that put them together. **`SysCondTests`**, **`SysMutexTests`**,
**`LibcMutexTests`**, **`SemaphoreTests`**, **`PthreadTests`**, **`CancelTests`** and
**`ProcTests`** give the code of every thread of a test under the test's own name; a
`TEST_ASSERT` is the check on the result of a call, or an assertion on memory. A
`usleep` is a sleep, and a polling loop has `TRIES` attempts instead of hundreds, or,
if it counts down a deadline, coarser pauses (`POLL_MS`). The four workers of
`concurrent_join_and_detach` and of `detached_exits_race_reclaim` are all there, with
one iteration each.

**`TestThreads`** executes them over mutexes, condition variables, semaphores,
barriers, futexes, signals, cancellation requests, messages and a clock. A test may
have several processes, whose threads go with them, and priorities: then one
processor runs the most urgent thread that can run, and the holder of a mutex is as
urgent as the threads that wait for it (`Urgent`). The kernel and the library are external:
they are modelled from what the tests expect of them, and can go wrong in one
chosen way (`fault`; `hit` says that it happened): a wake-up is lost
(`lost_wakeup`), a timeout does not end a wait (`no_timeout`), a deadline in the
past blocks (`past_blocks`), relocking blocks (`self_blocks`), a semaphore wakes
only when it leaves zero (`edge_only`), the loser of a race for it forgets its
deadline (`loser_blocks`), a barrier lets everybody through (`stub`), a wait
resumes after a signal handler (`resume`), asynchronous cancellation waits for a
cancellation point (`deferred`), a cancelled detached thread is not released
(`cancel_keeps`), a client whose request was received cannot die (`lingers`) or dies
although its memory is lent to the server (`drops_window`), a signal abandons a
request (`signal_abandons`), a request outlives its server (`orphans`), priorities are
not inherited (`no_inherit`). Time jumps to the next timeout. It
does so when no thread can run, or, on a *slow* machine, at any moment.
**`MCThreads`** says which faults each test must report and which tests must
stand a slow machine.

### The other programs

**`SpawnStorm`** has the worker's `main()` (`wpc`; the window of `Parallel`
children in `inflight`, the tally), its children, and the monitor process that
looks for a storm that stands still, kills stuck children and pokes the worker
out of `waitpid()` (`mpc`, `dumps`). The kernel may let a child hang before or
after `exec`, miss the wake-up of `waitpid()` any number of times and fail it. The
monitor's kill walks a snapshot of all the threads of the system that was taken over an
earlier one, and may overlook any of the children (`Dump`). `mishaps` is a history
variable: missed exits and such kills since the monitor last saw a new child.

**`PollWake`** is `upw_check()` of the socket cases: one or two senders
(`upw_sendThread`), the receiver, a thread or a child process, that sleeps in
`poll()` and drains, the threads of the crowd or those that spin, and `upw_run`,
which joins, waits with a timeout, wakes the receiver by harsher and harsher means
and in the end leaves it be. The socket holds units: frames, or the two halves
of a stream message. The kernel may lose, repeat, swap or spoil a unit, drop a
descriptor, wake late or never, fail a call and kill the child. `log`, `faults`,
`expired` and `wakes` are history variables.

**`PipeContention`** is `pipe_nonblock_contention` with one action per atomic
load, store and system call of the writer, the reader and the poller, since what
the test proves with its counters `written` and `readn` depends on the order of
the loads.

**`MCPrograms`** puts the three together: one of them runs, and the variables of
the others keep an initial value.

Operators named in a comment "Mutant: ..." are variants of the next definition with a
plausible mistake. They are not part of the model: `PROJECT.json` says which
property each of them breaks.

## Runs

| run | what it shows | bounds |
|---|---|---|
| `campaign` | No harness function runs on a device left behind by a failed test, also with skipped tests in between (`CleanStart`). A test that spoils the device is recorded as failed (`SpoiltMeansFailed`). Kernel messages are on again for the next test (`KlogRestored`). Without a reboot there is a dut and a prompt (`PromptWithoutReboot`). The loader is entered only after a restart (`LoaderIsThere`). | 3 tests, 10 targets, all contexts |
| `report` | A campaign implements `CampaignReport` (`ReportsFaithfully`). A campaign ends, except where flashing waits for the loader without a timeout (`Terminates`). A test that was begun gets a verdict or ends the process (`EveryTestEnds`). | 2 tests with sub-results |
| `phoenixd` | plo is used only when the dispatcher of the current process is up (`DispatcherIsCurrent`) and its output is read (`ReaderReads`); nothing is left running (`NoOrphan`); a dispatcher that did not start is a `HarnessError` (`NotStartedIsCaught`); closing ends (`CloseEnds`) and so do readers (`ReadersEnd`). | 3 uses |
| `syspage` | plo is told the addresses the debugger wrote to, and no item overlaps another (`AliasIsIntact`). | 4 items, 6 sizes around a page of 4 bytes |
| `config` | A test taken for an experimental target names it (`ExperimentalIsExplicit`); value, include and exclude are inherited as meant (`TakenAsMeant`). One parser reads all files, yet every test is refused, left out or taken as if its file were the only one, with the same options and in order (`AsIfAlone`). | 2 files and 2 target names with the combinations of the target keywords; 1 file, and 2 files with 3 tests, with those of the others |
| `harnesses` | Of unity: If the totals are accepted, the report is complete and true whatever lines were lost (`CompleteReport`) and no test has the message of another (`MessageIsOwn`). The xml file shows a failure exactly if the test failed (`XmlShowsVerdict`). The harness ends (`HarnessEnds`). Of pytest: each test case reports its own result (`OwnResult`), a fixture that was reported as failed is not run again (`BrokenNotRerun`), and the verdict of a session is right even if pytest breaks off (`VerdictIsSound`). | 3 tests, one INFO line at a time (`InfoBound`); 3 cases, 2 fixtures |
| `threads` | In every schedule of 80 test programs: none fails or hangs on a conforming kernel (`NoFalseAlarm`); none passes on a kernel that showed the fault it is there for (`Detects`); a test that passes leaves no thread and no held lock to the next test (`NothingLeftBehind`); no thread uses a destroyed object (`NoUseAfterDestroy`); every test ends (`Terminates`). | 3 threads (4 workers in the tests of lifetime), 2 rounds, 2 items, 3 attempts of a polling loop |
| `programs` | spawn-storm: a window that is not full has a slot (`SlotIsFree`), every launch is counted once (`TallyAddsUp`), success means that every child was launched, ended well and was waited for (`SuccessIsTrue`), and on a timely machine the monitor gets the storm to its end unless as many mishaps as it has rounds of recovery fall into one stall (`StormEnds`). unix-poll-wake: a PASS means that all messages came once, in order, whole, with their descriptors and in time (`PassIsEarned`); without a fault or a timeout the verdict is PASS (`FaultlessPasses`); nothing is freed that a late receiver uses (`FreedIsUnused`); a case ends though its receiver never wakes (`CaseEnds`). The pipe: without a fault the counters count none, and a FAIL is due to bytes that the reader left (`CountersProve`); a PASS hides no fault but a repeat of the last byte (`PipePassIsEarned`). | 3 launches 2 at a time, any number of missed exits, 1 failing `waitpid()`; 5 messages, a socket of 3 units, 1 fault; 4 bytes, 2 in flight, 1 fault |

Why the bounds are enough. In a campaign the only state that one test hands to
the next is `last_test_failed` and the device; three tests make a failed, an
ignored and a further test. A phoenixd handler is disturbed at most by readers
of earlier runs; three runs have two of them. Of the sizes only the remainder by
the page matters. A lost unity line matters to its neighbours: three tests have
a first, a middle and a last one. A pending pytest result, or a broken fixture,
needs one case to set it and one to suffer from it. With three threads one is
woken, one is overtaken and one sleeps on; two rounds make a reuse of a barrier
or a counter. Three launches in a window of two fill it, free a slot and use it
again. A socket of three units cuts a stream message in two when it is full, and
five messages from two writers are two of each, enough to swap, and from one
writer two with a descriptor among three without. Two bytes in flight are a
writer ahead of the reader and one that must wait. The proofs below remove the
bounds for all safety properties but those of `TestThreads`.

What lies just outside. A stall with `STORM_MAX_DUMPS` mishaps does happen in the
`programs` run, and the storm then need not end: the monitor has given up. With two
faults, `PollWake`'s properties hold as stated, in three times as many states; a stream
message can then have the body of another, since bodies are not compared, and
`PassIsEarned` leaves that out.

### Findings

Four runs state what a comment or a document says and find it violated:

- `config_exclude`: a main part that excludes the target leaves the empty set,
  which is taken for "no targets given", so the tests run there
  (`config.py:261`).
- `pytest_xfail`: a fixture that fails in the set-up of a test case marked xfail is
  reported as skipped, is not recorded and is run again by the next test case
  (`FailingNotRerun`, `harness/pytest.py:301`, against the comment at `:298`).
- `eintr`: the tests of condition waits interrupted by a signal pass on a library
  that resumes the wait, the fault they were written for, because the test
  rescues the waiter before it asserts that the waiter is done
  (`pthread_cond_eintr.c:138`).
- `contention`: `pipe_nonblock_contention` can fail on a pipe that does nothing
  wrong. The reader loads `written` before `stop`, and leaves behind what is
  written in between (`unix-poll-wake.c:1840`).

Seen while modelling, without a run of their own:

- A composite test that fails after its parts passed (no prompt, a decoding error,
  an exit status) leaves no failure in the xml file (`types.py:216`).
  `fail_pexpect` and `fail_assertion` do add one, which is why `XmlShowsVerdict`
  holds of unity.
- An exception other than a `HarnessError` ends the campaign without results for
  the remaining tests (`test_runner.py:295`, `plo.py:126`).
- A test case marked xfail whose teardown raises is reported as OK: only a teardown
  that is reported as failed changes the pending result (`harness/pytest.py:323`),
  while a call that is xfailed counts as a skip "to not confuse it with success"
  (`:313`). `OwnResult` states what the code does.
- The keyword `run` of a yaml file is always refused: `Path()` is not below `/`
  (`config.py:221`). No yaml file of the repository uses it.
- Boards cannot be rebooted "manually" on the pc host (`harness/base.py:136`).
- The stm32n6 loader does not load a test's files (`armv8m55.py:208`).
- A shutdown of openocd that fails skips the closing of its process
  (`gdb.py:239`).
- When `waitpid()` fails, spawn-storm counts the child but keeps its slot
  (`spawn_storm.c:611`), so the comment "The window invariant leaves a slot free"
  (`:523`) no longer holds. `SlotIsFree` and `StormEnds` therefore ask for
  `waitErrors = 0`.
- `ping_pong`, `producer_consumers` and `broadcast_many` pass on a kernel that loses
  a wake-up: the wait times out, finds its predicate true and goes on
  (`libc/mutex/mutex.c:576`). `cond_multiple_threads` does not notice a signal that
  wakes all waiters (`sys/cond/cond.c:471`). The producers and consumers of
  `posix_sem.c` do not notice a semaphore that wakes only when it leaves zero.
  `MCThreads` does not list these tests as reporting those faults.
- `server_exit_fails_request` says of a kernel that keeps the request "the sender
  never returns, and neither does this test" (`proc/test_msg_abandon.c:522`). The
  wait in the next line has a timeout, so the test fails and ends, as `Detects` and
  `Terminates` show.
- The tear-down of these tests looks once whether a request was received
  (`proc/test_msg_abandon.c:249`). After a test that failed early, the request of a
  late client can come between that look and the tear-down's own `msgSend`, which
  then has no server. The model ends a test at its first failed assertion.
- `cancelled_detached_reader_outlives_cancel` deletes the key while the reader that
  was cancelled last may still read it (`libc/pthread_lifetime/pthread_lifetime.c:303`).
- On a stream, unix-poll-wake takes a repeat of the first half of the last message
  for its second half, and passes: bodies are not compared, and what is left in the
  socket is not read (`:407`).
- unix-poll-wake never reads a message that is repeated behind the last one,
  though its head comment (`:28`) names duplicates; the drain ends at the count
  (`:407`). `upw_run` closes one end of the wake-up pipe under a receiver that it
  left be and that still polls the pipe (`:952`), and joins the idle threads of the
  crowd without a timeout (`:941`), so `CaseEnds` leaves out a kernel that does not
  wake them.

### Fairness

- `Campaign`: `WF_vars(Next)`. The runner is one thread, and every wait of it has
  a timeout; the waits that have none are the state `"hung"`, not a lack of
  fairness.
- `Phoenixd`: weak fairness of the main thread outside `idle` and `body`, of each
  reader, of the death of a process that was sent SIGKILL, and of the end of a
  process that has closed its terminal. That is thread scheduling and the kernel.
  Nothing is assumed of a process that was only sent SIGTERM.
- `UnityLink`: weak fairness of the harness, whose `expect` returns or times out.
  Nothing is assumed of the program or of the console.
- `TestThreads`: weak fairness of every thread's step, of the clock, and of the
  harness giving up on a test that nothing can wake.
- `SpawnStorm`: weak fairness of the worker, the monitor and each child's own
  steps. A child that hangs has none, and nothing is assumed of faults.
- `PollWake`: weak fairness of each sender, of `upw_run` and of the helpers, and
  none of the receiver: that it may never wake is what the case is about.

## Proofs

TLAPS proves the following for all values of the constants.

| module | theorems | from |
|---|---|---|
| `CampaignProofs` | `TypeCorrect`, `InductiveHolds`, `DeviceIsClean`, `SpoiltIsFailed`, `KlogIsRestored`, `PromptIsThere`, `LoaderAnswers`, `StagesGoUp`, `ReportIsFaithful` | `TargetsAssumption` (how the parts of a target class fit together), `OptionsAssumption` |
| `LoaderProofs` | of `Phoenixd`: `InductiveHolds`, `DispatcherCurrent`, `OutputIsRead`, `NothingLeft`, `NotStartedReported`; of `SyspageLoader`: `RamInductiveHolds`, `AliasesAreIntact`, `AliasesOnPages` | `MaxRunsAssumption`; `LayoutAssumption` |
| `ConfigProofs` | `ExperimentalExplicit`, `InheritanceIsMeant`, `FilesDoNotMix` | `FilesAssumption` |
| `HarnessProofs` | of `UnityLink`: `InductiveHolds`, `ReportIsComplete`, `MessagesAreOwn`, `XmlIsSound`; of `PytestBridge`: `BridgeInductiveHolds`, `ResultIsOwn`, `VerdictSound`, `BrokenStaysDown` | `NAssumption`; `SessionsAssumption` |
| `ProgramsProofs` | of `SpawnStorm`: `SlotTheorem`, `TallyTheorem`, `SuccessTheorem`; of `PipeContention`: `CountersTheorem`, `PipePassTheorem` | `StormAssumption`; `PipeAssumption` |
| `PollWakeProofs` | `upw_InductiveInvariant`, `FreedIsUnusedTheorem` | `PollWakeAssumption` |
| `PollWakePass` | `PassIsEarnedTheorem` | the same |
| `PollWakeFaultless` | `FaultlessPassesTheorem` | the same |

*Campaign.* `CleanStart` is not inductive: that the device is clean in `body`
depends on the decision to reboot, made several harnesses earlier from
`last_test_failed`, which in turn depends on how the last test that was not
skipped ended. `Inductive` says so place by place. `ChainInv` ties `pc` to the
links that the chain has and to the pending exception. `DeviceInv` says what the
device is like at each link; its core is `Ready`, the state that lets a test
start without a reboot, which holds at `next` unless the last test failed.
`StageInv` bounds the stage and `CountInv` counts the verdicts. `StagesGoUp` is
that `set_stage` never asserts. `ReportIsFaithful` is step simulation: `Record`
and `Flash` map to `Report`, `Export` to `Finish`, crashes and a missing port to
`CutShort`, everything else to a stutter. The assumption on targets is what one
reads off the ten classes: new ones that satisfy it are covered.

*Phoenixd.* `Inductive` says that a reader that has yet to look at
`self.dispatcher_event` belongs to the current run, since the main thread leaves
`wait` only after that reader has set the event or given up. It also says who
has waited for each process and whether pexpect knows.

*SyspageLoader.* Both passes are compared with one chain of addresses, `After(k)`,
the place behind item `k`. Rounding up to a page is one lemma. `AliasesOnPages` is
that every item starts on a page.

*Config.* The parser keeps the main part of a file while it reads the tests. The
invariant says that the main part it holds is that of the file it is in, that each
test taken has the options its own file gives it (`Good`), that every test the parser
is past was accepted and is there if it was to be taken (`Dealt`), and that what was
taken lies in order before the place of the parser (`Sorted`).

*UnityLink.* Every line has a position, the number of its test. The lines on the
wire are in the order of their positions, all sub-results lie before them, and
`last_assertion` in between. Losing lines keeps that. If the number of
sub-results equals the total, then strictly increasing test numbers in `1 .. N`
leave no hole: sub-result `k` is test `k`, and a message that lies after
sub-result `k - 1` and not after `k` is the one of test `k`. For `XmlIsSound`,
`TallyInv` ties the status of the result to its sub-results.

*PytestBridge.* There is one pending result for all test cases. The invariant says
what it stands for in each phase (`PendingInv`: at teardown it is the summary of
the outcomes of this case alone), that the case at hand is the one after the last
sub-result (`PlaceInv`), and that a fixture whose failure was reported as failed is
remembered (`FixtureInv`).

*SpawnStorm.* The window counts launches, the slots hold pids, and `vfork` separates
the birth of a child from the moment the worker knows of it. `Window` says that
the pids in the slots are the children born and not collected, so that counting
them gives `launched - reaped`; `Clean` says that without a failure every launch
is a child and every child collected ended well, which with the end of the loop
gives `SuccessIsTrue`.

*PipeContention.* The counters lag behind the pipe: a byte is in the pipe before
`written` says so and out of it before `readn` does. `Queue` is the exact
difference at each place of the writer and the reader, `Knows` what a thread may
conclude from a counter it loaded earlier (a counter only grows, and only one
thread moves it), and from both follows that an EAGAIN is never counted as wrong.
For `PipePassIsEarned`, `OneFault` follows a fault of the pipe until the reader meets
it: as long as nothing is counted, a byte is missing at the front of the pipe, the
byte there is wrong, or from some place on all bytes are one late. With an empty
pipe and equal counters only the last of these is left, at the last byte.

*PollWake.* `upw_IInv` ties the receiver's counters to what it has logged and the
senders' to what they have sent, and says what `upw_run` knows of the receiver in
each of its phases; `FreedIsUnused` follows from the last part. It also gives
`PassIsEarned` for frames, where a message is one unit: without the marks `lost`
and `dup` the log of a writer is its messages in order. On a stream a lost,
repeated or swapped half shifts the borders of messages, and the receiver notices
only when the first half of what it takes for a message has no magic or the
wrong number. `StreamOK` therefore keeps, for at most one fault, the form of what
is sent and not yet accounted for: in order, with one break at place `d`, or with
the rest of a message in front. Each step of sender, receiver and kernel leads
from one of these forms to another or to a mark, and only the last message taken
can be other than whole. This is how the exception in `PassIsEarned` was found: a
repeated first half of the *last* message passes for its second half, and nobody
reads what follows. For `FaultlessPasses`, `GoodInv` says of a case without faults and
without a timeout that what is queued is exactly what was sent and not yet counted,
in the order of each writer, that the descriptors counted are those of the messages
begun, and that the receiver is done only when it has everything. Then every
record is in turn and leaves no mark, and when all senders are joined and the
receiver is done the counters are equal. Number of messages, room of the socket,
spacing of descriptors and tokens, and number of faults are arbitrary.

Only model-checked: liveness (`Terminates`, `EveryTestEnds`, `CloseEnds`,
`ReadersEnd`, `HarnessEnds`, `StormEnds`, `CaseEnds`), which needs fairness and
ENABLED and is beyond the prover; and the safety properties of `TestThreads`
(`NoFalseAlarm`, `Detects`, `NothingLeftBehind`, `NoUseAfterDestroy`). Those are
about 80 particular programs given as tables: their only constants are numbers of
threads and rounds that are part of each program, and an inductive invariant
would be one of its own for each of them, a list of the places of all threads.

## What the models leave out

- `Campaign`: log files, screen output, durations; host tools that are not
  installed; a console whose device file disappears while writing; the harness
  class that only runs with a flag nobody sets (`TestStartRunningHarness`). Of
  flashing it has the outcomes.
- `Phoenixd`: a `pexpect.spawn` that fails; a reader that dies because the log
  file it writes to was closed. Time is an order: a thread that can run does so
  within the second between the reader's and the main thread's timeout.
- `SyspageLoader`: the text of the commands; alias names.
- `Config`: paths, command lines, kwargs and shell options; the search for files.
- `UnityLink`: what the assertions compare; `-r`, which the runner never passes; a
  garbled line counts as lost, so damage that leaves a line that still matches,
  with another number or name, is outside the model. Tests not selected by `-g`
  and `-n` print and count nothing.
- `PytestBridge`: messages, `PytestLogInterceptorPlugin` (screen output),
  fixtures of a scope wider than a function. `pytest.exit` with a return code that
  `pytest_harness` accepts is left out: the session would count as passed with the
  test cases so far. pytest is taken to run a call after
  every set-up that passes. With `--setup-only` among the `options` of the yaml
  file it does not; then nothing resets the pending result (`pytest.py:321`) and
  `OwnResult` does not hold. No yaml file of the repository gives that option.
- `TestThreads`: priorities other than in `priority_inversion`; memory is sequentially
  consistent; tests that differ only in the clock they name are one program. The
  statement without effect at `sys/cond/cond.c:167` is left out.
- `SpawnStorm`: options, output, `-w 0` (no monitor). Pids are not reused. The
  snapshot that looks for new children is taken to have room for all threads.
- `PollWake`: durations. A timeout may run out whenever it is waited for, and a
  late wake-up is a kind of wake-up; percentiles are not computed.

## Not modelled

- The pipe and pty transitions of unix-poll-wake and `seqpacket_pollout`: one poller
  and one change of state at a time, judged by measured latencies.
- Of the threaded tests: `mutex_fork`, whose threads live in two processes; the
  name space of named semaphores; clean-up handlers and thread-specific data
  (`cancelled_detached_reader_outlives_cancel` among them), the memory of the
  records and stacks of threads, thread attributes and guard pages, descriptor races, and the tests that step the clock.
  They need a model of processes, files and stacks of which the repository has
  only the assertions. Tests of one call with invalid parameters have no state.
- The other test programs, which are most of the repository (more than a third of
  its lines are tables of pixels in `gfx`). Most of them call the operating system from one thread,
  top to bottom, and assert what it returns. All the state is in that system,
  whose code is elsewhere; a model would restate the assertions.
- The byte stream of the console (`dut.py`) and the echo and prompt protocol of
  `PloInterface`; the drivers of gdb, openocd, pyocd and J-Link. `Campaign` has
  their outcomes. What pexpect buffers and when is outside the repository.
- The suite harnesses (psh, micropython, mbedtls, busybox, LSB, CoreMark): loops
  over `expect` that keep only the list of results.
- GPIO pulses, plug-in registration, colours and logs, `resolve_binaries.py`, build
  files: pure I/O or no state.
