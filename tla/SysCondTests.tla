----------------------------- MODULE SysCondTests -----------------------------
(***************************************************************************)
(* The tests of condition variables in src/sys/cond/cond.c.  The kinds of  *)
(* clock differ only in how the same instant is written down, so the tests *)
(* of one shape are one program.  Times are in microseconds.               *)
(***************************************************************************)
EXTENDS ThreadCode

SIGNAL_TEST_TIMEOUT    == 10000
BROADCAST_TEST_TIMEOUT == 100000
thrCount == 2

thrErrors(id)  == IF id = 0 THEN "thrErrors0" ELSE "thrErrors1"
thrTimeout(id) == IF id = 0 THEN "thrTimeout0" ELSE "thrTimeout1"
err(id)        == IF id = 0 THEN "err0" ELSE "err1"

(* A call whose failure the thread counts. *)
Counted(id, call) == Tally(thrErrors(id), EOK, call)

signal_thread(delay) ==
  (IF delay # 0 THEN << Counted(0, Sleep(delay)) >> ELSE <<>>)
  \o << Counted(0, Lock("mutex")) >> \o Add("counter", 1)
  \o << Counted(0, Signal("cond")), Counted(0, Unlock("mutex")) >>

(* What the result of condWait() is counted as. *)
Outcome(id) ==
  IfElse(Is(err(id), EOK), Add("counter", 1),
    IfElse(Is(err(id), ETIMEDOUT), Add(thrTimeout(id), 1), Add(thrErrors(id), 1)))

(* A worker reports that it is about to wait while it holds the mutex. *)
GetReady(id) ==
  << Counted(id, Lock("mutex")), Counted(id, Lock("readyMutex")) >>
  \o Add("readyCounter", 1)
  \o If(Is("readyCounter", thrCount), << Counted(id, Signal("readyCond")) >>)
  \o << Counted(id, Unlock("readyMutex")) >>

worker_thread_signal_test(id) ==
  GetReady(id)
  \o << Into(err(id), Wait("cond", "mutex")), Counted(id, Lock("readyMutex")) >>
  \o Outcome(id) \o Add("readyCounter", 1)
  \o << Counted(id, Signal("readyCond")), Counted(id, Unlock("readyMutex")),
        Counted(id, Unlock("mutex")) >>

(* The same report, where a failing condSignal() is not counted: the       *)
(* statement that should do it has no effect.                              *)
GetReadyToBroadcast(id) ==
  << Counted(id, Lock("mutex")), Counted(id, Lock("readyMutex")) >>
  \o Add("readyCounter", 1)
  \o If(Is("readyCounter", thrCount), << Signal("readyCond") >>)
  \o << Counted(id, Unlock("readyMutex")) >>

worker_thread_broadcast_test(id, wait) ==
  GetReadyToBroadcast(id) \o << Into(err(id), wait) >> \o Outcome(id)
  \o << Counted(id, Unlock("mutex")) >>

--------------------------------------------------------------------------------
TearDownSignal == << Ok(Destroy("mutex")), Ok(Destroy("cond")) >>

(* condvar_signal: one thread signals another, before, after or long past  *)
(* the end of its wait.                                                    *)
signal_no_timeout(deadline, wait) ==
  [main |-> << Ok(Lock("mutex")), Ok(Start("w0")) >> \o deadline
            \o << Ok(wait), Expect(Is("counter", 1)), Ok(Unlock("mutex")), Ok(Join("w0")),
                  Expect(Is("thrErrors0", 0)) >> \o TearDownSignal,
   w0   |-> signal_thread(0)]

signal_timeout(delay, deadline) ==
  [main |-> << Ok(Lock("mutex")), Ok(Start("w0")), deadline,
               Equal(ETIMEDOUT, Until("timeout", Wait("cond", "mutex"))), Ok(Unlock("mutex")),
               Ok(Join("w0")), Expect(Is("thrErrors0", 0)) >> \o TearDownSignal,
   w0   |-> signal_thread(delay)]

(* The main thread waits for the workers' reports. *)
AwaitReady(cs) == While(cs, << Ok(Wait("readyCond", "readyMutex")) >>)
Locked(m, body) == << Ok(Lock(m)) >> \o body \o << Ok(Unlock(m)) >>

(* The expected counts at the end of a test with two workers. *)
Counts(timeouts, woken) ==
  << Expect(Is("thrErrors0", 0)), Expect(Is("thrTimeout0", timeouts)),
     Expect(Is("thrErrors1", 0)), Expect(Is("thrTimeout1", timeouts)),
     Expect(Is("counter", woken)) >>

multiple_threads ==
  [main |-> << Ok(Start("w0")), Ok(Start("w1")) >>
            \o Locked("readyMutex", AwaitReady(Below("readyCounter", thrCount))
                                    \o << Set("readyCounter", 0) >>)
            \o Locked("mutex", << Ok(Signal("cond")) >>)
            \o Locked("readyMutex", AwaitReady(Is("readyCounter", 0)))
            \o Locked("mutex", << Expect(Is("counter", 1)) >>)
            \o Locked("mutex", << Ok(Signal("cond")) >>)
            \o << Ok(Join("w0")), Ok(Join("w1")) >> \o Counts(0, thrCount)
            \o << Ok(Destroy("readyMutex")), Ok(Destroy("readyCond")) >> \o TearDownSignal,
   w0 |-> worker_thread_signal_test(0), w1 |-> worker_thread_signal_test(1)]

TearDownBroadcast == TearDownSignal \o << Ok(Destroy("readyMutex")), Ok(Destroy("readyCond")) >>

(* condvar_broadcast: two workers wait, the main thread broadcasts after   *)
(* `pause`, inside or past their timeout.                                  *)
broadcast(deadline, wait, pause, timeouts, woken) ==
  [main |-> deadline \o << Ok(Start("w0")), Ok(Start("w1")) >>
            \o Locked("readyMutex", AwaitReady(Below("readyCounter", thrCount)))
            \o pause
            \o Locked("mutex", << Ok(Broadcast("cond")) >>)
            \o << Ok(Join("w0")), Ok(Join("w1")) >> \o Counts(timeouts, woken)
            \o TearDownBroadcast,
   w0 |-> worker_thread_broadcast_test(0, wait), w1 |-> worker_thread_broadcast_test(1, wait)]

broadcast_no_timeout ==
  broadcast(<<>>, Within(BROADCAST_TEST_TIMEOUT, Wait("cond", "mutex")), <<>>, 0, thrCount)
broadcast_absolute_no_timeout ==
  broadcast(<< Deadline("timeout", BROADCAST_TEST_TIMEOUT) >>,
            Until("timeout", Wait("cond", "mutex")), <<>>, 0, thrCount)
broadcast_timeout ==
  broadcast(<< Deadline("timeout", 1000) >>, Until("timeout", Wait("cond", "mutex")),
            << Ok(Sleep(2000)) >>, 1, 0)

SysCondCode ==
  [cond_default_no_timeout |->
     signal_no_timeout(<<>>, Within(SIGNAL_TEST_TIMEOUT, Wait("cond", "mutex"))),
   cond_monotonic_no_timeout |->
     signal_no_timeout(<< Deadline("timeout", SIGNAL_TEST_TIMEOUT) >>,
                       Until("timeout", Wait("cond", "mutex"))),
   cond_monotonic_timeout   |-> signal_timeout(2000, Deadline("timeout", 1000)),
   cond_monotonic_past_time |-> signal_timeout(0, Deadline("timeout", 0)),
   cond_multiple_threads    |-> multiple_threads,
   cond_broadcast_default_no_timeout   |-> broadcast_no_timeout,
   cond_broadcast_monotonic_no_timeout |-> broadcast_absolute_no_timeout,
   cond_broadcast_monotonic_timeout    |-> broadcast_timeout]
================================================================================
