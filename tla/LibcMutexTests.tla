----------------------------- MODULE LibcMutexTests ---------------------------
(***************************************************************************)
(* The tests of user-space mutexes, condition variables and futexes in     *)
(* src/libc/mutex/mutex.c.  Times are in milliseconds.                     *)
(***************************************************************************)
EXTENDS ThreadCode

CONSTANTS NTHREADS,   \* threads contending for a mutex: 4 in the code
          NITERS,     \* rounds of each of them, of the ping-pong, items: 20000
          NW          \* consumers, waiters, sleepers: 8, 12 and 4

HANG_MS == 10000

(* mtx_condWaitFor(): waits for pred = value until the deadline dl, result *)
(* in err.                                                                 *)
mtx_condWaitFor(err, dl, c, m, pred, value) ==
  << Deadline(dl, HANG_MS), Set(err, EOK) >>
  \o While(Isnt(pred, value) \o Is(err, EOK), << Into(err, Until(dl, Wait(c, m))) >>)
  \o If(Is(pred, value), << Set(err, EOK) >>)

--------------------------------------------------------------------------------
(* Mutual exclusion: threads that read and write a counter in two steps.   *)
Ret(k) == << "ret1", "ret2", "ret3", "ret4" >>[k]

mtx_incrementer(k) ==
  For(NITERS, << Quit(Ret(k), EOK, Lock("m")) >> \o Add("counter", 1)
              \o << Quit(Ret(k), EOK, Unlock("m")) >>)

mtx_tryIncrementer(k) ==
  LET try == << Into(Ret(k), TryLock("m")) >> IN
    For(NITERS, try \o While(Isnt(Ret(k), EOK), << Yield >> \o try)
                \o Add("counter", 1) \o << Quit(Ret(k), EOK, Unlock("m")) >>)

mtx_contend(thread) ==
  Pool(NTHREADS,
       << Set("counter", 0) >> \o StartAll(NTHREADS)
       \o [j \in 1..(2 * NTHREADS) |->
             LET k == (j + 1) \div 2 IN
               IF j % 2 = 1 THEN Ok(Join(Worker(k))) ELSE Expect(Is(Ret(k), EOK))]
       \o << Expect(Is("counter", NTHREADS * NITERS)), Ok(Destroy("m")) >>,
       LAMBDA k : thread[k])

--------------------------------------------------------------------------------
(* A thread that holds mutex h until it is told to let go. *)
mtx_holder(h) ==
  << Quit("ret", EOK, Lock(h)), Lock("m"), Set("flag", 1), Broadcast("c") >>
  \o While(Isnt("flag", 2), << Wait("c", "m") >>)
  \o << Unlock("m"), Tally("ret", EOK, Unlock(h)) >>

mtx_startHolder ==
  << Set("flag", 0), Ok(Start("holder")), Lock("m") >>
  \o mtx_condWaitFor("err", "dl", "c", "m", "flag", 1)
  \o << Expect(Is("err", EOK)), Unlock("m") >>

mtx_releaseHolder ==
  << Lock("m"), Set("flag", 2), Broadcast("c"), Unlock("m"),
     Ok(Join("holder")), Expect(Is("ret", EOK)) >>

TearDown == << Ok(Destroy("h")), Destroy("c"), Destroy("m") >>
WithHolder(main) == [main |-> main \o TearDown, holder |-> mtx_holder("h")]

trylock == WithHolder(
  << Ok(TryLock("h")), Ok(Unlock("h")) >> \o mtx_startHolder
  \o << Equal(EBUSY, TryLock("h")) >> \o mtx_releaseHolder
  \o << Ok(TryLock("h")), Ok(Unlock("h")) >>)

(* The elapsed time is measured against two deadlines, 90 ms and HANG_MS.  *)
timedlock == WithHolder(
  << Deadline("past", 0), Ok(Until("past", TimedLock("h"))), Ok(Unlock("h")) >>
  \o mtx_startHolder
  \o << Equal(ETIMEDOUT, Until("past", TimedLock("h"))),
        Deadline("early", 90), Deadline("late", HANG_MS), Deadline("dl", 100),
        Equal(ETIMEDOUT, Until("dl", TimedLock("h"))),
        Ok(Left("early")), Into("rest", Left("late")), Expect(Isnt("rest", 0)) >>
  \o mtx_releaseHolder
  \o << Deadline("dl", HANG_MS), Ok(Until("dl", TimedLock("h"))), Ok(Unlock("h")) >>)

timedlock_recursive_held_elsewhere == WithHolder(
  mtx_startHolder
  \o << Deadline("dl", 50), Equal(ETIMEDOUT, Until("dl", TimedLock("h"))),
        Equal(EBUSY, TryLock("h")), Equal(EPERM, Unlock("h")) >>
  \o mtx_releaseHolder)

recursive_depth == WithHolder(
  For(NITERS, << Ok(Lock("h")), Ok(TryLock("h")) >>) \o For(2 * NITERS, << Ok(Unlock("h")) >>)
  \o << Equal(EPERM, Unlock("h")) >> \o mtx_startHolder \o mtx_releaseHolder)

errorcheck == WithHolder(
  << Equal(EPERM, Unlock("h")), Ok(Lock("h")), Equal(EDEADLK, Lock("h")),
     Equal(EBUSY, TryLock("h")), Ok(Unlock("h")), Equal(EPERM, Unlock("h")) >>
  \o mtx_startHolder
  \o << Equal(EBUSY, TryLock("h")), Equal(EPERM, Unlock("h")) >> \o mtx_releaseHolder)

kernel_mutex_self_relock_edeadlk ==
  [main |-> << Ok(Lock("h")), Equal(EDEADLK, Within(200, TimedLock("h"))),
               Equal(EDEADLK, Lock("h")), Ok(Unlock("h")), Ok(TryLock("h")), Ok(Unlock("h")),
               Ok(Destroy("h")) >>]

--------------------------------------------------------------------------------
(* Condition variables.                                                    *)
cv_ponger ==
  << Lock("m") >>
  \o For(NITERS, If(Is("quit", 0),
       mtx_condWaitFor("perr", "pdl", "c", "m", "turn", 1)
       \o IfElse(Isnt("perr", EOK), << Set("failed", 1), Set("quit", 1) >>,
                 << Set("turn", 0), Signal("c") >>)))
  \o << Unlock("m") >>

cv_pingPong ==
  [main |-> << Ok(Start("ponger")), Lock("m") >>
            \o For(NITERS, If(Is("failed", 0),
                 << Set("turn", 1), Signal("c") >>
                 \o mtx_condWaitFor("err", "dl", "c", "m", "turn", 0)
                 \o If(Isnt("err", EOK), << Set("failed", 1) >>) \o Add("i", 1)))
            \o << Unlock("m"), Ok(Join("ponger")), Expect(Is("failed", 0)),
                  Expect(Is("i", NITERS)), Destroy("c"), Destroy("m") >>,
   ponger |-> cv_ponger]

Err(k) == << "err1", "err2", "err3", "err4" >>[k]
Dl(k)  == << "dl1", "dl2", "dl3", "dl4" >>[k]

cv_consumer(k) ==
  << Lock("m"), Set(Err(k), EOK), Set(Ret(k), 1) >>
  \o While(Is(Ret(k), 1),
       << Deadline(Dl(k), HANG_MS) >>
       \o While(Is("queued", 0) \o Is("stop", 0) \o Is(Err(k), EOK),
                << Into(Err(k), Until(Dl(k), Wait("c", "m"))) >>)
       \o IfElse(Isnt("queued", 0),
                 Add("queued", -1) \o Add("taken", 1) \o << Set(Err(k), EOK) >>,
                 If(Isnt(Err(k), EOK), << Set("failed", 1) >>) \o << Set(Ret(k), 0) >>))
  \o << Unlock("m") >>

producer_consumers ==
  Pool(NW,
       StartAll(NW)
       \o For(NITERS, << Lock("m") >> \o Add("queued", 1) \o << Signal("c"), Unlock("m") >>)
       \o << Lock("m"), Set("stop", 1), Broadcast("c"), Unlock("m") >> \o JoinAll(NW)
       \o << Expect(Is("failed", 0)), Expect(Is("taken", NITERS)), Expect(Is("queued", 0)),
             Destroy("c"), Destroy("m") >>,
       cv_consumer)

cv_broadcastWaiter(k) ==
  << Lock("m") >> \o Add("waiting", 1)
  \o << Broadcast("c"), Deadline(Dl(k), HANG_MS), Set(Err(k), EOK) >>
  \o While(Is("stop", 0) \o Is(Err(k), EOK), << Into(Err(k), Until(Dl(k), Wait("c", "m"))) >>)
  \o If(Is("stop", 0), << Set("failed", 1) >>)
  \o Add("released", 1) \o << Unlock("m") >>

broadcast_many ==
  Pool(NW,
       StartAll(NW) \o << Lock("m"), Deadline("dl", HANG_MS), Set("err", EOK) >>
       \o While(Isnt("waiting", NW) \o Is("err", EOK), << Into("err", Until("dl", Wait("c", "m"))) >>)
       \o << Set("stop", 1), Unlock("m"), Ok(Broadcast("c")) >> \o JoinAll(NW)
       \o << Expect(Is("failed", 0)), Expect(Is("released", NW)), Destroy("c"), Destroy("m") >>,
       cv_broadcastWaiter)

timedwait_timeout_reowns_mutex ==
  [main |-> << Ok(Lock("h")), Deadline("early", 90), Deadline("late", HANG_MS), Deadline("dl", 100),
               Equal(ETIMEDOUT, Until("dl", Wait("c", "h"))),
               Ok(Left("early")), Into("rest", Left("late")), Expect(Isnt("rest", 0)),
               Equal(EDEADLK, Lock("h")), Ok(Unlock("h")), Equal(EPERM, Unlock("h")),
               Equal(EPERM, Until("dl", Wait("c", "h"))), Ok(Destroy("h")), Destroy("c") >>]

signal_without_waiters ==
  [main |-> << Ok(Signal("c")), Ok(Broadcast("c")), Lock("m"), Deadline("dl", 50),
               Equal(ETIMEDOUT, Until("dl", Wait("c", "m"))), Unlock("m"),
               Destroy("c"), Destroy("m") >>]

--------------------------------------------------------------------------------
(* Futexes. *)
fx_sleeper(k) ==
  << AtomicAdd("sleeping", 1) >>
  \o DoWhile(<< Into(Err(k), FutexWait("word", 0)) >>, Is("word", 0) \o Among(Err(k), {EOK, EINTR}))
  \o << AtomicAdd("woken", 1) >>

value_mismatch_and_timeout ==
  [main |-> << Set("w", 5), Equal(EAGAIN, FutexWait("w", 4)),
               Deadline("early", 45), Deadline("late", HANG_MS),
               Equal(ETIMEDOUT, Within(50, FutexWait("w", 5))),
               Ok(Left("early")), Into("rest", Left("late")), Expect(Isnt("rest", 0)),
               Equal(0, FutexWake("w", 1)) >>]

wake_one_then_all ==
  Pool(NW,
       StartAll(NW) \o << Set("tries", 0) >>
       \o While(Below("tries", TRIES) \o Isnt("sleeping", NW), << Sleep(1) >> \o Add("tries", 1))
       \o << Sleep(20), Equal(1, FutexWake("word", 1)), Sleep(20), Expect(Is("woken", 0)),
             Set("word", 1), Set("tries", 0) >>
       \o While(Below("tries", TRIES) \o Isnt("woken", NW),
                << Into("n", FutexWake("word", NW)), Plus("sum", "n"), Sleep(1) >> \o Add("tries", 1))
       \o << Expect(Below("sum", NW + 1)) >> \o JoinAll(NW) \o << Expect(Is("woken", NW)) >>,
       fx_sleeper)

LibcMutexCode ==
  [contention           |-> mtx_contend([k \in 1..NTHREADS |-> mtx_incrementer(k)]),
   contention_recursive  |-> mtx_contend([k \in 1..NTHREADS |-> mtx_incrementer(k)]),
   contention_errorcheck |-> mtx_contend([k \in 1..NTHREADS |-> mtx_incrementer(k)]),
   contention_trylock |-> mtx_contend([k \in 1..NTHREADS |-> mtx_tryIncrementer(k)]),
   trylock            |-> trylock,
   timedlock          |-> timedlock,
   timedlock_recursive_held_elsewhere |-> timedlock_recursive_held_elsewhere,
   recursive_depth    |-> recursive_depth,
   errorcheck         |-> errorcheck,
   kernel_mutex_self_relock_edeadlk |-> kernel_mutex_self_relock_edeadlk,
   ping_pong          |-> cv_pingPong,
   producer_consumers |-> producer_consumers,
   broadcast_many     |-> broadcast_many,
   timedwait_timeout_reowns_mutex |-> timedwait_timeout_reowns_mutex,
   signal_without_waiters |-> signal_without_waiters,
   value_mismatch_and_timeout |-> value_mismatch_and_timeout,
   wake_one_then_all  |-> wake_one_then_all]
================================================================================
