------------------------------ MODULE PthreadTests -----------------------------
(***************************************************************************)
(* The tests of threads under src/libc/pthread: condition variables,       *)
(* spin and robust locks and detached threads of pthread.c (with           *)
(* pthread_cond_test_functions.c), and pthread_barrier.c,                  *)
(* pthread_cond_eintr.c and pthread_cond_clock.c.  Times are in            *)
(* milliseconds.                                                           *)
(***************************************************************************)
EXTENDS ThreadCode

CONSTANTS BARRIER_THREADS,   \* 4 in the code
          BARRIER_ROUNDS,    \* 500, and 100 rounds of the destruction test
          ITERS              \* rounds of an incrementing thread: 4000

(***************************************************************************)
(* pthread_cond: the waiters and the signaller keep what their calls       *)
(* return in a structure on the test's stack that nobody initializes.      *)
(***************************************************************************)
first  == << "first1", "first2", "first3" >>
second == << "second1", "second2", "second3" >>
third  == << "third1", "third2", "third3" >>

decrement(err, wait) ==
  << Into(err[1], Lock("count_lock")) >> \o wait \o << Into(err[3], Unlock("count_lock")) >>

decrement_count_wait(err) ==
  decrement(err, While(Is("count", 0), << Into(err[2], Wait("count_nonzero", "count_lock")) >>))
decrement_count_timed_wait_pass(err) ==
  << Deadline(err[1], 15000) >>
  \o decrement(err, While(Is("count", 0),
       << Into(err[2], Until(err[1], Wait("count_nonzero", "count_lock"))) >>))
decrement_count_timed_wait_fail_incorrect_timeout(err) ==
  << Deadline(err[1], 0) >>
  \o decrement(err, If(Is("count", 0),
       << Into(err[2], Until(err[1], Wait("count_nonzero", "count_lock"))) >>))

\* Mutant: the signaller does not leave the waiters the time to wait.
increment_at_once(err, wake, n) ==
  << Into(err[1], Lock("count_lock")) >>
  \o If(Is("count", 0), << Into(err[2], wake) >>) \o Add("count", n)
  \o << Into(err[3], Unlock("count_lock")) >>

increment(err, wake, n) ==
  << Sleep(10), Into(err[1], Lock("count_lock")) >>
  \o If(Is("count", 0), << Into(err[2], wake) >>) \o Add("count", n)
  \o << Into(err[3], Unlock("count_lock")) >>
increment_count_signal(err)    == increment(err, Signal("count_nonzero"), 1)
increment_count_broadcast(err) == increment(err, Broadcast("count_nonzero"), 2)

\* Mutant: what the wait returned is not asserted.
Asserted_locking(err, e2) ==
  << Expect(Is(err[1], EOK)), Expect(Is(err[3], EOK)) >>

Asserted(err, e2) ==
  << Expect(Is(err[1], EOK)), Expect(Is(err[2], e2)), Expect(Is(err[3], EOK)) >>

wait_signal(waiter, e2) ==
  Pool(2, StartAll(2) \o JoinAll(2) \o Asserted(first, e2) \o Asserted(second, EOK),
       LAMBDA k : IF k = 1 THEN waiter[first] ELSE increment_count_signal(second))
wait_broadcast(waiter, e2) ==
  Pool(3, StartAll(3) \o JoinAll(3) \o Asserted(first, e2) \o Asserted(second, e2)
          \o Asserted(third, EOK),
       LAMBDA k : CASE k = 1 -> waiter[first] [] k = 2 -> waiter[second]
                    [] k = 3 -> increment_count_broadcast(third))

--------------------------------------------------------------------------------
(* pthread_detach and pthread_newlocks. *)
detach_stale_handle_no_uaf ==
  [main |-> << Ok(Start("t1")), Ok(Detach("t1")), Sleep(100), Into("rc", Detach("t1")),
               Expect(Isnt("rc", EOK)) >>,
   t1   |-> <<>>]

(* Bursts of detached threads, then single ones. *)
detached_burst_stack_reclaim ==
  LET started(k) == << Ok(Start(Worker(k))), Ok(Detach(Worker(k))) >> IN
    Pool(4, started(1) \o started(2) \o << Sleep(30) >> \o started(3) \o << Sleep(2) >>
            \o started(4) \o << Sleep(2) >>,
         LAMBDA k : <<>>)

spin_lock_trylock_unlock ==
  [main |-> << Ok(Lock("lock")), Equal(EBUSY, TryLock("lock")), Ok(Unlock("lock")),
               Ok(TryLock("lock")), Ok(Unlock("lock")), Ok(Destroy("lock")) >>]

(* The spinlock, the pthread mutex and the kernel mutex in turn. *)
incrementer(k) ==
  For(ITERS, << Lock("lock") >> \o Add("g_newlocks_counter", 1) \o << Unlock("lock") >>)
mutual_exclusion(n) ==
  Pool(n, << Set("g_newlocks_counter", 0) >> \o StartAll(n) \o JoinAll(n)
          \o << Expect(Is("g_newlocks_counter", n * ITERS)), Ok(Destroy("lock")) >>,
       incrementer)

mutex_robust_owner_death ==
  [main |-> << Ok(Start("t1")), Ok(Join("t1")), Equal(EOWNERDEAD, Lock("robust")),
               Ok(Consistent("robust")), Ok(Unlock("robust")), Ok(Lock("robust")),
               Ok(Unlock("robust")), Ok(Destroy("robust")) >>,
   t1   |-> << Lock("robust") >>]    \* robust_killer

--------------------------------------------------------------------------------
(* pthread_barrier.c: one counter of arrivals and of serial threads for    *)
(* each round.                                                             *)
arrived(r) == << "arrived1", "arrived2" >>[r]
serial(r)  == << "serial1", "serial2" >>[r]
rc(k)      == << "rc1", "rc2", "rc3" >>[k]

barrier_round(k, r) ==
  << AtomicAdd(arrived(r), 1), Into(rc(k), BarrierWait("b", BARRIER_THREADS)) >>
  \o IfElse(Is(rc(k), SERIAL_THREAD), << AtomicAdd(serial(r), 1) >>,
            If(Isnt(rc(k), EOK), << AtomicAdd("early", 1) >>))
  \o If(Isnt(arrived(r), BARRIER_THREADS), << AtomicAdd("early", 1) >>)
barrier_worker(k) ==
  IF BARRIER_ROUNDS = 1 THEN barrier_round(k, 1)
                        ELSE barrier_round(k, 1) \o barrier_round(k, 2)

all_arrive_before_any_leaves ==
  Pool(BARRIER_THREADS,
       StartAll(BARRIER_THREADS) \o JoinAll(BARRIER_THREADS)
       \o << Ok(Destroy("b")), Expect(Is("early", 0)) >>
       \o [r \in 1..BARRIER_ROUNDS |-> Expect(Is(serial(r), 1))],
       barrier_worker)

barrier_waitOnce(n) == << BarrierWait("b", n) >>

destroy_right_after_release ==
  Pool(2, For(BARRIER_ROUNDS,
              << Create("b") >> \o StartAll(2) \o barrier_waitOnce(3) \o << Ok(Destroy("b")) >>
              \o JoinAll(2)),
       LAMBDA k : barrier_waitOnce(3))

(* b.waiting is polled, TRIES times at most. *)
destroy_while_waiting_is_busy ==
  [main |-> << Ok(Start("t1")), Set("tries", 0) >>
            \o While(Below("tries", TRIES) \o Is("b", 0), << Sleep(1) >> \o Add("tries", 1))
            \o << Expect(Is("b", 1)), Equal(EBUSY, Destroy("b")) >> \o barrier_waitOnce(2)
            \o << Ok(Join("t1")), Ok(Destroy("b")) >>,
   t1   |-> barrier_waitOnce(2)]

--------------------------------------------------------------------------------
(* pthread_cond_eintr.c: a handler changes the predicate during a wait.    *)
CONDEINTR_TIMEOUT_MS == 3000

\* Mutant: the waiter announces itself after its wait.
condeintr_waiter_late(deadline, wait) ==
  << Lock("mutex") >>
  \o While(Is("flag", 0) \o Among("werr", {EOK, ETIMEDOUT}), deadline \o << Into("werr", wait) >>)
  \o << Set("waiting", 1), Copy("rc", "werr"), Into("unlockRc", Unlock("mutex")), Set("done", 1) >>

condeintr_waiter(deadline, wait) ==
  << Lock("mutex"), Set("waiting", 1) >>
  \o While(Is("flag", 0) \o Among("werr", {EOK, ETIMEDOUT}), deadline \o << Into("werr", wait) >>)
  \o << Copy("rc", "werr"), Into("unlockRc", Unlock("mutex")), Set("done", 1) >>

(* The waiter gets CONDEINTR_TIMEOUT_MS; then it is woken for the sake of  *)
(* the tests that follow.                                                  *)
condeintr_rescue ==
  If(Is("done", 0), << Lock("mutex"), Broadcast("cond"), Unlock("mutex") >>)

condeintr_run(deadline, wait) ==
  [main |-> << Set("rc", -1), Set("unlockRc", -1), Ok(Start("t1")) >>
            \o While(Is("waiting", 0), << Sleep(1) >>)
            \o << Lock("mutex"), Unlock("mutex"), Sleep(20), Ok(Kill("t1", "flag")),
                  Deadline("deadline", CONDEINTR_TIMEOUT_MS), Into("rest", Left("deadline")) >>
            \o While(Is("done", 0) \o Isnt("rest", 0), << Sleep(POLL_MS), Into("rest", Left("deadline")) >>)
            \o condeintr_rescue
            \o << Ok(Join("t1")), Expect(Is("done", 1)), Expect(Is("rc", EOK)),
                  Expect(Is("unlockRc", EOK)) >>,
   t1   |-> condeintr_waiter(deadline, wait)]

wait_ends_after_handler == condeintr_run(<<>>, Wait("cond", "mutex"))
timedwait_ends_after_handler ==
  condeintr_run(<< Deadline("ts", 60000) >>, Until("ts", Wait("cond", "mutex")))

--------------------------------------------------------------------------------
(* pthread_cond_clock.c: a waiter with a deadline, watched by the test.    *)
CONDCLOCK_WAIT_MS     == 300
CONDCLOCK_SLACK_MS    == 1200
CONDCLOCK_EARLY_MS    == 20
CONDCLOCK_WATCHDOG_MS == 3000

(* The time the waits take is measured against two deadlines, set when     *)
(* they begin: `early` and `late` hold what is left of them at the end.    *)
condclock_waitThread(low, high) ==
  << Lock("lock"), Deadline("early", low), Deadline("late", high) >>
  \o DoWhile(<< Into("wrc", Until("deadline", Wait("cond", "lock"))) >>,
             Is("wrc", EOK) \o Is("released", 0))
  \o << Into("early", Left("early")), Into("late", Left("late")),
        Into("held", TryLock("lock")), Unlock("lock"), Set("done", 1) >>

condclock_start(ms) ==
  << Deadline("deadline", ms), Set("released", 0), Set("done", 0), Create("lock"), Ok(Start("t1")) >>

condclock_release ==
  << Lock("lock"), Set("released", 1), Broadcast("cond"), Unlock("lock") >>

(* finished: the waiter was not released by the watchdog. *)
condclock_join ==
  << Deadline("end", CONDCLOCK_WATCHDOG_MS), Copy("finished", "done"), Into("rest", Left("end")) >>
  \o While(Is("finished", 0) \o Isnt("rest", 0),
           << Sleep(POLL_MS), Copy("finished", "done"), Into("rest", Left("end")) >>)
  \o If(Is("finished", 0), condclock_release) \o << Ok(Join("t1")), Destroy("lock") >>

Watched(low, high, main) ==
  [main |-> main \o << Destroy("cond") >>, t1 |-> condclock_waitThread(low, high)]

condclock_timeout == Watched(
  CONDCLOCK_WAIT_MS - CONDCLOCK_EARLY_MS, CONDCLOCK_WAIT_MS + CONDCLOCK_SLACK_MS + 1,
  condclock_start(CONDCLOCK_WAIT_MS) \o condclock_join
  \o << Expect(Is("finished", 1)), Expect(Is("wrc", ETIMEDOUT)), Expect(Is("early", 0)),
        Expect(Isnt("late", 0)) >>)

(* A deadline in the past, four times in the code. *)
condclock_past == Watched(0, 100,
  For(2, condclock_start(0) \o condclock_join
         \o << Expect(Is("finished", 1)), Expect(Is("wrc", ETIMEDOUT)), Expect(Is("held", EBUSY)),
               Expect(Isnt("late", 0)) >>))

signal_before_deadline_wakes == Watched(0, 2000,
  condclock_start(10000) \o << Sleep(100) >> \o condclock_release \o condclock_join
  \o << Expect(Is("finished", 1)), Expect(Is("wrc", EOK)), Expect(Isnt("late", 0)) >>)

(* A deadline beyond every clock: FAR is later than any other timeout. *)
FAR == 100000
far_future_deadline_blocks == Watched(0, FAR,
  For(2, condclock_start(FAR) \o << Sleep(200), Copy("ended", "done") >> \o condclock_release
         \o condclock_join
         \o << Expect(Is("finished", 1)), Expect(Is("ended", 0)), Expect(Is("wrc", EOK)) >>))

PthreadCode ==
  LET both == {first, second}
      waits == [e \in both |-> decrement_count_wait(e)]
      pass  == [e \in both |-> decrement_count_timed_wait_pass(e)]
      fail  == [e \in both |-> decrement_count_timed_wait_fail_incorrect_timeout(e)] IN
  [pthread_cond_wait_signal    |-> wait_signal(waits, EOK),
   pthread_cond_wait_broadcast |-> wait_broadcast(waits, EOK),
   pthread_cond_timedwait_pass_signal |-> wait_signal(pass, EOK),
   pthread_cond_timedwait_pass_broadcast |->
     wait_broadcast(pass, EOK),
   pthread_cond_timedwait_fail_signal_incorrect_timeout |->
     wait_signal(fail, ETIMEDOUT),
   pthread_cond_timedwait_fail_broadcast_incorrect_timeout |->
     wait_broadcast(fail, ETIMEDOUT),
   detach_stale_handle_no_uaf   |-> detach_stale_handle_no_uaf,
   detached_burst_stack_reclaim |-> detached_burst_stack_reclaim,
   spin_lock_trylock_unlock     |-> spin_lock_trylock_unlock,
   spin_mutual_exclusion        |-> mutual_exclusion(2),
   mutex_robust_owner_death     |-> mutex_robust_owner_death,
   all_arrive_before_any_leaves |-> all_arrive_before_any_leaves,
   destroy_right_after_release  |-> destroy_right_after_release,
   destroy_while_waiting_is_busy |-> destroy_while_waiting_is_busy,
   wait_ends_after_handler      |-> wait_ends_after_handler,
   timedwait_ends_after_handler |-> timedwait_ends_after_handler,
   condclock_times_out          |-> condclock_timeout,
   past_deadline_times_out_at_once |-> condclock_past,
   signal_before_deadline_wakes |-> signal_before_deadline_wakes,
   far_future_deadline_blocks   |-> far_future_deadline_blocks]
================================================================================
