----------------------------- MODULE SemaphoreTests ---------------------------
(***************************************************************************)
(* The tests of semaphores under src/libc/semaphore: posix_sem.c,          *)
(* semaphore.c, unnamed.c and named.c.  Times are in milliseconds.         *)
(***************************************************************************)
EXTENDS ThreadCode

CONSTANTS PSEM_THREADS,  \* waiters at once: 4, 8 or WAITERS_CNT in the code
          PSEM_ITEMS     \* units produced: 2000

PSEM_TIMEOUT_MS == 5000

Result(k) == << "res1", "res2", "res3", "res4" >>[k]
Limit(k)  == << "lim1", "lim2", "lim3", "lim4" >>[k]

(* psem_waitFor(): a timed wait, so that nothing waits for ever. *)
psem_waitFor(k, ms) == << Deadline(Limit(k), ms), Into(Result(k), Until(Limit(k), SemWait("psem"))) >>

psem_waiter(k) ==
  psem_waitFor(k, PSEM_TIMEOUT_MS) \o If(Is(Result(k), EOK), << AtomicAdd("psem_done", 1) >>)

Count(k) == << "count1", "count2" >>[k]
psem_consumer(k) ==
  psem_waitFor(k, PSEM_TIMEOUT_MS)
  \o While(Is(Result(k), EOK),
       << Into(Result(k), AtomicAdd("psem_done", 1)) >>
       \o If(AtLeast(Result(k), PSEM_ITEMS + 1), << End >>)
       \o Add(Count(k), 1) \o psem_waitFor(k, PSEM_TIMEOUT_MS))

(* while (x < n && now < deadline) usleep(): a bounded number of polls. *)
Poll(x, n) ==
  << Set("polls", 0) >>
  \o While(Below(x, n) \o Below("polls", TRIES), << Sleep(1) >> \o Add("polls", 1))

count_and_trywait ==
  [main |-> << Set("psem", 2), Ok(SemTryWait("psem")), Ok(SemWait("psem")), Expect(Is("psem", 0)),
               Equal(EAGAIN, SemTryWait("psem")), Ok(SemPost("psem")), Ok(SemPost("psem")),
               Expect(Is("psem", 2)), Ok(Destroy("psem")) >>]

\* Mutant: the waiters are counted and not joined.
posts_release_waiters_nojoin ==
  Pool(PSEM_THREADS,
       StartAll(PSEM_THREADS) \o << Sleep(50), Expect(Is("psem_done", 0)) >>
       \o For(PSEM_THREADS, << Ok(SemPost("psem")) >>)
       \o Poll("psem_done", PSEM_THREADS)
       \o << Expect(Is("psem_done", PSEM_THREADS)), Expect(Is("psem", 0)), Ok(Destroy("psem")) >>,
       psem_waiter)

posts_release_waiters ==
  Pool(PSEM_THREADS,
       StartAll(PSEM_THREADS) \o << Sleep(50), Expect(Is("psem_done", 0)) >>
       \o For(PSEM_THREADS, << Ok(SemPost("psem")) >>)
       \o Poll("psem_done", PSEM_THREADS) \o JoinAll(PSEM_THREADS)
       \o << Expect(Is("psem_done", PSEM_THREADS)), Expect(Is("psem", 0)), Ok(Destroy("psem")) >>,
       psem_waiter)

posix_producer_consumers ==
  Pool(2, StartAll(2) \o For(PSEM_ITEMS, << Ok(SemPost("psem")) >>)
          \o Poll("psem_done", PSEM_ITEMS) \o For(2, << Ok(SemPost("psem")) >>) \o JoinAll(2)
          \o << Plus("count1", "count2"), Expect(Is("count1", PSEM_ITEMS)), Ok(Destroy("psem")) >>,
       psem_consumer)

(* The elapsed time is measured against deadlines at its bounds. *)
timedwait_times_out ==
  [main |-> << Deadline("early", 90), Deadline("late", PSEM_TIMEOUT_MS), Deadline("lim1", 100),
               Equal(ETIMEDOUT, Until("lim1", SemWait("psem"))),
               Ok(Left("early")), Into("rest", Left("late")), Expect(Isnt("rest", 0)),
               Expect(Is("psem", 0)), Ok(SemPost("psem")), Expect(Is("psem", 1)),
               Ok(SemTryWait("psem")), Ok(Destroy("psem")) >>]

Slow(k) == << "slow1", "slow2" >>[k]
psem_timedWaiter(k) ==
  << Deadline(Slow(k), 800) >> \o psem_waitFor(k, 300) \o << Into(Slow(k), Left(Slow(k))) >>

(* The loser is the one with an error; it has to be back within 800 ms. *)
timedwait_loser_keeps_deadline ==
  LET lost(k) == If(Isnt(Result(k), EOK),
                    << AtomicAdd("lost", 1), Expect(Is(Result(k), ETIMEDOUT)), Expect(Isnt(Slow(k), 0)) >>)
  IN Pool(2, StartAll(2) \o << Sleep(50), Ok(SemPost("psem")), Sleep(1500), SemPost("psem") >>
             \o JoinAll(2) \o lost(1) \o lost(2)
             \o << Expect(Is("lost", 1)), Ok(Destroy("psem")) >>,
          psem_timedWaiter)

psem_signaller == << Sleep(50), KillPost("main", "psem") >>
post_from_signal_handler ==
  [main |-> << Ok(Start("t2")) >> \o psem_waitFor(1, PSEM_TIMEOUT_MS) \o << Ok(Join("t2")) >>
            \o If(Isnt(Result(1), EOK), << Expect(Is(Result(1), EINTR)), Ok(SemTryWait("psem")) >>)
            \o << Expect(Is("psem", 0)), Ok(Destroy("psem")) >>,
   t2   |-> psem_signaller]

--------------------------------------------------------------------------------
(* semaphore.c: detached waiters counted under a lock. *)
\* Mutant: the count is incremented ahead of the lock.
bump_unlocked(p) == Add(p, 1) \o << Lock("g_lock"), Unlock("g_lock") >>

bump(p) == << Lock("g_lock") >> \o Add(p, 1) \o << Unlock("g_lock") >>
get(p, x) == << Lock("g_lock"), Copy(x, p), Unlock("g_lock") >>

waiter_fn(k) == bump("g_ready") \o << SemWait("g_sem") >> \o bump("g_woke")

(* Polls a counter, the last value seen in `seen`. *)
wait_until(counter, target) ==
  << Set("polls", 0) >> \o get(counter, "seen")
  \o While(Below("seen", target) \o Below("polls", TRIES),
           << Sleep(10) >> \o Add("polls", 1) \o get(counter, "seen"))

spawn_detached(k) == << Ok(Start(Worker(k))), Detach(Worker(k)) >>

run_burst_round(r) ==
  << Lock("g_lock"), Set("g_ready", 0), Set("g_woke", 0), Unlock("g_lock") >>
  \o [j \in 1..(2 * PSEM_THREADS) |-> spawn_detached(r * PSEM_THREADS + ((j + 1) \div 2))[2 - (j % 2)]]
  \o wait_until("g_ready", PSEM_THREADS) \o << Expect(AtLeast("seen", PSEM_THREADS)), Sleep(200) >>
  \o For(PSEM_THREADS, << SemPost("g_sem") >>)
  \o wait_until("g_woke", PSEM_THREADS) \o << Expect(AtLeast("seen", PSEM_THREADS)) >>
  \o get("g_woke", "seen") \o << Expect(Is("seen", PSEM_THREADS)) >>

multi_waiter_burst ==
  Pool(PSEM_THREADS, run_burst_round(0) \o << Destroy("g_sem"), Destroy("g_lock") >>, waiter_fn)
multi_waiter_burst_repeated ==      \* 5 rounds in the code
  Pool(2 * PSEM_THREADS,
       run_burst_round(0) \o run_burst_round(1) \o << Destroy("g_sem"), Destroy("g_lock") >>,
       waiter_fn)

basic_count_and_timeout ==
  LET up == SemPost("g_sem") down == Ok(SemWait("g_sem"))
      empty(ms) == Equal(ETIMEDOUT, Within(ms, SemWait("g_sem")))
  IN [main |-> << empty(1), empty(10), up, down, empty(10), up, up, down, down, empty(10),
                  Destroy("g_sem"), Destroy("g_lock") >>]

--------------------------------------------------------------------------------
(* unnamed.c and named.c. *)
unnamed_waiter(k) == << Into(Result(k), SemWait("psem")) >>

unnamed_clockwaiter == << Deadline("lim1", 500), Into("res1", Until("lim1", SemWait("psem"))) >>

(* A post releases a waiter, or each of several of them. *)
multiple_waiters(n) ==
  Pool(n, StartAll(n) \o << Sleep(200) >> \o For(n, << Ok(SemPost("psem")) >>) \o JoinAll(n)
          \o [k \in 1..n |-> Expect(Is(Result(k), EOK))]
          \o << Expect(Is("psem", 0)), Destroy("psem") >>,
       unnamed_waiter)

clockwait_wakes_on_post ==
  [main |-> << Ok(Start("t1")), Sleep(100), Ok(SemPost("psem")), Ok(Join("t1")), Expect(Is("res1", EOK)),
               Ok(SemPost("psem")), Deadline("lim2", 500), Ok(Until("lim2", SemWait("psem"))),
               Destroy("psem") >>,
   t1   |-> unnamed_clockwaiter]

(* An expired deadline fails on an empty semaphore, not on another one. *)
timedwait_expired ==
  [main |-> << Set("psem", 1), Deadline("lim1", 0), Ok(Until("lim1", SemWait("psem"))),
               Equal(ETIMEDOUT, Until("lim1", SemWait("psem"))), Destroy("psem") >>]

(* post_vs_timeout: a post before every wait, 20 times in the code. *)
post_vs_timeout ==
  [main |-> For(PSEM_ITEMS,
                << Deadline("lim1", 20), Ok(SemPost("psem")), Into("res1", Until("lim1", SemWait("psem"))) >>
                \o IfElse(Is("res1", EOK), Add("acquired", 1), << Expect(Is("res1", ETIMEDOUT)) >>))
            \o << Plus("acquired", "psem"), Expect(Is("acquired", PSEM_ITEMS)), Destroy("psem") >>]

SemaphoreCode ==
  [count_and_trywait     |-> count_and_trywait,
   posts_release_waiters |-> posts_release_waiters,
   posix_producer_consumers |-> posix_producer_consumers,
   timedwait_times_out   |-> timedwait_times_out,
   timedwait_loser_keeps_deadline |-> timedwait_loser_keeps_deadline,
   post_from_signal_handler |-> post_from_signal_handler,
   basic_count_and_timeout |-> basic_count_and_timeout,
   multi_waiter_burst    |-> multi_waiter_burst,
   multi_waiter_burst_repeated |-> multi_waiter_burst_repeated,
   multiple_waiters      |-> multiple_waiters(PSEM_THREADS),
   clockwait_wakes_on_post |-> clockwait_wakes_on_post,
   timedwait_expired     |-> timedwait_expired,
   post_vs_timeout       |-> post_vs_timeout]
================================================================================
