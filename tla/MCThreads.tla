------------------------------- MODULE MCThreads -------------------------------
(***************************************************************************)
(* The threaded test programs of the repository as one table of tests for  *)
(* TestThreads: their code, the types of their mutexes, the fault of the   *)
(* kernel or of the library that each is to report, and whether it waits   *)
(* long enough for a machine of any speed.                                 *)
(***************************************************************************)
EXTENDS TestThreads, TLC, SysCondTests, SysMutexTests, LibcMutexTests, SemaphoreTests, PthreadTests,
        CancelTests, ProcTests

(* The types of the mutexes that are not default ones, by test. *)
Typed(m, k, S) == [x \in S |-> m :> k]
MutexKinds ==
     Typed("mutex", "errorcheck", {"mutex_errorcheck", "mutex_single_errorcheck"})
  @@ Typed("mutex", "recursive", {"mutex_recursive", "mutex_recursive_try",
                                  "mutex_single_recursive", "mutex_single_recursive_try"})
  @@ Typed("m", "recursive", {"contention_recursive"})
  @@ Typed("m", "errorcheck", {"contention_errorcheck"})
  @@ Typed("h", "recursive", {"timedlock_recursive_held_elsewhere", "recursive_depth"})
  @@ Typed("h", "errorcheck", {"errorcheck", "timedwait_timeout_reowns_mutex"})
  @@ Typed("h", "kernel", {"kernel_mutex_self_relock_edeadlk"})
  @@ Typed("robust", "robust", {"mutex_robust_owner_death"})

(* The faults that a test reports in every schedule. *)
Reported ==
     [x \in {"cond_default_no_timeout", "cond_monotonic_no_timeout", "cond_multiple_threads",
             "cond_broadcast_default_no_timeout", "cond_broadcast_monotonic_no_timeout",
             "pthread_cond_wait_signal", "pthread_cond_wait_broadcast",
             "pthread_cond_timedwait_pass_signal", "pthread_cond_timedwait_pass_broadcast",
             "signal_before_deadline_wakes", "far_future_deadline_blocks"} |-> {"lost_wakeup"}]
  @@ [x \in {"cond_monotonic_timeout", "cond_broadcast_monotonic_timeout",
             "timedwait_timeout_reowns_mutex", "signal_without_waiters",
             "condclock_times_out"} |-> {"no_timeout"}]
  @@ [x \in {"cond_monotonic_past_time", "past_deadline_times_out_at_once",
             "pthread_cond_timedwait_fail_signal_incorrect_timeout",
             "pthread_cond_timedwait_fail_broadcast_incorrect_timeout"} |-> {"past_blocks"}]
  @@ [x \in {"mutex_errorcheck", "mutex_recursive", "mutex_single_errorcheck",
             "mutex_single_recursive", "recursive_depth", "errorcheck",
             "kernel_mutex_self_relock_edeadlk"} |-> {"self_blocks"}]
  @@ [x \in {"posts_release_waiters", "multiple_waiters", "multi_waiter_burst"} |-> {"edge_only"}]
  @@ [x \in {"timedwait_loser_keeps_deadline"} |-> {"loser_blocks"}]
  @@ [x \in {"all_arrive_before_any_leaves"} |-> {"stub"}]
  @@ [x \in {"async_cancels_a_thread_outside_cancellation_points", "type_is_per_thread",
             "async_pending_request_fires_on_enable"} |-> {"deferred"}]
  @@ [x \in {"cancelled_detached_is_released"} |-> {"cancel_keeps"}]
  @@ [x \in {"exit_while_received", "kill_while_received"} |-> {"lingers"}]
  @@ [x \in {"window_waits_for_answer"} |-> {"drops_window"}]
  @@ [x \in {"signal_does_not_abandon"} |-> {"signal_abandons"}]
  @@ [x \in {"server_exit_fails_request"} |-> {"orphans"}]
  @@ [x \in {"priority_inversion"} |-> {"no_inherit"}]

(* The tests that a slow machine cannot upset. *)
Patient ==
  {"cond_monotonic_past_time", "cond_multiple_threads", "cond_broadcast_monotonic_timeout",
   "mutex_no_attr", "mutex_errorcheck", "mutex_recursive", "mutex_recursive_try", "contention",
   "contention_recursive", "contention_errorcheck", "contention_trylock",
   "kernel_mutex_self_relock_edeadlk", "signal_without_waiters", "multiple_waiters",
   "post_vs_timeout", "basic_count_and_timeout", "spin_mutual_exclusion",
   "all_arrive_before_any_leaves", "destroy_right_after_release", "concurrent_join_and_detach",
   "detached_exits_race_reclaim", "cancelled_detached_is_released", "cancel_races_detached_exit"}

(* What is on the stack where pthread_cond's tests keep their results. *)
Garbage == {EOK, EINTR}
Uninitialized ==
  [x \in {"first2", "second2", "third2"} |-> Garbage]

Programs == SysCondCode @@ SysMutexCode(2) @@ LibcMutexCode @@ SemaphoreCode @@ PthreadCode
         @@ CancelCode @@ ProcCode

AllTests ==
  [x \in DOMAIN Programs |->
     [code    |-> Programs[x],
      kind    |-> IF x \in DOMAIN MutexKinds THEN MutexKinds[x] ELSE <<>>,
      init    |-> Uninitialized,
      catches |-> IF x \in DOMAIN Reported THEN Reported[x] ELSE {},
      anytime |-> x \in Patient,
      procs   |-> IF x \in DOMAIN Processes THEN Processes[x] ELSE <<>>,
      prio    |-> IF x \in DOMAIN Priorities THEN Priorities[x] ELSE <<>>]]

(* The tests of pthread_cond_eintr.c on the library they were written for. *)
Eintr == [x \in {"wait_ends_after_handler", "timedwait_ends_after_handler"} |->
            [AllTests[x] EXCEPT !.catches = {"resume"}]]
================================================================================
