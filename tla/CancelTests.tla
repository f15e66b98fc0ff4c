------------------------------ MODULE CancelTests -----------------------------
(***************************************************************************)
(* The tests of the cancellation and of the lifetime of threads:           *)
(* src/libc/pthread/pthread_canceltype.c and                               *)
(* src/libc/pthread_lifetime/pthread_lifetime.c.  Times are in             *)
(* milliseconds.                                                           *)
(***************************************************************************)
EXTENDS ThreadCode

CANCELTYPE_TIMEOUT_MS == 5000
PTHREAD_CANCEL_DEFERRED     == 0
PTHREAD_CANCEL_ASYNCHRONOUS == 1

canceltype_waitFor(d, flag, rest) ==
  << Deadline(d, CANCELTYPE_TIMEOUT_MS), Into(rest, Left(d)) >>
  \o While(Is(flag, 0) \o Isnt(rest, 0), << Sleep(POLL_MS), Into(rest, Left(d)) >>)

Awaited(flag) == canceltype_waitFor("limit", flag, "rest") \o << Expect(Isnt(flag, 0)) >>

(* The spinner computes until its deadline, out of reach of a deferred     *)
(* cancellation.                                                           *)
canceltype_spinner ==
  << Set("type1", PTHREAD_CANCEL_ASYNCHRONOUS), Set("ready", 1), Spin(CANCELTYPE_TIMEOUT_MS),
     Set("survived", 1), Returns(1) >>

canceltype_pending ==
  << CancelOff, Set("type1", PTHREAD_CANCEL_ASYNCHRONOUS), Set("ready", 1) >>
  \o canceltype_waitFor("limit1", "requested", "rest1") \o If(Is("requested", 0), << Returns(3) >>)
  \o << CancelOn, Set("survived", 1), Returns(1) >>

JoinCancelled == << Ok(JoinInto("ret", "t1")), Expect(Is("ret", PTHREAD_CANCELED)) >>

type_is_per_thread ==
  [main |-> << Ok(Start("t1")) >> \o Awaited("ready")
            \o << Copy("old", "type"), Set("type", PTHREAD_CANCEL_DEFERRED),
                  Expect(Is("old", PTHREAD_CANCEL_DEFERRED)), Ok(Cancel("t1")) >> \o JoinCancelled,
   t1   |-> canceltype_spinner]

async_cancels_a_thread_outside_cancellation_points ==
  [main |-> << Ok(Start("t1")) >> \o Awaited("ready") \o << Ok(Cancel("t1")) >>
            \o JoinCancelled \o << Expect(Is("survived", 0)) >>,
   t1   |-> canceltype_spinner]

async_pending_request_fires_on_enable ==
  [main |-> << Ok(Start("t1")) >> \o Awaited("ready") \o << Ok(Cancel("t1")), Set("requested", 1) >>
            \o JoinCancelled \o << Expect(Is("survived", 0)) >>,
   t1   |-> canceltype_pending]

--------------------------------------------------------------------------------
(* pthread_lifetime.  The creator of a joined thread checks what it        *)
(* returned.  The threads of a test that create others are as many as in   *)
(* the program, and each makes one iteration: what a second one could meet *)
(* it meets in the other threads.                                          *)
LIFE_NAP_MS == 5       \* the pause of the threads that wait: 1

life_noop == << Returns(1234) >>

(* life_createJoin(): asserted by the test, counted by a worker. *)
life_createJoin == << Ok(Start("noop")), Ok(JoinInto("ret", "noop")), Expect(Is("ret", 1234)) >>
life_joiner(t, ret) ==
  << Tally("life_failures", EOK, Start(t)), Tally("life_failures", EOK, JoinInto(ret, t)) >>
  \o If(Isnt(ret, 1234), << AtomicAdd("life_failures", 1) >>)

Gate(k) == << "gate1", "gate2" >>[k]
life_gated(k) == While(Is(Gate(k), 0), << Yield >>)
life_createDetached(k, t) ==
  << Set(Gate(k), 0), Tally("life_failures", EOK, Start(t)), Tally("life_failures", EOK, Detach(t)),
     Set(Gate(k), 1) >>

(* Four threads work at the same time, by two sorts of code. *)
life_workers(w) ==
  << Set("life_failures", 0) >>
  \o [n \in 1 .. 4 |-> Ok(Start(w[n]))] \o [n \in 1 .. 4 |-> Ok(Join(w[n]))]
  \o << Expect(Is("life_failures", 0)) >> \o life_createJoin

concurrent_join_and_detach ==
  [main    |-> life_workers(<< "join1", "detach1", "join2", "detach2" >>),
   join1   |-> life_joiner("noop1", "ret1"),
   join2   |-> life_joiner("noop2", "ret2"),
   detach1 |-> life_createDetached(1, "t1"),
   detach2 |-> life_createDetached(2, "t2"),
   t1 |-> life_gated(1), t2 |-> life_gated(2),
   noop |-> life_noop, noop1 |-> life_noop, noop2 |-> life_noop]

(* life_burst(): each with a burst of detached threads. *)
detached_exits_race_reclaim ==
  [main   |-> life_workers(<< "burst1", "join1", "burst2", "join2" >>),
   join1  |-> life_joiner("noop1", "ret1"),
   join2  |-> life_joiner("noop2", "ret2"),
   burst1 |-> life_createDetached(1, "t1"),
   burst2 |-> life_createDetached(2, "t2"),
   t1 |-> life_gated(1), t2 |-> life_gated(2),
   noop |-> life_noop, noop1 |-> life_noop, noop2 |-> life_noop]

life_wait == << Sleep(LIFE_NAP_MS), Goto(-2) >>

cancelled_detached_is_released ==
  [main |-> << Ok(Start("t1")), Ok(Detach("t1")), Ok(Start("t2")), Ok(Detach("t2")), Sleep(10),
               Ok(Cancel("t1")), Ok(Cancel("t2")) >> \o life_createJoin
            \o << Equal(ESRCH, Detach("t1")), Equal(ESRCH, Detach("t2")) >>,
   t1 |-> life_wait, t2 |-> life_wait, noop |-> life_noop]

life_goThenExit == While(Is("life_go", 0), << Yield >>)

(* Two rounds. *)
cancel_races_detached_exit ==
  LET round(t) ==
        << Set("life_go", 0), Ok(Start(t)), Ok(Detach(t)), Set("life_go", 1), Into("err", Cancel(t)) >>
        \o If(Isnt("err", EOK), << Expect(Is("err", ESRCH)) >>)
  IN [main |-> round("t1") \o round("t2") \o life_createJoin,
      t1 |-> life_goThenExit, t2 |-> life_goThenExit, noop |-> life_noop]

CancelCode ==
  [type_is_per_thread |-> type_is_per_thread,
   async_cancels_a_thread_outside_cancellation_points |->
     async_cancels_a_thread_outside_cancellation_points,
   async_pending_request_fires_on_enable |-> async_pending_request_fires_on_enable,
   concurrent_join_and_detach     |-> concurrent_join_and_detach,
   detached_exits_race_reclaim    |-> detached_exits_race_reclaim,
   cancelled_detached_is_released |-> cancelled_detached_is_released,
   cancel_races_detached_exit     |-> cancel_races_detached_exit]
================================================================================
