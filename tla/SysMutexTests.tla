----------------------------- MODULE SysMutexTests ----------------------------
(***************************************************************************)
(* The tests of kernel mutexes in src/sys/mutex/mutex.c.  A thread repeats *)
(* its body `rounds` times, 100 in the code.                               *)
(***************************************************************************)
EXTENDS ThreadCode

(* Thread k adds one, the other takes one away; its failures are its own.  *)
Change(k)     == Add("counter", IF k = 1 THEN 1 ELSE -1)
Errors(k)     == IF k = 1 THEN "thrErrors0" ELSE "thrErrors1"
OrEnd(k, call) == Quit(Errors(k), EOK, call)
Pause(k)      == << Sleep(IF k = 1 THEN 1 ELSE 3) >>

no_attr_thread(rounds, k) ==
  For(rounds, << OrEnd(k, Lock("mutex")) >> \o Pause(k) \o Change(k)
              \o << OrEnd(k, Unlock("mutex")) >>)

errorcheck_thread(rounds, k) ==
  For(rounds, << OrEnd(k, Lock("mutex")), Tally(Errors(k), EDEADLK, Lock("mutex")) >>
              \o Pause(k) \o Change(k) \o << OrEnd(k, Unlock("mutex")) >>)

(* The second lock, or the attempt at it, of the recursive threads. *)
Again(k, call) ==
  LET failed == IF k = 1 THEN "again0" ELSE "again1" IN
    << Into(failed, call) >>
    \o If(Isnt(failed, EOK), Add(Errors(k), 1) \o << Unlock("mutex"), End >>)

nested_thread(rounds, k, call) ==
  For(rounds, << OrEnd(k, Lock("mutex")) >> \o Again(k, call) \o Change(k) \o Pause(k)
              \o << OrEnd(k, Unlock("mutex")), OrEnd(k, Unlock("mutex")) >>)
recursive_thread(rounds, k)     == nested_thread(rounds, k, Lock("mutex"))
recursive_try_thread(rounds, k) == nested_thread(rounds, k, TryLock("mutex"))

multithreaded(thread) ==
  Pool(2, StartAll(2) \o JoinAll(2)
          \o << Expect(Is("counter", 0)), Expect(Is("thrErrors0", 0)),
                Expect(Is("thrErrors1", 0)), Ok(Destroy("mutex")) >>,
       LAMBDA k : thread[k])

(* The tests of one thread. *)
single_plain ==
  [main |-> << Ok(Lock("mutex")), Ok(Unlock("mutex")), Ok(Destroy("mutex")) >>]
single_errorcheck ==
  [main |-> << Ok(Lock("mutex")), Equal(EDEADLK, Lock("mutex")), Ok(Unlock("mutex")),
               Ok(Destroy("mutex")) >>]
single_recursive ==
  [main |-> << Ok(Lock("mutex")), Ok(Lock("mutex")), Ok(Unlock("mutex")), Ok(Unlock("mutex")),
               Ok(Destroy("mutex")) >>]
single_recursive_try ==
  [main |-> << Ok(TryLock("mutex")), Ok(TryLock("mutex")), Ok(Unlock("mutex")),
               Ok(Unlock("mutex")), Ok(Destroy("mutex")) >>]

SysMutexCode(rounds) ==
  [mutex_no_attr    |-> multithreaded([k \in 1..2 |-> no_attr_thread(rounds, k)]),
   mutex_errorcheck |-> multithreaded([k \in 1..2 |-> errorcheck_thread(rounds, k)]),
   mutex_recursive  |-> multithreaded([k \in 1..2 |-> recursive_thread(rounds, k)]),
   mutex_recursive_try |-> multithreaded([k \in 1..2 |-> recursive_try_thread(rounds, k)]),
   mutex_single_no_attr    |-> single_plain,
   mutex_single_errorcheck |-> single_errorcheck,
   mutex_single_recursive  |-> single_recursive,
   mutex_single_recursive_try |-> single_recursive_try]
================================================================================
