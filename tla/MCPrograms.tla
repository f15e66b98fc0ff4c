------------------------------ MODULE MCPrograms ------------------------------
(***************************************************************************)
(* The test programs that run a scenario of their own, spawn_storm and the *)
(* cases of unix-poll-wake, on small instances.  One of them runs; the     *)
(* variables of the others keep one initial value.                         *)
(***************************************************************************)
EXTENDS SpawnStorm, PollWake, PipeContention

VARIABLE program

programVars == <<program, vars, upw_vars, nb_vars>>

ProgramInit ==
  /\ program \in {"spawn_storm", "unix_poll_wake", "pipe_nonblock_contention"}
  /\ Init /\ upw_Init /\ nb_Init
  /\ program # "spawn_storm" => ~useFork /\ ~timely
  /\ program # "unix_poll_wake" => upw_case = Plain /\ ~strict

ProgramNext ==
  /\ UNCHANGED program
  /\ \/ program = "spawn_storm" /\ Next /\ UNCHANGED <<upw_vars, nb_vars>>
     \/ program = "unix_poll_wake" /\ upw_Next /\ UNCHANGED <<vars, nb_vars>>
     \/ program = "pipe_nonblock_contention" /\ nb_Next /\ UNCHANGED <<vars, upw_vars>>

\* The fairness of the program that runs.
ProgramFairness ==
  /\ WF_vars(program = "spawn_storm" /\ Worker)
  /\ WF_vars(program = "spawn_storm" /\ Monitor)
  /\ \A k \in 1..Iterations : WF_vars(program = "spawn_storm" /\ k \in Pids /\ Child(k))
  /\ \A w \in 1..2 :
       WF_upw_vars(program = "unix_poll_wake" /\ w \in Writers /\ upw_sendThread(w))
  /\ WF_upw_vars(program = "unix_poll_wake" /\ upw_run)
  /\ WF_upw_vars(program = "unix_poll_wake" /\ upw_helperEnds)

ProgramSpec == ProgramInit /\ [][ProgramNext]_programVars /\ ProgramFairness

(* Whatever the receiver does or fails to do, a case of unix-poll-wake     *)
(* comes to its end (see upw_CaseEnds).                                    *)
CaseEnds == program = "unix_poll_wake" => upw_CaseEnds
=============================================================================
