------------------------------ MODULE SpawnStorm ------------------------------
(***************************************************************************)
(* spawn-storm (src/spawnstorm/spawn_storm.c) launches one program many    *)
(* times, up to Parallel at once, to expose faults of process startup.     *)
(* The storm is run by a worker process; a monitor process watches it,     *)
(* kills children that are stuck and pokes the worker out of a waitpid()   *)
(* that missed an exit.                                                    *)
(*                                                                         *)
(* The kernel may let a child hang, lose the wake-up of waitpid() and fail *)
(* it.  Pids come from a rising counter: the k-th child has pid k.         *)
(***************************************************************************)
EXTENDS Integers, Sequences, FiniteSets

CONSTANTS Iterations, Parallel,
          Watchdog,       \* seconds without a new child before the monitor acts
          MaxWaitErrors   \* bound: failures of the worker's waitpid() other than EINTR

ASSUME StormAssumption ==
  /\ Iterations \in Nat \ {0} /\ Parallel \in Nat \ {0}
  /\ Watchdog \in Nat \ {0} /\ MaxWaitErrors \in Nat

STORM_MAX_DUMPS == 3

VARIABLES
  useFork,    \* -f: fork() instead of vfork()
  timely,     \* a second of the monitor is long for the worker and its children
  wpc,        \* the worker: where it is in main()
  launched, reaped, ok, failed,
  inflight,   \* the pid in each slot, 0 for -1
  child,      \* each child: "starting" up to exec, "running", "ok" or "bad"
  hung,       \* the children that will not go on by themselves
  collected,  \* the children that waitpid() has returned
  waitErrors,
  mishaps,    \* exits that waitpid() missed and kills that overlooked a child since
              \* the monitor last saw a new one; counted up to STORM_MAX_DUMPS, and
              \* only on a timely machine
  mpc,        \* the monitor: where it is in its loop
  maxKid, quiet, dumps,
  kids,       \* the number of children in its snapshot
  victims,    \* the children that it is going to kill
  mresult     \* what it returns

worker  == <<launched, reaped, ok, failed, inflight>>
monitor == <<mpc, maxKid, quiet, dumps, kids, victims, mresult>>
vars == <<useFork, timely, wpc, launched, reaped, ok, failed, inflight, child, hung,
          collected, waitErrors, mishaps, mpc, maxKid, quiet, dumps, kids, victims, mresult>>

Slots    == 1..Parallel
Pids     == DOMAIN child
Alive    == { k \in Pids : child[k] \in {"starting", "running"} }
Zombies  == (Pids \ Alive) \ collected
Occupied == { s \in Slots : inflight[s] # 0 }
IsFree(s) == inflight[s] = 0

Init ==
  /\ useFork \in BOOLEAN /\ timely \in BOOLEAN
  /\ wpc = "setup"
  /\ launched = 0 /\ reaped = 0 /\ ok = 0 /\ failed = 0
  /\ inflight = [s \in Slots |-> 0]
  /\ child = <<>> /\ hung = {} /\ collected = {}
  /\ waitErrors = 0 /\ mishaps = 0
  /\ mpc = "watch" /\ maxKid = 0 /\ quiet = 0 /\ dumps = 0
  /\ kids = 0 /\ victims = {} /\ mresult = "none"

--------------------------------------------------------------------------------
\* The worker.  The program is executed again for it, or cannot be (status
\* 127); it starts by installing the handler of SIGUSR1.
Setup ==
  /\ wpc = "setup" /\ wpc' \in {"top", "failure"}
  /\ UNCHANGED <<useFork, timely, worker, child, hung, collected, waitErrors, mishaps, monitor>>

\* while (reaped < iterations), and what the worker returns.
Top ==
  /\ wpc = "top"
  /\ wpc' = IF reaped < Iterations THEN "fill" ELSE IF failed = 0 THEN "success" ELSE "failure"
  /\ UNCHANGED <<useFork, timely, worker, child, hung, collected, waitErrors, mishaps, monitor>>

\* The loop that fills the window.
Filling   == wpc = "fill" /\ launched < Iterations /\ launched - reaped < Parallel
Leave     == IF launched = reaped THEN "top" ELSE "wait"

\* The child is in slot s and counted.
Record(s, pid) ==
  /\ inflight' = [inflight EXCEPT ![s] = pid]
  /\ launched' = launched + 1
  /\ UNCHANGED <<reaped, ok, failed>>

\* fork() returns at once, vfork() when the child has left the address space.
Fork(s) ==
  /\ Filling /\ IsFree(s) /\ \A r \in 1..(s - 1) : ~IsFree(r)
  /\ child' = Append(child, "starting")
  /\ \/ useFork /\ Record(s, Len(child) + 1) /\ UNCHANGED wpc
     \/ ~useFork /\ wpc' = "vfork" /\ UNCHANGED worker
  /\ UNCHANGED <<useFork, timely, hung, collected, waitErrors, mishaps, monitor>>

VforkReturns(s) ==
  /\ wpc = "vfork" /\ child[Len(child)] # "starting"
  /\ IsFree(s) /\ \A r \in 1..(s - 1) : ~IsFree(r)
  /\ Record(s, Len(child))
  /\ wpc' = "fill"
  /\ UNCHANGED <<useFork, timely, child, hung, collected, waitErrors, mishaps, monitor>>

ForkFails ==
  /\ Filling /\ \E s \in Slots : IsFree(s)
  /\ failed' = failed + 1 /\ launched' = launched + 1 /\ reaped' = reaped + 1
  /\ UNCHANGED <<useFork, timely, wpc, ok, inflight, child, hung, collected, waitErrors, mishaps, monitor>>

\* "BUG no free slot", or the window is full.
StopFilling ==
  /\ wpc = "fill"
  /\ Filling => \A s \in Slots : ~IsFree(s)
  /\ wpc' = Leave
  /\ UNCHANGED <<useFork, timely, worker, child, hung, collected, waitErrors, mishaps, monitor>>

--------------------------------------------------------------------------------
\* Mutant: the slot of a child that was waited for is not given back.
ReapKeepsSlot(k) ==
  /\ wpc = "wait" /\ k \in Zombies
  /\ collected' = collected \cup {k}
  /\ reaped' = reaped + 1
  /\ ok' = IF child[k] = "ok" THEN ok + 1 ELSE ok
  /\ failed' = IF child[k] = "ok" THEN failed ELSE failed + 1
  /\ wpc' = "top"
  /\ UNCHANGED <<useFork, timely, launched, inflight, child, hung, waitErrors, mishaps, monitor>>

\* waitpid(-1): a dead child, or none yet, or an error.
Reap(k) ==
  /\ wpc = "wait" /\ k \in Zombies
  /\ collected' = collected \cup {k}
  /\ inflight' = [s \in Slots |-> IF inflight[s] = k THEN 0 ELSE inflight[s]]
  /\ reaped' = reaped + 1
  /\ ok' = IF child[k] = "ok" THEN ok + 1 ELSE ok
  /\ failed' = IF child[k] = "ok" THEN failed ELSE failed + 1
  /\ wpc' = "top"
  /\ UNCHANGED <<useFork, timely, launched, child, hung, waitErrors, mishaps, monitor>>

Block ==
  /\ wpc = "wait" /\ Zombies = {} /\ Alive # {}
  /\ wpc' = "blocked"
  /\ UNCHANGED <<useFork, timely, worker, child, hung, collected, waitErrors, mishaps, monitor>>

\* Mutant: only the child waited for is given up, the tally is told all are.
WaitFailsForOne ==
  /\ wpc = "wait" /\ waitErrors < MaxWaitErrors
  /\ waitErrors' = waitErrors + 1
  /\ failed' = failed + (launched - reaped)
  /\ reaped' = reaped + 1
  /\ wpc' = "top"
  /\ UNCHANGED <<useFork, timely, launched, ok, inflight, child, hung, collected, mishaps, monitor>>

WaitFails ==
  /\ wpc = "wait" /\ waitErrors < MaxWaitErrors
  /\ waitErrors' = waitErrors + 1
  /\ failed' = failed + (launched - reaped)
  /\ reaped' = launched
  /\ wpc' = "top"
  /\ UNCHANGED <<useFork, timely, launched, ok, inflight, child, hung, collected, mishaps, monitor>>

--------------------------------------------------------------------------------
OneMore == IF timely /\ mishaps < STORM_MAX_DUMPS THEN mishaps + 1 ELSE mishaps

\* The children.  An exit wakes the worker in waitpid(), or is missed.
Wakes ==
  \/ /\ wpc' = IF wpc = "blocked" THEN "wait" ELSE wpc
     /\ UNCHANGED mishaps
  \/ /\ wpc = "blocked"
     /\ mishaps' = OneMore
     /\ UNCHANGED wpc

CanGoOn(k) == k \in Alive \ hung

Exec(k) ==
  /\ CanGoOn(k) /\ child[k] = "starting"
  /\ child' = [child EXCEPT ![k] = "running"]
  /\ UNCHANGED <<useFork, timely, wpc, worker, hung, collected, waitErrors, mishaps, monitor>>

\* The program ends, or could not be executed.
ChildExits(k) ==
  /\ CanGoOn(k)
  /\ \E r \in {"ok", "bad"} :
       /\ child[k] = "starting" => r = "bad"
       /\ child' = [child EXCEPT ![k] = r]
  /\ Wakes
  /\ UNCHANGED <<useFork, timely, worker, hung, collected, waitErrors, monitor>>

ChildHangs(k) ==
  /\ CanGoOn(k)
  /\ hung' = hung \cup {k}
  /\ UNCHANGED <<useFork, timely, wpc, worker, child, collected, waitErrors, mishaps, monitor>>

--------------------------------------------------------------------------------
\* The monitor, once a second.  On a timely machine a second is enough for a
\* healthy storm to show a new child: one without a new child is one in which
\* nothing moves.
WorkerEnded == wpc \in {"success", "failure", "killed"}
Spinning    == Filling /\ \A s \in Slots : ~IsFree(s)
Still ==
  /\ \/ wpc = "blocked" \/ WorkerEnded \/ Spinning
     \/ wpc = "vfork" /\ child[Len(child)] = "starting"
  /\ Alive \subseteq hung
NewKids == { k \in Alive : k > maxKid }

\* Mutant: a worker that exited is a success, whatever its status.
DoneIfExited ==
  /\ mpc = "watch" /\ WorkerEnded
  /\ mpc' = "done"
  /\ mresult' = IF wpc # "killed" THEN "success" ELSE "failure"
  /\ UNCHANGED <<useFork, timely, wpc, worker, child, hung, collected, waitErrors, mishaps,
                 maxKid, quiet, dumps, kids, victims>>

Done ==
  /\ mpc = "watch" /\ WorkerEnded
  /\ mpc' = "done"
  /\ mresult' = IF wpc = "success" THEN "success" ELSE "failure"
  /\ UNCHANGED <<useFork, timely, wpc, worker, child, hung, collected, waitErrors, mishaps,
                 maxKid, quiet, dumps, kids, victims>>

\* waitpid() for the worker fails: the monitor gives up on it.
GiveUp ==
  /\ mpc = "watch"
  /\ mpc' = "done" /\ mresult' = "failure"
  /\ UNCHANGED <<useFork, timely, wpc, worker, child, hung, collected, waitErrors, mishaps,
                 maxKid, quiet, dumps, kids, victims>>

\* Mutant: the rounds of recovery are not granted anew after progress.
ProgressKeepsDumps ==
  /\ mpc = "watch" /\ ~WorkerEnded /\ NewKids # {}
  /\ maxKid' = CHOOSE k \in NewKids : \A j \in NewKids : j <= k
  /\ quiet' = 0 /\ mishaps' = 0
  /\ UNCHANGED <<useFork, timely, wpc, worker, child, hung, collected, waitErrors,
                 mpc, dumps, kids, victims, mresult>>

Progress ==
  /\ mpc = "watch" /\ ~WorkerEnded /\ NewKids # {}
  /\ maxKid' = CHOOSE k \in NewKids : \A j \in NewKids : j <= k
  /\ quiet' = 0 /\ dumps' = 0 /\ mishaps' = 0
  /\ UNCHANGED <<useFork, timely, wpc, worker, child, hung, collected, waitErrors,
                 mpc, kids, victims, mresult>>

\* A second without a new child; after Watchdog of them the storm is stuck.
Quiet ==
  /\ mpc = "watch" /\ ~WorkerEnded /\ NewKids = {} /\ (timely => Still)
  /\ IF quiet + 1 < Watchdog \/ dumps >= STORM_MAX_DUMPS
     THEN /\ quiet' = IF quiet < Watchdog THEN quiet + 1 ELSE quiet
          /\ UNCHANGED <<mpc, dumps, kids>>
     ELSE /\ dumps' = dumps + 1
          /\ kids' = Cardinality(Alive)
          /\ quiet' = Watchdog
          /\ mpc' = "dump"
  /\ UNCHANGED <<useFork, timely, wpc, worker, child, hung, collected, waitErrors, mishaps,
                 maxKid, victims, mresult>>

(***************************************************************************)
(* storm_dumpAll() takes a snapshot of its own over the first one, of      *)
(* which only as many entries are looked at as the first one had.  The     *)
(* snapshot is of all the threads of the system: children born since, and  *)
(* threads of any other process, may push a child past the last entry that *)
(* is looked at.                                                           *)
(***************************************************************************)
Dump ==
  /\ mpc = "dump"
  /\ victims' \in SUBSET Alive
  /\ mishaps' = IF victims' = Alive THEN mishaps ELSE OneMore
  /\ mpc' = "recover"
  /\ UNCHANGED <<useFork, timely, wpc, worker, child, hung, collected, waitErrors,
                 maxKid, quiet, dumps, kids, mresult>>

\* The recovery gets a full window.
Resume == mpc' = "watch" /\ quiet' = 0 /\ kids' = 0 /\ victims' = {}

\* Two seconds later: SIGKILL for the children of the snapshot, or SIGUSR1
\* for the worker, which dies of it before it has installed its handler.
Kill ==
  /\ mpc = "recover" /\ kids # 0 /\ (timely => Still)
  /\ child' = [k \in Pids |-> IF k \in victims \cap Alive THEN "bad" ELSE child[k]]
  /\ IF victims \cap Alive # {} THEN Wakes ELSE UNCHANGED <<wpc, mishaps>>
  /\ Resume
  /\ UNCHANGED <<useFork, timely, worker, hung, collected, waitErrors, maxKid, dumps, mresult>>

Poke ==
  /\ mpc = "recover" /\ kids = 0 /\ (timely => Still)
  /\ wpc' = CASE wpc = "blocked" -> "wait" [] wpc = "setup" -> "killed" [] OTHER -> wpc
  /\ Resume
  /\ UNCHANGED <<useFork, timely, worker, child, hung, collected, waitErrors, mishaps,
                 maxKid, dumps, mresult>>

--------------------------------------------------------------------------------
Worker ==
  \/ Setup \/ Top \/ ForkFails \/ StopFilling \/ Block
  \/ \E s \in Slots : Fork(s) \/ VforkReturns(s)
  \/ \E k \in Pids : Reap(k)
Child(k) == Exec(k) \/ ChildExits(k) \/ ChildHangs(k)
Monitor == Done \/ Progress \/ Quiet \/ Dump \/ Kill \/ Poke
Finished == mpc = "done" /\ UNCHANGED vars

Next ==
  \/ Worker \/ Monitor \/ WaitFails \/ GiveUp
  \/ \E k \in Pids : Child(k)
  \/ Finished

\* The kernel schedules the worker, the children and the monitor.  Nothing
\* makes waitpid() fail.
Fairness ==
  /\ WF_vars(Worker) /\ WF_vars(Monitor)
  /\ \A k \in 1..Iterations : WF_vars(k \in Pids /\ Child(k))

Spec == Init /\ [][Next]_vars /\ Fairness

--------------------------------------------------------------------------------
(* The window invariant that the comment at the search for a slot relies   *)
(* on: as long as waitpid() has not failed, the slots in use are the       *)
(* launches that are not reaped, so a window that is not full has a slot.  *)
SlotIsFree ==
  Filling /\ waitErrors = 0 => \E s \in Slots : IsFree(s)

(* Every launch is counted once: the tally that main() prints as it goes   *)
(* adds up, and it never counts a child twice or a launch that never was.  *)
TallyAddsUp ==
  /\ ok + failed = reaped /\ reaped <= launched /\ launched <= Iterations
  /\ ok = Cardinality({ k \in collected : child[k] = "ok" })

(* EXIT_SUCCESS of the worker, and of the monitor above it, means that all *)
(* the launches asked for were made, ended by themselves with status 0 and *)
(* were waited for: no kill, missed exit or failed fork is lost on the way.*)
SuccessIsTrue ==
  wpc = "success" \/ mresult = "success" =>
    /\ collected = 1..Iterations
    /\ \A k \in 1..Iterations : child[k] = "ok"

(* On a timely machine the storm ends, whatever hangs, unless waitpid()    *)
(* fails altogether or STORM_MAX_DUMPS mishaps, exits that waitpid()       *)
(* missed and kills that overlooked a child, fall into one stall: a round  *)
(* of recovery is lost only to a mishap, and a new child that the monitor  *)
(* sees grants all the rounds again.                                       *)
StormEnds ==
  timely => <>(\/ mpc = "done" \/ waitErrors > 0
               \/ dumps = STORM_MAX_DUMPS /\ mishaps = STORM_MAX_DUMPS)
================================================================================
