------------------------------ MODULE Phoenixd ------------------------------
(***************************************************************************)
(* The phoenixd handler (class Phoenixd of trunner/tools/phoenix.py): the  *)
(* main thread, which serves one directory after another with the same     *)
(* handler, the reader thread of each run, and the phoenixd processes.     *)
(* Run r has process r and reader r; self.proc, self.dispatcher_event and  *)
(* self.reader_thread are those of run cur.                                *)
(*                                                                         *)
(* Time: a thread that can run does so within the second that lies between *)
(* the reader's timeout (4 s) and the main thread's (5 s), and within the  *)
(* 10 s of the join.                                                       *)
(***************************************************************************)
EXTENDS Naturals

CONSTANT MaxRuns    \* how often the loader uses the handler

ASSUME MaxRunsAssumption == MaxRuns \in Nat

Runs == 1 .. MaxRuns

VARIABLES
    main,           \* program counter of the main thread
    exc,            \* the exception that _close is called with
    cur,            \* the last run that has spawned a process, 0 for None
    os,             \* process r: "down" has closed its pty, a "zombie" is not waited for
    said,           \* process r has announced its message dispatcher
    killed,         \* process r has been sent SIGKILL
    terminated,     \* pexpect knows that process r is over
    event,          \* dispatcher_event of run r is set
    reader          \* program counter of reader r

vars == <<main, exc, cur, os, said, killed, terminated, event, reader>>
process == <<os, said, killed>>

Init ==
    /\ main = "idle"
    /\ exc = "none"
    /\ cur = 0
    /\ os = [r \in Runs |-> "none"]
    /\ said = [r \in Runs |-> FALSE]
    /\ killed = [r \in Runs |-> FALSE]
    /\ terminated = [r \in Runs |-> FALSE]
    /\ event = [r \in Runs |-> FALSE]
    /\ reader = [r \in Runs |-> "none"]

-----------------------------------------------------------------------------
(* The main thread.                                                         *)

\* No plo port within 10 s.  _close is called all the same, with the process of
\* the previous run if there was one.
NoPort ==
    /\ main = "idle"
    /\ cur < MaxRuns
    /\ exc' = "harness"
    /\ main' = IF cur = 0 THEN "raised" ELSE "close"
    /\ UNCHANGED <<cur, process, terminated, event, reader>>

\* Mutant: the dispatcher event of the previous run is used again.
SpawnKeepsEvent ==
    /\ main = "idle"
    /\ cur < MaxRuns
    /\ cur' = cur + 1
    /\ os' = [os EXCEPT ![cur + 1] = "up"]
    /\ reader' = [reader EXCEPT ![cur + 1] = "expect"]
    /\ event' = [event EXCEPT ![cur + 1] = cur > 0 /\ event[cur]]
    /\ main' = "wait"
    /\ UNCHANGED <<exc, said, killed, terminated>>

Spawn ==
    /\ main = "idle"
    /\ cur < MaxRuns
    /\ cur' = cur + 1
    /\ os' = [os EXCEPT ![cur + 1] = "up"]
    /\ reader' = [reader EXCEPT ![cur + 1] = "expect"]
    /\ main' = "wait"
    /\ UNCHANGED <<exc, said, killed, terminated, event>>

DispatcherReady ==
    /\ main = "wait"
    /\ event[cur]
    /\ main' = "body"
    /\ UNCHANGED <<exc, cur, process, terminated, event, reader>>

\* Mutant: the main thread does not outwait the reader.
WaitTimeoutEarly ==
    /\ main = "wait"
    /\ ~event[cur]
    /\ exc' = "harness"
    /\ main' = "close"
    /\ UNCHANGED <<cur, process, terminated, event, reader>>

\* "Message dispatcher did not start!": the reader gave up a second ago.
WaitTimeout ==
    /\ main = "wait"
    /\ ~event[cur]
    /\ reader[cur] = "done"
    /\ exc' = "harness"
    /\ main' = "close"
    /\ UNCHANGED <<cur, process, terminated, event, reader>>

\* The body of the with statement: plo commands, which may raise.
Body ==
    /\ main = "body"
    /\ exc' \in {"none", "harness", "other"}
    /\ main' = "close"
    /\ UNCHANGED <<cur, process, terminated, event, reader>>

(***************************************************************************)
(* pexpect's isalive for the main thread: waits for a zombie, and raises   *)
(* ExceptionPexpect if the reader has waited for it but not noted it yet.  *)
(***************************************************************************)
Isalive(yes, no) ==
    \/ /\ terminated[cur]
       /\ main' = no
       /\ UNCHANGED <<exc, os, terminated>>
    \/ /\ ~terminated[cur]
       /\ os[cur] = "zombie"
       /\ os' = [os EXCEPT ![cur] = "reaped"]
       /\ terminated' = [terminated EXCEPT ![cur] = TRUE]
       /\ main' = no
       /\ UNCHANGED exc
    \/ /\ ~terminated[cur]
       /\ os[cur] = "reaped"
       /\ exc' = "other"
       /\ main' = "raised"
       /\ UNCHANGED <<os, terminated>>
    \/ /\ os[cur] \in {"up", "down"}
       /\ main' = yes
       /\ UNCHANGED <<exc, os, terminated>>

Close ==
    /\ main = "close"
    /\ Isalive("term", "join")
    /\ UNCHANGED <<cur, said, killed, event, reader>>

\* getpgid and killpg: a ProcessLookupError if the process has been waited for
\* since.  What a process makes of SIGTERM is up to it.
Term ==
    /\ main = "term"
    /\ IF os[cur] = "reaped" THEN exc' = "other" /\ main' = "raised"
                             ELSE main' = "join" /\ UNCHANGED exc
    /\ UNCHANGED <<cur, process, terminated, event, reader>>

\* Mutant: join without a timeout.
JoinForever ==
    /\ main = "join"
    /\ reader[cur] = "done"
    /\ main' = "check"
    /\ UNCHANGED <<exc, cur, process, terminated, event, reader>>

\* The join times out if the process outlives SIGTERM, which keeps the reader.
Join ==
    /\ main = "join"
    /\ \/ reader[cur] = "done"
       \/ reader[cur] = "drain" /\ os[cur] = "up"
    /\ main' = "check"
    /\ UNCHANGED <<exc, cur, process, terminated, event, reader>>

Check ==
    /\ main = "check"
    /\ Isalive("kill", "finish")
    /\ UNCHANGED <<cur, said, killed, event, reader>>

\* Mutant: SIGTERM is sent a second time instead of SIGKILL.
KillAgain ==
    /\ main = "kill"
    /\ IF os[cur] = "reaped" THEN exc' = "other" /\ main' = "raised"
                             ELSE main' = "finish" /\ UNCHANGED exc
    /\ UNCHANGED <<cur, process, terminated, event, reader>>

Kill ==
    /\ main = "kill"
    /\ IF os[cur] = "reaped"
       THEN exc' = "other" /\ main' = "raised" /\ UNCHANGED killed
       ELSE killed' = [killed EXCEPT ![cur] = TRUE] /\ main' = "finish" /\ UNCHANGED exc
    /\ UNCHANGED <<cur, os, said, terminated, event, reader>>

\* The log is read and closed, and the exception goes on its way.
Finish ==
    /\ main = "finish"
    /\ main' = IF exc = "none" THEN "idle" ELSE "raised"
    /\ UNCHANGED <<exc, cur, process, terminated, event, reader>>

Main ==
    \/ NoPort \/ Spawn \/ DispatcherReady \/ WaitTimeout \/ Body
    \/ Close \/ Term \/ Join \/ Check \/ Kill \/ Finish

-----------------------------------------------------------------------------
(* The reader threads.                                                      *)

Match(r) ==
    /\ reader[r] = "expect"
    /\ said[r]
    /\ reader' = [reader EXCEPT ![r] = "set"]
    /\ UNCHANGED <<main, exc, cur, process, terminated, event>>

\* expect_exact times out after 4 s.
NoMatch(r) ==
    /\ reader[r] = "expect"
    /\ ~said[r]
    /\ os[r] = "up"
    /\ reader' = [reader EXCEPT ![r] = "done"]
    /\ UNCHANGED <<main, exc, cur, process, terminated, event>>

\* Mutant: the reader stops reading once the dispatcher is up.
SetNoDrain(r) ==
    /\ reader[r] = "set"
    /\ event' = [event EXCEPT ![cur] = TRUE]
    /\ reader' = [reader EXCEPT ![r] = "done"]
    /\ UNCHANGED <<main, exc, cur, process, terminated>>

\* dispatcher_event and proc are read from self here.
Set(r) ==
    /\ reader[r] = "set"
    /\ event' = [event EXCEPT ![cur] = TRUE]
    /\ reader' = [reader EXCEPT ![r] = "drain"]
    /\ UNCHANGED <<main, exc, cur, process, terminated>>

\* EOF: pexpect tries to wait for the process before it raises.
Eof(r) ==
    /\ reader[r] = "drain" \/ (reader[r] = "expect" /\ ~said[r])
    /\ \/ os[r] \in {"down", "reaped"}
          /\ reader' = [reader EXCEPT ![r] = "done"]
          /\ UNCHANGED os
       \/ os[r] = "zombie"
          /\ os' = [os EXCEPT ![r] = "reaped"]
          /\ reader' = [reader EXCEPT ![r] = "note"]
    /\ UNCHANGED <<main, exc, cur, said, killed, terminated, event>>

Note(r) ==
    /\ reader[r] = "note"
    /\ terminated' = [terminated EXCEPT ![r] = TRUE]
    /\ reader' = [reader EXCEPT ![r] = "done"]
    /\ UNCHANGED <<main, exc, cur, process, event>>

Reader(r) == Match(r) \/ NoMatch(r) \/ Set(r) \/ Eof(r) \/ Note(r)

-----------------------------------------------------------------------------
(* The phoenixd processes, which may end at any time.                       *)

Say(r) ==
    /\ os[r] = "up"
    /\ ~said[r]
    /\ said' = [said EXCEPT ![r] = TRUE]
    /\ UNCHANGED <<main, exc, cur, os, killed, terminated, event, reader>>

End(r) ==
    /\ os[r] = "up"
    /\ os' = [os EXCEPT ![r] = "down"]
    /\ UNCHANGED <<main, exc, cur, said, killed, terminated, event, reader>>

Exit(r) ==
    /\ os[r] = "down"
    /\ os' = [os EXCEPT ![r] = "zombie"]
    /\ UNCHANGED <<main, exc, cur, said, killed, terminated, event, reader>>

\* The handler is not used any more.
Over ==
    /\ main = "raised" \/ (main = "idle" /\ cur = MaxRuns)
    /\ UNCHANGED vars

Next == Main \/ (\E r \in Runs : Reader(r) \/ Say(r) \/ End(r) \/ Exit(r)) \/ Over

\* Threads are scheduled and a process that is sent SIGKILL dies; how long the
\* plo commands take, and whether the handler is used again, is left open.
Fairness ==
    /\ WF_vars(main \notin {"idle", "body"} /\ Main)
    /\ \A r \in Runs :
          WF_vars(Reader(r)) /\ WF_vars(killed[r] /\ End(r)) /\ WF_vars(Exit(r))

Spec == Init /\ [][Next]_vars /\ Fairness

-----------------------------------------------------------------------------
(***************************************************************************)
(* Properties.                                                             *)
(***************************************************************************)
\* Every variable keeps its type.
TypeOK ==
    /\ main \in {"idle", "wait", "body", "close", "term", "join", "check", "kill",
                 "finish", "raised"}
    /\ exc \in {"none", "harness", "other"}
    /\ cur \in 0 .. MaxRuns
    /\ os \in [Runs -> {"none", "up", "down", "zombie", "reaped"}]
    /\ said \in [Runs -> BOOLEAN]
    /\ killed \in [Runs -> BOOLEAN]
    /\ terminated \in [Runs -> BOOLEAN]
    /\ event \in [Runs -> BOOLEAN]
    /\ reader \in [Runs -> {"none", "expect", "set", "drain", "note", "done"}]

\* plo commands are sent only once the process of this very run has announced
\* its dispatcher, also when a reader of an earlier run has outlived its join.
DispatcherIsCurrent == main = "body" => said[cur]

\* "Phoenixd requires reading its output constantly to work properly": as long
\* as plo commands are sent and phoenixd lives, the reader reads.
ReaderReads == main = "body" /\ os[cur] = "up" => reader[cur] = "drain"

\* Outside the with statement no phoenixd is left that could hold the port: it
\* has ended or has been sent SIGKILL, whatever exception leaves _close.
NoOrphan ==
    main \in {"idle", "raised"} => \A r \in Runs : os[r] = "up" => killed[r]

\* "The main thread will catch that dispatcher didn't start": if the dispatcher
\* did not start, what leaves the with statement is a PhoenixdError, for a wait
\* that has outwaited the reader finds nobody else waiting for the process.
NotStartedIsCaught == main = "raised" /\ cur > 0 /\ ~event[cur] => exc = "harness"

\* "stops it on exit": leaving the with statement takes a bounded time even if
\* phoenixd does not react to SIGTERM.
CloseEnds == (main = "close") ~> (main \in {"idle", "raised"})

\* "EOF occurs always after killing the phoenixd process": the reader of a run
\* that is over comes to its end.
ReadersEnd ==
    \A r \in Runs :
        (cur = r /\ main \in {"finish", "raised"}) ~> (reader[r] \in {"none", "done"})

-----------------------------------------------------------------------------
(***************************************************************************)
(* The inductive invariant behind the safety properties.                   *)
(***************************************************************************)
\* Run r has not begun yet.
Unused(r) ==
    /\ os[r] = "none"
    /\ reader[r] = "none"
    /\ ~said[r] /\ ~event[r] /\ ~killed[r] /\ ~terminated[r]

\* Run r has begun.  Who has waited for the process, and where its reader is.
Used(r) ==
    /\ os[r] # "none"
    /\ reader[r] # "none"
    /\ reader[r] \in {"set", "drain"} => said[r]
    /\ reader[r] = "drain" => event[r]
    /\ event[r] => said[r] /\ (os[r] = "up" => reader[r] = "drain")
    /\ reader[r] \in {"expect", "set"} => r = cur /\ main = "wait" /\ ~event[r]
    /\ terminated[r] => os[r] = "reaped"
    /\ reader[r] = "note" => os[r] = "reaped"
    /\ os[r] = "reaped" /\ ~terminated[r] => reader[r] = "note"
    /\ os[r] = "up" /\ ~killed[r] => r = cur /\ main \notin {"idle", "finish", "raised"}

\* What the main thread knows of the current run.
MainInv ==
    /\ cur = 0 => main \in {"idle", "raised"}
    /\ main \in {"idle", "body"} /\ cur > 0 => event[cur]
    /\ main \notin {"idle", "wait", "body"} /\ cur > 0 /\ ~event[cur] =>
          reader[cur] = "done" /\ exc = "harness"
    /\ main \in {"term", "kill"} /\ ~event[cur] => ~terminated[cur]

\* All of it together: every reader that still looks at the handler's attributes
\* belongs to the current run, and a process nobody has waited for is known.
Inductive ==
    /\ TypeOK
    /\ \A r \in Runs : IF r <= cur THEN Used(r) ELSE Unused(r)
    /\ MainInv

=============================================================================
