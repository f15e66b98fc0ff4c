------------------------------- MODULE ProcTests ------------------------------
(***************************************************************************)
(* The tests of src/proc with several processes or priorities:             *)
(* test_msg_abandon.c, whose client processes end while a server holds     *)
(* their request, and test_priority.c.  Times are in milliseconds.         *)
(***************************************************************************)
EXTENDS ThreadCode

ABANDON_RECV_MS   == 3000
ABANDON_REAP_MS   == 3000
ABANDON_KEEP_MS   == 3000
ABANDON_FINISH_MS == 5000
ABANDON_EXIT_OK    == 7
ABANDON_EXIT_WRONG == 8
ABANDON_EXIT_SIDE  == 9
SIGKILL == 1009            \* the status of a process that it ended

(* Both polling loops look once more after their last pause. *)
abandon_waitFlag(flag, ms) ==
  << Deadline("end", ms), Into("rest", Left("end")) >>
  \o While(Is(flag, 0) \o Isnt("rest", 0), << Sleep(POLL_MS), Into("rest", Left("end")) >>)

(* child is 0 without a child process; status is what waitpid() tells. *)
abandon_reap(ms) ==
  << Deadline("end", ms), Into("child", Reap("client")), Into("rest", Left("end")) >>
  \o While(Isnt("child", 0) \o Isnt("rest", 0),
           << Sleep(POLL_MS), Into("child", Reap("client")), Into("rest", Left("end")) >>)

(* The server thread waits for respondNow for 24 hours: without a limit. *)
abandon_server ==
  << MsgRecv("port"), Set("received", 1) >> \o While(Is("respondNow", 0), << Sleep(POLL_MS) >>)
  \o << Into("respondRc", MsgRespond("port")), Set("responded", 1) >>

abandon_serverStart ==
  << Set("received", 0), Set("respondNow", 0), Set("responded", 0), Set("respondRc", 1),
     Ok(Start("server")), Set("running", 1) >>

abandon_serverRespond == << Set("respondNow", 1) >> \o abandon_waitFlag("responded", ABANDON_FINISH_MS)

(* write() and read() on the pipe are a semaphore. *)
abandon_childExiter == << SemWait("pipefd"), EndProcess("client", "status", ABANDON_EXIT_SIDE) >>

abandon_client(windows, exiter) ==
  (IF exiter THEN << Start("exiter") >> ELSE <<>>)
  \o << Into("rc", MsgSend("port", windows)) >>
  \o IfElse(Is("rc", EOK), << EndProcess("client", "status", ABANDON_EXIT_OK) >>,
                           << EndProcess("client", "status", ABANDON_EXIT_WRONG) >>)

abandon_forkClient == << Set("child", 1), Start("client") >>

Joined == << Ok(Join("server")), Set("running", 0) >>

abandon_tearDown ==
  If(Is("running", 1),
     IfElse(Is("received", 0), << Set("respondNow", 1), MsgSend("port", 0) >>, abandon_serverRespond)
     \o Joined)
  \o If(Isnt("child", 0),
        << EndProcess("client", "status", SIGKILL) >> \o abandon_reap(ABANDON_FINISH_MS))
  \o << Destroy("port") >>

abandon_checkLateRespond ==
  abandon_serverRespond \o << Expect(Is("responded", 1)), Expect(Is("respondRc", ENOENT)) >> \o Joined
  \o abandon_serverStart
  \o << Set("respondNow", 1), Deadline("start", ABANDON_FINISH_MS), Ok(MsgSend("port", 0)),
        Into("rest", Left("start")), Expect(Isnt("rest", 0)) >> \o Joined

(* The beginning of each test of a client: the server has its request. *)
Held ==
  abandon_serverStart \o abandon_forkClient
  \o abandon_waitFlag("received", ABANDON_RECV_MS) \o << Expect(Is("received", 1)) >>
Reaped(ms, status) == abandon_reap(ms) \o << Expect(Is("child", 0)), Expect(Is("status", status)) >>
Kept(ms)           == abandon_reap(ms) \o << Expect(Isnt("child", 0)) >>
Answered ==
  abandon_serverRespond \o << Expect(Is("responded", 1)), Expect(Is("respondRc", EOK)) >>

exit_while_received ==
  [main   |-> Held \o << Ok(SemPost("pipefd")) >> \o Reaped(ABANDON_REAP_MS, ABANDON_EXIT_SIDE)
              \o abandon_checkLateRespond \o abandon_tearDown,
   server |-> abandon_server,
   client |-> abandon_client(0, TRUE),
   exiter |-> abandon_childExiter]

kill_while_received ==
  [main   |-> Held \o << Ok(EndProcess("client", "status", SIGKILL)) >>
              \o Reaped(ABANDON_REAP_MS, SIGKILL) \o abandon_checkLateRespond \o abandon_tearDown,
   server |-> abandon_server,
   client |-> abandon_client(0, FALSE)]

window_waits_for_answer ==
  [main   |-> Held \o << Ok(EndProcess("client", "status", SIGKILL)) >> \o Kept(ABANDON_KEEP_MS)
              \o Answered \o Reaped(ABANDON_FINISH_MS, SIGKILL) \o abandon_tearDown,
   server |-> abandon_server,
   client |-> abandon_client(1, FALSE)]

signal_does_not_abandon ==
  [main   |-> Held \o << Ok(Kill("client", "caught")) >> \o Kept(500)
              \o Answered \o Reaped(ABANDON_FINISH_MS, ABANDON_EXIT_OK) \o abandon_tearDown,
   server |-> abandon_server,
   client |-> abandon_client(0, FALSE)]

abandon_roundTrip(windows) ==
  abandon_serverStart \o << Set("respondNow", 1), Ok(MsgSend("port", windows)) >> \o Joined

round_trips ==
  [main   |-> abandon_roundTrip(0) \o abandon_roundTrip(1) \o abandon_tearDown,
   server |-> abandon_server,
   client |-> <<>>]

(* Here the child serves a port of its own. *)
abandon_sendToChild == << Into("respondRc", MsgSend("childport", 0)), Set("responded", 1) >>

server_exit_fails_request ==
  [main   |-> abandon_forkClient
              \o << SemWait("pipefd"), Destroy("port"), Set("responded", 0), Set("respondRc", 1),
                    Ok(Start("sender")) >>
              \o Reaped(ABANDON_FINISH_MS, ABANDON_EXIT_OK)
              \o abandon_waitFlag("responded", ABANDON_FINISH_MS)
              \o << Expect(Is("responded", 1)), Expect(Is("respondRc", EINVAL)), Join("sender"),
                    Destroy("childport") >>,
   client |-> << SemPost("pipefd"), MsgRecv("childport"),
                 EndProcess("client", "status", ABANDON_EXIT_OK) >>,
   sender |-> abandon_sendToChild]

--------------------------------------------------------------------------------
(* test_priority.c.  A completion is a mutex, a condition variable and a   *)
(* flag.                                                                   *)
Done(c) == [comp |-> "comp.done", lcomp |-> "lcomp.done", scomp |-> "scomp.done"][c]
CLock(c) == [comp |-> "comp.lock", lcomp |-> "lcomp.lock", scomp |-> "scomp.lock"][c]
Cond(c) == [comp |-> "comp.cond", lcomp |-> "lcomp.cond", scomp |-> "scomp.cond"][c]

completion_wait(c) ==
  << Lock(CLock(c)) >> \o While(Is(Done(c), 0), << Wait(Cond(c), CLock(c)) >>) \o << Unlock(CLock(c)) >>
completion_finish(c) == << Lock(CLock(c)), Set(Done(c), 1), Signal(Cond(c)), Unlock(CLock(c)) >>
completion_done(c) == << Destroy(CLock(c)), Destroy(Cond(c)) >>

test_priority_lthr ==
  << Lock(CLock("comp")) >> \o completion_finish("lcomp") \o completion_wait("scomp")
  \o << Unlock(CLock("comp")) >>
test_priority_mthr == While(Is(Done("comp"), 0), << Spin(POLL_MS) >>)
test_priority_hthr == completion_finish("comp")

test_priority_inversion ==
  << Start("lthr") >> \o completion_wait("lcomp") \o << Start("mthr") >> \o completion_finish("scomp")
  \o << Start("hthr") >> \o completion_wait("comp")
  \o << Join("lthr"), Join("mthr"), Join("hthr") >>
  \o completion_done("comp") \o completion_done("lcomp") \o completion_done("scomp")

(* The thread that main() starts is the one whose end is the test's; the   *)
(* rest of main() is the watchdog of two seconds.  The shell waits for the *)
(* process that exit() ends.                                               *)
priority_inversion ==
  [main     |-> << Start("watchdog") >> \o test_priority_inversion
                \o << EndProcess("test", "status", EOK) >>
                \o DoWhile(<< Into("psh", Reap("test")) >>, Isnt("psh", 0)),
   watchdog |-> << Sleep(2000), Expect(<< <<"status", "never", 0>> >>) >>,
   lthr     |-> test_priority_lthr,
   mthr     |-> test_priority_mthr,
   hthr     |-> test_priority_hthr]

Priorities ==
  [priority_inversion |-> [main |-> 4, watchdog |-> 4, lthr |-> 6, mthr |-> 5, hthr |-> 0]]

(* The processes of a test other than the one whose threads judge it. *)
Client(threads, port) == [client |-> [threads |-> threads, port |-> port]]
Processes ==
  [exit_while_received       |-> Client({"client", "exiter"}, ""),
   kill_while_received       |-> Client({"client"}, ""),
   window_waits_for_answer   |-> Client({"client"}, ""),
   signal_does_not_abandon   |-> Client({"client"}, ""),
   round_trips               |-> Client({"client"}, ""),
   server_exit_fails_request |-> Client({"client"}, "childport"),
   priority_inversion        |-> [test |-> [threads |-> {"watchdog"}, port |-> ""]]]

ProcCode ==
  [exit_while_received       |-> exit_while_received,
   kill_while_received       |-> kill_while_received,
   window_waits_for_answer   |-> window_waits_for_answer,
   signal_does_not_abandon   |-> signal_does_not_abandon,
   round_trips               |-> round_trips,
   server_exit_fails_request |-> server_exit_fails_request,
   priority_inversion        |-> priority_inversion]
================================================================================
