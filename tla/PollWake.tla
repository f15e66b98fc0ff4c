------------------------------- MODULE PollWake -------------------------------
(***************************************************************************)
(* The socket cases of src/libc/unix-poll-wake/unix-poll-wake.c.  One or   *)
(* two sender threads put numbered messages on an AF_UNIX socket; a        *)
(* receiver, a thread or a child process, sleeps in poll() and drains it.  *)
(* The test joins the senders, waits for the receiver, goes on to wake it  *)
(* by harsher means when it does not come, and turns what the receiver     *)
(* counted into a verdict.                                                 *)
(*                                                                         *)
(* The socket holds units: a frame, or on a stream the two halves of a     *)
(* message, the first of which carries the header and the descriptor.      *)
(* The kernel under test may lose, repeat, swap or spoil a unit, drop a    *)
(* descriptor, wake poll() late or never, or fail a call.  Times are not   *)
(* counted: a timeout may run out whenever it is being waited for.         *)
(***************************************************************************)
EXTENDS Integers, Sequences, FiniteSets

CONSTANTS Count,        \* upw_common.count, the messages of a case
          Room,         \* units that the socket holds
          FdEvery,      \* a descriptor on every so many messages
          PipeEvery,    \* UPW_PIPE_EVERY
          MaxFaults     \* bound: faults of the kernel in one case

ASSUME PollWakeAssumption ==
  /\ Count \in Nat \ {0, 1} /\ Room \in Nat \ {0} /\ MaxFaults \in Nat
  /\ FdEvery \in Nat \ {0} /\ PipeEvery \in Nat \ {0}

VARIABLES
  upw_case,   \* the upw_case_t that runs
  strict,     \* --strict
  ring,       \* the units queued on the socket
  tokens,     \* the tokens in the wake-up pipe
  peerGone,   \* sv[0] is shut down or closed
  rx,         \* upw_rx_t, with where the receiver is
  log,        \* the messages of each writer that the receiver took for good ones
  wakes,      \* how the wakes of each descriptor were so far
  tx,         \* upw_tx_t of each writer, with where it is
  run,        \* where upw_run() is
  rxTimedOut,
  helper,     \* the crowd, or the spinning threads
  abandoned,  \* the receiver never woke, and is left be
  freed,      \* sv[1] is closed and rx freed
  verdict,
  faults,     \* the number of faults so far
  expired     \* a timeout has run out

upw_vars == <<upw_case, strict, ring, tokens, peerGone, rx, log, wakes, tx, run, rxTimedOut,
              helper, abandoned, freed, verdict, faults, expired>>
upw_rxSide   == <<rx, log, tokens, wakes>>
upw_runSide  == <<run, rxTimedOut, helper, abandoned, freed, verdict>>
upw_fixed    == <<upw_case, strict>>

Plain == [framed |-> TRUE, fork |-> FALSE, wakePipe |-> FALSE, fds |-> FALSE,
          writers |-> 1, helpers |-> "none", readinessWoken |-> TRUE]
upw_cases ==
  { Plain,                                              \* seqpacket_thread, burst
    [Plain EXCEPT !.fork = TRUE],                       \* seqpacket_process
    [Plain EXCEPT !.wakePipe = TRUE],                   \* seqpacket_and_pipe
    [Plain EXCEPT !.framed = FALSE, !.fds = TRUE],      \* stream_fds
    [Plain EXCEPT !.fds = TRUE],                        \* dgram_fds, seqpacket_fds
    [Plain EXCEPT !.fds = TRUE, !.writers = 2],         \* two_writers
    [Plain EXCEPT !.helpers = "crowd"],                 \* crowd
    [Plain EXCEPT !.helpers = "spin", !.readinessWoken = FALSE] }   \* cpu_load

Writers   == 1..upw_case.writers
perWriter == Count \div upw_case.writers
hasFd(i)  == upw_case.fds /\ i % FdEvery = FdEvery - 1

Unit(w, i, part, fd) == [w |-> w, i |-> i, part |-> part, fd |-> fd, bad |-> FALSE]
QUIT == 0   \* in place of a writer: the message with the magic UPW_QUIT

upw_Init ==
  /\ upw_case \in upw_cases /\ strict \in BOOLEAN
  /\ ring = <<>> /\ tokens = 0 /\ peerGone = FALSE
  /\ rx = [at |-> "poll", next |-> [w \in 1..2 |-> 0], marks |-> {}, recv |-> 0, fds |-> 0,
           half |-> <<>>, wake |-> "prompt", quit |-> FALSE, hup |-> FALSE]
  /\ log = [w \in 1..2 |-> <<>>] /\ wakes = {}
  /\ tx = [w \in 1..2 |-> [at |-> "send", i |-> 0, left |-> 2, stuck |-> FALSE,
                           fdsSent |-> 0, err |-> FALSE]]
  /\ run = "join" /\ rxTimedOut = FALSE /\ abandoned = FALSE /\ freed = FALSE
  /\ helper = IF upw_case.helpers = "none" THEN "over" ELSE "running"
  /\ verdict = "none" /\ faults = 0 /\ expired = FALSE

Fault == faults < MaxFaults /\ faults' = faults + 1

--------------------------------------------------------------------------------
\* A sender.

\* What sendmsg() takes of message i of writer w: a frame, or the halves that fit.
Taken(w) ==
  LET i == tx[w].i
      halves == <<Unit(w, i, "head", hasFd(i)), Unit(w, i, "tail", FALSE)>>
      rest == SubSeq(halves, 3 - tx[w].left, 2)
  IN  IF upw_case.framed THEN <<Unit(w, i, "whole", hasFd(i))>>
      ELSE SubSeq(rest, 1, IF Room - Len(ring) < Len(rest) THEN Room - Len(ring) ELSE Len(rest))

TokenDue(w) == /\ upw_case.wakePipe /\ w = 1 /\ tx[w].i + 1 < perWriter
               /\ tx[w].i % PipeEvery = PipeEvery \div 2

\* On to the next message, or out of the loop of upw_sendThread().
NextMessage(t) ==
  [t EXCEPT !.at = IF t.i + 1 < perWriter THEN "send" ELSE "over",
            !.i = @ + 1, !.left = 2, !.stuck = FALSE]

upw_sendOne(w) ==
  /\ tx[w].at = "send" /\ Len(ring) < Room
  /\ ring' = ring \o Taken(w)
  /\ LET left == IF upw_case.framed THEN 0 ELSE tx[w].left - Len(Taken(w))
         sent == [tx[w] EXCEPT !.left = left, !.fdsSent = @ + IF hasFd(tx[w].i) THEN 1 ELSE 0]
     IN  tx' = [tx EXCEPT ![w] = IF left > 0 THEN [@ EXCEPT !.left = left]
                                 ELSE IF TokenDue(w) THEN [sent EXCEPT !.at = "token"]
                                 ELSE NextMessage(sent)]
  /\ UNCHANGED <<upw_fixed, peerGone, upw_rxSide, upw_runSide, faults, expired>>

\* EAGAIN: wait for POLLOUT.  The time is taken at the first one of a message.
upw_sendBlocks(w) ==
  /\ tx[w].at = "send" /\ Len(ring) >= Room /\ ~tx[w].stuck
  /\ tx' = [tx EXCEPT ![w].stuck = TRUE]
  /\ UNCHANGED <<upw_fixed, ring, peerGone, upw_rxSide, upw_runSide, faults, expired>>

\* Mutant: the time is taken anew at every EAGAIN.
upw_sendRetries(w) ==
  /\ tx[w].at = "send" /\ Len(ring) >= Room /\ tx[w].stuck
  /\ tx' = [tx EXCEPT ![w].stuck = FALSE]
  /\ UNCHANGED <<upw_fixed, ring, peerGone, upw_rxSide, upw_runSide, faults, expired>>

\* EAGAIN again, more than UPW_SETTLE_MS after the first: ETIMEDOUT.
upw_sendGivesUp(w) ==
  /\ tx[w].at = "send" /\ Len(ring) >= Room /\ tx[w].stuck
  /\ tx' = [tx EXCEPT ![w].at = "over", ![w].err = TRUE]
  /\ expired' = TRUE
  /\ UNCHANGED <<upw_fixed, ring, peerGone, upw_rxSide, upw_runSide, faults>>

upw_sendToken(w) ==
  /\ tx[w].at = "token"
  /\ tokens' = tokens + 1
  /\ tx' = [tx EXCEPT ![w] = NextMessage(@)]
  /\ UNCHANGED <<upw_fixed, ring, peerGone, rx, log, wakes, upw_runSide, faults, expired>>

\* sendmsg() takes part of a frame or fails, or the pipe does.
upw_sendFails(w) ==
  /\ tx[w].at \in {"send", "token"} /\ Fault
  /\ tx' = [tx EXCEPT ![w].at = "over", ![w].err = TRUE]
  /\ UNCHANGED <<upw_fixed, ring, peerGone, upw_rxSide, upw_runSide, expired>>

upw_sendThread(w) ==
  upw_sendOne(w) \/ upw_sendBlocks(w) \/ upw_sendGivesUp(w) \/ upw_sendToken(w)

--------------------------------------------------------------------------------
\* The receiver.
upw_isComplete(r) == \A w \in Writers : r.next[w] >= perWriter

Mark(condition, m) == IF condition THEN {m} ELSE {}

\* One record.  fdGot is -1 on a stream, which cannot tie a descriptor to a
\* message; the first record of a wake is the one that waited for it.
upw_account(r, u) ==
  IF u.bad THEN [r EXCEPT !.marks = @ \cup {"bad"}]
  ELSE IF u.w = QUIT THEN [r EXCEPT !.quit = TRUE]
  ELSE [r EXCEPT
         !.next[u.w] = IF u.i >= @ THEN u.i + 1 ELSE @,
         !.recv = @ + 1,
         !.wake = "prompt",
         !.marks = @ \cup Mark(u.i > r.next[u.w], "lost") \cup Mark(u.i < r.next[u.w], "dup")
                     \cup Mark(r.wake # "prompt", "ge15ms") \cup Mark(r.wake = "slow", "gt1s")
                     \cup Mark(u.fdGot >= 0 /\ (u.fdGot > 0) # hasFd(u.i), "fdMismatch")]

Frame(u) ==
  [w |-> u.w, i |-> u.i, bad |-> u.bad, fdGot |-> IF u.fd THEN 1 ELSE 0, intact |-> TRUE]
\* Two halves in a row: where the first is no head there is no magic.
Pair(u, v) ==
  [w |-> u.w, i |-> u.i, bad |-> u.bad \/ u.part # "head", fdGot |-> -1,
   intact |-> v.part = "tail" /\ v.w = u.w /\ v.i = u.i]

\* The log of good messages, by writer.
Logged(u) ==
  IF u.bad \/ u.w = QUIT THEN log
  ELSE [log EXCEPT ![u.w] = Append(@, [i |-> u.i, fdGot |-> u.fdGot, intact |-> u.intact])]

\* Mutant: what follows a message in the buffer is dropped.
NoLeftOver(units) == <<>>

LeftOver(units) == SubSeq(units, 3, Len(units))

\* A stream message that is complete in the buffer comes first; then the loop
\* ends if there is nothing more to wait for, and else calls recvmsg() again.
GoOn(r) ==
  [r EXCEPT !.at = IF Len(r.half) >= 2 THEN "account"
                   ELSE IF r.quit \/ upw_isComplete(r) THEN "poll" ELSE "drain"]

upw_recvFrame ==
  /\ rx.at = "drain" /\ ring # <<>> /\ upw_case.framed
  /\ LET u == Frame(Head(ring)) IN
       /\ rx' = GoOn(upw_account([rx EXCEPT !.fds = @ + u.fdGot], u))
       /\ log' = Logged(u)
  /\ ring' = Tail(ring)
  /\ UNCHANGED <<upw_fixed, tokens, peerGone, tx, upw_runSide, wakes, faults, expired>>

\* recvmsg() on a stream takes any part of what is queued.
upw_recvBytes ==
  /\ rx.at = "drain" /\ ring # <<>> /\ ~upw_case.framed
  /\ \E k \in 1..Len(ring) :
       /\ rx' = GoOn([rx EXCEPT !.fds = @ + Cardinality({ j \in 1..k : ring[j].fd }),
                                !.half = @ \o SubSeq(ring, 1, k)])
       /\ ring' = SubSeq(ring, k + 1, Len(ring))
  /\ UNCHANGED <<upw_fixed, tokens, peerGone, log, tx, upw_runSide, wakes, faults, expired>>

upw_nextMessage ==
  /\ rx.at = "account"
  /\ LET u == Pair(rx.half[1], rx.half[2]) IN
       /\ rx' = GoOn(upw_account([rx EXCEPT !.half = LeftOver(@)], u))
       /\ log' = Logged(u)
  /\ UNCHANGED <<upw_fixed, ring, tokens, peerGone, tx, upw_runSide, wakes, faults, expired>>

upw_drainSocket == upw_recvFrame \/ upw_recvBytes \/ upw_nextMessage

\* EAGAIN, or nothing more will come.
upw_drained ==
  /\ rx.at = "drain" /\ ring = <<>>
  /\ rx' = [rx EXCEPT !.at = "poll", !.hup = peerGone]
  /\ UNCHANGED <<upw_fixed, ring, tokens, peerGone, log, tx, upw_runSide, wakes, faults, expired>>

Ready == Mark(ring # <<>> \/ peerGone, "sock") \cup Mark(tokens > 0, "pipe")
Worse(a, b) == IF "slow" \in {a, b} THEN "slow" ELSE IF "late" \in {a, b} THEN "late" ELSE "prompt"
LoopEnds == upw_isComplete(rx) \/ rx.quit \/ rx.hup

\* Mutant: the time is taken before the poll().
upw_receiveTimedBefore(how) ==
  /\ rx.at = "poll" /\ ~LoopEnds /\ Ready # {}
  /\ rx' = [rx EXCEPT !.at = IF "sock" \in Ready THEN "drain" ELSE "poll"]
  /\ tokens' = 0
  /\ wakes' = wakes \cup (Ready \X {how})
  /\ UNCHANGED <<upw_fixed, ring, peerGone, log, tx, upw_runSide, expired>>

\* poll() returns, in time, after more than 15 ms or after more than a second;
\* the pipe is drained at once.
upw_receive(how) ==
  /\ rx.at = "poll" /\ ~LoopEnds /\ Ready # {}
  /\ rx' = [rx EXCEPT
             !.at = IF "sock" \in Ready THEN "drain" ELSE "poll",
             !.wake = IF "sock" \in Ready THEN Worse(@, how) ELSE @,
             !.marks = @ \cup Mark("pipe" \in Ready /\ how = "slow", "pipeMax")]
  /\ tokens' = 0
  /\ wakes' = wakes \cup (Ready \X {how})
  /\ UNCHANGED <<upw_fixed, ring, peerGone, log, tx, upw_runSide, expired>>

\* poll() or recvmsg() fails.
upw_receiveFails ==
  /\ (rx.at = "poll" /\ ~LoopEnds) \/ rx.at = "drain"
  /\ Fault
  /\ rx' = [rx EXCEPT !.at = "finish", !.marks = @ \cup {"rxErrs"}]
  /\ UNCHANGED <<upw_fixed, ring, tokens, peerGone, log, tx, upw_runSide, wakes, expired>>

\* The thread sets done; the child writes its record and exits.
upw_finish ==
  /\ (rx.at = "poll" /\ LoopEnds) \/ rx.at = "finish"
  /\ rx' = [rx EXCEPT !.at = "done"]
  /\ UNCHANGED <<upw_fixed, ring, tokens, peerGone, log, tx, upw_runSide, wakes, faults, expired>>

\* The child dies, or cannot allocate.
upw_childDies ==
  /\ upw_case.fork /\ rx.at \notin {"done", "dead"} /\ Fault
  /\ rx' = [rx EXCEPT !.at = "dead"]
  /\ UNCHANGED <<upw_fixed, ring, tokens, peerGone, log, tx, upw_runSide, wakes, expired>>

Receiver ==
  \/ upw_drainSocket \/ upw_drained \/ upw_finish
  \/ upw_receive("prompt") /\ UNCHANGED faults

--------------------------------------------------------------------------------
\* upw_run() after it has started everyone, and upw_check().
upw_join ==
  /\ run = "join" /\ \A w \in Writers : tx[w].at = "over"
  /\ run' = "settle"
  /\ UNCHANGED <<upw_fixed, ring, peerGone, upw_rxSide, tx, rxTimedOut, helper, abandoned, freed,
                 verdict, faults, expired>>

\* The receiver is seen to be done.
upw_settles ==
  /\ run \in {"settle", "quit", "hup"} /\ rx.at = "done"
  /\ run' = "collect"
  /\ UNCHANGED <<upw_fixed, ring, peerGone, upw_rxSide, tx, rxTimedOut, helper, abandoned, freed,
                 verdict, faults, expired>>

\* What send() takes of the message that tells the receiver to quit.
Quit ==
  IF upw_case.framed THEN <<Unit(QUIT, 0, "whole", FALSE)>>
  ELSE <<Unit(QUIT, 0, "head", FALSE), Unit(QUIT, 0, "tail", FALSE)>>
upw_sendQuit == SubSeq(Quit, 1, IF Room - Len(ring) < Len(Quit) THEN Room - Len(ring) ELSE Len(Quit))

\* UPW_SETTLE_MS are over, or the child has closed its end without a record.
upw_settleEnds ==
  /\ run = "settle" /\ rx.at # "done"
  /\ run' = "quit" /\ rxTimedOut' = TRUE
  /\ ring' = ring \o upw_sendQuit
  /\ expired' = (expired \/ rx.at # "dead")
  /\ UNCHANGED <<upw_fixed, peerGone, upw_rxSide, tx, helper, abandoned, freed, verdict, faults>>

\* Two more seconds are over: the child is killed, a thread sees a hang-up.
upw_quitEnds ==
  /\ run = "quit" /\ rx.at # "done"
  /\ IF upw_case.fork
       THEN run' = "collect" /\ rx' = [rx EXCEPT !.at = "dead"] /\ UNCHANGED peerGone
       ELSE run' = "hup" /\ peerGone' = TRUE /\ UNCHANGED rx
  /\ UNCHANGED <<upw_fixed, ring, log, tokens, wakes, tx, rxTimedOut, helper, abandoned, freed,
                 verdict, faults, expired>>

upw_hupEnds ==
  /\ run = "hup" /\ rx.at # "done"
  /\ run' = "collect"
  /\ UNCHANGED <<upw_fixed, ring, peerGone, upw_rxSide, tx, rxTimedOut, helper, abandoned, freed,
                 verdict, faults, expired>>

\* Mutant: rx is taken to be unused in every case.
upw_collectAll ==
  /\ run = "collect"
  /\ upw_case.fork => rx.at \in {"done", "dead"}
  /\ run' = "helpers" /\ UNCHANGED abandoned
  /\ UNCHANGED <<upw_fixed, ring, peerGone, upw_rxSide, tx, rxTimedOut, helper, freed, verdict,
                 faults, expired>>

\* waitpid(), or the look at done that decides whether rx is still in use.
upw_collect ==
  /\ run = "collect"
  /\ upw_case.fork => rx.at \in {"done", "dead"}
  /\ run' = "helpers" /\ abandoned' = (~upw_case.fork /\ rx.at # "done")
  /\ UNCHANGED <<upw_fixed, ring, peerGone, upw_rxSide, tx, rxTimedOut, helper, freed, verdict,
                 faults, expired>>

\* The spinning threads are stopped, the idle ones told to quit; both are joined.
upw_stopHelpers ==
  /\ run = "helpers" /\ helper \in {"running", "over"}
  /\ helper' = IF helper = "running" THEN "told" ELSE helper
  /\ run' = IF helper = "over" THEN "close" ELSE run
  /\ UNCHANGED <<upw_fixed, ring, peerGone, upw_rxSide, tx, rxTimedOut, abandoned, freed, verdict,
                 faults, expired>>

upw_helperEnds ==
  /\ helper = "told" /\ helper' = "over"
  /\ UNCHANGED <<upw_fixed, ring, peerGone, upw_rxSide, tx, run, rxTimedOut, abandoned, freed,
                 verdict, faults, expired>>

\* The poll() of an idle thread does not return.
upw_idleSleepsOn ==
  /\ helper = "told" /\ upw_case.helpers = "crowd" /\ Fault
  /\ helper' = "deaf"
  /\ UNCHANGED <<upw_fixed, ring, peerGone, upw_rxSide, tx, run, rxTimedOut, abandoned, freed,
                 verdict, expired>>

\* The condition ok of upw_check().
FdsSent  == tx[1].fdsSent + tx[2].fdsSent
Expected == perWriter * upw_case.writers
Fatal    == {"lost", "dup", "bad", "rxErrs", "fdMismatch", "gt1s", "pipeMax"}
              \cup Mark(strict /\ upw_case.readinessWoken, "ge15ms")
upw_ok ==
  /\ \A w \in Writers : ~tx[w].err
  /\ ~rxTimedOut /\ ~abandoned /\ rx.at = "done" /\ upw_isComplete(rx)
  /\ rx.recv = Expected /\ rx.marks \cap Fatal = {} /\ rx.fds = FdsSent

upw_check ==
  /\ run = "close" /\ run' = "over"
  /\ peerGone' = TRUE /\ freed' = ~abandoned
  /\ verdict' = IF upw_ok THEN "PASS" ELSE "FAIL"
  /\ UNCHANGED <<upw_fixed, ring, upw_rxSide, tx, rxTimedOut, helper, abandoned, faults, expired>>

upw_run ==
  \/ upw_join \/ upw_settles \/ upw_settleEnds \/ upw_quitEnds \/ upw_hupEnds
  \/ upw_collect \/ upw_stopHelpers \/ upw_check

--------------------------------------------------------------------------------
\* The kernel: what may befall the units that are queued.  (Once the test has
\* given up waiting, the verdict no longer depends on them.)
Without(units, k) == SubSeq(units, 1, k - 1) \o SubSeq(units, k + 1, Len(units))
Twice(units, k)   == SubSeq(units, 1, k) \o SubSeq(units, k, Len(units))
Spoil(units) ==
       { Without(units, k)             : k \in 1..Len(units) }
  \cup { Twice(units, k)               : k \in 1..Len(units) }
  \cup { [units EXCEPT ![k].bad = TRUE] : k \in 1..Len(units) }
  \cup { [units EXCEPT ![k].fd = ~@]    : k \in 1..Len(units) }
  \cup { [units EXCEPT ![k] = units[k + 1], ![k + 1] = units[k]] : k \in 1..(Len(units) - 1) }

upw_kernelFaults ==
  /\ run = "join" \/ run = "settle"
  /\ Fault /\ \E units \in Spoil(ring) : ring' = units
  /\ UNCHANGED <<upw_fixed, peerGone, upw_rxSide, tx, upw_runSide, expired>>

upw_Finished == (run = "over" \/ helper = "deaf") /\ UNCHANGED upw_vars

upw_Next ==
  \/ \E w \in Writers : upw_sendThread(w) \/ upw_sendFails(w)
  \/ Receiver \/ upw_receiveFails \/ upw_childDies
  \/ \E how \in {"late", "slow"} : upw_receive(how) /\ Fault
  \/ upw_run \/ upw_helperEnds \/ upw_idleSleepsOn \/ upw_kernelFaults
  \/ upw_Finished

\* The receiver is owed nothing: its wake is what the program tests.
upw_Fairness ==
  /\ \A w \in 1..2 : WF_upw_vars(w \in Writers /\ upw_sendThread(w))
  /\ WF_upw_vars(upw_run) /\ WF_upw_vars(upw_helperEnds)

upw_Spec == upw_Init /\ [][upw_Next]_upw_vars /\ upw_Fairness

--------------------------------------------------------------------------------
(* What a PASS of upw_check() vouches for: every message of every writer   *)
(* was taken once, in order and whole, the descriptors came with theirs    *)
(* (on a stream, as many as were sent), and no poll() took a second to     *)
(* wake, or 15 ms where --strict asks for it.  Two limits.  What is queued *)
(* behind the last message is not read: on a stream a repeat of its first  *)
(* half passes for the second, and the second is left over.  And as bodies *)
(* are not looked at, two faults on a stream can give one message          *)
(* another's body.                                                         *)
PassIsEarned ==
  verdict = "PASS" =>
    /\ \A w \in Writers :
         /\ Len(log[w]) = perWriter
         /\ \A k \in 1..perWriter :
              /\ log[w][k].i = k - 1
              /\ upw_case.framed => (log[w][k].fdGot = 1) = hasFd(k - 1)
              /\ faults < 2 => \/ log[w][k].intact
                               \/ k = perWriter /\ rx.half \o ring # <<>>
    /\ rx.fds = Cardinality({ m \in Writers \X (0..(perWriter - 1)) : hasFd(m[2]) })
    /\ \A fd \in {"sock", "pipe"} : <<fd, "slow">> \notin wakes
    /\ strict /\ upw_case.readinessWoken => <<"sock", "late">> \notin wakes

(* A kernel without faults, on a machine where no timeout runs out, gets a *)
(* PASS in every case, whatever the order of senders, receiver and main.   *)
FaultlessPasses ==
  verdict = "FAIL" => faults > 0 \/ expired

(* upw_run() frees rx and closes sv[1] only when nobody uses them any more *)
(* ("leave it (and its memory) be"): a receiver that wakes late, even      *)
(* after the verdict, finds both.                                          *)
FreedIsUnused == freed => rx.at \in {"done", "dead"}

(* "the case must then fail rather than hang": the case comes to an end    *)
(* even when the receiver never wakes and the ring is full, unless the     *)
(* kernel leaves an idle thread of the crowd asleep, which is joined       *)
(* without a timeout.                                                      *)
upw_CaseEnds == <>(run = "over" \/ helper = "deaf")
=============================================================================
