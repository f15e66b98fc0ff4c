---------------------------- MODULE PipeContention ----------------------------
(***************************************************************************)
(* pipe_nonblock_contention of src/libc/unix-poll-wake/unix-poll-wake.c: a *)
(* writer and a reader, both non-blocking, move bytes through a pipe that  *)
(* is kept nearly empty, and prove from two counters that no EAGAIN was    *)
(* due; a third thread polls both ends.  Each step is one load, store or   *)
(* system call.                                                            *)
(***************************************************************************)
EXTENDS Integers, Sequences

CONSTANTS UPW_NB_INFLIGHT,   \* the pipe holds at least that many bytes
          MaxBytes,          \* bound: bytes that the writer gets to write
          MaxPipeFaults      \* bound: faults of the pipe

ASSUME PipeAssumption ==
  UPW_NB_INFLIGHT \in Nat \ {0} /\ MaxBytes \in Nat \ {0} /\ MaxPipeFaults \in Nat

VARIABLES
  pipe,             \* the bytes queued
  stop, written, readn,
  writer, reader,   \* where each is, with its local copy of its own counter
  poller, tally, test, nbVerdict, pipeFaults

nb_vars == <<pipe, stop, written, readn, writer, reader, poller, tally, test, nbVerdict, pipeFaults>>

nb_Init ==
  /\ pipe = <<>> /\ stop = FALSE /\ written = 0 /\ readn = 0
  /\ writer = [at |-> "top", w |-> 0]
  /\ reader = [at |-> "top", n |-> 0]
  /\ poller = "on"
  /\ tally = {}            \* the counters wrEagain, rdEagain, errs and bad that are not 0
  /\ test = "running" /\ nbVerdict = "none" /\ pipeFaults = 0

PipeFault == pipeFaults < MaxPipeFaults /\ pipeFaults' = pipeFaults + 1
Counted(what) == tally' = tally \cup {what}

--------------------------------------------------------------------------------
\* upw_nbWriter().
WriterTop ==
  /\ writer.at = "top"
  /\ writer' = [at |-> IF stop THEN "over" ELSE "load", w |-> written]
  /\ UNCHANGED <<pipe, stop, written, readn, reader, poller, tally, test, nbVerdict, pipeFaults>>

\* Mutant: one byte more is allowed in flight.
WriterLoadsOneMore ==
  /\ writer.at = "load"
  /\ writer' = [writer EXCEPT !.at = IF writer.w - readn > UPW_NB_INFLIGHT \/ writer.w >= MaxBytes
                                       THEN "top" ELSE "write"]
  /\ UNCHANGED <<pipe, stop, written, readn, reader, poller, tally, test, nbVerdict, pipeFaults>>

\* The load of readn: at the bound it sleeps and starts over.
WriterLoads ==
  /\ writer.at = "load"
  /\ writer' = [writer EXCEPT !.at = IF writer.w - readn >= UPW_NB_INFLIGHT \/ writer.w >= MaxBytes
                                       THEN "top" ELSE "write"]
  /\ UNCHANGED <<pipe, stop, written, readn, reader, poller, tally, test, nbVerdict, pipeFaults>>

WriterWrites ==
  /\ writer.at = "write"
  /\ IF Len(pipe) < UPW_NB_INFLIGHT
       THEN /\ pipe' = Append(pipe, writer.w % 256)
            /\ writer' = [writer EXCEPT !.at = "store"] /\ UNCHANGED tally
       ELSE /\ writer' = [writer EXCEPT !.at = "top"]
            /\ Counted("wrEagain") /\ UNCHANGED pipe
  /\ UNCHANGED <<stop, written, readn, reader, poller, test, nbVerdict, pipeFaults>>

WriterStores ==
  /\ writer.at = "store"
  /\ written' = writer.w + 1 /\ writer' = [writer EXCEPT !.at = "top"]
  /\ UNCHANGED <<pipe, stop, readn, reader, poller, tally, test, nbVerdict, pipeFaults>>

\* An EAGAIN with room, or an error, which ends the loop.
WriterFails ==
  /\ writer.at = "write" /\ PipeFault
  /\ \E what \in {"wrEagain", "errs"} :
       /\ Counted(what)
       /\ writer' = [writer EXCEPT !.at = IF what = "errs" THEN "over" ELSE "top"]
  /\ UNCHANGED <<pipe, stop, written, readn, reader, poller, test, nbVerdict>>

upw_nbWriter == WriterTop \/ WriterLoads \/ WriterWrites \/ WriterStores

--------------------------------------------------------------------------------
\* upw_nbReader().
ReaderTop ==
  /\ reader.at = "top"
  /\ reader' = [at |-> IF written = readn THEN "idle" ELSE "read", n |-> readn]
  /\ UNCHANGED <<pipe, stop, written, readn, writer, poller, tally, test, nbVerdict, pipeFaults>>

\* Nothing queued: the reader leaves if it is told to stop.
ReaderIdles ==
  /\ reader.at = "idle"
  /\ reader' = [reader EXCEPT !.at = IF stop THEN "over" ELSE "top"]
  /\ UNCHANGED <<pipe, stop, written, readn, writer, poller, tally, test, nbVerdict, pipeFaults>>

ReaderReads ==
  /\ reader.at = "read"
  /\ IF pipe # <<>>
       THEN /\ pipe' = Tail(pipe) /\ reader' = [reader EXCEPT !.at = "store"]
            /\ IF Head(pipe) # reader.n % 256 THEN Counted("bad") ELSE UNCHANGED tally
       ELSE /\ reader' = [reader EXCEPT !.at = "top"]
            /\ Counted("rdEagain") /\ UNCHANGED pipe
  /\ UNCHANGED <<stop, written, readn, writer, poller, test, nbVerdict, pipeFaults>>

ReaderStores ==
  /\ reader.at = "store"
  /\ readn' = reader.n + 1 /\ reader' = [reader EXCEPT !.at = "top"]
  /\ UNCHANGED <<pipe, stop, written, writer, poller, tally, test, nbVerdict, pipeFaults>>

\* An EAGAIN with data, or an error, which ends the loop.
ReaderFails ==
  /\ reader.at = "read" /\ PipeFault
  /\ \E what \in {"rdEagain", "errs"} :
       /\ Counted(what)
       /\ reader' = [reader EXCEPT !.at = IF what = "errs" THEN "over" ELSE "top"]
  /\ UNCHANGED <<pipe, stop, written, readn, writer, poller, test, nbVerdict>>

upw_nbReader == ReaderTop \/ ReaderIdles \/ ReaderReads \/ ReaderStores

--------------------------------------------------------------------------------
\* upw_nbPoller(): its polls leave no trace but their errors.
upw_nbPoller ==
  /\ poller = "on" /\ stop /\ poller' = "over"
  /\ UNCHANGED <<pipe, stop, written, readn, writer, reader, tally, test, nbVerdict, pipeFaults>>

PollFails ==
  /\ poller = "on" /\ PipeFault /\ Counted("errs") /\ poller' = "over"
  /\ UNCHANGED <<pipe, stop, written, readn, writer, reader, test, nbVerdict>>

\* The pipe loses, repeats or changes a byte.
PipeSpoils ==
  /\ pipe # <<>> /\ PipeFault
  /\ pipe' \in { Tail(pipe), Append(pipe, pipe[Len(pipe)]), [pipe EXCEPT ![1] = (@ + 1) % 256] }
  /\ UNCHANGED <<stop, written, readn, writer, reader, poller, tally, test, nbVerdict>>

\* The test: UPW_NB_SECS are over; then everyone is joined and the verdict given.
Stop ==
  /\ test = "running" /\ test' = "joining" /\ stop' = TRUE
  /\ UNCHANGED <<pipe, written, readn, writer, reader, poller, tally, nbVerdict, pipeFaults>>

\* Mutant: EAGAINs are only printed.
nb_okDespiteEagain == tally \subseteq {"wrEagain", "rdEagain"} /\ written = readn /\ written > 0

nb_ok == tally = {} /\ written = readn /\ written > 0
Verdict ==
  /\ test = "joining" /\ writer.at = "over" /\ poller = "over" /\ reader.at = "over"
  /\ test' = "over" /\ nbVerdict' = IF nb_ok THEN "PASS" ELSE "FAIL"
  /\ UNCHANGED <<pipe, stop, written, readn, writer, reader, poller, tally, pipeFaults>>

nb_Finished == test = "over" /\ UNCHANGED nb_vars

nb_Next ==
  \/ upw_nbWriter \/ WriterFails \/ upw_nbReader \/ ReaderFails
  \/ upw_nbPoller \/ PollFails \/ PipeSpoils \/ Stop \/ Verdict \/ nb_Finished

nb_Fairness ==
  /\ WF_nb_vars(upw_nbWriter) /\ WF_nb_vars(upw_nbReader) /\ WF_nb_vars(upw_nbPoller)
  /\ WF_nb_vars(Stop \/ Verdict)

nb_Spec == nb_Init /\ [][nb_Next]_nb_vars /\ nb_Fairness

--------------------------------------------------------------------------------
(* The counters prove what the comment claims of them.  Without a fault of *)
(* the pipe no EAGAIN, error or wrong byte is counted, and the test fails  *)
(* only where nothing was written or the reader left between its look at   *)
(* written and its look at stop, with all the missing bytes in the pipe.   *)
CountersProve ==
  pipeFaults = 0 =>
    /\ tally = {}
    /\ nbVerdict = "FAIL" /\ written > 0 => pipe # <<>> /\ Len(pipe) = written - readn
    /\ nbVerdict = "PASS" => pipe = <<>>

(* A PASS hides a single fault of the pipe, a byte lost, repeated or       *)
(* changed, a wrong EAGAIN or an error, only where it is the last byte     *)
(* that is repeated: the reader stops at the counter and never takes it.   *)
PipePassIsEarned ==
  nbVerdict = "PASS" /\ pipeFaults = 1 => pipe = <<(written - 1) % 256>>

(* A pipe without faults through which something was written passes: the   *)
(* test is to fail "on any EAGAIN the byte counters prove spurious".       *)
FaultlessPipePasses == nbVerdict = "FAIL" => pipeFaults > 0 \/ written = 0
=============================================================================
