------------------------------ MODULE ThreadCode ------------------------------
(***************************************************************************)
(* The instructions in which the threaded test programs of the repository  *)
(* are written down: one per library call or memory access that another    *)
(* thread can observe, put together by the control structures of C.  The   *)
(* module TestThreads executes them.  Calls return the numbers of errno.h, *)
(* without the sign that the native calls put on them; their ETIME is      *)
(* written ETIMEDOUT.                                                      *)
(***************************************************************************)
EXTENDS Integers, Sequences

EOK       == 0
EPERM     == 1
ENOENT    == 2
ESRCH     == 3
EINTR     == 4
EAGAIN    == 11
EBUSY     == 16
EINVAL    == 22
EDEADLK   == 35
ETIMEDOUT == 110
EOWNERDEAD == 130

(***************************************************************************)
(* An instruction: the operation, the objects a and b it is about, a       *)
(* number, the time it may block for (rel, 0 for ever, or the time left on *)
(* the deadline named timer), the condition of a jump or of an assertion,  *)
(* and what the program does with the result.                              *)
(***************************************************************************)
Call(op, a, b, n) ==
  [op |-> op, a |-> a, b |-> b, n |-> n, rel |-> 0, timer |-> "",
   cond |-> <<>>, check |-> "ignore", want |-> EOK, var |-> ""]

Within(us, call)  == [call EXCEPT !.rel = us]      \* a relative timeout
Until(d, call)    == [call EXCEPT !.timer = d]     \* an absolute one

\* What is done with the result: TEST_ASSERT_EQUAL(want, call); x = call;
\* if (call != want) x++; and the same followed by the end of the thread.
Equal(want, call)    == [call EXCEPT !.check = "assert", !.want = want]
Into(x, call)        == [call EXCEPT !.check = "store", !.var = x]
Tally(x, want, call) == [call EXCEPT !.check = "tally", !.want = want, !.var = x]
Quit(x, want, call)  == [call EXCEPT !.check = "quit", !.want = want, !.var = x]
Ok(call)             == Equal(EOK, call)

Lock(m)        == Call("lock", m, "", 0)
TryLock(m)     == Call("trylock", m, "", 0)
TimedLock(m)   == Call("timedlock", m, "", 0)
Unlock(m)      == Call("unlock", m, "", 0)
Wait(c, m)     == Call("wait", c, m, 0)
Signal(c)      == Call("signal", c, "", 0)
Broadcast(c)   == Call("broadcast", c, "", 0)
SemWait(s)     == Call("semwait", s, "", 0)
SemTryWait(s)  == Call("semtry", s, "", 0)
SemPost(s)     == Call("sempost", s, "", 0)
BarrierWait(b, n) == Call("barrier", b, "", n)
FutexWait(x, v) == Call("futex", x, "", v)         \* sleep while x = v
FutexWake(x, n) == Call("wake", x, "", n)          \* wake up to n sleepers
Start(t)       == Call("start", t, "", 0)
Join(t)        == Call("join", t, "", 0)
Detach(t)      == Call("detach", t, "", 0)
JoinInto(x, t) == Call("join", t, x, 0)            \* x gets what t returned
Returns(v)     == Call("end", "", "", v)
Cancel(t)      == Call("cancel", t, "", 0)
CancelOff      == Call("setcancel", "", "", 1)     \* PTHREAD_CANCEL_DISABLE
CancelOn       == Call("setcancel", "", "", 0)     \* PTHREAD_CANCEL_ENABLE
Kill(t, x)     == Call("kill", t, x, 0)            \* the handler sets x to 1
KillPost(t, s) == Call("kill", t, s, 1)            \* the handler posts s
Create(o)      == Call("create", o, "", 0)
Destroy(o)     == Call("destroy", o, "", 0)
Consistent(m)  == Call("consistent", m, "", 0)
Sleep(us)      == Within(us, Call("sleep", "", "", 0))
Spin(us)       == Within(us, Call("spin", "", "", 0))  \* computes that long
Deadline(d, us) == Call("deadline", d, "", us)     \* now + us
Left(d)        == Call("left", d, "", 0)           \* time to the deadline
Yield          == Call("yield", "", "", 0)
MsgSend(p, windows) == Call("msgsend", p, "", windows)
MsgRecv(p)     == Call("msgrecv", p, "", 0)
MsgRespond(p)  == Call("msgrespond", p, "", 0)
EndProcess(q, x, v) == Call("endprocess", q, x, v) \* x gets the status v
Reap(q)        == Call("reap", q, "", 0)           \* waitpid(q, ., WNOHANG)

PTHREAD_CANCELED == -1    \* what a join tells of a cancelled thread
SERIAL_THREAD == 1        \* what a barrier tells one thread of a round
TRIES         == 3        \* attempts of a polling loop: hundreds in the code
POLL_MS       == 500      \* the pause of a loop that polls for seconds: 10

Set(x, v)      == Call("set", x, "", v)
Copy(x, y)     == Call("copy", x, y, 0)            \* x = y
Plus(x, y)     == Call("plus", x, y, 0)            \* x += y
AtomicAdd(x, v) == Call("add", x, "", v)

(* ++ and -- on an ordinary variable: a read and a write. *)
Add(x, v) == << Call("load", x, "", 0), Call("save", x, "", v) >>

(* A condition is a sequence of <<variable, relation, number>>: all hold.  *)
Unless(cs, n)  == [Call("unless", "", "", n) EXCEPT !.cond = cs]
Expect(cs)     == [Call("expect", "", "", 0) EXCEPT !.cond = cs]  \* TEST_ASSERT
Goto(n)        == Unless(<< <<"", "never", 0>> >>, n)
End            == Call("end", "", "", 0)

If(cs, body)   == << Unless(cs, Len(body)) >> \o body
IfElse(cs, yes, no) ==
  << Unless(cs, Len(yes) + 1) >> \o yes \o << Goto(Len(no)) >> \o no
While(cs, body) ==
  << Unless(cs, Len(body) + 1) >> \o body \o << Goto(-(Len(body) + 2)) >>
DoWhile(body, cs) ==
  body \o << Unless(cs, 1), Goto(-(Len(body) + 2)) >>

(* for (i = 0; i < n; i++) with a bound the model fixes. *)
For(n, body)   == [k \in 1..(n * Len(body)) |-> body[((k - 1) % Len(body)) + 1]]

(* A pool of n equal threads next to the main one. *)
Worker(k)      == << "t1", "t2", "t3", "t4", "t5", "t6" >>[k]
Pool(n, main, Body(_)) ==
  [x \in {"main"} \cup { Worker(k) : k \in 1..n } |->
     IF x = "main" THEN main ELSE Body(CHOOSE k \in 1..n : x = Worker(k))]
StartAll(n)    == [k \in 1..n |-> Ok(Start(Worker(k)))]
JoinAll(n)     == [k \in 1..n |-> Ok(Join(Worker(k)))]

Is(x, v)       == << <<x, "=", v>> >>
Isnt(x, v)     == << <<x, "#", v>> >>
Below(x, v)    == << <<x, "<", v>> >>
Among(x, S)    == << <<x, "in", S>> >>
AtLeast(x, v)  == << <<x, ">=", v>> >>
================================================================================
