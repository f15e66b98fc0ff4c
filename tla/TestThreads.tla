------------------------------ MODULE TestThreads -----------------------------
(***************************************************************************)
(* The machine that the threaded test programs run on: threads executing   *)
(* the instructions of ThreadCode over the mutexes, condition variables,   *)
(* semaphores, barriers, futexes, signals and clock of Phoenix-RTOS and    *)
(* libphoenix.  The kernel is not part of this repository; it is modelled  *)
(* from what the tests in src/ expect of it.                               *)
(*                                                                         *)
(* A run is one test, chosen in Init, on a conforming kernel (fault =      *)
(* "none") or on one that may go wrong in one way (hit: it did).  A test   *)
(* ends "pass" or "fail"; one that nothing can wake any more hangs until   *)
(* the harness gives up on it, which is the verdict "hang".                *)
(*                                                                         *)
(* Time passes in jumps to the next timeout.  On a timely machine that     *)
(* happens only when no thread can run: computation is short compared with *)
(* the milliseconds the tests count in.  On a slow one (slow = TRUE) a     *)
(* timeout may overtake any computation.                                   *)
(***************************************************************************)
EXTENDS ThreadCode, FiniteSets

CONSTANT Tests      \* the programs: a function from names of tests to records
                    \* [code, kind, init, catches, anytime, procs, prio]

VARIABLES
  test, fault, slow,  \* the run: fixed by Init
  type, procs, prio,  \* the types of the mutexes, the processes and the priorities
                      \* of the threads, likewise
  pc, at,             \* the number of the instruction each thread is at, and
                      \* the instruction
  mode,               \* what each thread is doing
  left,               \* time left of its sleep or timed wait, -1 without one
  reg,                \* the value it loaded, or its pending result
  pending,            \* what is in store for it: the handler of a signal, or
                      \* its end; <<>> for nothing
  timer,              \* time to each deadline, 0 once it has passed
  owner, depth,       \* the holder of each mutex and its nesting
  gone,               \* the objects destroyed and the threads detached
  mem,                \* shared memory, semaphores and barriers included
  hit,                \* the kernel has shown its fault
  verdict

run  == <<test, fault, slow, type, procs, prio>>
vars == <<test, fault, slow, type, procs, prio, pc, at, mode, left, reg, pending, timer, owner,
          depth, gone, mem, hit, verdict>>

Threads   == DOMAIN mode
AtEnd(t)  == at[t].op = "end"
Fetch(code, n) == IF n \in 1..Len(code) THEN code[n] ELSE End
Forever   == -1

--------------------------------------------------------------------------------
\* What a program mentions: its variables, mutexes and deadlines.
Instructions(p) == UNION { { p.code[t][k] : k \in DOMAIN p.code[t] }
                           : t \in DOMAIN p.code }
MemOps   == {"set", "copy", "plus", "add", "load", "save", "semwait", "semtry",
             "sempost", "barrier", "futex", "wake"}
LockOps  == {"lock", "trylock", "timedlock", "unlock"}
VarsOf(p) ==
  LET I == Instructions(p) IN
    { i.a : i \in { j \in I : j.op \in MemOps } }
      \cup { i.b : i \in { j \in I : j.op \in {"copy", "plus", "kill", "endprocess"} } }
      \cup { i.b : i \in { j \in I : j.op = "join" /\ j.b # "" } }
      \cup { i.var : i \in { j \in I : j.check \in {"store", "tally", "quit"} } }
      \cup { c[1] : c \in UNION { { i.cond[k] : k \in DOMAIN i.cond } : i \in I } }
MutexesOf(p) ==
  { i.a : i \in { j \in Instructions(p) : j.op \in LockOps } }
    \cup { i.b : i \in { j \in Instructions(p) : j.op = "wait" } }
TimersOf(p) == { i.a : i \in { j \in Instructions(p) : j.op = "deadline" } }
InitOf(p, x) == IF x \in DOMAIN p.init THEN p.init[x] ELSE {0}

Init ==
  /\ test \in DOMAIN Tests
  /\ \E p \in {Tests[test]} :
       /\ fault \in {"none"} \cup p.catches
       /\ slow \in {FALSE} \cup (IF p.anytime /\ fault = "none" THEN {TRUE} ELSE {})
       /\ procs = p.procs /\ prio = p.prio
       /\ pc = [t \in DOMAIN p.code |-> 1]
       /\ at = [t \in DOMAIN p.code |-> Fetch(p.code[t], 1)]
       /\ timer = [d \in TimersOf(p) |-> 0]
       /\ owner = [m \in MutexesOf(p) |-> ""]
       /\ type = [m \in MutexesOf(p) |-> IF m \in DOMAIN p.kind THEN p.kind[m] ELSE "plain"]
       /\ mem \in { f \in [VarsOf(p) -> UNION { InitOf(p, x) : x \in VarsOf(p) }] :
                      \A x \in VarsOf(p) : f[x] \in InitOf(p, x) }
  /\ mode = [t \in DOMAIN pc |-> IF t = "main" THEN "ready" ELSE "new"]
  /\ left = [t \in DOMAIN pc |-> Forever]
  /\ reg = [t \in DOMAIN pc |-> 0]
  /\ pending = [t \in DOMAIN pc |-> <<>>]
  /\ depth = [m \in DOMAIN owner |-> 0]
  /\ gone = {} /\ hit = FALSE /\ verdict = "running"

--------------------------------------------------------------------------------
Ready(t, ops) ==
  verdict = "running" /\ mode[t] = "ready" /\ at[t].op \in ops

\* The call of thread t returns r; m and md are the memory and the modes of
\* the threads that the call itself leaves behind.
Return(t, r, m, md) ==
  LET i == at[t] IN
    /\ mem' = CASE i.check = "store" -> [m EXCEPT ![i.var] = r]
                [] i.check \in {"tally", "quit"} /\ r # i.want -> [m EXCEPT ![i.var] = @ + 1]
                [] OTHER -> m
    /\ verdict' = IF i.check = "assert" /\ r # i.want THEN "fail" ELSE verdict
    /\ pc' = [pc EXCEPT ![t] = IF i.check = "quit" /\ r # i.want THEN 0 ELSE @ + 1]
    /\ mode' = [md EXCEPT ![t] = "ready"]

\* The time the call of thread t may block for.
Timeout(t) == LET i == at[t] IN
  IF i.timer # "" THEN timer[i.timer] ELSE IF i.rel = 0 THEN Forever ELSE i.rel

\* Thread t blocks in its call.
Block(t, how, md) ==
  /\ mode' = [md EXCEPT ![t] = how]
  /\ left' = [left EXCEPT ![t] = Timeout(t)]
  /\ UNCHANGED <<pc, mem, verdict>>

\* What is in store for a thread, next to the handler of a signal: it is to
\* be cancelled; it has disabled that; it has, and there was a request; its
\* process is at its end.
CancelDue   == <<"", 2>>
CancelIsOff == <<"", 3>>
CancelKept  == <<"", 4>>
Killed      == <<"", 5>>
Signalled(t) ==
  pending[t] # <<>> /\ pending[t][2] \in {0, 1} /\ mode[t] \notin {"new", "done"}

\* The library still has its record of thread o.  The record of a detached
\* thread goes with its end, or when it is cancelled.
Listed(o) ==
  mode[o] # "new" /\ (o \in gone /\ pending[o] = CancelDue => fault = "cancel_keeps")

--------------------------------------------------------------------------------
\* Memory, control and the clock.
Holds(c) ==
  CASE c[2] = "="  -> mem[c[1]] = c[3]
    [] c[2] = "#"  -> mem[c[1]] # c[3]
    [] c[2] = "<"  -> mem[c[1]] < c[3]
    [] c[2] = ">=" -> mem[c[1]] >= c[3]
    [] c[2] = "in" -> mem[c[1]] \in c[3]
    [] OTHER -> FALSE
HoldAll(cs) == \A k \in DOMAIN cs : Holds(cs[k])

Access(t) ==
  /\ Ready(t, {"set", "copy", "add", "load", "save", "plus", "left", "yield",
               "consistent"})
  /\ LET i == at[t] IN
       /\ CASE i.op = "set"  -> Return(t, EOK, [mem EXCEPT ![i.a] = i.n], mode)
            [] i.op = "copy" -> Return(t, EOK, [mem EXCEPT ![i.a] = mem[i.b]], mode)
            [] i.op = "plus" -> Return(t, EOK, [mem EXCEPT ![i.a] = @ + mem[i.b]], mode)
            [] i.op = "add"  -> Return(t, mem[i.a] + i.n, [mem EXCEPT ![i.a] = @ + i.n], mode)
            [] i.op = "save" -> Return(t, EOK, [mem EXCEPT ![i.a] = reg[t] + i.n], mode)
            [] i.op = "left" -> Return(t, timer[i.a], mem, mode)
            [] OTHER -> Return(t, EOK, mem, mode)
       /\ reg' = IF i.op = "load" THEN [reg EXCEPT ![t] = mem[i.a]] ELSE reg
  /\ UNCHANGED <<run, left, pending, timer, owner, depth, gone, hit>>

Branch(t) ==
  /\ Ready(t, {"unless", "expect"})
  /\ LET i == at[t] IN
       /\ pc' = [pc EXCEPT ![t] = IF i.op = "unless" /\ ~HoldAll(i.cond) THEN @ + 1 + i.n ELSE @ + 1]
       /\ verdict' = IF i.op = "expect" /\ ~HoldAll(i.cond) THEN "fail" ELSE verdict
  /\ UNCHANGED <<run, mode, left, reg, pending, timer, owner, depth, gone, mem, hit>>

SetDeadline(t) ==
  /\ Ready(t, {"deadline"})
  /\ timer' = [timer EXCEPT ![at[t].a] = at[t].n]
  /\ Return(t, EOK, mem, mode)
  /\ UNCHANGED <<run, left, reg, pending, owner, depth, gone, hit>>

GoToSleep(t) ==
  /\ Ready(t, {"sleep", "spin"})
  /\ Block(t, "sleep", mode)
  /\ UNCHANGED <<run, reg, pending, timer, owner, depth, gone, hit>>

--------------------------------------------------------------------------------
\* Mutexes: "plain" ones, pthread's default, deadlock when they are locked
\* again by their holder; "kernel" and "errorcheck" ones report it.
Free(m)       == owner[m] \in {"", "dead"}
Renests(t, m) == owner[m] = t /\ type[m] = "recursive"
Reports(t, m) == owner[m] = t /\ type[m] \in {"kernel", "errorcheck"}
SelfBlocks    == fault = "self_blocks"    \* a relock blocks whatever the type

Take(t, m) ==
  /\ owner' = [owner EXCEPT ![m] = t]
  /\ depth' = [depth EXCEPT ![m] = @ + 1]

LockCall(t) ==
  /\ Ready(t, {"lock", "trylock", "timedlock"})
  /\ LET i == at[t] m == i.a IN
       \/ /\ Free(m)
          /\ Take(t, m)
          /\ Return(t, IF owner[m] = "dead" THEN EOWNERDEAD ELSE EOK, mem, mode)
          /\ UNCHANGED <<left, hit>>
       \/ /\ Renests(t, m) /\ ~SelfBlocks
          /\ Take(t, m)
          /\ Return(t, EOK, mem, mode)
          /\ UNCHANGED <<left, hit>>
       \/ /\ Reports(t, m) /\ i.op # "trylock" /\ ~SelfBlocks
          /\ Return(t, EDEADLK, mem, mode)
          /\ UNCHANGED <<owner, depth, left, hit>>
       \/ /\ ~Free(m) /\ (Renests(t, m) => SelfBlocks) /\ i.op = "trylock"
          /\ Return(t, EBUSY, mem, mode)
          /\ hit' = (hit \/ Renests(t, m))
          /\ UNCHANGED <<owner, depth, left>>
       \/ /\ ~Free(m) /\ ~Renests(t, m) /\ ~Reports(t, m) /\ i.op = "timedlock"
          /\ IF Timeout(t) = 0 THEN Return(t, ETIMEDOUT, mem, mode) /\ UNCHANGED left
                               ELSE Block(t, "lock", mode)
          /\ UNCHANGED <<owner, depth, hit>>
       \/ /\ SelfBlocks /\ (Renests(t, m) \/ Reports(t, m)) /\ i.op # "trylock"
          /\ Block(t, "lock", mode)
          /\ hit' = TRUE
          /\ UNCHANGED <<owner, depth>>
  /\ UNCHANGED <<run, reg, pending, timer, gone>>

UnlockCall(t) ==
  /\ Ready(t, {"unlock"})
  /\ LET m == at[t].a mine == owner[m] = t IN
       /\ Return(t, IF mine THEN EOK ELSE EPERM, mem, mode)
       /\ depth' = IF mine THEN [depth EXCEPT ![m] = @ - 1] ELSE depth
       /\ owner' = IF mine /\ depth[m] = 1 THEN [owner EXCEPT ![m] = ""] ELSE owner
  /\ UNCHANGED <<run, left, reg, pending, timer, gone, hit>>

\* A thread that blocked in a timed lock, or that is leaving a condition
\* wait, gets the mutex.
Acquire(t) ==
  /\ verdict = "running" /\ mode[t] \in {"lock", "relock"}
  /\ LET m == IF mode[t] = "lock" THEN at[t].a ELSE at[t].b IN
       /\ Free(m)
       /\ Take(t, m)
       /\ Return(t, IF mode[t] = "lock" THEN EOK ELSE reg[t], mem, mode)
  /\ left' = [left EXCEPT ![t] = Forever]
  /\ UNCHANGED <<run, reg, pending, timer, gone, hit>>

--------------------------------------------------------------------------------
\* Condition variables.  A wait gives up its mutex and blocks in one step; a
\* deadline that has passed ends it at once.
Waiting(c) == { t \in Threads : mode[t] = "cond" /\ at[t].a = c }
Wake(W, r) ==
  /\ reg' = [t \in Threads |-> IF t \in W THEN r ELSE reg[t]]
  /\ left' = [t \in Threads |-> IF t \in W THEN Forever ELSE left[t]]
Woken(W, how) == [t \in Threads |-> IF t \in W THEN how ELSE mode[t]]

WaitCall(t) ==
  /\ Ready(t, {"wait"})
  /\ LET m == at[t].b past == Timeout(t) = 0 IN
       \/ /\ owner[m] = t
          /\ owner' = [owner EXCEPT ![m] = ""]
          /\ depth' = [depth EXCEPT ![m] = 0]
          /\ Block(t, IF past /\ fault # "past_blocks" THEN "relock" ELSE "cond", mode)
          /\ reg' = [reg EXCEPT ![t] = ETIMEDOUT]
          /\ hit' = (hit \/ (past /\ fault = "past_blocks"))
       \/ /\ owner[m] # t
          /\ Return(t, EPERM, mem, mode)
          /\ UNCHANGED <<owner, depth, left, reg, hit>>
  /\ UNCHANGED <<run, pending, timer, gone>>

\* A signal wakes one waiter, a broadcast all of them; a faulty kernel may
\* lose the wake-up of one, or wake every waiter on a signal.
SignalCall(t) ==
  /\ Ready(t, {"signal", "broadcast"})
  /\ LET W == Waiting(at[t].a)
         one == { S \in SUBSET W : Cardinality(S) = 1 }
         due == IF at[t].op = "broadcast" \/ W = {} THEN {W} ELSE one
         bad == CASE fault = "lost_wakeup" /\ W # {} /\ ~hit ->
                       UNION { { D \ {w} : w \in D } : D \in due }
                  [] fault = "signal_all" /\ at[t].op = "signal" /\ Cardinality(W) > 1 -> {W}
                  [] OTHER -> {}
     IN \E S \in due \cup bad :
          /\ Wake(S, EOK)
          /\ Return(t, EOK, mem, Woken(S, "relock"))
          /\ hit' = (hit \/ S \notin due)
  /\ UNCHANGED <<run, pending, timer, owner, depth, gone>>

--------------------------------------------------------------------------------
\* Semaphores.  A post raises the count and wakes one sleeper or more; each
\* tries again, and goes back to sleep for the rest of its time when another
\* thread was faster.  A faulty semaphore wakes only when the count leaves
\* zero, or lets the slower thread sleep without its timeout.
Asleep(s) == { t \in Threads : mode[t] = "sem" /\ at[t].a = s }

SemCall(t) ==
  /\ \/ Ready(t, {"semwait", "semtry"})
     \/ verdict = "running" /\ mode[t] = "retry"
  /\ LET s == at[t].a
         rest == CASE mode[t] = "ready" -> Timeout(t)
                   [] fault = "loser_blocks" -> Forever
                   [] OTHER -> left[t]
     IN \/ /\ mem[s] > 0
           /\ Return(t, EOK, [mem EXCEPT ![s] = @ - 1], mode)
           /\ left' = [left EXCEPT ![t] = Forever]
           /\ UNCHANGED hit
        \/ /\ mem[s] = 0 /\ (at[t].op = "semtry" \/ rest = 0)
           /\ Return(t, IF at[t].op = "semtry" THEN EAGAIN ELSE ETIMEDOUT, mem, mode)
           /\ left' = [left EXCEPT ![t] = Forever]
           /\ UNCHANGED hit
        \/ /\ mem[s] = 0 /\ at[t].op # "semtry" /\ rest # 0
           /\ mode' = [mode EXCEPT ![t] = "sem"]
           /\ left' = [left EXCEPT ![t] = rest]
           /\ hit' = (hit \/ (mode[t] = "retry" /\ rest # left[t]))
           /\ UNCHANGED <<pc, mem, verdict>>
  /\ UNCHANGED <<run, reg, pending, timer, owner, depth, gone>>

\* Whom a post on s may wake: some sleepers; with the fault one of them,
\* and nobody when the count was above zero.
PostWakes(s) ==
  CASE Asleep(s) = {} -> {{}}
    [] fault = "edge_only" /\ mem[s] > 0 -> {{}}
    [] fault = "edge_only" /\ mem[s] = 0 -> { {t} : t \in Asleep(s) }
    [] OTHER -> SUBSET Asleep(s) \ {{}}

PostCall(t) ==
  /\ Ready(t, {"sempost"})
  /\ LET s == at[t].a IN
       \E S \in PostWakes(s) :
         /\ Return(t, EOK, [mem EXCEPT ![s] = @ + 1], Woken(S, "retry"))
         /\ hit' = (hit \/ (S = {} /\ Asleep(s) # {}))
  /\ UNCHANGED <<run, left, reg, pending, timer, owner, depth, gone>>

\* A barrier for n threads, whose memory is the number waiting: the last to
\* arrive releases the others and is told so.  A stub never blocks.
AtBarrier(b) == { t \in Threads : mode[t] = "barrier" /\ at[t].a = b }

BarrierCall(t) ==
  /\ Ready(t, {"barrier"})
  /\ LET b == at[t].a W == AtBarrier(b) IN
       \/ /\ fault = "stub"
          /\ Return(t, EOK, mem, mode)
          /\ hit' = TRUE
          /\ UNCHANGED reg
       \/ /\ fault # "stub" /\ mem[b] < at[t].n - 1
          /\ mode' = [mode EXCEPT ![t] = "barrier"]
          /\ mem' = [mem EXCEPT ![b] = @ + 1]
          /\ UNCHANGED <<pc, verdict, reg, hit>>
       \/ /\ fault # "stub" /\ mem[b] = at[t].n - 1
          /\ Return(t, SERIAL_THREAD, [mem EXCEPT ![b] = 0], Woken(W, "back"))
          /\ reg' = [u \in Threads |-> IF u \in W THEN EOK ELSE reg[u]]
          /\ UNCHANGED hit
  /\ UNCHANGED <<run, left, pending, timer, owner, depth, gone>>

\* Futexes: sleep while the word still has the value; wake up to n sleepers.
OnFutex(x) == { t \in Threads : mode[t] = "futex" /\ at[t].a = x }

FutexCall(t) ==
  /\ Ready(t, {"futex", "wake"})
  /\ LET x == at[t].a n == at[t].n IN
       \/ /\ at[t].op = "futex" /\ mem[x] # n
          /\ Return(t, EAGAIN, mem, mode)
          /\ UNCHANGED <<left, reg, hit>>
       \/ /\ at[t].op = "futex" /\ mem[x] = n
          /\ Block(t, "futex", mode)
          /\ UNCHANGED <<reg, hit>>
       \/ /\ at[t].op = "wake"
          /\ LET W == OnFutex(x)
                 k == IF Cardinality(W) < n THEN Cardinality(W) ELSE n
             IN \E S \in { D \in SUBSET W : \/ Cardinality(D) = k
                                            \/ fault = "lost_wakeup" /\ ~hit /\ Cardinality(D) = k - 1 } :
                  /\ Wake(S, EOK)
                  /\ Return(t, Cardinality(S), mem, Woken(S, "back"))
                  /\ hit' = (hit \/ Cardinality(S) < k)
  /\ UNCHANGED <<run, pending, timer, owner, depth, gone>>

--------------------------------------------------------------------------------
\* Threads: "new" until started, "done" until joined, then "new" again; a
\* detached one is nobody's to join.  A robust mutex survives its holder.
StartCall(t) ==
  /\ Ready(t, {"start"})
  /\ Return(t, EOK, mem, [mode EXCEPT ![at[t].a] = "ready"])
  /\ UNCHANGED <<run, left, reg, pending, timer, owner, depth, gone, hit>>

\* Thread t is no more, and leaves v to the one that joins it.
Gone(t, v, how) ==
  /\ mode' = [mode EXCEPT ![t] = how]
  /\ pc' = [pc EXCEPT ![t] = 1]
  /\ reg' = [reg EXCEPT ![t] = v]
  /\ left' = [left EXCEPT ![t] = Forever]
  /\ pending' = [pending EXCEPT ![t] = <<>>]
  /\ owner' = [m \in DOMAIN owner |->
                IF owner[m] = t /\ type[m] = "robust" THEN "dead" ELSE owner[m]]
  /\ depth' = [m \in DOMAIN depth |->
                IF owner[m] = t /\ type[m] = "robust" THEN 0 ELSE depth[m]]

Exit(t) ==
  /\ verdict = "running" /\ mode[t] = "ready" /\ AtEnd(t)
  /\ Gone(t, at[t].n, IF t \in gone THEN "new" ELSE "done")
  /\ verdict' = IF t = "main" THEN "pass" ELSE verdict
  /\ UNCHANGED <<run, timer, gone, mem, hit>>

JoinCall(t) ==
  /\ Ready(t, {"join"})
  /\ LET o == at[t].a x == at[t].b IN
       /\ mode[o] = "done"
       /\ Return(t, EOK, IF x = "" THEN mem ELSE [mem EXCEPT ![x] = reg[o]],
                 [mode EXCEPT ![o] = "new"])
  /\ UNCHANGED <<run, left, reg, pending, timer, owner, depth, gone, hit>>

\* pthread_detach() of a thread, and the creation and destruction of an
\* object; one that a thread holds or waits on is not destroyed.
DetachCall(t) ==
  /\ Ready(t, {"detach"})
  /\ LET o == at[t].a IN
       /\ Return(t, IF ~Listed(o) THEN ESRCH ELSE IF o \in gone THEN EINVAL ELSE EOK, mem,
                 IF mode[o] = "done" THEN [mode EXCEPT ![o] = "new"] ELSE mode)
       /\ gone' = gone \cup {o}
  /\ UNCHANGED <<run, left, reg, pending, timer, owner, depth, hit>>

ObjectCall(t) ==
  /\ Ready(t, {"create", "destroy"})
  /\ LET o == at[t].a
         busy == \/ o \in DOMAIN owner /\ owner[o] # ""
                 \/ Waiting(o) \cup Asleep(o) \cup AtBarrier(o) # {}
     IN IF at[t].op = "create"
        THEN Return(t, EOK, mem, mode) /\ gone' = gone \ {o}
        ELSE /\ Return(t, IF busy THEN EBUSY ELSE EOK, mem, mode)
             /\ gone' = IF busy THEN gone ELSE gone \cup {o}
  /\ UNCHANGED <<run, left, reg, pending, timer, owner, depth, hit>>

--------------------------------------------------------------------------------
\* Cancellation ends a thread wherever it is, some time after the request,
\* or at once when a request waited for it to be enabled again.  A faulty
\* library acts on it in blocking calls only.
CancelCall(t) ==
  /\ Ready(t, {"cancel"})
  /\ LET o == at[t].a IN
       /\ Return(t, IF Listed(o) THEN EOK ELSE ESRCH, mem, mode)
       /\ pending' = IF mode[o] \in {"new", "done"} THEN pending
                     ELSE [pending EXCEPT ![o] = IF @ \in {CancelIsOff, CancelKept}
                                                 THEN CancelKept ELSE CancelDue]
  /\ hit' = (hit \/ fault = "deferred")
  /\ UNCHANGED <<run, left, reg, timer, owner, depth, gone>>

SetCancelCall(t) ==
  /\ Ready(t, {"setcancel"})
  /\ IF at[t].n = 0 /\ pending[t] = CancelKept /\ fault # "deferred"
     THEN Gone(t, PTHREAD_CANCELED, "done") /\ UNCHANGED <<mem, verdict>>
     ELSE /\ Return(t, EOK, mem, mode)
          /\ pending' = [pending EXCEPT ![t] = IF at[t].n = 1 THEN CancelIsOff ELSE <<>>]
          /\ UNCHANGED <<left, reg, owner, depth>>
  /\ UNCHANGED <<run, timer, gone, hit>>

Cancellable(t) ==
  /\ pending[t] = CancelDue /\ mode[t] \notin {"new", "done"}
  /\ fault = "deferred" => mode[t] = "sleep" /\ at[t].op = "sleep"

Cancelled(t) ==
  /\ verdict = "running" /\ Cancellable(t)
  /\ Gone(t, PTHREAD_CANCELED, IF t \in gone /\ fault # "cancel_keeps" THEN "new" ELSE "done")
  /\ hit' = (hit \/ (t \in gone /\ fault = "cancel_keeps"))
  /\ UNCHANGED <<run, timer, gone, mem, verdict>>

--------------------------------------------------------------------------------
\* Messages.  A sender blocks until its request is received and answered; the
\* server may map its buffers (n = 1: windows).
Queued(p)   == { u \in Threads : mode[u] = "msgsend" /\ at[u].a = p }
Received(p) == { u \in Threads : mode[u] = "msgheld" /\ at[u].a = p }

MsgCall(t) ==
  /\ Ready(t, {"msgsend", "msgrecv", "msgrespond"})
  /\ LET p == at[t].a IN
       \/ /\ at[t].op = "msgsend"
          /\ Block(t, "msgsend", mode)
          /\ UNCHANGED reg
       \/ /\ at[t].op = "msgrecv"
          /\ \E u \in Queued(p) : Return(t, EOK, mem, [mode EXCEPT ![u] = "msgheld"])
          /\ UNCHANGED <<left, reg>>
       \/ /\ at[t].op = "msgrespond"
          /\ Return(t, IF Received(p) = {} THEN ENOENT ELSE EOK, mem, Woken(Received(p), "back"))
          /\ Wake(Received(p), EOK)
  /\ UNCHANGED <<run, pending, timer, owner, depth, gone, hit>>

\* Processes other than the one of the test: their threads, the port that
\* they serve.  Each thread of one that exits or is killed ends before it
\* runs again.  One whose request a server holds abandons it, but for a
\* request with windows; a server that ends fails the requests to its port.
Threaded(q) == procs[q].threads
Alive(t)    == mode[t] \notin {"new", "done"}
Serves(t)   == { q \in DOMAIN procs : t \in Threaded(q) }
Abandons(t) == (at[t].n = 0 /\ fault # "lingers") \/ fault = "drops_window"
Mortal(t)   == pending[t] = Killed /\ Alive(t) /\ (mode[t] = "msgheld" => Abandons(t))

EndProcessCall(t) ==
  /\ Ready(t, {"endprocess"})
  /\ LET T == Threaded(at[t].a) IN
       /\ pending' = [u \in Threads |-> IF u \in T /\ Alive(u) THEN Killed ELSE pending[u]]
       /\ Return(t, EOK, IF \E u \in T : pending[u] = Killed THEN mem
                         ELSE [mem EXCEPT ![at[t].b] = at[t].n], mode)
       /\ hit' = (hit \/ (fault = "lingers" /\ \E u \in T : mode[u] = "msgheld" /\ at[u].n = 0))
  /\ UNCHANGED <<run, left, reg, timer, owner, depth, gone>>

Die(t) ==
  /\ verdict = "running" /\ Mortal(t)
  /\ LET S == UNION { Queued(procs[q].port) \cup Received(procs[q].port) : q \in Serves(t) }
         F == IF fault = "orphans" THEN {} ELSE S
     IN /\ mode' = [Woken(F, "back") EXCEPT ![t] = "done"]
        /\ reg' = [u \in Threads |-> IF u \in F THEN EINVAL ELSE reg[u]]
        /\ hit' = (hit \/ (fault = "orphans" /\ S # {}) \/ (mode[t] = "msgheld" /\ at[t].n = 1))
  /\ pc' = [pc EXCEPT ![t] = 1]
  /\ left' = [left EXCEPT ![t] = Forever]
  /\ pending' = [pending EXCEPT ![t] = <<>>]
  /\ UNCHANGED <<run, timer, owner, depth, gone, mem, verdict>>

ReapCall(t) ==
  /\ Ready(t, {"reap"})
  /\ LET T == Threaded(at[t].a) dead == \A u \in T : ~Alive(u) IN
       Return(t, IF dead THEN EOK ELSE EAGAIN, mem,
              [u \in Threads |-> IF dead /\ u \in T THEN "new" ELSE mode[u]])
  /\ UNCHANGED <<run, left, reg, pending, timer, owner, depth, gone, hit>>

--------------------------------------------------------------------------------
\* Signals: a handler stores 1 in its variable, or posts its semaphore.  It
\* ends a condition wait without an error, as a spurious wake-up; a semaphore
\* wait may resume or fail.  A faulty library resumes the condition wait.
KillCall(t) ==
  /\ Ready(t, {"kill"})
  /\ pending' = [pending EXCEPT ![at[t].a] = <<at[t].b, at[t].n>>]
  /\ Return(t, EOK, mem, mode)
  /\ UNCHANGED <<run, left, reg, timer, owner, depth, gone, hit>>

Deliver(t) ==
  /\ verdict = "running" /\ Signalled(t)
  /\ LET x == pending[t][1] posts == pending[t][2] = 1 IN
       /\ mem' = [mem EXCEPT ![x] = IF posts THEN @ + 1 ELSE 1]
       /\ \E S \in (IF posts THEN PostWakes(x) ELSE {{}}) :
            \E how \in CASE mode[t] = "cond" /\ fault = "resume" -> {"cond"}
                         [] mode[t] = "cond"  -> {"relock"}
                         [] mode[t] = "sem"   -> {"back", Woken(S, "retry")[t]}
                         [] mode[t] = "sleep" -> {"back"}
                         [] mode[t] = "msgheld" /\ fault = "signal_abandons" -> {"back"}
                         [] OTHER -> {mode[t]} :
              /\ mode' = [Woken(S, "retry") EXCEPT ![t] = how]
              /\ reg' = [reg EXCEPT ![t] = CASE how = "relock" /\ mode[t] = "cond" -> EOK
                                             [] how = "back" /\ mode[t] # "back" -> EINTR
                                             [] OTHER -> @]
       /\ hit' = (hit \/ <<mode[t], fault>> \in {<<"cond", "resume">>, <<"msgheld", "signal_abandons">>})
  /\ pending' = [pending EXCEPT ![t] = <<>>]
  /\ UNCHANGED <<run, pc, left, timer, owner, depth, gone, verdict>>

\* A thread released from a barrier, a futex, a sleep or a timed-out wait.
ComeBack(t) ==
  /\ verdict = "running" /\ mode[t] = "back"
  /\ Return(t, reg[t], mem, mode)
  /\ left' = [left EXCEPT ![t] = Forever]
  /\ UNCHANGED <<run, reg, pending, timer, owner, depth, gone, hit>>

--------------------------------------------------------------------------------
\* Time.  A faulty kernel does not end condition waits at their timeout.
CanRun(t) ==
  \/ Signalled(t) \/ Cancellable(t) \/ Mortal(t)
  \/ mode[t] \in {"back", "retry"}
  \/ mode[t] = "lock" /\ Free(at[t].a)
  \/ mode[t] = "relock" /\ Free(at[t].b)
  \/ /\ mode[t] = "ready"
     /\ at[t].op = "lock" =>
          \/ Free(at[t].a)
          \/ Renests(t, at[t].a) \/ Reports(t, at[t].a)
     /\ at[t].op = "join" => mode[at[t].a] = "done"
     /\ at[t].op = "msgrecv" => Queued(at[t].a) # {}

\* Where a test gives its threads priorities they share one processor, and
\* the most urgent runs, or computes; the holder of a mutex inherits the
\* priority of those who want it.  A faulty kernel knows no inheritance.
Wants(u, t) == mode[u] = "ready" /\ at[u].op = "lock" /\ owner[at[u].a] = t
Urgency(t, inherits) ==
  LET P == { prio[u] : u \in {t} \cup { v \in Threads : inherits /\ Wants(v, t) } } IN
    CHOOSE n \in P : \A k \in P : n <= k
Occupies(t) == CanRun(t) \/ (mode[t] = "sleep" /\ at[t].op = "spin")
Urgent(t, inherits) ==
  prio # <<>> =>
    \A u \in Threads : Occupies(u) => Urgency(t, inherits) <= Urgency(u, inherits)
Scheduled(t) == Urgent(t, fault # "no_inherit")
Inverted ==
  fault = "no_inherit" /\ \E t \in Threads : CanRun(t) /\ ~Scheduled(t) /\ Urgent(t, TRUE)

Timed == { t \in Threads : left[t] > 0 /\ mode[t] \in {"sleep", "cond", "sem", "lock", "futex", "retry"}
                          /\ ~(mode[t] = "cond" /\ fault = "no_timeout") }
Idle  == \A t \in Threads : ~(CanRun(t) /\ Scheduled(t))

Tick ==
  /\ verdict = "running" /\ Timed # {} /\ (slow \/ Idle)
  /\ LET d == CHOOSE n \in { left[t] : t \in Timed } : \A t \in Timed : n <= left[t]
         over == { t \in Timed : left[t] = d }
     IN /\ left' = [t \in Threads |-> IF t \in Timed THEN left[t] - d ELSE left[t]]
        /\ timer' = [x \in DOMAIN timer |-> IF timer[x] > d THEN timer[x] - d ELSE 0]
        /\ reg' = [t \in Threads |->
                     IF t \notin over THEN reg[t] ELSE IF mode[t] = "sleep" THEN EOK ELSE ETIMEDOUT]
        /\ mode' = [t \in Threads |->
                      CASE t \in over /\ mode[t] = "cond" -> "relock"
                        [] t \in over /\ mode[t] # "retry" -> "back"
                        [] OTHER -> mode[t]]
  /\ hit' = (hit \/ Inverted \/
             (fault = "no_timeout" /\ \E t \in Threads : mode[t] = "cond" /\ left[t] > 0))
  /\ UNCHANGED <<run, pc, at, pending, owner, depth, gone, mem, verdict>>

\* Nothing can happen any more: the harness runs into its time limit.
GiveUp ==
  /\ verdict = "running" /\ Idle /\ Timed = {}
  /\ verdict' = "hang"
  /\ hit' = (hit \/ (fault = "no_timeout" /\ \E t \in Threads : mode[t] = "cond" /\ left[t] > 0))
  /\ UNCHANGED <<run, pc, at, mode, left, reg, pending, timer, owner, depth, gone, mem>>

Ended == verdict # "running" /\ UNCHANGED vars

Step(t) ==
  /\ \/ Die(t)
     \/ /\ pending[t] # Killed /\ Scheduled(t)
        /\ \/ Access(t) \/ Branch(t) \/ SetDeadline(t) \/ GoToSleep(t)
           \/ LockCall(t) \/ UnlockCall(t) \/ Acquire(t) \/ WaitCall(t) \/ SignalCall(t)
           \/ SemCall(t) \/ PostCall(t) \/ BarrierCall(t) \/ FutexCall(t)
           \/ StartCall(t) \/ Exit(t) \/ JoinCall(t) \/ DetachCall(t) \/ ObjectCall(t)
           \/ CancelCall(t) \/ SetCancelCall(t) \/ Cancelled(t)
           \/ MsgCall(t) \/ EndProcessCall(t) \/ ReapCall(t)
           \/ KillCall(t) \/ Deliver(t) \/ ComeBack(t)
  /\ at' = [at EXCEPT ![t] = Fetch(Tests[test].code[t], pc'[t])]

Next == (\E t \in Threads : Step(t)) \/ Tick \/ GiveUp \/ Ended

\* The scheduler lets every thread go on, and time passes.
AllThreads == UNION { DOMAIN Tests[x].code : x \in DOMAIN Tests }
Fairness ==
  /\ \A t \in AllThreads : WF_vars(t \in Threads /\ Step(t))
  /\ WF_vars(Tick) /\ WF_vars(GiveUp)

Spec == Init /\ [][Next]_vars /\ Fairness

--------------------------------------------------------------------------------
(* On a conforming kernel no test fails or hangs, whatever the schedule:   *)
(* the handshakes of the tests (readyCounter, flag, waiting, the sleeps    *)
(* before a post) really order what their assertions rely on.  A test that *)
(* depends on the speed of the machine is run on a timely one only.        *)
NoFalseAlarm == fault = "none" => verdict \notin {"fail", "hang"}

(* A test that ran on a kernel that went wrong in the way the test is      *)
(* there to find (a lost wake-up, a wait without its timeout, a relock     *)
(* that blocks, a semaphore that wakes too few...) does not pass, whatever *)
(* the schedule.                                                           *)
Detects == hit => verdict # "pass"

\* Thread t is at its end, or in a loop that it is about to leave for its end.
Leaving(t) ==
  AtEnd(t) \/ LET code == Tests[test].code[t] IN
                code[1].op = "unless" /\ Len(code) = code[1].n + 1 /\ ~HoldAll(code[1].cond)

(* A test that passes leaves nothing behind that the next test of its      *)
(* group, which uses the same objects, could meet: every thread that it    *)
(* started has been joined, or is a detached one that is cancelled or has  *)
(* nothing left to do than to leave its loop, and no mutex is held.        *)
NothingLeftBehind ==
  verdict = "pass" /\ fault = "none" =>
    /\ \A t \in Threads \ {"main"} :
         mode[t] = "new" \/ (t \in gone /\ (pending[t] = CancelDue \/ Leaving(t)))
    /\ \A m \in DOMAIN owner : owner[m] = ""

(* No thread of a test, not even a detached one, is about to use a mutex,  *)
(* condition variable, semaphore or barrier that the test has destroyed.   *)
NoUseAfterDestroy ==
  verdict = "running" /\ fault = "none" =>
    \A t \in Threads :
      mode[t] \notin {"new", "done", "back"} /\ at[t].op # "create" =>
        {at[t].a, at[t].b} \cap (gone \ Threads) = {}

(* Every test ends: its polling loops and retries come to an end on every  *)
(* kernel, unless nothing can wake the test any more (verdict "hang").     *)
Terminates == <>(verdict # "running")
================================================================================
