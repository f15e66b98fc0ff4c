---------------------------- MODULE PollWakeProofs ----------------------------
(***************************************************************************)
(* The socket cases of unix-poll-wake, for every number of messages, every *)
(* room in the socket and any number of faults: the inductive invariant    *)
(* upw_IInv, which ties the counters to what was sent, taken and logged,   *)
(* and that upw_run() frees nothing that is still in use.                  *)
(***************************************************************************)
EXTENDS PollWake, FiniteSetTheorems, SequenceTheorems, TLAPS

Units   == [w : 0..2, i : Nat, part : {"whole", "head", "tail"}, fd : BOOLEAN, bad : BOOLEAN]
Records == [w : 0..2, i : Nat, bad : BOOLEAN, fdGot : {-1, 0, 1}, intact : BOOLEAN]
Entries == [i : Nat, fdGot : {-1, 0, 1}, intact : BOOLEAN]
Marks   == {"bad", "lost", "dup", "ge15ms", "gt1s", "fdMismatch", "pipeMax", "rxErrs"}
Hows    == {"prompt", "late", "slow"}
RxType  == [at : {"poll", "drain", "account", "finish", "done", "dead"}, next : [1..2 -> Nat],
            marks : SUBSET Marks, recv : Nat, fds : Nat, half : Seq(Units), wake : Hows,
            quit : BOOLEAN, hup : BOOLEAN]
TxType  == [at : {"send", "token", "over"}, i : Nat, left : 0..2, stuck : BOOLEAN,
            fdsSent : Nat, err : BOOLEAN]

upw_TypeOK ==
  /\ upw_case \in upw_cases /\ strict \in BOOLEAN
  /\ ring \in Seq(Units) /\ tokens \in Nat /\ peerGone \in BOOLEAN
  /\ rx \in RxType /\ (rx.at = "account" => Len(rx.half) >= 2)
  /\ log \in [1..2 -> Seq(Entries)] /\ wakes \subseteq {"sock", "pipe"} \X Hows
  /\ tx \in [1..2 -> TxType]
  /\ run \in {"join", "settle", "quit", "hup", "collect", "helpers", "close", "over"}
  /\ rxTimedOut \in BOOLEAN /\ helper \in {"running", "told", "over", "deaf"}
  /\ abandoned \in BOOLEAN /\ freed \in BOOLEAN /\ verdict \in {"none", "PASS", "FAIL"}
  /\ faults \in Nat /\ expired \in BOOLEAN

\* upw_run(): what it leaves be, and what it may free.
RunOK ==
  /\ run \in {"helpers", "close", "over"} /\ ~abandoned => rx.at \in {"done", "dead"}
  /\ freed => run = "over" /\ ~abandoned
  /\ run # "join" => \A w \in Writers : tx[w].at = "over"
  /\ verdict # "none" => run = "over" /\ helper = "over"
  /\ verdict = "PASS" => upw_ok
  /\ run \in {"close", "over"} => helper = "over"

\* The descriptors of the first n messages of a writer.
Fds(n) == Cardinality({ i \in 0..(n - 1) : hasFd(i) })
Sent(w) == IF tx[w].at = "token" THEN tx[w].i + 1 ELSE tx[w].i

SenderOK(w) ==
  /\ ~tx[w].err => tx[w].fdsSent = Fds(Sent(w))
  /\ tx[w].at # "over" => ~tx[w].err
  /\ tx[w].at = "send" => tx[w].i < perWriter
  /\ tx[w].at = "token" => tx[w].i + 1 < perWriter /\ upw_case.framed
  /\ tx[w].at = "over" => tx[w].i <= perWriter
  /\ tx[w].at = "over" /\ ~tx[w].err => tx[w].i = perWriter
  /\ tx[w].at = "over" /\ ~upw_case.framed => tx[w].left = 2 \/ tx[w].err
  /\ tx[w].at = "send" => tx[w].left \in 1..2
  /\ w \notin Writers => tx[w].i = 0 /\ tx[w].at = "send"
SendersOK == \A w \in 1..2 : SenderOK(w)

Known(u) == u.w \in Writers \/ (rxTimedOut /\ u.w = QUIT)
AllKnown(s) == \A k \in 1..Len(s) : Known(s[k])
UnitsOK == AllKnown(ring) /\ AllKnown(rx.half) /\ (upw_case.framed => rx.half = <<>>)

LogOK ==
  /\ rx.recv = Len(log[1]) + Len(log[2])
  /\ upw_case.writers = 1 => log[2] = <<>>
  /\ rx.marks \cap {"lost", "dup"} = {} =>
       \A w \in 1..2 : /\ Len(log[w]) = rx.next[w]
                       /\ \A k \in 1..Len(log[w]) : log[w][k].i = k - 1
  /\ upw_case.framed /\ "fdMismatch" \notin rx.marks =>
       \A w \in 1..2 : \A k \in 1..Len(log[w]) : (log[w][k].fdGot = 1) = hasFd(log[w][k].i)
  /\ upw_case.framed => \A w \in 1..2 : \A k \in 1..Len(log[w]) : log[w][k].intact

WakesOK ==
  /\ <<"pipe", "slow">> \in wakes => "pipeMax" \in rx.marks
  /\ <<"sock", "slow">> \in wakes =>
       "gt1s" \in rx.marks \/ (rx.wake = "slow" /\ ~upw_isComplete(rx))
  /\ <<"sock", "late">> \in wakes =>
       "ge15ms" \in rx.marks \/ (rx.wake # "prompt" /\ ~upw_isComplete(rx))

upw_IInv == upw_TypeOK /\ RunOK /\ SendersOK /\ UnitsOK /\ LogOK /\ WakesOK

--------------------------------------------------------------------------------
\* The fields that the table upw_cases gives a case, and what follows for its
\* writers.
LEMMA CaseFacts ==
  ASSUME upw_case \in upw_cases
  PROVE  /\ upw_case.framed \in BOOLEAN /\ upw_case.fork \in BOOLEAN
         /\ upw_case.wakePipe \in BOOLEAN /\ upw_case.fds \in BOOLEAN
         /\ upw_case.readinessWoken \in BOOLEAN
         /\ upw_case.writers \in 1..2
         /\ ~upw_case.framed => upw_case.writers = 1 /\ ~upw_case.fork /\ ~upw_case.wakePipe
         /\ upw_case.helpers \in {"none", "crowd", "spin"}
         /\ Writers \subseteq 1..2 /\ 1 \in Writers
         /\ Writers = {1} \/ Writers = {1, 2}
         /\ perWriter \in Nat \ {0}
         /\ \A i \in Nat : hasFd(i) \in BOOLEAN
<1>1. /\ upw_case.framed \in BOOLEAN /\ upw_case.fork \in BOOLEAN
      /\ upw_case.wakePipe \in BOOLEAN /\ upw_case.fds \in BOOLEAN
      /\ upw_case.readinessWoken \in BOOLEAN
      /\ upw_case.writers \in 1..2
      /\ ~upw_case.framed => upw_case.writers = 1 /\ ~upw_case.fork /\ ~upw_case.wakePipe
      /\ upw_case.helpers \in {"none", "crowd", "spin"}
  <2> DEFINE CaseType == [framed : BOOLEAN, fork : BOOLEAN, wakePipe : BOOLEAN, fds : BOOLEAN,
                          writers : 1..2, helpers : {"none", "crowd", "spin"},
                          readinessWoken : BOOLEAN]
  <2>1. Plain \in CaseType /\ Plain.framed /\ Plain.writers = 1 /\ ~Plain.fork /\ ~Plain.wakePipe
    BY DEF Plain
  <2>2. upw_case \in CaseType
    <3>1. /\ [Plain EXCEPT !.fork = TRUE] \in CaseType
          /\ [Plain EXCEPT !.wakePipe = TRUE] \in CaseType
          /\ [Plain EXCEPT !.fds = TRUE] \in CaseType
          /\ [Plain EXCEPT !.helpers = "crowd"] \in CaseType
      BY <2>1, Zenon
    <3>2. \A c \in CaseType : /\ [c EXCEPT !.framed = FALSE] \in CaseType
                             /\ [c EXCEPT !.fds = TRUE] \in CaseType
                             /\ [c EXCEPT !.writers = 2] \in CaseType
                             /\ [c EXCEPT !.helpers = "spin"] \in CaseType
                             /\ [c EXCEPT !.readinessWoken = FALSE] \in CaseType
      <4> TAKE c \in CaseType
      <4>1. [c EXCEPT !.framed = FALSE] \in CaseType BY Zenon
      <4>2. [c EXCEPT !.fds = TRUE] \in CaseType BY Zenon
      <4>3. [c EXCEPT !.writers = 2] \in CaseType OBVIOUS
      <4>4. [c EXCEPT !.helpers = "spin"] \in CaseType OBVIOUS
      <4>5. [c EXCEPT !.readinessWoken = FALSE] \in CaseType BY Zenon
      <4> QED BY <4>1, <4>2, <4>3, <4>4, <4>5
    <3>3. /\ [Plain EXCEPT !.framed = FALSE, !.fds = TRUE]
               = [[Plain EXCEPT !.framed = FALSE] EXCEPT !.fds = TRUE]
          /\ [Plain EXCEPT !.fds = TRUE, !.writers = 2]
               = [[Plain EXCEPT !.fds = TRUE] EXCEPT !.writers = 2]
          /\ [Plain EXCEPT !.helpers = "spin", !.readinessWoken = FALSE]
               = [[Plain EXCEPT !.helpers = "spin"] EXCEPT !.readinessWoken = FALSE]
      BY <2>1
    <3>4. /\ [Plain EXCEPT !.framed = FALSE, !.fds = TRUE] \in CaseType
          /\ [Plain EXCEPT !.fds = TRUE, !.writers = 2] \in CaseType
          /\ [Plain EXCEPT !.helpers = "spin", !.readinessWoken = FALSE] \in CaseType
      <4> HIDE DEF CaseType
      <4> QED BY <2>1, <3>2, <3>3, Zenon
    <3> HIDE DEF CaseType
    <3> QED BY <2>1, <3>1, <3>2, <3>3, <3>4, Zenon DEF upw_cases
  <2>3. \/ upw_case.framed = Plain.framed
        \/ upw_case = [Plain EXCEPT !.framed = FALSE, !.fds = TRUE]
    BY <2>1, Zenon DEF upw_cases
  <2>4. ~upw_case.framed => upw_case.writers = 1 /\ ~upw_case.fork /\ ~upw_case.wakePipe
    BY <2>1, <2>3, Zenon
  <2> QED BY <2>2, <2>4
<1>2. Writers \subseteq 1..2 /\ 1 \in Writers /\ (Writers = {1} \/ Writers = {1, 2})
  BY <1>1 DEF Writers
<1>3. perWriter \in Nat \ {0}
  BY <1>1, PollWakeAssumption DEF perWriter
<1>4. \A i \in Nat : hasFd(i) \in BOOLEAN
  BY <1>1, PollWakeAssumption DEF hasFd
<1> QED BY <1>1, <1>2, <1>3, <1>4

\* What upw_account() makes of each field.
LEMMA AccountFields ==
  ASSUME upw_case \in upw_cases, NEW r \in RxType, NEW u \in Records
  PROVE  /\ upw_account(r, u) \in RxType
         /\ upw_account(r, u).half = r.half /\ upw_account(r, u).fds = r.fds
         /\ upw_account(r, u).hup = r.hup
         /\ u.bad => upw_account(r, u) = [r EXCEPT !.marks = @ \cup {"bad"}]
         /\ ~u.bad /\ u.w = QUIT => upw_account(r, u) = [r EXCEPT !.quit = TRUE]
         /\ ~u.bad /\ u.w # QUIT =>
              /\ u.w \in 1..2
              /\ upw_account(r, u).quit = r.quit
              /\ upw_account(r, u).recv = r.recv + 1
              /\ upw_account(r, u).wake = "prompt"
              /\ upw_account(r, u).next =
                   [r.next EXCEPT ![u.w] = IF u.i >= r.next[u.w] THEN u.i + 1 ELSE r.next[u.w]]
              /\ r.marks \subseteq upw_account(r, u).marks
              /\ "bad" \in upw_account(r, u).marks => "bad" \in r.marks
              /\ "rxErrs" \in upw_account(r, u).marks => "rxErrs" \in r.marks
              /\ "pipeMax" \in upw_account(r, u).marks => "pipeMax" \in r.marks
              /\ "lost" \in upw_account(r, u).marks <=> "lost" \in r.marks \/ u.i > r.next[u.w]
              /\ "dup" \in upw_account(r, u).marks <=> "dup" \in r.marks \/ u.i < r.next[u.w]
              /\ "ge15ms" \in upw_account(r, u).marks <=> "ge15ms" \in r.marks \/ r.wake # "prompt"
              /\ "gt1s" \in upw_account(r, u).marks <=> "gt1s" \in r.marks \/ r.wake = "slow"
              /\ "fdMismatch" \in upw_account(r, u).marks <=>
                   "fdMismatch" \in r.marks \/ (u.fdGot >= 0 /\ (u.fdGot > 0) # hasFd(u.i))
<1> DEFINE a == upw_account(r, u)
<1>0. hasFd(u.i) \in BOOLEAN
  BY CaseFacts DEF Records
<1>1. CASE u.bad
  <2>1. a = [r EXCEPT !.marks = @ \cup {"bad"}]
    BY <1>1 DEF upw_account
  <2>2. a \in RxType /\ a.half = r.half /\ a.fds = r.fds /\ a.hup = r.hup
    BY <2>1 DEF RxType, Marks
  <2> QED BY <2>1, <2>2, <1>1
<1>2. CASE ~u.bad /\ u.w = QUIT
  <2>1. a = [r EXCEPT !.quit = TRUE]
    BY <1>2 DEF upw_account
  <2>2. a \in RxType /\ a.half = r.half /\ a.fds = r.fds /\ a.hup = r.hup
    BY <2>1, Zenon DEF RxType
  <2> QED BY <2>1, <2>2, <1>2
<1>3. CASE ~u.bad /\ u.w # QUIT
  <2> DEFINE nx == [r.next EXCEPT ![u.w] = IF u.i >= r.next[u.w] THEN u.i + 1 ELSE r.next[u.w]]
             mk == r.marks \cup Mark(u.i > r.next[u.w], "lost") \cup Mark(u.i < r.next[u.w], "dup")
                     \cup Mark(r.wake # "prompt", "ge15ms") \cup Mark(r.wake = "slow", "gt1s")
                     \cup Mark(u.fdGot >= 0 /\ (u.fdGot > 0) # hasFd(u.i), "fdMismatch")
  <2>1. a = [r EXCEPT !.next = nx, !.recv = r.recv + 1, !.wake = "prompt", !.marks = mk]
    BY <1>3 DEF upw_account, RxType
  <2>2. u.w \in 1..2 /\ nx \in [1..2 -> Nat]
    BY <1>3 DEF QUIT, Records, RxType
  <2>3. mk \in SUBSET Marks
    BY DEF RxType, Marks, Mark
  <2>4. /\ a.next = nx /\ a.recv = r.recv + 1 /\ a.wake = "prompt" /\ a.marks = mk
        /\ a.half = r.half /\ a.fds = r.fds /\ a.hup = r.hup /\ a.quit = r.quit /\ a.at = r.at
    BY <2>1 DEF RxType
  <2>5. a \in RxType
    <3> HIDE DEF nx, mk, a
    <3>1. a = [at |-> r.at, next |-> nx, marks |-> mk, recv |-> r.recv + 1, fds |-> r.fds,
               half |-> r.half, wake |-> "prompt", quit |-> r.quit, hup |-> r.hup]
      BY <2>1, Zenon DEF RxType
    <3> QED BY <3>1, <2>2, <2>3 DEF RxType, Hows
  <2>6. /\ r.marks \subseteq mk
        /\ "bad" \in mk => "bad" \in r.marks
        /\ "rxErrs" \in mk => "rxErrs" \in r.marks
        /\ "pipeMax" \in mk => "pipeMax" \in r.marks
        /\ "lost" \in mk <=> "lost" \in r.marks \/ u.i > r.next[u.w]
        /\ "dup" \in mk <=> "dup" \in r.marks \/ u.i < r.next[u.w]
        /\ "ge15ms" \in mk <=> "ge15ms" \in r.marks \/ r.wake # "prompt"
        /\ "gt1s" \in mk <=> "gt1s" \in r.marks \/ r.wake = "slow"
        /\ "fdMismatch" \in mk <=>
             "fdMismatch" \in r.marks \/ (u.fdGot >= 0 /\ (u.fdGot > 0) # hasFd(u.i))
    BY DEF Mark
  <2> HIDE DEF nx, mk, a
  <2>7. nx = [r.next EXCEPT ![u.w] = IF u.i >= r.next[u.w] THEN u.i + 1 ELSE r.next[u.w]]
    BY DEF nx
  <2>8. /\ a \in RxType /\ a.half = r.half /\ a.fds = r.fds /\ a.hup = r.hup
    BY <2>4, <2>5
  <2> QED BY <1>3, <2>2, <2>4, <2>6, <2>7, <2>8 DEF a
<1> QED BY <1>1, <1>2, <1>3 DEF Records

\* Where the receiver goes on is all that GoOn() changes.
LEMMA GoOnFields ==
  ASSUME upw_case \in upw_cases, NEW r \in RxType
  PROVE  /\ GoOn(r) \in RxType
         /\ GoOn(r).at \in {"account", "poll", "drain"}
         /\ GoOn(r).at = "account" <=> Len(r.half) >= 2
         /\ GoOn(r).next = r.next /\ GoOn(r).marks = r.marks /\ GoOn(r).recv = r.recv
         /\ GoOn(r).fds = r.fds /\ GoOn(r).half = r.half /\ GoOn(r).wake = r.wake
         /\ GoOn(r).quit = r.quit /\ GoOn(r).hup = r.hup
  BY DEF GoOn, RxType

\* The parts of a sequence.
LEMMA SubSeqFacts ==
  ASSUME NEW S, NEW s \in Seq(S), NEW m \in 1..(Len(s) + 1), NEW n \in (m - 1)..Len(s)
  PROVE  /\ SubSeq(s, m, n) \in Seq(S) /\ Len(SubSeq(s, m, n)) = n - m + 1
         /\ \A k \in 1..(n - m + 1) : SubSeq(s, m, n)[k] = s[m + k - 1]
<1>1. \A k \in m..n : s[k] \in S
  OBVIOUS
<1> QED BY <1>1, SubSeqProperties

\* The parts of a pair.
LEMMA Halves == ASSUME NEW S, NEW a \in S, NEW b \in S
  PROVE /\ SubSeq(<<a, b>>, 1, 2) = <<a, b>> /\ SubSeq(<<a, b>>, 1, 1) = <<a>>
        /\ SubSeq(<<a, b>>, 2, 2) = <<b>> /\ SubSeq(<<a>>, 1, 1) = <<a>>
<1>1. /\ <<a, b>> \in Seq(S) /\ Len(<<a, b>>) = 2 /\ <<a, b>>[1] = a /\ <<a, b>>[2] = b
      /\ <<a>> \in Seq(S) /\ Len(<<a>>) = 1 /\ <<a>>[1] = a
  OBVIOUS
<1>2. SubSeq(<<a, b>>, 1, 2) = <<a, b>> /\ SubSeq(<<a>>, 1, 1) = <<a>>
  BY <1>1, SubSeqFull, Zenon
<1>3. \A s \in Seq(S) : Len(s) = 1 => s = <<s[1]>>
  OBVIOUS
<1>4. /\ SubSeq(<<a, b>>, 1, 1) \in Seq(S) /\ Len(SubSeq(<<a, b>>, 1, 1)) = 1
      /\ SubSeq(<<a, b>>, 1, 1)[1] = a
  BY <1>1, SubSeqFacts
<1>5. /\ SubSeq(<<a, b>>, 2, 2) \in Seq(S) /\ Len(SubSeq(<<a, b>>, 2, 2)) = 1
      /\ SubSeq(<<a, b>>, 2, 2)[1] = b
  BY <1>1, SubSeqFacts
<1> QED BY <1>2, <1>3, <1>4, <1>5, Zenon


\* What sendmsg() takes: a frame, or a part of the halves that are left.
TakenIs(w) ==
  /\ w \in 1..2 /\ tx[w] \in TxType
  /\ Taken(w) \in Seq(Units) /\ Len(Taken(w)) \in 1..2
  /\ upw_case.framed => Taken(w) = <<Unit(w, tx[w].i, "whole", hasFd(tx[w].i))>>
  /\ ~upw_case.framed =>
       /\ Len(Taken(w)) <= tx[w].left
       /\ tx[w].left = 2 => Taken(w)[1] = Unit(w, tx[w].i, "head", hasFd(tx[w].i))
       /\ tx[w].left = 1 => Taken(w)[1] = Unit(w, tx[w].i, "tail", FALSE)
       /\ Len(Taken(w)) = 2 =>
            tx[w].left = 2 /\ Taken(w)[2] = Unit(w, tx[w].i, "tail", FALSE)

\* sendmsg() takes a whole frame, or at least one half of a stream message.
LEMMA TakenFacts ==
  ASSUME upw_TypeOK, SendersOK, NEW w \in Writers, tx[w].at = "send", Len(ring) < Room
  PROVE  TakenIs(w)
<1> DEFINE i == tx[w].i
           h == Unit(w, i, "head", hasFd(i))
           t == Unit(w, i, "tail", FALSE)
           f == Unit(w, i, "whole", hasFd(i))
<1>1. w \in 1..2 /\ tx[w] \in TxType /\ i \in Nat /\ tx[w].left \in 1..2
  BY CaseFacts DEF upw_TypeOK, SendersOK, SenderOK, TxType
<1>2. h \in Units /\ t \in Units /\ f \in Units
  <2>1. hasFd(i) \in BOOLEAN
    BY <1>1, CaseFacts DEF upw_TypeOK
  <2> QED BY <1>1, <2>1 DEF Unit, Units
<1> HIDE DEF h, t, f
<1>3. CASE upw_case.framed
  <2>1. Taken(w) = <<f>>
    BY <1>3 DEF Taken, f
  <2> QED BY <1>1, <1>2, <1>3, <2>1 DEF f, TakenIs
<1>4. CASE ~upw_case.framed
  <2> DEFINE rest == SubSeq(<<h, t>>, 3 - tx[w].left, 2)
             n == IF Room - Len(ring) < Len(rest) THEN Room - Len(ring) ELSE Len(rest)
  <2>1. Taken(w) = SubSeq(rest, 1, n)
    BY <1>4, Zenon DEF Taken, h, t
  <2>2. Len(ring) \in Nat /\ Room \in Nat
    BY PollWakeAssumption DEF upw_TypeOK
  <2>3. CASE tx[w].left = 2
    <3>1. rest = <<h, t>>
      <4>1. 3 - tx[w].left = 1
        BY <2>3
      <4> QED BY <1>2, <4>1, Halves, Zenon
    <3> HIDE DEF rest
    <3>2. n \in 1..2
      BY <2>2, <3>1
    <3> HIDE DEF n
    <3>3. CASE n = 1
      <4>1. Taken(w) = <<h>>
        BY <1>2, <2>1, <3>1, <3>3, Halves
      <4> QED BY <4>1, <1>1, <1>2, <1>4, <2>3 DEF h, TakenIs
    <3>4. CASE n = 2
      <4>1. Taken(w) = <<h, t>>
        BY <1>2, <2>1, <3>1, <3>4, Halves, Zenon
      <4>2. /\ Taken(w) \in Seq(Units) /\ Len(Taken(w)) = 2
            /\ Taken(w)[1] = h /\ Taken(w)[2] = t
        BY <4>1, <1>2
      <4> QED BY <4>2, <1>1, <1>4, <2>3 DEF h, t, TakenIs
    <3> QED BY <3>2, <3>3, <3>4
  <2>4. CASE tx[w].left = 1
    <3>1. rest = <<t>>
      <4>1. 3 - tx[w].left = 2
        BY <2>4
      <4>2. rest = SubSeq(<<h, t>>, 2, 2)
        BY <4>1, Zenon
      <4> QED BY <1>2, <4>2, Halves, Zenon
    <3> HIDE DEF rest
    <3>2. n = 1
      BY <2>2, <3>1
    <3>3. Taken(w) = <<t>>
      <4> HIDE DEF n
      <4> QED BY <1>2, <2>1, <3>1, <3>2, Halves, Zenon
    <3>4. Taken(w) \in Seq(Units) /\ Len(Taken(w)) = 1 /\ Taken(w)[1] = t
      BY <3>3, <1>2
    <3> QED BY <3>4, <1>1, <1>4, <2>4 DEF t, TakenIs
  <2> QED BY <1>1, <2>3, <2>4
<1> QED BY <1>3, <1>4

\* What upw_sendOne() makes of the sender: part of a message sent, all of it and
\* a token to follow, or on to the next.
PartSent(w) ==
  /\ ~upw_case.framed /\ tx[w].left = 2 /\ Len(Taken(w)) = 1
  /\ tx'[w] = [tx[w] EXCEPT !.left = 1]
WholeSent(w) ==
  /\ upw_case.framed \/ Len(Taken(w)) = tx[w].left
  /\ tx'[w].fdsSent = tx[w].fdsSent + IF hasFd(tx[w].i) THEN 1 ELSE 0
  /\ tx'[w].err = tx[w].err
  /\ \/ /\ upw_case.framed /\ tx[w].i + 1 < perWriter
        /\ tx'[w].at = "token" /\ tx'[w].i = tx[w].i
     \/ /\ tx'[w].at = IF tx[w].i + 1 < perWriter THEN "send" ELSE "over"
        /\ tx'[w].i = tx[w].i + 1 /\ tx'[w].left = 2

\* What going on to the next message changes in the state of a sender.
LEMMA NextMessageFields ==
  ASSUME upw_case \in upw_cases, NEW t \in TxType
  PROVE  /\ NextMessage(t) \in TxType
         /\ NextMessage(t).at = IF t.i + 1 < perWriter THEN "send" ELSE "over"
         /\ NextMessage(t).i = t.i + 1 /\ NextMessage(t).left = 2
         /\ NextMessage(t).fdsSent = t.fdsSent /\ NextMessage(t).err = t.err
<1> DEFINE at == IF t.i + 1 < perWriter THEN "send" ELSE "over"
<1>1. at \in {"send", "token", "over"}
  OBVIOUS
<1> HIDE DEF at
<1>2. PICK no \in BOOLEAN : no = FALSE
  BY Zenon
<1>3. NextMessage(t) = [t EXCEPT !.at = at, !.i = @ + 1, !.left = 2, !.stuck = no]
  BY <1>2, Zenon DEF NextMessage, at
<1>4. NextMessage(t) = [at |-> at, i |-> t.i + 1, left |-> 2, stuck |-> no,
                        fdsSent |-> t.fdsSent, err |-> t.err]
  BY <1>3, Zenon DEF TxType
<1>5. NextMessage(t) \in TxType
  BY <1>1, <1>4 DEF TxType
<1> QED BY <1>4, <1>5 DEF at

\* upw_sendOne() leaves a message half sent on a stream, or done.
LEMMA SendEffect ==
  ASSUME upw_TypeOK, SendersOK, NEW w \in Writers, upw_sendOne(w)
  PROVE  /\ tx' \in [1..2 -> TxType]
         /\ \A v \in 1..2 : v # w => tx'[v] = tx[v]
         /\ PartSent(w) \/ WholeSent(w)
<1>1. tx[w].at = "send" /\ Len(ring) < Room
  BY DEF upw_sendOne
<1>2. /\ w \in 1..2 /\ tx[w] \in TxType /\ Len(Taken(w)) \in 1..2
      /\ ~upw_case.framed => Len(Taken(w)) <= tx[w].left
      /\ upw_case \in upw_cases /\ tx \in [1..2 -> TxType] /\ tx[w].left \in 1..2
  BY <1>1, TakenFacts, Zenon DEF upw_TypeOK, SendersOK, SenderOK, TakenIs
<1>3. hasFd(tx[w].i) \in BOOLEAN
  BY <1>2, CaseFacts DEF TxType
<1> DEFINE left == IF upw_case.framed THEN 0 ELSE tx[w].left - Len(Taken(w))
           sent == [tx[w] EXCEPT !.left = left,
                                 !.fdsSent = @ + IF hasFd(tx[w].i) THEN 1 ELSE 0]
           part == [tx[w] EXCEPT !.left = left]
           due  == [sent EXCEPT !.at = "token"]
           new  == IF left > 0 THEN part ELSE IF TokenDue(w) THEN due ELSE NextMessage(sent)
<1>4. tx' = [tx EXCEPT ![w] = new]
  BY DEF upw_sendOne
<1>5. left \in 0..2
  BY <1>2
<1>6. part \in TxType
  <2> HIDE DEF left
  <2> QED BY <1>2, <1>5 DEF TxType
<1>7. sent \in TxType /\ sent.at = "send" /\ sent.i = tx[w].i /\ sent.err = tx[w].err
      /\ sent.fdsSent = tx[w].fdsSent + IF hasFd(tx[w].i) THEN 1 ELSE 0
  <2> DEFINE more == IF hasFd(tx[w].i) THEN 1 ELSE 0
  <2>1. more \in Nat
    OBVIOUS
  <2>2. sent = [tx[w] EXCEPT !.left = left, !.fdsSent = @ + more]
    OBVIOUS
  <2> HIDE DEF left, more, sent
  <2>3. sent = [at |-> tx[w].at, i |-> tx[w].i, left |-> left, stuck |-> tx[w].stuck,
                fdsSent |-> tx[w].fdsSent + more, err |-> tx[w].err]
    BY <1>2, <2>2, Zenon DEF TxType
  <2>4. sent \in TxType
    BY <1>2, <1>5, <2>1, <2>3 DEF TxType
  <2> QED BY <2>3, <2>4, <1>1 DEF more
<1> HIDE DEF sent
<1>8. due \in TxType /\ due.at = "token" /\ due.i = tx[w].i /\ due.err = tx[w].err
      /\ due.fdsSent = tx[w].fdsSent + IF hasFd(tx[w].i) THEN 1 ELSE 0
  BY <1>7 DEF TxType
<1>9. /\ NextMessage(sent) \in TxType
      /\ NextMessage(sent).at = IF tx[w].i + 1 < perWriter THEN "send" ELSE "over"
      /\ NextMessage(sent).i = tx[w].i + 1 /\ NextMessage(sent).left = 2
      /\ NextMessage(sent).fdsSent = tx[w].fdsSent + IF hasFd(tx[w].i) THEN 1 ELSE 0
      /\ NextMessage(sent).err = tx[w].err
  BY <1>2, <1>7, NextMessageFields
<1>10. new \in TxType
  <2> HIDE DEF left, part, due
  <2> QED BY <1>6, <1>8, <1>9
<1>11. tx' \in [1..2 -> TxType] /\ tx'[w] = new /\ \A v \in 1..2 : v # w => tx'[v] = tx[v]
  <2> HIDE DEF new
  <2> QED BY <1>2, <1>4, <1>10
<1>12. CASE left > 0
  <2>1. ~upw_case.framed /\ tx[w].left = 2 /\ Len(Taken(w)) = 1 /\ left = 1
    <3>1. ~upw_case.framed
      BY <1>12
    <3>2. PICK m \in 1..2, n \in 1..2 : m = tx[w].left /\ n = Len(Taken(w))
      BY <1>2
    <3>3. left = m - n
      BY <3>1, <3>2
    <3> HIDE DEF left
    <3>4. m = 2 /\ n = 1 /\ left = 1
      BY <1>12, <3>3
    <3> QED BY <3>1, <3>2, <3>4
  <2>2. tx'[w] = [tx[w] EXCEPT !.left = 1]
    <3> HIDE DEF left
    <3> QED BY <1>11, <1>12, <2>1
  <2> QED BY <1>11, <2>1, <2>2 DEF PartSent
<1>13. CASE ~(left > 0)
  <2>1. upw_case.framed \/ Len(Taken(w)) = tx[w].left
    BY <1>2, <1>13
  <2>2. TokenDue(w) => upw_case.framed /\ tx[w].i + 1 < perWriter
    BY <1>2, CaseFacts DEF TokenDue
  <2>3. tx'[w] = IF TokenDue(w) THEN due ELSE NextMessage(sent)
    <3> HIDE DEF left
    <3> QED BY <1>11, <1>13
  <2> HIDE DEF left, new, due
  <2> QED BY <1>8, <1>9, <1>11, <2>1, <2>2, <2>3 DEF WholeSent
<1> QED BY <1>12, <1>13

\* The records that the receiver makes of units, and the log of them.
LEMMA RecordFacts ==
  ASSUME NEW u \in Units, NEW v \in Units
  PROVE  /\ Frame(u) \in Records /\ Frame(u).w = u.w /\ Frame(u).i = u.i /\ Frame(u).bad = u.bad
         /\ Frame(u).fdGot = (IF u.fd THEN 1 ELSE 0) /\ Frame(u).intact
         /\ Pair(u, v) \in Records /\ Pair(u, v).w = u.w /\ Pair(u, v).i = u.i
         /\ Pair(u, v).bad = (u.bad \/ u.part # "head") /\ Pair(u, v).fdGot = -1
         /\ Pair(u, v).intact = (v.part = "tail" /\ v.w = u.w /\ v.i = u.i)
<1>1. PICK yes \in BOOLEAN : yes = TRUE
  BY Zenon
<1>2. Frame(u) = [w |-> u.w, i |-> u.i, bad |-> u.bad, fdGot |-> IF u.fd THEN 1 ELSE 0,
                  intact |-> yes]
  BY <1>1 DEF Frame
<1>3. Frame(u) \in Records
  BY <1>2 DEF Records, Units
<1>4. PICK b \in BOOLEAN : b = (u.bad \/ u.part # "head")
  BY Zenon
<1>5. PICK c \in BOOLEAN : c = (v.part = "tail" /\ v.w = u.w /\ v.i = u.i)
  BY Zenon
<1>6. Pair(u, v) = [w |-> u.w, i |-> u.i, bad |-> b, fdGot |-> -1, intact |-> c]
  BY <1>4, <1>5 DEF Pair
<1>7. Pair(u, v) \in Records
  BY <1>6 DEF Records, Units
<1> QED BY <1>1, <1>2, <1>3, <1>4, <1>5, <1>6, <1>7

Entry(u) == [i |-> u.i, fdGot |-> u.fdGot, intact |-> u.intact]

\* The log gains the record that was taken, and no other.
LEMMA LoggedFacts ==
  ASSUME log \in [1..2 -> Seq(Entries)], NEW u \in Records
  PROVE  /\ Logged(u) \in [1..2 -> Seq(Entries)] /\ Entry(u) \in Entries
         /\ u.bad \/ u.w = QUIT => Logged(u) = log
         /\ ~(u.bad \/ u.w = QUIT) =>
              /\ u.w \in 1..2
              /\ Logged(u)[u.w] = Append(log[u.w], Entry(u))
              /\ \A v \in 1..2 : v # u.w => Logged(u)[v] = log[v]
<1>1. Entry(u) \in Entries
  BY DEF Entry, Entries, Records
<1>2. CASE u.bad \/ u.w = QUIT
  BY <1>1, <1>2 DEF Logged
<1>3. CASE ~(u.bad \/ u.w = QUIT)
  <2>1. u.w \in 1..2
    BY <1>3 DEF Records, QUIT
  <2>2. Logged(u) = [log EXCEPT ![u.w] = Append(@, Entry(u))]
    BY <1>3 DEF Logged, Entry
  <2>3. Append(log[u.w], Entry(u)) \in Seq(Entries)
    BY <1>1, <2>1
  <2> HIDE DEF Entry
  <2> QED BY <1>1, <1>3, <2>1, <2>2, <2>3
<1> QED BY <1>2, <1>3

\* The four things that may befall a queue s.
Removed(s, t, k) ==
  /\ Len(t) = Len(s) - 1
  /\ \A j \in 1..Len(t) : t[j] = IF j < k THEN s[j] ELSE s[j + 1]
Inserted(s, t, k) ==
  /\ Len(t) = Len(s) + 1
  /\ \A j \in 1..Len(t) : t[j] = IF j <= k THEN s[j] ELSE s[j - 1]
Flagged(s, t) ==
  /\ Len(t) = Len(s)
  /\ \A j \in 1..Len(t) : t[j].w = s[j].w /\ t[j].i = s[j].i /\ t[j].part = s[j].part
Swapped(s, t, k) ==
  /\ Len(t) = Len(s) /\ k < Len(s)
  /\ \A j \in 1..Len(t) : t[j] = IF j = k THEN s[k + 1] ELSE IF j = k + 1 THEN s[k] ELSE s[j]

\* A fault of the kernel takes a unit out, puts one in twice, flips a flag of
\* one or swaps two.
LEMMA SpoilFacts ==
  ASSUME NEW s \in Seq(Units), NEW t \in Spoil(s)
  PROVE  /\ t \in Seq(Units)
         /\ \E k \in 1..Len(s) :
              Removed(s, t, k) \/ Inserted(s, t, k) \/ Flagged(s, t) \/ Swapped(s, t, k)
<1>1. CASE \E k \in 1..Len(s) : t = Without(s, k)
  <2>1. PICK k \in 1..Len(s) : t = SubSeq(s, 1, k - 1) \o SubSeq(s, k + 1, Len(s))
    BY <1>1, Zenon DEF Without
  <2> DEFINE p == SubSeq(s, 1, k - 1)
             q == SubSeq(s, k + 1, Len(s))
  <2>2. p \in Seq(Units) /\ Len(p) = k - 1 /\ \A j \in 1..(k - 1) : p[j] = s[j]
    BY SubSeqFacts
  <2>3. q \in Seq(Units) /\ Len(q) = Len(s) - k /\ \A j \in 1..(Len(s) - k) : q[j] = s[j + k]
    BY SubSeqFacts
  <2> HIDE DEF p, q
  <2>4. t = p \o q
    BY <2>1 DEF p, q
  <2>5. /\ t \in Seq(Units) /\ Len(t) = Len(s) - 1
        /\ \A j \in 1..Len(t) : t[j] = IF j <= Len(p) THEN p[j] ELSE q[j - Len(p)]
    <3>1. /\ t \in Seq(Units) /\ Len(t) = Len(p) + Len(q)
          /\ \A j \in 1..(Len(p) + Len(q)) : t[j] = IF j <= Len(p) THEN p[j] ELSE q[j - Len(p)]
      BY <2>2, <2>3, <2>4, ConcatProperties, Zenon
    <3>2. Len(p) + Len(q) = Len(s) - 1
      BY <2>2, <2>3
    <3> QED BY <3>1, <3>2
  <2>6. \A j \in 1..Len(t) : t[j] = IF j < k THEN s[j] ELSE s[j + 1]
    <3> TAKE j \in 1..Len(t)
    <3>1. CASE j < k
      BY <2>2, <2>5, <3>1
    <3>2. CASE ~(j < k)
      <4>1. j - (k - 1) \in 1..(Len(s) - k) /\ j - (k - 1) + k = j + 1
        BY <2>5, <3>2
      <4>2. q[j - (k - 1)] = s[j + 1]
        BY <2>3, <4>1
      <4> QED BY <2>2, <2>5, <3>2, <4>2
    <3> QED BY <3>1, <3>2
  <2> QED BY <2>5, <2>6 DEF Removed
<1>2. CASE \E k \in 1..Len(s) : t = Twice(s, k)
  <2>1. PICK k \in 1..Len(s) : t = SubSeq(s, 1, k) \o SubSeq(s, k, Len(s))
    BY <1>2 DEF Twice
  <2> DEFINE m == SubSeq(s, 1, k)
             q == SubSeq(s, k, Len(s))
  <2>3. /\ q \in Seq(Units) /\ Len(q) = Len(s) - k + 1
        /\ \A j \in 1..(Len(s) - k + 1) : q[j] = s[k + j - 1]
    BY SubSeqFacts
  <2>4. t = m \o q
    BY <2>1
  <2>5. m \in Seq(Units) /\ Len(m) = k /\ \A j \in 1..k : m[j] = s[j]
    BY SubSeqFacts
  <2> HIDE DEF m, q
  <2>6. /\ t \in Seq(Units) /\ Len(t) = Len(s) + 1
        /\ \A j \in 1..Len(t) : t[j] = IF j <= Len(m) THEN m[j] ELSE q[j - Len(m)]
    BY <2>3, <2>4, <2>5, ConcatProperties
  <2>7. \A j \in 1..Len(t) : t[j] = IF j <= k THEN s[j] ELSE s[j - 1]
    <3> TAKE j \in 1..Len(t)
    <3>1. CASE j <= k
      BY <2>5, <2>6, <3>1
    <3>2. CASE ~(j <= k)
      <4>1. j - k \in 1..(Len(s) - k + 1) /\ k + (j - k) - 1 = j - 1
        BY <2>6, <3>2
      <4>2. q[j - k] = s[j - 1]
        BY <2>3, <4>1
      <4> QED BY <2>5, <2>6, <3>2, <4>2
    <3> QED BY <3>1, <3>2
  <2> QED BY <2>6, <2>7 DEF Inserted
<1>3. CASE \E k \in 1..Len(s) : \/ t = [s EXCEPT ![k].bad = TRUE]
                              \/ t = [s EXCEPT ![k].fd = ~@]
  <2>1. PICK k \in 1..Len(s) : \/ t = [s EXCEPT ![k].bad = TRUE]
                               \/ t = [s EXCEPT ![k].fd = ~@]
    BY <1>3
  <2>2. s[k] \in Units
    OBVIOUS
  <2>3. PICK u \in Units : /\ t = [s EXCEPT ![k] = u]
                          /\ u.w = s[k].w /\ u.i = s[k].i /\ u.part = s[k].part
    <3>1. /\ [s[k] EXCEPT !.bad = TRUE] \in Units /\ [s[k] EXCEPT !.fd = ~@] \in Units
      BY <2>2, Zenon DEF Units
    <3>2. /\ [s[k] EXCEPT !.bad = TRUE].w = s[k].w /\ [s[k] EXCEPT !.bad = TRUE].i = s[k].i
          /\ [s[k] EXCEPT !.bad = TRUE].part = s[k].part
          /\ [s[k] EXCEPT !.fd = ~@].w = s[k].w /\ [s[k] EXCEPT !.fd = ~@].i = s[k].i
          /\ [s[k] EXCEPT !.fd = ~@].part = s[k].part
      BY <2>2 DEF Units
    <3> QED BY <2>1, <3>1, <3>2, Zenon
  <2>4. t \in Seq(Units) /\ Len(t) = Len(s)
    BY <2>3
  <2>5. \A j \in 1..Len(t) : t[j] = IF j = k THEN u ELSE s[j]
    BY <2>3, <2>4
  <2> QED BY <2>3, <2>4, <2>5 DEF Flagged
<1>4. CASE \E k \in 1..(Len(s) - 1) : t = [s EXCEPT ![k] = s[k + 1], ![k + 1] = s[k]]
  <2>1. PICK k \in 1..(Len(s) - 1) : t = [s EXCEPT ![k] = s[k + 1], ![k + 1] = s[k]]
    BY <1>4, Zenon
  <2>2. k \in 1..Len(s) /\ k + 1 \in 1..Len(s) /\ s[k] \in Units /\ s[k + 1] \in Units
    OBVIOUS
  <2>3. t \in Seq(Units) /\ Len(t) = Len(s)
    BY <2>1, <2>2
  <2>4. \A j \in 1..Len(t) : t[j] = IF j = k THEN s[k + 1] ELSE IF j = k + 1 THEN s[k] ELSE s[j]
    BY <2>1, <2>2, <2>3
  <2> QED BY <2>2, <2>3, <2>4 DEF Swapped
<1>5. \/ \E k \in 1..Len(s) : t = Without(s, k)
      \/ \E k \in 1..Len(s) : t = Twice(s, k)
      \/ \E k \in 1..Len(s) : \/ t = [s EXCEPT ![k].bad = TRUE]
                             \/ t = [s EXCEPT ![k].fd = ~@]
      \/ \E k \in 1..(Len(s) - 1) : t = [s EXCEPT ![k] = s[k + 1], ![k + 1] = s[k]]
  BY DEF Spoil
<1> QED BY <1>1, <1>2, <1>3, <1>4, <1>5

\* What a record does to the receiver's counters and to the log.
Counted(u) ==
  /\ u.w \in 1..2
  /\ rx'.quit = rx.quit /\ rx'.recv = rx.recv + 1 /\ rx'.wake = "prompt"
  /\ rx'.next = [rx.next EXCEPT ![u.w] = IF u.i >= rx.next[u.w] THEN u.i + 1 ELSE rx.next[u.w]]
  /\ rx.marks \subseteq rx'.marks
  /\ "bad" \in rx'.marks => "bad" \in rx.marks
  /\ "rxErrs" \in rx'.marks => "rxErrs" \in rx.marks
  /\ "pipeMax" \in rx'.marks => "pipeMax" \in rx.marks
  /\ "lost" \in rx'.marks <=> "lost" \in rx.marks \/ u.i > rx.next[u.w]
  /\ "dup" \in rx'.marks <=> "dup" \in rx.marks \/ u.i < rx.next[u.w]
  /\ "ge15ms" \in rx'.marks <=> "ge15ms" \in rx.marks \/ rx.wake # "prompt"
  /\ "gt1s" \in rx'.marks <=> "gt1s" \in rx.marks \/ rx.wake = "slow"
  /\ "fdMismatch" \in rx'.marks <=>
       "fdMismatch" \in rx.marks \/ (u.fdGot >= 0 /\ (u.fdGot > 0) # hasFd(u.i))
  /\ log'[u.w] = Append(log[u.w], Entry(u))
  /\ \A v \in 1..2 : v # u.w => log'[v] = log[v]
NotCounted(u) ==
  /\ rx'.next = rx.next /\ rx'.recv = rx.recv /\ rx'.wake = rx.wake /\ log' = log
  /\ IF u.bad THEN rx'.marks = rx.marks \cup {"bad"} /\ rx'.quit = rx.quit
              ELSE rx'.marks = rx.marks /\ rx'.quit = TRUE
Accounted(u) ==
  /\ rx' \in RxType /\ log' \in [1..2 -> Seq(Entries)] /\ rx'.hup = rx.hup
  /\ rx'.at \in {"account", "poll", "drain"} /\ (rx'.at = "account" <=> Len(rx'.half) >= 2)
  /\ IF u.bad \/ u.w = QUIT THEN NotCounted(u) ELSE Counted(u)

\* What upw_account() and the way on make of a record: counted, or not.
LEMMA AccountEffect ==
  ASSUME upw_case \in upw_cases, rx \in RxType, log \in [1..2 -> Seq(Entries)],
         NEW r \in RxType, NEW u \in Records,
         r.next = rx.next, r.marks = rx.marks, r.recv = rx.recv, r.wake = rx.wake,
         r.quit = rx.quit, r.hup = rx.hup,
         rx' = GoOn(upw_account(r, u)), log' = Logged(u)
  PROVE  Accounted(u) /\ rx'.half = r.half /\ rx'.fds = r.fds
<1> DEFINE a == upw_account(r, u)
<1>1. a \in RxType /\ a.half = r.half /\ a.fds = r.fds /\ a.hup = r.hup
  BY AccountFields, Zenon
<1>2. /\ rx' \in RxType
      /\ rx'.at \in {"account", "poll", "drain"} /\ (rx'.at = "account" <=> Len(a.half) >= 2)
      /\ rx'.next = a.next /\ rx'.marks = a.marks /\ rx'.recv = a.recv /\ rx'.fds = a.fds
      /\ rx'.half = a.half /\ rx'.wake = a.wake /\ rx'.quit = a.quit /\ rx'.hup = a.hup
  <2> HIDE DEF a
  <2>1. rx' = GoOn(a)
    BY DEF a
  <2> QED BY <1>1, <2>1, GoOnFields
<1>3. /\ log' \in [1..2 -> Seq(Entries)]
      /\ u.bad \/ u.w = QUIT => log' = log
      /\ ~(u.bad \/ u.w = QUIT) =>
           /\ u.w \in 1..2 /\ log'[u.w] = Append(log[u.w], Entry(u))
           /\ \A v \in 1..2 : v # u.w => log'[v] = log[v]
  BY LoggedFacts
<1>4. CASE u.bad
  <2>1. a = [r EXCEPT !.marks = @ \cup {"bad"}]
    BY <1>4 DEF upw_account
  <2>2. /\ a.marks = r.marks \cup {"bad"} /\ a.next = r.next /\ a.recv = r.recv
        /\ a.wake = r.wake /\ a.quit = r.quit
    <3> HIDE DEF a
    <3> QED BY <2>1 DEF RxType
  <2> HIDE DEF a
  <2>3. NotCounted(u)
    BY <1>2, <1>3, <1>4, <2>2 DEF NotCounted
  <2> QED BY <1>1, <1>2, <1>3, <1>4, <2>3 DEF Accounted
<1>5. CASE ~u.bad /\ u.w = QUIT
  <2>1. a = [r EXCEPT !.quit = TRUE]
    BY <1>5 DEF upw_account
  <2>2. /\ a.marks = r.marks /\ a.next = r.next /\ a.recv = r.recv
        /\ a.wake = r.wake /\ a.quit = TRUE
    <3> HIDE DEF a
    <3> QED BY <2>1 DEF RxType
  <2> HIDE DEF a
  <2>3. NotCounted(u)
    BY <1>2, <1>3, <1>5, <2>2 DEF NotCounted
  <2> QED BY <1>1, <1>2, <1>3, <1>5, <2>3 DEF Accounted
<1>6. CASE ~(u.bad \/ u.w = QUIT)
  <2>1. /\ a.quit = r.quit /\ a.recv = r.recv + 1 /\ a.wake = "prompt"
        /\ a.next = [r.next EXCEPT ![u.w] = IF u.i >= r.next[u.w] THEN u.i + 1 ELSE r.next[u.w]]
        /\ r.marks \subseteq a.marks
        /\ "bad" \in a.marks => "bad" \in r.marks
        /\ "rxErrs" \in a.marks => "rxErrs" \in r.marks
        /\ "pipeMax" \in a.marks => "pipeMax" \in r.marks
        /\ "lost" \in a.marks <=> "lost" \in r.marks \/ u.i > r.next[u.w]
        /\ "dup" \in a.marks <=> "dup" \in r.marks \/ u.i < r.next[u.w]
        /\ "ge15ms" \in a.marks <=> "ge15ms" \in r.marks \/ r.wake # "prompt"
        /\ "gt1s" \in a.marks <=> "gt1s" \in r.marks \/ r.wake = "slow"
        /\ "fdMismatch" \in a.marks <=>
             "fdMismatch" \in r.marks \/ (u.fdGot >= 0 /\ (u.fdGot > 0) # hasFd(u.i))
    BY <1>6, AccountFields, SMTT(40)
  <2> HIDE DEF a
  <2>2. Counted(u)
    BY <1>2, <1>3, <1>6, <2>1, ZenonT(40) DEF Counted
  <2> QED BY <1>1, <1>2, <1>3, <1>6, <2>2 DEF Accounted
<1> QED BY <1>4, <1>5, <1>6

\* upw_drainSocket() on a frame: it accounts for the head of the queue.
LEMMA FrameEffect ==
  ASSUME upw_TypeOK, upw_recvFrame
  PROVE  /\ ring # <<>> /\ Head(ring) \in Units /\ Frame(Head(ring)) \in Records
         /\ Accounted(Frame(Head(ring)))
         /\ rx'.half = rx.half /\ rx'.fds = rx.fds + IF Head(ring).fd THEN 1 ELSE 0
<1> DEFINE u == Frame(Head(ring))
           r == [rx EXCEPT !.fds = @ + u.fdGot]
<1>1. /\ ring \in Seq(Units) /\ ring # <<>> /\ rx \in RxType /\ upw_case \in upw_cases
      /\ log \in [1..2 -> Seq(Entries)]
  BY DEF upw_TypeOK, upw_recvFrame
<1>2. Head(ring) \in Units
  BY <1>1
<1>3. u \in Records /\ u.fdGot = (IF Head(ring).fd THEN 1 ELSE 0)
  BY <1>2, RecordFacts
<1>x. u.fdGot \in Nat
  BY <1>3
<1>4. rx' = GoOn(upw_account(r, u)) /\ log' = Logged(u)
  BY DEF upw_recvFrame
<1> HIDE DEF u
<1>5. /\ r \in RxType /\ r.next = rx.next /\ r.marks = rx.marks /\ r.recv = rx.recv
      /\ r.wake = rx.wake /\ r.quit = rx.quit /\ r.hup = rx.hup /\ r.half = rx.half
      /\ r.fds = rx.fds + u.fdGot
  <2>1. PICK n \in Nat : n = u.fdGot
    BY <1>x
  <2>2. r = [rx EXCEPT !.fds = @ + n]
    BY <2>1
  <2> HIDE DEF r
  <2>3. r = [at |-> rx.at, next |-> rx.next, marks |-> rx.marks, recv |-> rx.recv,
             fds |-> rx.fds + n, half |-> rx.half, wake |-> rx.wake, quit |-> rx.quit,
             hup |-> rx.hup]
    BY <1>1, <2>2 DEF RxType
  <2>4. r \in RxType
    BY <1>1, <2>3 DEF RxType
  <2> QED BY <2>1, <2>3, <2>4
<1> HIDE DEF r
<1>6. Accounted(u) /\ rx'.half = r.half /\ rx'.fds = r.fds
  BY <1>1, <1>3, <1>4, <1>5, AccountEffect
<1> QED BY <1>1, <1>2, <1>3, <1>5, <1>6 DEF u

\* upw_drainSocket() on a stream: it accounts for the first two halves that it
\* has buffered.
LEMMA PairEffect ==
  ASSUME upw_TypeOK, upw_nextMessage
  PROVE  /\ Len(rx.half) >= 2 /\ rx.half[1] \in Units /\ rx.half[2] \in Units
         /\ Pair(rx.half[1], rx.half[2]) \in Records
         /\ Accounted(Pair(rx.half[1], rx.half[2]))
         /\ rx'.half = SubSeq(rx.half, 3, Len(rx.half)) /\ rx'.fds = rx.fds
<1> DEFINE u == Pair(rx.half[1], rx.half[2])
           r == [rx EXCEPT !.half = LeftOver(@)]
<1>1. /\ rx \in RxType /\ upw_case \in upw_cases /\ log \in [1..2 -> Seq(Entries)]
      /\ Len(rx.half) >= 2 /\ rx.half \in Seq(Units)
  BY DEF upw_TypeOK, upw_nextMessage, RxType
<1>2. rx.half[1] \in Units /\ rx.half[2] \in Units
  BY <1>1
<1>3. u \in Records
  BY <1>2, RecordFacts
<1>4. rx' = GoOn(upw_account(r, u)) /\ log' = Logged(u)
  BY DEF upw_nextMessage
<1>5. LeftOver(rx.half) \in Seq(Units) /\ LeftOver(rx.half) = SubSeq(rx.half, 3, Len(rx.half))
  BY <1>1, SubSeqFacts DEF LeftOver
<1> HIDE DEF u
<1>6. /\ r \in RxType /\ r.next = rx.next /\ r.marks = rx.marks /\ r.recv = rx.recv
      /\ r.wake = rx.wake /\ r.quit = rx.quit /\ r.hup = rx.hup /\ r.fds = rx.fds
      /\ r.half = LeftOver(rx.half)
  BY <1>1, <1>5, Zenon DEF RxType
<1> HIDE DEF r
<1>7. Accounted(u) /\ rx'.half = r.half /\ rx'.fds = r.fds
  BY <1>1, <1>3, <1>4, <1>6, AccountEffect
<1> QED BY <1>1, <1>2, <1>3, <1>5, <1>6, <1>7 DEF u

\* The first k units move from the socket into the buffer.
TookBytes(k) ==
  /\ rx' \in RxType /\ log' = log
  /\ rx'.half = rx.half \o SubSeq(ring, 1, k) /\ ring' = SubSeq(ring, k + 1, Len(ring))
  /\ rx'.fds = rx.fds + Cardinality({ j \in 1..k : ring[j].fd })
  /\ rx'.at \in {"account", "poll", "drain"} /\ (rx'.at = "account" <=> Len(rx'.half) >= 2)
  /\ rx'.next = rx.next /\ rx'.marks = rx.marks /\ rx'.recv = rx.recv /\ rx'.wake = rx.wake
  /\ rx'.quit = rx.quit /\ rx'.hup = rx.hup

\* upw_drainSocket() on a stream: recvmsg() moves units from the queue to the
\* buffer.
LEMMA BytesEffect ==
  ASSUME upw_TypeOK, upw_recvBytes
  PROVE  \E k \in 1..Len(ring) : TookBytes(k)
<1>1. /\ ring \in Seq(Units) /\ rx \in RxType /\ upw_case \in upw_cases /\ log' = log
      /\ rx.half \in Seq(Units)
  BY DEF upw_TypeOK, upw_recvBytes, RxType
<1>2. PICK k \in 1..Len(ring) :
        /\ rx' = GoOn([rx EXCEPT !.fds = @ + Cardinality({ j \in 1..k : ring[j].fd }),
                                 !.half = @ \o SubSeq(ring, 1, k)])
        /\ ring' = SubSeq(ring, k + 1, Len(ring))
  BY Zenon DEF upw_recvBytes
<1> DEFINE n == Cardinality({ j \in 1..k : ring[j].fd })
           h == rx.half \o SubSeq(ring, 1, k)
           r == [rx EXCEPT !.fds = rx.fds + n, !.half = h]
<1>3. n \in Nat
  <2>1. IsFiniteSet(1..k)
    BY <1>1, FS_Interval
  <2>2. IsFiniteSet({ j \in 1..k : ring[j].fd })
    BY <2>1, FS_Subset
  <2> QED BY <2>2, FS_CardinalityType
<1>4. h \in Seq(Units)
  <2>1. SubSeq(ring, 1, k) \in Seq(Units)
    BY <1>1, SubSeqFacts
  <2> QED BY <1>1, <2>1
<1>5. rx' = GoOn(r)
  BY <1>2
<1> HIDE DEF n, h
<1>6. /\ r \in RxType /\ r.next = rx.next /\ r.marks = rx.marks /\ r.recv = rx.recv
      /\ r.wake = rx.wake /\ r.quit = rx.quit /\ r.hup = rx.hup /\ r.half = h
      /\ r.fds = rx.fds + n
  <2>0. r = [rx EXCEPT !.fds = rx.fds + n, !.half = h]
    OBVIOUS
  <2> HIDE DEF r
  <2>1. r = [at |-> rx.at, next |-> rx.next, marks |-> rx.marks, recv |-> rx.recv,
             fds |-> rx.fds + n, half |-> h, wake |-> rx.wake, quit |-> rx.quit,
             hup |-> rx.hup]
    BY <1>1, <2>0, Zenon DEF RxType
  <2>2. r \in RxType
    BY <1>1, <1>3, <1>4, <2>1 DEF RxType
  <2> QED BY <2>1, <2>2
<1> HIDE DEF r
<1>7. /\ rx' \in RxType /\ rx'.half = h /\ rx'.fds = rx.fds + n
      /\ rx'.at \in {"account", "poll", "drain"} /\ (rx'.at = "account" <=> Len(h) >= 2)
      /\ rx'.next = rx.next /\ rx'.marks = rx.marks /\ rx'.recv = rx.recv
      /\ rx'.wake = rx.wake /\ rx'.quit = rx.quit /\ rx'.hup = rx.hup
  BY <1>1, <1>5, <1>6, GoOnFields
<1>8. TookBytes(k)
  BY <1>1, <1>2, <1>7, Zenon DEF TookBytes, n, h
<1> QED BY <1>8

\* poll() returns with something to read.
Woken(how) ==
  /\ rx' \in RxType
  /\ rx'.at = IF "sock" \in Ready THEN "drain" ELSE "poll"
  /\ rx'.wake = IF "sock" \in Ready THEN Worse(rx.wake, how) ELSE rx.wake
  /\ rx'.marks = rx.marks \cup Mark("pipe" \in Ready /\ how = "slow", "pipeMax")
  /\ rx'.next = rx.next /\ rx'.recv = rx.recv /\ rx'.fds = rx.fds /\ rx'.half = rx.half
  /\ rx'.quit = rx.quit /\ rx'.hup = rx.hup
  /\ Ready \subseteq {"sock", "pipe"}

\* What a poll() of upw_receive() that returns changes in the receiver.
LEMMA ReceiveEffect ==
  ASSUME upw_TypeOK, NEW how \in Hows, upw_receive(how)
  PROVE  Woken(how)
<1> DEFINE at == IF "sock" \in Ready THEN "drain" ELSE "poll"
           wk == IF "sock" \in Ready THEN Worse(rx.wake, how) ELSE rx.wake
           mk == rx.marks \cup Mark("pipe" \in Ready /\ how = "slow", "pipeMax")
<1>1. rx \in RxType
  BY DEF upw_TypeOK
<1>2. wk \in Hows
  BY <1>1 DEF Worse, Hows, RxType
<1>3. mk \in SUBSET Marks
  BY <1>1 DEF Mark, Marks, RxType
<1>4. at \in {"drain", "poll"}
  OBVIOUS
<1>5. rx' = [rx EXCEPT !.at = at, !.wake = wk, !.marks = mk]
  BY <1>1 DEF upw_receive, RxType
<1> HIDE DEF at, wk, mk
<1>6. rx' = [at |-> at, next |-> rx.next, marks |-> mk, recv |-> rx.recv, fds |-> rx.fds,
             half |-> rx.half, wake |-> wk, quit |-> rx.quit, hup |-> rx.hup]
  BY <1>1, <1>5, Zenon DEF RxType
<1>7. rx' \in RxType
  BY <1>1, <1>2, <1>3, <1>4, <1>6 DEF RxType
<1>8. Ready \subseteq {"sock", "pipe"}
  BY DEF Ready, Mark
<1> QED BY <1>6, <1>7, <1>8 DEF Woken, at, wk, mk

\* The steps that only move the receiver.
Moved(at, more) ==
  /\ rx' \in RxType /\ rx'.at = at /\ rx'.marks = rx.marks \cup more
  /\ rx'.next = rx.next /\ rx'.recv = rx.recv /\ rx'.fds = rx.fds /\ rx'.half = rx.half
  /\ rx'.wake = rx.wake /\ rx'.quit = rx.quit

\* The steps of the receiver that change where it is, and a flag at most.
LEMMA MoveEffect ==
  ASSUME upw_TypeOK
  PROVE  /\ upw_drained => Moved("poll", {}) /\ rx'.hup = peerGone
         /\ upw_finish => Moved("done", {}) /\ rx'.hup = rx.hup
         /\ upw_childDies => Moved("dead", {}) /\ rx'.hup = rx.hup
         /\ upw_receiveFails => Moved("finish", {"rxErrs"}) /\ rx'.hup = rx.hup
         /\ upw_quitEnds => \/ upw_case.fork /\ Moved("dead", {}) /\ rx'.hup = rx.hup
                            \/ ~upw_case.fork /\ UNCHANGED rx
<1>1. rx \in RxType /\ peerGone \in BOOLEAN
  BY DEF upw_TypeOK
<1>2. ASSUME NEW at \in {"done", "dead"}, rx' = [rx EXCEPT !.at = at]
      PROVE  Moved(at, {}) /\ rx'.hup = rx.hup
  BY <1>1, <1>2 DEF Moved, RxType
<1>3. ASSUME upw_drained
      PROVE  Moved("poll", {}) /\ rx'.hup = peerGone
  <2>1. rx' = [rx EXCEPT !.at = "poll", !.hup = peerGone]
    BY <1>3 DEF upw_drained
  <2>2. rx' = [at |-> "poll", next |-> rx.next, marks |-> rx.marks, recv |-> rx.recv,
               fds |-> rx.fds, half |-> rx.half, wake |-> rx.wake, quit |-> rx.quit,
               hup |-> peerGone]
    BY <1>1, <2>1, Zenon DEF RxType
  <2>3. rx' \in RxType
    BY <1>1, <2>2 DEF RxType
  <2> QED BY <2>2, <2>3 DEF Moved
<1>4. ASSUME upw_receiveFails
      PROVE  Moved("finish", {"rxErrs"}) /\ rx'.hup = rx.hup
  <2> DEFINE mk == rx.marks \cup {"rxErrs"}
  <2>1. rx' = [rx EXCEPT !.at = "finish", !.marks = mk]
    BY <1>1, <1>4 DEF upw_receiveFails
  <2>2. mk \in SUBSET Marks
    BY <1>1 DEF RxType, Marks
  <2> HIDE DEF mk
  <2>3. rx' = [at |-> "finish", next |-> rx.next, marks |-> mk, recv |-> rx.recv,
               fds |-> rx.fds, half |-> rx.half, wake |-> rx.wake, quit |-> rx.quit,
               hup |-> rx.hup]
    BY <1>1, <2>1, Zenon DEF RxType
  <2>4. rx' \in RxType
    BY <1>1, <2>2, <2>3 DEF RxType
  <2> QED BY <2>3, <2>4 DEF Moved, mk
<1>5. upw_finish => Moved("done", {}) /\ rx'.hup = rx.hup
  BY <1>2 DEF upw_finish
<1>6. upw_childDies => Moved("dead", {}) /\ rx'.hup = rx.hup
  BY <1>2 DEF upw_childDies
<1>7. upw_quitEnds => \/ upw_case.fork /\ Moved("dead", {}) /\ rx'.hup = rx.hup
                      \/ ~upw_case.fork /\ UNCHANGED rx
  <2> HAVE upw_quitEnds
  <2>1. CASE upw_case.fork
    <3>1. rx' = [rx EXCEPT !.at = "dead"]
      BY <2>1 DEF upw_quitEnds
    <3>2. Moved("dead", {}) /\ rx'.hup = rx.hup
      BY <1>2, <3>1
    <3> QED BY <2>1, <3>2
  <2>2. CASE ~upw_case.fork
    BY <2>2 DEF upw_quitEnds
  <2> QED BY <2>1, <2>2
<1> QED BY <1>3, <1>4, <1>5, <1>6, <1>7

\* The steps of upw_Next, by who takes them.
SenderSteps(w) == upw_sendOne(w) \/ upw_sendBlocks(w) \/ upw_sendGivesUp(w) \/ upw_sendToken(w)
                    \/ upw_sendFails(w)
MoveSteps == upw_drained \/ upw_finish \/ upw_childDies \/ upw_receiveFails
RunSteps  == \/ upw_join \/ upw_settles \/ upw_hupEnds \/ upw_collect \/ upw_stopHelpers
             \/ upw_helperEnds \/ upw_idleSleepsOn \/ upw_check
StepKinds ==
  \/ \E w \in Writers : SenderSteps(w)
  \/ upw_recvFrame \/ upw_recvBytes \/ upw_nextMessage
  \/ \E how \in Hows : upw_receive(how) /\ faults' \in {faults, faults + 1}
                          /\ (how # "prompt" => faults' = faults + 1)
  \/ MoveSteps \/ RunSteps \/ upw_settleEnds \/ upw_quitEnds \/ upw_kernelFaults
  \/ UNCHANGED upw_vars

\* The kinds of steps that the other lemmas go through.
LEMMA NextSteps ==
  ASSUME [upw_Next]_upw_vars
  PROVE  StepKinds
<1>1. CASE \E how \in {"late", "slow"} : upw_receive(how) /\ Fault
  BY <1>1 DEF StepKinds, Hows, Fault
<1>2. CASE Receiver
  BY <1>2 DEF Receiver, upw_drainSocket, StepKinds, Hows, MoveSteps
<1>3. CASE upw_run
  BY <1>3 DEF upw_run, StepKinds, RunSteps
<1>4. CASE \E w \in Writers : upw_sendThread(w) \/ upw_sendFails(w)
  BY <1>4 DEF upw_sendThread, StepKinds, SenderSteps
<1>5. CASE upw_receiveFails \/ upw_childDies \/ upw_helperEnds \/ upw_idleSleepsOn
            \/ upw_kernelFaults
  BY <1>5 DEF StepKinds, RunSteps, MoveSteps
<1>6. CASE upw_Finished
  BY <1>6 DEF upw_Finished, StepKinds
<1>7. CASE UNCHANGED upw_vars
  BY <1>7 DEF StepKinds
<1> QED BY <1>1, <1>2, <1>3, <1>4, <1>5, <1>6, <1>7 DEF upw_Next

\* The steps of a sender other than upw_sendOne().
LEMMA TxEffect ==
  ASSUME upw_TypeOK, NEW w \in Writers, SenderSteps(w), ~upw_sendOne(w)
  PROVE  /\ w \in 1..2 /\ tx' \in [1..2 -> TxType] /\ ring' = ring
         /\ \A v \in 1..2 : v # w => tx'[v] = tx[v]
         /\ \/ /\ tx[w].at = "send" /\ tx'[w] = [tx[w] EXCEPT !.stuck = TRUE]
            \/ /\ tx[w].at \in {"send", "token"} /\ (faults' = faults + 1 \/ expired')
               /\ tx'[w].at = "over" /\ tx'[w].err = TRUE /\ tx'[w].i = tx[w].i
               /\ tx'[w].left = tx[w].left
               /\ tx'[w].fdsSent = tx[w].fdsSent
            \/ tx[w].at = "token" /\ tx'[w] = NextMessage(tx[w])
<1>1. w \in 1..2 /\ tx \in [1..2 -> TxType] /\ upw_case \in upw_cases /\ tx[w] \in TxType
  BY CaseFacts DEF upw_TypeOK
<1>2. ring' = ring
  BY DEF SenderSteps, upw_sendBlocks, upw_sendGivesUp, upw_sendToken, upw_sendFails
<1>3. CASE upw_sendBlocks(w)
  <2>1. [tx[w] EXCEPT !.stuck = TRUE] \in TxType
    BY <1>1, Zenon DEF TxType
  <2>2. tx' = [tx EXCEPT ![w] = [tx[w] EXCEPT !.stuck = TRUE]]
    BY <1>1, <1>3 DEF upw_sendBlocks
  <2>3. tx[w].at = "send"
    BY <1>3 DEF upw_sendBlocks
  <2> QED BY <1>1, <1>2, <2>1, <2>2, <2>3, Zenon
<1>4. CASE upw_sendGivesUp(w) \/ upw_sendFails(w)
  <2> DEFINE t == [[tx[w] EXCEPT !.at = "over"] EXCEPT !.err = TRUE]
  <2>1. [tx[w] EXCEPT !.at = "over"] \in TxType
    BY <1>1 DEF TxType
  <2>2. /\ t \in TxType /\ t.at = "over" /\ t.err = TRUE /\ t.i = tx[w].i /\ t.left = tx[w].left
        /\ t.fdsSent = tx[w].fdsSent
    BY <1>1, <2>1, Zenon DEF TxType
  <2>3. tx' = [tx EXCEPT ![w] = t]
    BY <1>1, <1>4, Zenon DEF upw_sendGivesUp, upw_sendFails, TxType
  <2> HIDE DEF t
  <2>4. tx[w].at \in {"send", "token"} /\ (faults' = faults + 1 \/ expired')
    BY <1>4 DEF upw_sendGivesUp, upw_sendFails, Fault
  <2> QED BY <1>1, <1>2, <2>2, <2>3, <2>4
<1>5. CASE upw_sendToken(w)
  <2>1. NextMessage(tx[w]) \in TxType
    BY <1>1, NextMessageFields
  <2>2. tx' = [tx EXCEPT ![w] = NextMessage(tx[w])] /\ tx[w].at = "token"
    BY <1>5 DEF upw_sendToken
  <2> QED BY <1>1, <1>2, <2>1, <2>2
<1> QED BY <1>3, <1>4, <1>5, Zenon DEF SenderSteps

\* The message that tells the receiver to quit comes from no writer.
LEMMA QuitFacts ==
  ASSUME upw_case \in upw_cases, ring \in Seq(Units)
  PROVE  /\ upw_sendQuit \in Seq(Units)
         /\ \A k \in 1..Len(upw_sendQuit) : upw_sendQuit[k].w = QUIT
<1>1. Quit \in Seq(Units) /\ \A k \in 1..Len(Quit) : Quit[k].w = QUIT
  <2>1. \A part \in {"whole", "head", "tail"} :
          Unit(QUIT, 0, part, FALSE) \in Units /\ Unit(QUIT, 0, part, FALSE).w = QUIT
    BY DEF Unit, Units, QUIT
  <2> DEFINE a == Unit(QUIT, 0, "whole", FALSE)
             b == Unit(QUIT, 0, "head", FALSE)
             c == Unit(QUIT, 0, "tail", FALSE)
  <2>2. a \in Units /\ b \in Units /\ c \in Units /\ a.w = QUIT /\ b.w = QUIT /\ c.w = QUIT
    BY <2>1, Zenon
  <2>3. Quit = IF upw_case.framed THEN <<a>> ELSE <<b, c>>
    BY DEF Quit
  <2> HIDE DEF a, b, c
  <2>4. CASE upw_case.framed
    BY <2>2, <2>3, <2>4
  <2>5. CASE ~upw_case.framed
    BY <2>2, <2>3, <2>5
  <2> QED BY <2>4, <2>5
<1> DEFINE n == IF Room - Len(ring) < Len(Quit) THEN Room - Len(ring) ELSE Len(Quit)
<1>2. n \in Int /\ n <= Len(Quit)
  BY <1>1, PollWakeAssumption
<1>3. upw_sendQuit = SubSeq(Quit, 1, n)
  BY DEF upw_sendQuit
<1> HIDE DEF n
<1>4. CASE n >= 0
  BY <1>1, <1>2, <1>3, <1>4, SubSeqFacts
<1>5. CASE n < 0
  <2>1. upw_sendQuit = <<>>
    BY <1>2, <1>3, <1>5, SubSeqEmpty
  <2> QED BY <2>1
<1> QED BY <1>2, <1>4, <1>5

\* The first state is of the type.
LEMMA TypeInit == upw_Init => upw_TypeOK
<1> SUFFICES ASSUME upw_Init PROVE upw_TypeOK
  OBVIOUS
<1>1. PICK no \in BOOLEAN : no = FALSE
  BY Zenon
<1>2. rx \in RxType /\ rx.at = "poll"
  <2>1. rx = [at |-> "poll", next |-> [w \in 1..2 |-> 0], marks |-> {}, recv |-> 0, fds |-> 0,
              half |-> <<>>, wake |-> "prompt", quit |-> no, hup |-> no]
    BY <1>1, Zenon DEF upw_Init
  <2> QED BY <2>1 DEF RxType, Hows
<1>3. tx \in [1..2 -> TxType]
  <2>1. [at |-> "send", i |-> 0, left |-> 2, stuck |-> no, fdsSent |-> 0, err |-> no] \in TxType
    BY DEF TxType
  <2>2. tx = [w \in 1..2 |-> [at |-> "send", i |-> 0, left |-> 2, stuck |-> no, fdsSent |-> 0,
                              err |-> no]]
    BY <1>1, Zenon DEF upw_Init
  <2> QED BY <2>1, <2>2
<1>4. log \in [1..2 -> Seq(Entries)] /\ ring \in Seq(Units)
  BY DEF upw_Init
<1>5. /\ upw_case \in upw_cases /\ strict \in BOOLEAN /\ tokens \in Nat /\ peerGone \in BOOLEAN
      /\ wakes = {} /\ run = "join" /\ rxTimedOut \in BOOLEAN /\ helper \in {"over", "running"}
      /\ abandoned \in BOOLEAN /\ freed \in BOOLEAN /\ verdict = "none"
      /\ faults \in Nat /\ expired \in BOOLEAN
  BY Zenon DEF upw_Init
<1> QED BY <1>2, <1>3, <1>4, <1>5 DEF upw_TypeOK

\* Every step keeps the type.
LEMMA TypeStep ==
  ASSUME upw_TypeOK, SendersOK, StepKinds
  PROVE  upw_TypeOK'
<1> USE DEF upw_fixed, upw_rxSide, upw_runSide
<1>0. /\ upw_case \in upw_cases /\ strict \in BOOLEAN
      /\ ring \in Seq(Units) /\ tokens \in Nat /\ peerGone \in BOOLEAN
      /\ rx \in RxType /\ (rx.at = "account" => Len(rx.half) >= 2)
      /\ log \in [1..2 -> Seq(Entries)] /\ wakes \subseteq {"sock", "pipe"} \X Hows
      /\ tx \in [1..2 -> TxType]
      /\ run \in {"join", "settle", "quit", "hup", "collect", "helpers", "close", "over"}
      /\ rxTimedOut \in BOOLEAN /\ helper \in {"running", "told", "over", "deaf"}
      /\ abandoned \in BOOLEAN /\ freed \in BOOLEAN /\ verdict \in {"none", "PASS", "FAIL"}
      /\ faults \in Nat /\ expired \in BOOLEAN
  BY DEF upw_TypeOK
<1>1. ASSUME NEW w \in Writers, upw_sendOne(w)
      PROVE  upw_TypeOK'
  <2>1. tx' \in [1..2 -> TxType]
    BY <1>1, SendEffect
  <2>2. ring' \in Seq(Units)
    <3>1. tx[w].at = "send" /\ Len(ring) < Room /\ ring' = ring \o Taken(w)
      BY <1>1 DEF upw_sendOne
    <3>2. Taken(w) \in Seq(Units)
      BY <3>1, TakenFacts, Zenon DEF TakenIs
    <3> QED BY <1>0, <3>1, <3>2
  <2> QED BY <1>0, <1>1, <2>1, <2>2 DEF upw_TypeOK, upw_sendOne
<1>2. ASSUME NEW w \in Writers, SenderSteps(w), ~upw_sendOne(w)
      PROVE  upw_TypeOK'
  <2>1. tx' \in [1..2 -> TxType] /\ ring' = ring
    BY <1>2, TxEffect, Zenon
  <2>2. tokens' \in {tokens, tokens + 1} /\ (expired' = expired \/ expired' = TRUE)
        /\ faults' \in {faults, faults + 1}
    BY <1>2 DEF SenderSteps, upw_sendBlocks, upw_sendGivesUp, upw_sendToken, upw_sendFails, Fault
  <2>3. UNCHANGED <<upw_fixed, peerGone, rx, log, wakes, upw_runSide>>
    BY <1>2 DEF SenderSteps, upw_sendBlocks, upw_sendGivesUp, upw_sendToken, upw_sendFails
  <2>4. tokens \in Nat /\ expired \in BOOLEAN /\ faults \in Nat
    BY <1>0
  <2>5. tokens' \in Nat
    BY <2>2, <2>4
  <2>6. faults' \in Nat
    BY <2>2, <2>4
  <2>7. expired' \in BOOLEAN
    BY <2>2, <2>4, Zenon
  <2> QED BY <1>0, <2>1, <2>3, <2>5, <2>6, <2>7 DEF upw_TypeOK
<1>3. CASE upw_recvFrame
  <2>1. Accounted(Frame(Head(ring)))
    BY <1>3, FrameEffect
  <2>2. ring' \in Seq(Units)
    BY <1>0, <1>3 DEF upw_recvFrame
  <2>3. rx' \in RxType /\ log' \in [1..2 -> Seq(Entries)] /\ (rx'.at = "account" => Len(rx'.half) >= 2)
    BY <2>1 DEF Accounted
  <2> QED BY <1>0, <1>3, <2>2, <2>3 DEF upw_TypeOK, upw_recvFrame
<1>4. CASE upw_recvBytes
  <2>1. PICK k \in 1..Len(ring) : TookBytes(k)
    BY <1>4, BytesEffect
  <2>2. ring' \in Seq(Units)
    BY <1>0, <2>1, SubSeqFacts DEF TookBytes
  <2>3. rx' \in RxType /\ log' = log /\ (rx'.at = "account" => Len(rx'.half) >= 2)
    BY <2>1 DEF TookBytes
  <2> QED BY <1>0, <1>4, <2>2, <2>3 DEF upw_TypeOK, upw_recvBytes
<1>5. CASE upw_nextMessage
  <2>1. Accounted(Pair(rx.half[1], rx.half[2]))
    BY <1>5, PairEffect
  <2>2. rx' \in RxType /\ log' \in [1..2 -> Seq(Entries)] /\ (rx'.at = "account" => Len(rx'.half) >= 2)
    BY <2>1 DEF Accounted
  <2> QED BY <1>0, <1>5, <2>2 DEF upw_TypeOK, upw_nextMessage
<1>6. ASSUME NEW how \in Hows, upw_receive(how), faults' \in {faults, faults + 1}
      PROVE  upw_TypeOK'
  <2>1. Woken(how)
    BY <1>6, ReceiveEffect
  <2>2. rx' \in RxType /\ rx'.at # "account" /\ Ready \subseteq {"sock", "pipe"}
    BY <2>1 DEF Woken
  <2>3. wakes' = wakes \cup (Ready \X {how}) /\ tokens' \in Nat
    BY <1>6 DEF upw_receive
  <2>4. wakes' \subseteq {"sock", "pipe"} \X Hows
    BY <1>0, <2>2, <2>3, Zenon
  <2> QED BY <1>0, <1>6, <2>2, <2>3, <2>4 DEF upw_TypeOK, upw_receive
<1>7. CASE MoveSteps
  <2>1. rx' \in RxType /\ rx'.at # "account"
    BY <1>7, MoveEffect DEF MoveSteps, Moved
  <2>2. faults' \in Nat
    BY <1>0, <1>7 DEF MoveSteps, upw_drained, upw_finish, upw_childDies, upw_receiveFails, Fault
  <2>3. UNCHANGED <<upw_fixed, ring, tokens, peerGone, log, tx, upw_runSide, wakes, expired>>
    BY <1>7 DEF MoveSteps, upw_drained, upw_finish, upw_childDies, upw_receiveFails
  <2> QED BY <1>0, <2>1, <2>2, <2>3 DEF upw_TypeOK
<1>8. CASE RunSteps
  <2>1. UNCHANGED <<upw_fixed, ring, upw_rxSide, tx, rxTimedOut, expired>>
    BY <1>8 DEF RunSteps, upw_join, upw_settles, upw_hupEnds, upw_collect, upw_stopHelpers,
                upw_helperEnds, upw_idleSleepsOn, upw_check
  <2>2. /\ run' \in {"join", "settle", "quit", "hup", "collect", "helpers", "close", "over"}
        /\ helper' \in {"running", "told", "over", "deaf"} /\ faults' \in Nat
        /\ verdict' \in {"none", "PASS", "FAIL"}
    BY <1>0, <1>8 DEF RunSteps, upw_join, upw_settles, upw_hupEnds, upw_collect, upw_stopHelpers,
                upw_helperEnds, upw_idleSleepsOn, upw_check, Fault
  <2>3. abandoned' \in BOOLEAN /\ freed' \in BOOLEAN /\ peerGone' \in BOOLEAN
    BY <1>0, <1>8, Zenon DEF RunSteps, upw_join, upw_settles, upw_hupEnds, upw_collect, upw_stopHelpers,
                upw_helperEnds, upw_idleSleepsOn, upw_check
  <2> QED BY <1>0, <2>1, <2>2, <2>3 DEF upw_TypeOK
<1>9. CASE upw_settleEnds
  <2>1. ring' = ring \o upw_sendQuit
    BY <1>9 DEF upw_settleEnds
  <2>2. upw_sendQuit \in Seq(Units)
    BY <1>0, QuitFacts
  <2>3. ring' \in Seq(Units)
    BY <1>0, <2>1, <2>2
  <2>4. expired' \in BOOLEAN
    BY <1>0, <1>9 DEF upw_settleEnds
  <2> QED BY <1>0, <1>9, <2>3, <2>4 DEF upw_TypeOK, upw_settleEnds
<1>10. CASE upw_quitEnds
  <2>1. rx' \in RxType /\ (rx'.at = "account" => Len(rx'.half) >= 2)
    BY <1>0, <1>10, MoveEffect DEF Moved
  <2>2. peerGone' \in BOOLEAN /\ run' \in {"collect", "hup"}
    BY <1>0, <1>10, Zenon DEF upw_quitEnds
  <2> QED BY <1>0, <1>10, <2>1, <2>2 DEF upw_TypeOK, upw_quitEnds
<1>11. CASE upw_kernelFaults
  <2>1. ring' \in Spoil(ring) /\ faults' \in Nat
    BY <1>0, <1>11 DEF upw_kernelFaults, Fault
  <2>2. ring' \in Seq(Units)
    BY <1>0, <2>1, SpoilFacts
  <2> QED BY <1>0, <1>11, <2>1, <2>2 DEF upw_TypeOK, upw_kernelFaults
<1>12. CASE UNCHANGED upw_vars
  BY <1>0, <1>12 DEF upw_TypeOK, upw_vars
<1> QED BY <1>1, <1>2, <1>3, <1>4, <1>5, <1>6, <1>7, <1>8, <1>9, <1>10, <1>11, <1>12
        DEF StepKinds, SenderSteps

\* The verdict's condition is a matter of these variables.
LEMMA OkUnchanged ==
  ASSUME UNCHANGED <<upw_case, strict, tx, rx, rxTimedOut, abandoned>>
  PROVE  upw_ok' = upw_ok
  BY DEF upw_ok, upw_isComplete, Writers, perWriter, Expected, Fatal, FdsSent

\* upw_run() starts with nothing freed and no verdict.
LEMMA RunInit == upw_Init => RunOK
  BY DEF upw_Init, RunOK

\* Every step keeps what upw_run() knows when it frees, and when it judges.
LEMMA RunStep ==
  ASSUME upw_TypeOK, RunOK, StepKinds
  PROVE  RunOK'
<1> USE DEF upw_fixed, upw_rxSide, upw_runSide
<1>0. /\ run \in {"helpers", "close", "over"} /\ ~abandoned => rx.at \in {"done", "dead"}
      /\ freed => run = "over" /\ ~abandoned
      /\ run # "join" => \A w \in Writers : tx[w].at = "over"
      /\ verdict # "none" => run = "over" /\ helper = "over"
      /\ verdict = "PASS" => upw_ok
      /\ run \in {"close", "over"} => helper = "over"
      /\ verdict = "PASS" => rx.at = "done" /\ ~abandoned
  BY DEF RunOK, upw_ok
<1>1. ASSUME NEW w \in Writers, SenderSteps(w)
      PROVE  RunOK'
  <2>1. tx[w].at # "over" /\ UNCHANGED <<upw_case, strict, rx, run, rxTimedOut, helper, abandoned,
                                         freed, verdict>>
    BY <1>1 DEF SenderSteps, upw_sendOne, upw_sendBlocks, upw_sendGivesUp, upw_sendToken,
                upw_sendFails
  <2>2. run = "join"
    BY <1>0, <2>1
  <2> QED BY <1>0, <2>1, <2>2 DEF RunOK
<1>2. ASSUME rx.at \notin {"done", "dead"},
             UNCHANGED <<upw_case, strict, tx, run, rxTimedOut, helper, abandoned, freed, verdict>>
      PROVE  RunOK'
  <2>1. verdict # "PASS" /\ (run \in {"helpers", "close", "over"} => abandoned)
    BY <1>0, <1>2
  <2> QED BY <1>0, <1>2, <2>1 DEF RunOK, Writers
<1>3. ASSUME UNCHANGED <<upw_case, strict, tx, rx, run, rxTimedOut, helper, abandoned, freed,
                         verdict>>
      PROVE  RunOK'
  <2>1. upw_ok' = upw_ok
    BY <1>3, OkUnchanged, SMTT(40)
  <2> QED BY <1>0, <1>3, <2>1 DEF RunOK, Writers
<1>4. CASE upw_recvFrame \/ upw_recvBytes \/ upw_nextMessage
  BY <1>2, <1>4, Zenon DEF upw_recvFrame, upw_recvBytes, upw_nextMessage
<1>5. CASE \E how \in Hows : upw_receive(how)
  BY <1>2, <1>5 DEF upw_receive
<1>6. CASE MoveSteps
  BY <1>2, <1>6 DEF MoveSteps, upw_drained, upw_finish, upw_childDies, upw_receiveFails
<1>7. CASE RunSteps
  <2>1. UNCHANGED <<upw_case, strict, rx, tx, rxTimedOut>>
    BY <1>7 DEF RunSteps, upw_join, upw_settles, upw_hupEnds, upw_collect, upw_stopHelpers,
                upw_helperEnds, upw_idleSleepsOn, upw_check
  <2>2. CASE upw_join
    BY <1>0, <2>1, <2>2 DEF upw_join, RunOK, Writers
  <2>3. CASE upw_settles \/ upw_hupEnds
    BY <1>0, <2>1, <2>3 DEF upw_settles, upw_hupEnds, RunOK, Writers
  <2>4. CASE upw_collect
    BY <1>0, <2>1, <2>4, Zenon DEF upw_collect, RunOK, Writers
  <2>5. CASE upw_stopHelpers
    BY <1>0, <2>1, <2>5 DEF upw_stopHelpers, RunOK, Writers
  <2>6. CASE upw_helperEnds \/ upw_idleSleepsOn
    <3>1. helper # "over" /\ UNCHANGED <<run, abandoned, freed, verdict>>
      BY <2>6 DEF upw_helperEnds, upw_idleSleepsOn
    <3> QED BY <1>0, <2>1, <3>1 DEF RunOK, Writers
  <2>7. CASE upw_check
    <3>1. /\ run = "close" /\ run' = "over" /\ freed' = ~abandoned /\ UNCHANGED <<helper, abandoned>>
          /\ verdict' = IF upw_ok THEN "PASS" ELSE "FAIL"
      BY <2>7 DEF upw_check
    <3>2. upw_ok' = upw_ok
      BY <2>1, <3>1, OkUnchanged
    <3> QED BY <1>0, <2>1, <3>1, <3>2, Zenon DEF RunOK, Writers
  <2> QED BY <1>7, <2>2, <2>3, <2>4, <2>5, <2>6, <2>7 DEF RunSteps
<1>8. CASE upw_settleEnds
  BY <1>0, <1>8 DEF upw_settleEnds, RunOK, Writers
<1>9. CASE upw_quitEnds
  <2>1. run = "quit" /\ run' \in {"hup", "collect"}
        /\ UNCHANGED <<upw_case, tx, helper, abandoned, freed, verdict>>
    BY <1>9 DEF upw_quitEnds
  <2> QED BY <1>0, <2>1 DEF RunOK, Writers
<1>10. CASE upw_kernelFaults
  BY <1>3, <1>10 DEF upw_kernelFaults
<1>11. CASE UNCHANGED upw_vars
  BY <1>3, <1>11 DEF upw_vars
<1> QED BY <1>1, <1>4, <1>5, <1>6, <1>7, <1>8, <1>9, <1>10, <1>11 DEF StepKinds

\* Counting the descriptors of a writer's messages one by one.
LEMMA FdsCount ==
  ASSUME upw_case \in upw_cases
  PROVE  /\ Fds(0) = 0
         /\ \A n \in Nat : /\ Fds(n) \in Nat
                          /\ Fds(n + 1) = Fds(n) + IF hasFd(n) THEN 1 ELSE 0
<1> DEFINE S(n) == { i \in 0..(n - 1) : hasFd(i) }
<1>1. \A n \in Nat : IsFiniteSet(S(n)) /\ Cardinality(S(n)) \in Nat
  <2> TAKE n \in Nat
  <2>1. IsFiniteSet(0..(n - 1))
    BY FS_Interval
  <2>2. IsFiniteSet(S(n))
    BY <2>1, FS_Subset
  <2> QED BY <2>2, FS_CardinalityType
<1>2. S(0) = {}
  OBVIOUS
<1>3. Cardinality(S(0)) = 0
  BY <1>2, FS_EmptySet
<1>4. \A n \in Nat : Cardinality(S(n + 1)) = Cardinality(S(n)) + IF hasFd(n) THEN 1 ELSE 0
  <2> TAKE n \in Nat
  <2>1. n \notin S(n)
    OBVIOUS
  <2>2. CASE hasFd(n)
    <3>1. S(n + 1) = S(n) \cup {n}
      BY <2>2
    <3> HIDE DEF S
    <3> QED BY <1>1, <2>1, <2>2, <3>1, FS_AddElement
  <2>3. CASE ~hasFd(n)
    <3>1. S(n + 1) = S(n)
      BY <2>3
    <3> HIDE DEF S
    <3> QED BY <1>1, <2>3, <3>1
  <2> QED BY <2>2, <2>3
<1> QED BY <1>1, <1>3, <1>4, Zenon DEF Fds

\* The senders start with nothing sent.
LEMMA SendersInit == upw_Init => SendersOK
<1> SUFFICES ASSUME upw_Init PROVE SendersOK
  OBVIOUS
<1>1. upw_case \in upw_cases
  BY DEF upw_Init
<1>2. \A w \in 1..2 : /\ tx[w].at = "send" /\ tx[w].i = 0 /\ tx[w].left = 2 /\ tx[w].fdsSent = 0
                        /\ tx[w].err = FALSE
  BY DEF upw_Init
<1>3. Fds(0) = 0 /\ perWriter \in Nat \ {0}
  BY <1>1, FdsCount, CaseFacts
<1> QED BY <1>2, <1>3 DEF SendersOK, SenderOK, Sent

\* Every step keeps the count of descriptors of each sender, and a sender that
\* is over without an error has sent all its messages.
LEMMA SendersStep ==
  ASSUME upw_TypeOK, SendersOK, StepKinds
  PROVE  SendersOK'
<1> USE DEF upw_fixed, upw_rxSide, upw_runSide
<1>0. /\ upw_case \in upw_cases /\ perWriter \in Nat \ {0} /\ tx \in [1..2 -> TxType]
      /\ Writers \subseteq 1..2 /\ \A v \in 1..2 : tx[v] \in TxType /\ tx[v].i \in Nat
  BY CaseFacts DEF upw_TypeOK, TxType
<1>1. \A v \in 1..2 : SenderOK(v)
  BY DEF SendersOK
<1>2. ASSUME upw_case' = upw_case
      PROVE  Writers' = Writers /\ perWriter' = perWriter
  BY <1>2 DEF Writers, perWriter
<1>3. ASSUME NEW v \in 1..2, upw_case' = upw_case, tx'[v] = tx[v]
      PROVE  SenderOK(v)'
  <2>1. Fds(Sent(v))' = Fds(Sent(v))
    BY <1>3 DEF Fds, Sent, hasFd
  <2> QED BY <1>1, <1>2, <1>3, <2>1 DEF SenderOK
<1>4. ASSUME NEW w \in Writers, SenderSteps(w)
      PROVE  SendersOK'
  <2>1. upw_case' = upw_case
    BY <1>4 DEF SenderSteps, upw_sendOne, upw_sendBlocks, upw_sendGivesUp, upw_sendToken,
                upw_sendFails
  <2>2. w \in 1..2 /\ w \in Writers' /\ \A v \in 1..2 : v # w => tx'[v] = tx[v]
    BY <1>0, <1>2, <1>4, <2>1, SendEffect, TxEffect, ZenonT(40)
  <2>3. ASSUME NEW n \in Nat PROVE Fds(n)' = Fds(n)
    BY <2>1 DEF Fds, hasFd
  <2>4. /\ tx[w] \in TxType /\ tx[w].i \in Nat /\ tx[w].left \in 0..2
        /\ tx[w].fdsSent = Fds(Sent(w)) /\ tx[w].fdsSent \in Nat /\ ~tx[w].err
    BY <1>0, <1>1, <1>4, <2>2 DEF TxType, SenderOK, SenderSteps, upw_sendOne, upw_sendBlocks,
                                  upw_sendGivesUp, upw_sendToken, upw_sendFails
  <2>5. SenderOK(w)'
    <3>1. CASE upw_sendOne(w)
      <4>1. tx[w].at = "send" /\ (PartSent(w) \/ WholeSent(w))
        BY <3>1, SendEffect, Zenon DEF upw_sendOne
      <4>2. tx[w].at = "send" /\ tx[w].i < perWriter /\ tx[w].fdsSent = Fds(tx[w].i)
        BY <1>1, <2>2, <2>4, <3>1 DEF upw_sendOne, SenderOK, Sent
      <4>3. CASE PartSent(w)
        <5>1. /\ tx'[w].at = "send" /\ tx'[w].i = tx[w].i /\ tx'[w].fdsSent = tx[w].fdsSent
              /\ tx'[w].left = 1 /\ ~tx'[w].err
          BY <2>4, <4>2, <4>3 DEF PartSent, TxType
        <5>2. Fds(Sent(w))' = Fds(tx[w].i)
          BY <2>1, <5>1 DEF Fds, hasFd, Sent
        <5> QED BY <1>2, <2>1, <2>2, <4>2, <5>1, <5>2 DEF SenderOK
      <4>4. CASE WholeSent(w)
        <5>1. tx'[w].fdsSent = Fds(tx[w].i + 1)
          BY <1>0, <2>4, <4>2, <4>4, FdsCount, Zenon DEF WholeSent
        <5>2. Sent(w)' = tx[w].i + 1
          BY <2>4, <4>4 DEF WholeSent, Sent
        <5>3. Fds(Sent(w))' = Fds(tx[w].i + 1)
          BY <2>1, <5>2 DEF Fds, hasFd
        <5>4. tx'[w].fdsSent = Fds(Sent(w))' /\ ~tx'[w].err
          BY <2>4, <4>4, <5>1, <5>3 DEF WholeSent
        <5>5. CASE /\ upw_case.framed /\ tx[w].i + 1 < perWriter
                   /\ tx'[w].at = "token" /\ tx'[w].i = tx[w].i
          BY <1>2, <2>1, <2>2, <5>4, <5>5 DEF SenderOK
        <5>6. CASE /\ tx'[w].at = IF tx[w].i + 1 < perWriter THEN "send" ELSE "over"
                   /\ tx'[w].i = tx[w].i + 1 /\ tx'[w].left = 2
          <6>1. CASE tx[w].i + 1 < perWriter
            BY <1>2, <2>1, <2>2, <5>4, <5>6, <6>1 DEF SenderOK
          <6>2. CASE ~(tx[w].i + 1 < perWriter)
            <7>1. tx[w].i + 1 = perWriter /\ tx'[w].at = "over"
              BY <1>0, <2>4, <4>2, <5>6, <6>2
            <7> QED BY <1>0, <1>2, <2>1, <2>2, <5>4, <5>6, <7>1 DEF SenderOK
          <6> QED BY <6>1, <6>2
        <5>7. \/ /\ upw_case.framed /\ tx[w].i + 1 < perWriter
                 /\ tx'[w].at = "token" /\ tx'[w].i = tx[w].i
              \/ /\ tx'[w].at = IF tx[w].i + 1 < perWriter THEN "send" ELSE "over"
                 /\ tx'[w].i = tx[w].i + 1 /\ tx'[w].left = 2
          BY <4>4 DEF WholeSent
        <5> HIDE DEF SenderOK
        <5> QED BY <5>5, <5>6, <5>7
      <4> QED BY <4>1, <4>3, <4>4
    <3>2. CASE ~upw_sendOne(w)
      <4>1. \/ /\ tx[w].at = "send" /\ tx'[w] = [tx[w] EXCEPT !.stuck = TRUE]
            \/ /\ tx[w].at \in {"send", "token"}
               /\ tx'[w].at = "over" /\ tx'[w].err = TRUE /\ tx'[w].i = tx[w].i
               /\ tx'[w].left = tx[w].left
               /\ tx'[w].fdsSent = tx[w].fdsSent
            \/ tx[w].at = "token" /\ tx'[w] = NextMessage(tx[w])
        BY <1>4, <3>2, TxEffect, Zenon
      <4>2. CASE tx[w].at = "send" /\ tx'[w] = [tx[w] EXCEPT !.stuck = TRUE]
        <5>1. /\ tx'[w].at = "send" /\ tx'[w].i = tx[w].i /\ tx'[w].fdsSent = tx[w].fdsSent
              /\ tx'[w].left = tx[w].left /\ ~tx'[w].err
          BY <2>4, <4>2 DEF TxType
        <5>2. Fds(Sent(w))' = Fds(Sent(w))
          BY <2>1, <4>2, <5>1, Zenon DEF Fds, hasFd, Sent
        <5> QED BY <1>1, <1>2, <2>1, <2>2, <4>2, <5>1, <5>2 DEF SenderOK
      <4>3. CASE /\ tx[w].at \in {"send", "token"}
                 /\ tx'[w].at = "over" /\ tx'[w].err = TRUE /\ tx'[w].i = tx[w].i
                 /\ tx'[w].left = tx[w].left
                 /\ tx'[w].fdsSent = tx[w].fdsSent
        <5>1. tx[w].i <= perWriter
          BY <1>0, <1>1, <2>2, <2>4, <4>3 DEF SenderOK
        <5> QED BY <1>2, <2>1, <2>2, <4>3, <5>1 DEF SenderOK
      <4>4. CASE tx[w].at = "token" /\ tx'[w] = NextMessage(tx[w])
        <5>1. /\ tx'[w].at = "send" /\ tx'[w].i = tx[w].i + 1 /\ tx'[w].fdsSent = tx[w].fdsSent
              /\ tx'[w].left = 2 /\ tx[w].i + 1 < perWriter /\ ~tx'[w].err
          BY <1>0, <1>1, <2>2, <2>4, <4>4, NextMessageFields DEF SenderOK
        <5>2. Fds(Sent(w))' = Fds(Sent(w))
          BY <2>1, <4>4, <5>1 DEF Fds, hasFd, Sent
        <5> QED BY <1>1, <1>2, <2>1, <2>2, <4>4, <5>1, <5>2 DEF SenderOK
      <4> QED BY <4>1, <4>2, <4>3, <4>4, Zenon
    <3> QED BY <3>1, <3>2
  <2>6. \A v \in 1..2 : SenderOK(v)'
    BY <1>3, <2>1, <2>2, <2>5
  <2> QED BY <2>6 DEF SendersOK
<1>5. ASSUME UNCHANGED <<upw_case, tx>>
      PROVE  SendersOK'
  <2>1. \A v \in 1..2 : SenderOK(v)'
    BY <1>3, <1>5, SMTT(40)
  <2> QED BY <2>1 DEF SendersOK
<1>6. CASE upw_recvFrame \/ upw_recvBytes \/ upw_nextMessage
  BY <1>5, <1>6, Zenon DEF upw_recvFrame, upw_recvBytes, upw_nextMessage
<1>7. CASE \E how \in Hows : upw_receive(how)
  BY <1>5, <1>7 DEF upw_receive
<1>8. CASE MoveSteps
  BY <1>5, <1>8 DEF MoveSteps, upw_drained, upw_finish, upw_childDies, upw_receiveFails
<1>9. CASE RunSteps
  BY <1>5, <1>9 DEF RunSteps, upw_join, upw_settles, upw_hupEnds, upw_collect, upw_stopHelpers,
                upw_helperEnds, upw_idleSleepsOn, upw_check
<1>10. CASE upw_settleEnds \/ upw_quitEnds \/ upw_kernelFaults
  BY <1>5, <1>10 DEF upw_settleEnds, upw_quitEnds, upw_kernelFaults
<1>11. CASE UNCHANGED upw_vars
  BY <1>5, <1>11 DEF upw_vars
<1> QED BY <1>4, <1>6, <1>7, <1>8, <1>9, <1>10, <1>11 DEF StepKinds

\* Every step keeps that what is queued is of a writer, or tells the receiver
\* to quit.
LEMMA UnitsStep ==
  ASSUME upw_TypeOK, SendersOK, UnitsOK, StepKinds
  PROVE  UnitsOK'
<1> USE DEF upw_fixed, upw_rxSide, upw_runSide
<1>0. /\ ring \in Seq(Units) /\ rx \in RxType /\ rx.half \in Seq(Units) /\ upw_case \in upw_cases
      /\ AllKnown(ring) /\ AllKnown(rx.half) /\ (upw_case.framed => rx.half = <<>>)
  BY DEF upw_TypeOK, UnitsOK, RxType
<1>1. ASSUME UNCHANGED <<upw_case, ring, rxTimedOut>>, rx'.half = rx.half
      PROVE  UnitsOK'
  BY <1>0, <1>1 DEF UnitsOK, AllKnown, Known, Writers
<1>2. ASSUME NEW w \in Writers, upw_sendOne(w)
      PROVE  UnitsOK'
  <2>1. /\ tx[w].at = "send" /\ Len(ring) < Room /\ ring' = ring \o Taken(w)
        /\ UNCHANGED <<upw_case, rx, rxTimedOut>>
    BY <1>2 DEF upw_sendOne
  <2>2. TakenIs(w)
    BY <2>1, TakenFacts
  <2>3. Taken(w) \in Seq(Units) /\ \A k \in 1..Len(Taken(w)) : Taken(w)[k].w = w
    <3>1. CASE upw_case.framed
      <4>1. PICK u \in {Unit(w, tx[w].i, "whole", hasFd(tx[w].i))} : Taken(w) = <<u>>
        BY <2>2, <3>1 DEF TakenIs
      <4>2. u.w = w
        BY <4>1 DEF Unit
      <4>3. Taken(w) \in Seq(Units)
        BY <2>2 DEF TakenIs
      <4> QED BY <4>1, <4>2, <4>3
    <3>2. CASE ~upw_case.framed
      <4>1. /\ Taken(w) \in Seq(Units) /\ Len(Taken(w)) \in 1..2 /\ tx[w].left \in {1, 2}
        BY <2>1, <2>2 DEF TakenIs, SendersOK, SenderOK
      <4>2. Taken(w)[1].w = w
        BY <2>2, <3>2, <4>1 DEF TakenIs, Unit
      <4>3. Len(Taken(w)) = 2 => Taken(w)[2].w = w
        BY <2>2, <3>2 DEF TakenIs, Unit
      <4> QED BY <4>1, <4>2, <4>3
    <3> QED BY <3>1, <3>2
  <2>4. Len(ring') = Len(ring) + Len(Taken(w))
        /\ \A k \in 1..Len(ring') : ring'[k] = IF k <= Len(ring) THEN ring[k] ELSE Taken(w)[k - Len(ring)]
    BY <1>0, <2>1, <2>3, ConcatProperties
  <2>5. \A k \in 1..Len(ring') : Known(ring'[k])
    <3> TAKE k \in 1..Len(ring')
    <3>1. CASE k <= Len(ring)
      BY <1>0, <2>4, <3>1 DEF AllKnown
    <3>2. CASE ~(k <= Len(ring))
      <4>1. k - Len(ring) \in 1..Len(Taken(w))
        BY <1>0, <2>3, <2>4, <3>2
      <4> QED BY <2>3, <2>4, <3>2, <4>1 DEF Known
    <3> QED BY <3>1, <3>2
  <2> QED BY <1>0, <2>1, <2>5 DEF UnitsOK, AllKnown, Known, Writers
<1>3. ASSUME NEW w \in Writers, SenderSteps(w), ~upw_sendOne(w)
      PROVE  UnitsOK'
  BY <1>1, <1>3 DEF SenderSteps, upw_sendBlocks, upw_sendGivesUp, upw_sendToken, upw_sendFails
<1>4. CASE upw_recvFrame
  <2>1. rx'.half = rx.half
    BY <1>4, FrameEffect
  <2>2. ring # <<>> /\ ring' = Tail(ring) /\ UNCHANGED <<upw_case, rxTimedOut>>
    BY <1>4 DEF upw_recvFrame
  <2>3. Len(ring') = Len(ring) - 1 /\ \A k \in 1..Len(ring') : ring'[k] = ring[k + 1]
    BY <1>0, <2>2, HeadTailProperties
  <2>4. \A k \in 1..Len(ring') : Known(ring'[k])
    BY <1>0, <2>3 DEF AllKnown
  <2> QED BY <1>0, <2>1, <2>2, <2>4 DEF UnitsOK, AllKnown, Known, Writers
<1>5. CASE upw_recvBytes
  <2>1. PICK k \in 1..Len(ring) : TookBytes(k)
    BY <1>5, BytesEffect
  <2>2. /\ rx'.half = rx.half \o SubSeq(ring, 1, k) /\ ring' = SubSeq(ring, k + 1, Len(ring))
        /\ UNCHANGED <<upw_case, rxTimedOut>> /\ ~upw_case.framed
    BY <1>5, <2>1, Zenon DEF TookBytes, upw_recvBytes
  <2> DEFINE f == SubSeq(ring, 1, k)
  <2>3. f \in Seq(Units) /\ Len(f) = k /\ \A j \in 1..k : f[j] = ring[j]
    BY <1>0, SubSeqFacts
  <2>4. Len(ring') = Len(ring) - k /\ \A j \in 1..Len(ring') : ring'[j] = ring[k + j]
    BY <1>0, <2>2, SubSeqFacts
  <2> HIDE DEF f
  <2>5. /\ Len(rx'.half) = Len(rx.half) + k
        /\ \A j \in 1..Len(rx'.half) : rx'.half[j] = IF j <= Len(rx.half) THEN rx.half[j]
                                                  ELSE f[j - Len(rx.half)]
    <3>1. rx'.half = rx.half \o f
      BY <2>2 DEF f
    <3>2. rx.half \in Seq(Units) /\ f \in Seq(Units)
      BY <1>0, <2>3
    <3>3. /\ Len(rx.half \o f) = Len(rx.half) + Len(f)
          /\ \A j \in 1..(Len(rx.half) + Len(f)) :
               (rx.half \o f)[j] = IF j <= Len(rx.half) THEN rx.half[j] ELSE f[j - Len(rx.half)]
      BY <3>2, ConcatProperties
    <3> QED BY <2>3, <3>1, <3>3
  <2>6. \A j \in 1..Len(rx'.half) : Known(rx'.half[j])
    <3> TAKE j \in 1..Len(rx'.half)
    <3>1. CASE j <= Len(rx.half)
      BY <1>0, <2>5, <3>1 DEF AllKnown
    <3>2. CASE ~(j <= Len(rx.half))
      <4>1. j - Len(rx.half) \in 1..k
        BY <1>0, <2>5, <3>2
      <4>2. j - Len(rx.half) \in 1..Len(ring)
        BY <1>0, <4>1
      <4> QED BY <1>0, <2>3, <2>5, <3>2, <4>1, <4>2, Zenon DEF AllKnown
    <3> QED BY <3>1, <3>2
  <2>7. \A j \in 1..Len(ring') : Known(ring'[j])
    BY <1>0, <2>4 DEF AllKnown
  <2> QED BY <2>2, <2>6, <2>7, SMTT(40) DEF UnitsOK, AllKnown, Known, Writers
<1>6. CASE upw_nextMessage
  <2>1. /\ Len(rx.half) >= 2 /\ rx'.half = SubSeq(rx.half, 3, Len(rx.half))
        /\ UNCHANGED <<upw_case, ring, rxTimedOut>>
    BY <1>6, PairEffect, SMTT(40) DEF upw_nextMessage
  <2>2. /\ ~upw_case.framed
    BY <1>0, <2>1
  <2>3. Len(rx'.half) = Len(rx.half) - 2 /\ \A j \in 1..Len(rx'.half) : rx'.half[j] = rx.half[j + 2]
    BY <1>0, <2>1, SubSeqFacts
  <2>4. \A j \in 1..Len(rx'.half) : Known(rx'.half[j])
    BY <1>0, <2>3 DEF AllKnown
  <2> QED BY <1>0, <2>1, <2>2, <2>4 DEF UnitsOK, AllKnown, Known, Writers
<1>7. ASSUME NEW how \in Hows, upw_receive(how)
      PROVE  UnitsOK'
  BY <1>1, <1>7, ReceiveEffect, Zenon DEF upw_receive, Woken
<1>8. CASE MoveSteps
  <2>1. rx'.half = rx.half
    BY <1>8, MoveEffect DEF MoveSteps, Moved
  <2> QED BY <1>1, <1>8, <2>1 DEF MoveSteps, upw_drained, upw_finish, upw_childDies, upw_receiveFails
<1>9. CASE RunSteps
  BY <1>1, <1>9 DEF RunSteps, upw_join, upw_settles, upw_hupEnds, upw_collect, upw_stopHelpers,
                upw_helperEnds, upw_idleSleepsOn, upw_check
<1>10. CASE upw_settleEnds
  <2>1. ring' = ring \o upw_sendQuit /\ rxTimedOut' = TRUE /\ UNCHANGED <<upw_case, rx>>
    BY <1>10 DEF upw_settleEnds
  <2>2. upw_sendQuit \in Seq(Units) /\ \A k \in 1..Len(upw_sendQuit) : upw_sendQuit[k].w = QUIT
    BY <1>0, QuitFacts
  <2>3. Len(ring') = Len(ring) + Len(upw_sendQuit)
        /\ \A k \in 1..Len(ring') : ring'[k] = IF k <= Len(ring) THEN ring[k]
                                            ELSE upw_sendQuit[k - Len(ring)]
    BY <1>0, <2>1, <2>2, ConcatProperties
  <2>4. \A k \in 1..Len(ring') : ring'[k].w \in Writers \/ ring'[k].w = QUIT
    <3> TAKE k \in 1..Len(ring')
    <3>1. CASE k <= Len(ring)
      BY <1>0, <2>3, <3>1 DEF AllKnown, Known
    <3>2. CASE ~(k <= Len(ring))
      <4>1. k - Len(ring) \in 1..Len(upw_sendQuit)
        BY <1>0, <2>2, <2>3, <3>2
      <4> QED BY <2>2, <2>3, <3>2, <4>1
    <3> QED BY <3>1, <3>2
  <2> QED BY <1>0, <2>1, <2>4 DEF UnitsOK, AllKnown, Known, Writers, QUIT
<1>11. CASE upw_quitEnds
  <2>1. rx'.half = rx.half
    BY <1>11, MoveEffect DEF Moved
  <2> QED BY <1>1, <1>11, <2>1 DEF upw_quitEnds
<1>12. CASE upw_kernelFaults
  <2>1. ring' \in Spoil(ring) /\ UNCHANGED <<upw_case, rx, rxTimedOut>>
    BY <1>12 DEF upw_kernelFaults
  <2>2. PICK k \in 1..Len(ring) :
          \/ Removed(ring, ring', k) \/ Inserted(ring, ring', k) \/ Flagged(ring, ring')
          \/ Swapped(ring, ring', k)
    BY <1>0, <2>1, SpoilFacts
  <2>3. ring' \in Seq(Units)
    BY <1>0, <2>1, SpoilFacts
  <2>4. \A j \in 1..Len(ring') : \E m \in 1..Len(ring) : ring'[j].w = ring[m].w
    <3> TAKE j \in 1..Len(ring')
    <3>1. CASE Removed(ring, ring', k)
      <4>1. j \in 1..Len(ring) /\ j + 1 \in 1..Len(ring)
        BY <1>0, <3>1 DEF Removed
      <4> QED BY <3>1, <4>1 DEF Removed
    <3>2. CASE Inserted(ring, ring', k)
      <4>1. CASE j <= k
        BY <1>0, <3>2, <4>1 DEF Inserted
      <4>2. CASE ~(j <= k)
        <5>1. j - 1 \in 1..Len(ring)
          BY <1>0, <3>2, <4>2 DEF Inserted
        <5> QED BY <3>2, <4>2, <5>1 DEF Inserted
      <4> QED BY <4>1, <4>2
    <3>3. CASE Flagged(ring, ring')
      BY <1>0, <3>3 DEF Flagged
    <3>4. CASE Swapped(ring, ring', k)
      <4>1. k + 1 \in 1..Len(ring) /\ j \in 1..Len(ring)
        BY <1>0, <3>4 DEF Swapped
      <4> QED BY <3>4, <4>1 DEF Swapped
    <3> QED BY <2>2, <3>1, <3>2, <3>3, <3>4
  <2>5. \A j \in 1..Len(ring') : Known(ring'[j])
    BY <1>0, <2>4 DEF AllKnown, Known
  <2> QED BY <1>0, <2>1, <2>5 DEF UnitsOK, AllKnown, Known, Writers
<1>13. CASE UNCHANGED upw_vars
  BY <1>1, <1>13 DEF upw_vars
<1> QED BY <1>2, <1>3, <1>4, <1>5, <1>6, <1>7, <1>8, <1>9, <1>10, <1>11, <1>12, <1>13
        DEF StepKinds, SenderSteps


\* The steps that count no message and end no poll().
Quiet ==
  /\ rx'.next = rx.next /\ rx'.recv = rx.recv /\ rx'.wake = rx.wake
  /\ rx.marks \subseteq rx'.marks /\ rx'.marks \subseteq rx.marks \cup {"rxErrs"}
  /\ UNCHANGED <<upw_case, log, wakes>>

\* The steps that touch neither the receiver nor its log.
LEMMA QuietSteps ==
  ASSUME upw_TypeOK, StepKinds,
         ~upw_recvFrame, ~upw_nextMessage, \A how \in Hows : ~upw_receive(how)
  PROVE  Quiet
<1> USE DEF upw_fixed, upw_rxSide, upw_runSide
<1>1. ASSUME UNCHANGED <<upw_case, rx, log, wakes>> PROVE Quiet
  BY <1>1 DEF Quiet
<1>2. ASSUME NEW w \in Writers, SenderSteps(w)
      PROVE  Quiet
  BY <1>1, <1>2, SMTT(40) DEF SenderSteps, upw_sendOne, upw_sendBlocks, upw_sendGivesUp, upw_sendToken,
                    upw_sendFails
<1>3. CASE upw_recvBytes
  BY <1>3, BytesEffect, Zenon DEF TookBytes, Quiet, upw_recvBytes
<1>4. CASE MoveSteps
  <2>1. UNCHANGED <<upw_case, log, wakes>>
    BY <1>4 DEF MoveSteps, upw_drained, upw_finish, upw_childDies, upw_receiveFails
  <2> QED BY <1>4, <2>1, MoveEffect DEF MoveSteps, Moved, Quiet
<1>5. CASE RunSteps
  BY <1>1, <1>5 DEF RunSteps, upw_join, upw_settles, upw_hupEnds, upw_collect, upw_stopHelpers,
                    upw_helperEnds, upw_idleSleepsOn, upw_check
<1>6. CASE upw_settleEnds \/ upw_kernelFaults
  BY <1>1, <1>6 DEF upw_settleEnds, upw_kernelFaults
<1>7. CASE upw_quitEnds
  <2>1. UNCHANGED <<upw_case, log, wakes>>
    BY <1>7 DEF upw_quitEnds
  <2> QED BY <1>7, <2>1, MoveEffect DEF Moved, Quiet
<1>8. CASE UNCHANGED upw_vars
  BY <1>1, <1>8 DEF upw_vars
<1> QED BY <1>2, <1>3, <1>4, <1>5, <1>6, <1>7, <1>8 DEF StepKinds

\* Nothing is logged at first, nobody has woken and nothing is queued.
LEMMA LogInit == upw_Init => LogOK /\ WakesOK /\ UnitsOK
<1> SUFFICES ASSUME upw_Init PROVE LogOK /\ WakesOK /\ UnitsOK
  OBVIOUS
<1>1. /\ rx.recv = 0 /\ rx.marks = {} /\ rx.half = <<>> /\ rx.next[1] = 0 /\ rx.next[2] = 0
      /\ log[1] = <<>> /\ log[2] = <<>> /\ ring = <<>> /\ wakes = {}
  BY DEF upw_Init
<1>2. \A w \in 1..2 : Len(log[w]) = 0 /\ rx.next[w] = 0
  BY <1>1
<1> QED BY <1>1, <1>2 DEF LogOK, WakesOK, UnitsOK, AllKnown

\* One more record, in the log of its writer.
LEMMA CountedLog ==
  ASSUME upw_TypeOK, LogOK, NEW u \in Records, Counted(u), u.w \in Writers, UNCHANGED upw_case,
         upw_case.framed => u.fdGot >= 0 /\ u.intact, rx'.marks \subseteq Marks
  PROVE  LogOK'
<1>0. /\ upw_case \in upw_cases /\ log \in [1..2 -> Seq(Entries)] /\ rx \in RxType
      /\ u.w \in 1..2 /\ Entry(u) \in Entries
  BY LoggedFacts DEF upw_TypeOK, Counted
<1>1. /\ log'[u.w] = Append(log[u.w], Entry(u))
      /\ \A v \in 1..2 : v # u.w => log'[v] = log[v]
  BY DEF Counted
<1>2. /\ Len(log'[u.w]) = Len(log[u.w]) + 1 /\ log'[u.w][Len(log[u.w]) + 1] = Entry(u)
      /\ \A k \in 1..Len(log[u.w]) : log'[u.w][k] = log[u.w][k]
  <2> HIDE DEF Entry
  <2> QED BY <1>0, <1>1, AppendProperties
<1>3. Entry(u).i = u.i /\ Entry(u).fdGot = u.fdGot /\ Entry(u).intact = u.intact
  BY DEF Entry
<1> HIDE DEF Entry
<1>4. \A v \in 1..2 : Len(log[v]) \in Nat
  BY <1>0
<1>5. rx'.recv = Len(log'[1]) + Len(log'[2])
  <2>1. rx.recv = Len(log[1]) + Len(log[2]) /\ rx'.recv = rx.recv + 1
    BY DEF LogOK, Counted
  <2>2. Len(log[1]) \in Nat /\ Len(log[2]) \in Nat
    BY <1>4
  <2>3. \/ Len(log'[1]) = Len(log[1]) + 1 /\ Len(log'[2]) = Len(log[2])
        \/ Len(log'[2]) = Len(log[2]) + 1 /\ Len(log'[1]) = Len(log[1])
    <3>1. CASE u.w = 1
      <4>1. log'[2] = log[2]
        BY <1>1, <3>1
      <4> QED BY <1>2, <3>1, <4>1
    <3>2. CASE u.w = 2
      <4>1. log'[1] = log[1]
        BY <1>1, <3>2
      <4> QED BY <1>2, <3>2, <4>1
    <3> QED BY <1>0, <3>1, <3>2
  <2>4. PICK a \in Nat, b \in Nat : a = Len(log[1]) /\ b = Len(log[2])
    BY <2>2
  <2>5. rx'.recv = a + b + 1
    BY <2>1, <2>4
  <2>6. CASE Len(log'[1]) = a + 1 /\ Len(log'[2]) = b
    BY <2>5, <2>6
  <2>7. CASE Len(log'[2]) = b + 1 /\ Len(log'[1]) = a
    BY <2>5, <2>7
  <2> QED BY <2>3, <2>4, <2>6, <2>7, Zenon
<1>6. upw_case'.writers = 1 => log'[2] = <<>>
  <2> SUFFICES ASSUME upw_case.writers = 1 PROVE log'[2] = <<>>
    OBVIOUS
  <2>1. u.w # 2 /\ log[2] = <<>>
    BY DEF Writers, LogOK
  <2> QED BY <1>1, <2>1
<1>7. ASSUME rx'.marks \cap {"lost", "dup"} = {}, NEW w \in 1..2
      PROVE  /\ Len(log'[w]) = rx'.next[w]
             /\ \A k \in 1..Len(log'[w]) : log'[w][k].i = k - 1
  <2>1. /\ "lost" \notin rx'.marks /\ "dup" \notin rx'.marks
    BY <1>7
  <2>2. /\ rx.marks \cap {"lost", "dup"} = {} /\ ~(u.i > rx.next[u.w]) /\ ~(u.i < rx.next[u.w])
    BY <2>1 DEF Counted
  <2>3. \A v \in 1..2 : /\ Len(log[v]) = rx.next[v]
                       /\ \A k \in 1..Len(log[v]) : log[v][k].i = k - 1
    BY <2>2 DEF LogOK
  <2>4. u.i = rx.next[u.w] /\ rx.next[u.w] \in Nat
    BY <1>0, <2>2 DEF Records, RxType
  <2>5. rx'.next = [rx.next EXCEPT ![u.w] = u.i + 1] /\ rx.next \in [1..2 -> Nat]
    BY <1>0, <2>4 DEF Counted, RxType
  <2>6. CASE w = u.w
    <3>1. Len(log'[w]) = rx'.next[w]
      <4>1. Len(log'[w]) = Len(log[u.w]) + 1
        BY <1>2, <2>6
      <4>2. Len(log[u.w]) = u.i
        BY <1>0, <2>3, <2>4
      <4>3. rx'.next[w] = u.i + 1
        BY <2>5, <2>6
      <4> QED BY <4>1, <4>2, <4>3
    <3>2. \A k \in 1..Len(log'[w]) : log'[w][k].i = k - 1
      <4> TAKE k \in 1..Len(log'[w])
      <4>1. CASE k = Len(log[u.w]) + 1
        BY <1>0, <1>2, <1>3, <1>4, <2>3, <2>4, <2>6, <4>1
      <4>2. CASE k # Len(log[u.w]) + 1
        <5>1. k \in 1..Len(log[u.w])
          BY <1>0, <1>2, <1>4, <2>6, <4>2
        <5>2. log'[w][k] = log[u.w][k]
          BY <1>2, <2>6, <5>1
        <5>3. log[u.w][k].i = k - 1
          BY <1>0, <2>3, <5>1, Zenon
        <5> QED BY <5>2, <5>3
      <4> QED BY <4>1, <4>2
    <3> QED BY <3>1, <3>2
  <2>7. CASE w # u.w
    BY <1>1, <2>3, <2>5, <2>7
  <2> QED BY <2>6, <2>7
<1>8. ASSUME upw_case.framed, "fdMismatch" \notin rx'.marks, NEW w \in 1..2,
             NEW k \in 1..Len(log'[w])
      PROVE  (log'[w][k].fdGot = 1) = hasFd(log'[w][k].i)
  <2>1. "fdMismatch" \notin rx.marks /\ ~((u.fdGot > 0) # hasFd(u.i))
    BY <1>8 DEF Counted
  <2>2. \A v \in 1..2 : \A j \in 1..Len(log[v]) : (log[v][j].fdGot = 1) = hasFd(log[v][j].i)
    BY <1>8, <2>1 DEF LogOK
  <2>3. (u.fdGot = 1) = hasFd(u.i)
    BY <1>0, <1>8, <2>1, CaseFacts DEF Records
  <2>4. CASE w = u.w
    <3>1. CASE k = Len(log[u.w]) + 1
      BY <1>2, <1>3, <2>3, <2>4, <3>1
    <3>2. CASE k # Len(log[u.w]) + 1
      <4>1. k \in 1..Len(log[u.w])
        BY <1>0, <1>2, <1>4, <1>8, <2>4, <3>2
      <4> QED BY <1>0, <1>2, <2>2, <2>4, <4>1, Zenon
    <3> QED BY <3>1, <3>2
  <2>5. CASE w # u.w
    BY <1>1, <1>8, <2>2, <2>5
  <2> QED BY <2>4, <2>5
<1>9. ASSUME upw_case.framed, NEW w \in 1..2, NEW k \in 1..Len(log'[w])
      PROVE  log'[w][k].intact
  <2>1. \A v \in 1..2 : \A j \in 1..Len(log[v]) : log[v][j].intact
    BY <1>9 DEF LogOK
  <2>2. CASE w = u.w
    <3>1. CASE k = Len(log[u.w]) + 1
      BY <1>2, <1>3, <1>9, <2>2, <3>1
    <3>2. CASE k # Len(log[u.w]) + 1
      <4>1. k \in 1..Len(log[u.w])
        BY <1>0, <1>2, <1>4, <1>9, <2>2, <3>2
      <4> QED BY <1>0, <1>2, <2>1, <2>2, <4>1
    <3> QED BY <3>1, <3>2
  <2>3. CASE w # u.w
    BY <1>1, <1>9, <2>1, <2>3
  <2> QED BY <2>2, <2>3
<1> QED BY <1>5, <1>6, <1>7, <1>8, <1>9 DEF LogOK, hasFd

\* Every step keeps the counters of the receiver true to the log.
LEMMA LogStep ==
  ASSUME upw_TypeOK, UnitsOK, LogOK, StepKinds
  PROVE  LogOK'
<1>1. ASSUME rx'.next = rx.next, rx'.recv = rx.recv, rx.marks \subseteq rx'.marks,
             UNCHANGED <<upw_case, log>>
      PROVE  LogOK'
  BY <1>1 DEF LogOK, hasFd
<1>2. ASSUME NEW u \in Records, Accounted(u), UNCHANGED upw_case, u.w \in Writers \cup {QUIT},
             upw_case.framed => u.fdGot >= 0 /\ u.intact
      PROVE  LogOK'
  <2>1. CASE u.bad \/ u.w = QUIT
    <3>1. NotCounted(u)
      BY <1>2, <2>1 DEF Accounted
    <3> QED BY <1>1, <1>2, <3>1 DEF NotCounted
  <2>2. CASE ~(u.bad \/ u.w = QUIT)
    <3>1. Counted(u) /\ rx'.marks \subseteq Marks
      BY <1>2, <2>2 DEF Accounted, RxType
    <3> QED BY <1>2, <2>2, <3>1, CountedLog
  <2> QED BY <2>1, <2>2
<1>3. CASE upw_recvFrame
  <2> DEFINE u == Frame(Head(ring))
  <2>1. Accounted(u) /\ u \in Records /\ Head(ring) \in Units /\ ring # <<>>
    BY <1>3, FrameEffect
  <2>2. u.w = Head(ring).w /\ u.fdGot >= 0 /\ u.intact
    BY <2>1, RecordFacts
  <2>3. Head(ring).w \in Writers \cup {QUIT}
    <3>1. ring \in Seq(Units) /\ 1 \in 1..Len(ring) /\ Head(ring) = ring[1]
      BY <2>1 DEF upw_TypeOK
    <3> QED BY <3>1 DEF UnitsOK, AllKnown, Known
  <2>4. UNCHANGED upw_case
    BY <1>3 DEF upw_recvFrame, upw_fixed
  <2> HIDE DEF u
  <2> QED BY <1>2, <2>1, <2>2, <2>3, <2>4
<1>4. CASE upw_nextMessage
  <2> DEFINE u == Pair(rx.half[1], rx.half[2])
  <2>1. /\ Accounted(u) /\ u \in Records /\ Len(rx.half) >= 2
        /\ rx.half[1] \in Units /\ rx.half[2] \in Units
    BY <1>4, PairEffect
  <2>2. u.w = rx.half[1].w
    BY <2>1, RecordFacts
  <2>3. rx.half[1].w \in Writers \cup {QUIT} /\ ~upw_case.framed
    <3>1. 1 \in 1..Len(rx.half)
      BY <2>1 DEF upw_TypeOK, RxType
    <3> QED BY <2>1, <3>1 DEF UnitsOK, AllKnown, Known
  <2>4. UNCHANGED upw_case
    BY <1>4 DEF upw_nextMessage, upw_fixed
  <2> HIDE DEF u
  <2> QED BY <1>2, <2>1, <2>2, <2>3, <2>4
<1>5. ASSUME NEW how \in Hows, upw_receive(how)
      PROVE  LogOK'
  <2>1. UNCHANGED <<upw_case, log>>
    BY <1>5 DEF upw_receive, upw_fixed
  <2> QED BY <1>1, <1>5, <2>1, ReceiveEffect DEF Woken
<1>6. CASE Quiet
  BY <1>1, <1>6 DEF Quiet
<1> QED BY <1>3, <1>4, <1>5, <1>6, QuietSteps

\* A late wake leaves a mark, at the latest with the next record.
LEMMA WakesStep ==
  ASSUME upw_TypeOK, WakesOK, StepKinds
  PROVE  WakesOK'
<1>0. rx \in RxType
  BY DEF upw_TypeOK
<1>1. ASSUME rx'.next = rx.next, rx'.wake = rx.wake, rx.marks \subseteq rx'.marks,
             UNCHANGED <<upw_case, wakes>>
      PROVE  WakesOK'
  <2>1. upw_isComplete(rx)' = upw_isComplete(rx)
    BY <1>1 DEF upw_isComplete, Writers, perWriter
  <2> QED BY <1>1, <2>1 DEF WakesOK
<1>2. ASSUME NEW u \in Records, Accounted(u), UNCHANGED <<upw_case, wakes>>
      PROVE  WakesOK'
  <2>1. CASE u.bad \/ u.w = QUIT
    <3>1. NotCounted(u)
      BY <1>2, <2>1 DEF Accounted
    <3> QED BY <1>1, <1>2, <3>1 DEF NotCounted
  <2>2. CASE ~(u.bad \/ u.w = QUIT)
    <3>1. Counted(u)
      BY <1>2, <2>2 DEF Accounted
    <3>2. /\ rx.marks \subseteq rx'.marks
          /\ rx.wake # "prompt" => "ge15ms" \in rx'.marks
          /\ rx.wake = "slow" => "gt1s" \in rx'.marks
      BY <3>1 DEF Counted
    <3> QED BY <1>2, <3>2 DEF WakesOK
  <2> QED BY <2>1, <2>2
<1>3. CASE upw_recvFrame
  <2>1. UNCHANGED <<upw_case, wakes>>
    BY <1>3 DEF upw_recvFrame, upw_fixed
  <2> QED BY <1>2, <1>3, <2>1, FrameEffect
<1>4. CASE upw_nextMessage
  <2>1. UNCHANGED <<upw_case, wakes>>
    BY <1>4 DEF upw_nextMessage, upw_fixed
  <2> QED BY <1>2, <1>4, <2>1, PairEffect
<1>5. ASSUME NEW how \in Hows, upw_receive(how)
      PROVE  WakesOK'
  <2>1. /\ UNCHANGED upw_case /\ ~upw_isComplete(rx)
        /\ wakes' = wakes \cup (Ready \X {how})
    BY <1>5 DEF upw_receive, upw_fixed, LoopEnds
  <2>2. Woken(how)
    BY <1>5, ReceiveEffect
  <2>3. ~upw_isComplete(rx)'
    BY <2>1, <2>2 DEF Woken, upw_isComplete, Writers, perWriter
  <2>4. /\ rx.marks \subseteq rx'.marks
        /\ "pipe" \in Ready /\ how = "slow" => "pipeMax" \in rx'.marks
    BY <2>2 DEF Woken, Mark
  <2>5. /\ rx.wake = "slow" => rx'.wake = "slow"
        /\ rx.wake # "prompt" => rx'.wake # "prompt"
        /\ "sock" \in Ready /\ how = "slow" => rx'.wake = "slow"
        /\ "sock" \in Ready /\ how = "late" => rx'.wake # "prompt"
    BY <1>0, <2>2 DEF Woken, Worse, RxType, Hows
  <2>6. /\ <<"pipe", "slow">> \in wakes' => <<"pipe", "slow">> \in wakes \/ ("pipe" \in Ready /\ how = "slow")
        /\ <<"sock", "slow">> \in wakes' => <<"sock", "slow">> \in wakes \/ ("sock" \in Ready /\ how = "slow")
        /\ <<"sock", "late">> \in wakes' => <<"sock", "late">> \in wakes \/ ("sock" \in Ready /\ how = "late")
    BY <2>1
  <2> QED BY <2>3, <2>4, <2>5, <2>6 DEF WakesOK
<1>6. CASE Quiet
  BY <1>1, <1>6 DEF Quiet
<1> QED BY <1>3, <1>4, <1>5, <1>6, QuietSteps

\* The counters of the sender, the receiver and upw_run() agree with what was
\* sent, taken and freed in every state of every case, whatever the kernel does.
THEOREM upw_InductiveInvariant == upw_Spec => []upw_IInv
<1>1. upw_Init => upw_IInv
  BY TypeInit, RunInit, SendersInit, LogInit DEF upw_IInv
<1>2. upw_IInv /\ [upw_Next]_upw_vars => upw_IInv'
  <2> SUFFICES ASSUME upw_IInv, [upw_Next]_upw_vars PROVE upw_IInv'
    OBVIOUS
  <2>1. StepKinds
    BY NextSteps
  <2> QED BY <2>1, TypeStep, RunStep, SendersStep, UnitsStep, LogStep, WakesStep DEF upw_IInv
<1> QED BY <1>1, <1>2, PTL DEF upw_Spec

\* upw_run() frees rx and closes sv[1] only when the receiver is gone.
THEOREM FreedIsUnusedTheorem == upw_Spec => []FreedIsUnused
<1>1. upw_IInv => FreedIsUnused
  BY DEF upw_IInv, RunOK, FreedIsUnused
<1> QED BY <1>1, upw_InductiveInvariant, PTL
================================================================================
