-------------------------- MODULE PollWakeFaultless --------------------------
(***************************************************************************)
(* A socket case fails only on a kernel that did something wrong or after  *)
(* a timeout.  GoodInv says what a case without either is like: what is    *)
(* queued is what was sent and not yet counted, in order.                  *)
(***************************************************************************)
EXTENDS PollWakePass

\* A case without a fault in which no timeout has run out.
Good == faults = 0 /\ ~expired
\* The frames that are queued are those between what each writer has sent and
\* what the receiver has counted of it, in the order of each writer.
FramesFit(r, nx, sn) ==
  \A k \in 1..Len(r) : /\ r[k].w \in Writers /\ ~r[k].bad
                       /\ r[k].i \in nx[r[k].w]..(sn[r[k].w] - 1)
                       /\ r[k].fd = hasFd(r[k].i)
FramesOrdered(r) == \A j, k \in 1..Len(r) : j < k /\ r[j].w = r[k].w => r[j].i < r[k].i
FramesThere(r, nx, sn) ==
  \A w \in Writers :
    /\ nx[w] <= sn[w]
    /\ \A i \in nx[w]..(sn[w] - 1) : \E k \in 1..Len(r) : r[k].w = w /\ r[k].i = i
FramesAre(r, nx, sn) == FramesFit(r, nx, sn) /\ FramesOrdered(r) /\ FramesThere(r, nx, sn)
Sents == [w \in 1..2 |-> Sent(w)]
GoodFrames == /\ FramesAre(ring, rx.next, Sents)
              /\ rx.fds = Fds(rx.next[1]) + Fds(rx.next[2])
\* The same for the halves of a stream.
Sound(q) == \A k \in 1..Len(q) : ~q[k].bad /\ q[k].fd = (q[k].part = "head" /\ hasFd(q[k].i))
GoodBytes == /\ InOrder(Unread, Read, Written) /\ Sound(rx.half) /\ Sound(ring)
             /\ rx.fds = Fds((Read + Len(rx.half) + 1) \div 2)
\* Nothing is marked, the receiver leaves when it has everything, and the test
\* waits for it that long.
GoodRun ==
  /\ rx.marks = {} /\ rx.wake = "prompt" /\ ~rx.quit /\ ~rx.hup /\ ~rxTimedOut /\ ~abandoned
  /\ rx.at \in {"poll", "drain", "account", "done"}
  /\ rx.at = "done" => upw_isComplete(rx)
  /\ \A w \in 1..2 : ~tx[w].err
  /\ run \notin {"quit", "hup"}
  /\ run \notin {"join", "settle"} => rx.at = "done"
  /\ peerGone => run = "over"
  /\ verdict # "FAIL"
GoodUnits == IF upw_case.framed THEN GoodFrames ELSE GoodBytes
GoodInv == Good => GoodRun /\ GoodUnits

\* A record that is next in its writer's order, and comes with what it should,
\* leaves no mark.
LEMMA InTurn ==
  ASSUME upw_TypeOK, NEW u \in Records, Counted(u), rx' \in RxType, rx.marks = {}, rx.wake = "prompt",
         u.i = rx.next[u.w], u.fdGot >= 0 => (u.fdGot > 0) = hasFd(u.i)
  PROVE  /\ rx'.marks = {} /\ rx'.wake = "prompt" /\ rx'.recv = rx.recv + 1 /\ rx'.quit = rx.quit
         /\ rx'.next = [rx.next EXCEPT ![u.w] = u.i + 1]
<1>1. rx.next \in [1..2 -> Nat] /\ u.w \in 1..2 /\ u.i \in Nat
  BY DEF upw_TypeOK, RxType, Counted, Records
<1>2. /\ "bad" \notin rx'.marks /\ "rxErrs" \notin rx'.marks /\ "pipeMax" \notin rx'.marks
      /\ "lost" \notin rx'.marks /\ "dup" \notin rx'.marks
      /\ "ge15ms" \notin rx'.marks /\ "gt1s" \notin rx'.marks
  BY <1>1 DEF Counted
<1>3. "fdMismatch" \notin rx'.marks
  BY DEF Counted
<1>4. rx'.marks \subseteq Marks
  BY DEF RxType
<1>5. rx'.marks = {}
  BY <1>2, <1>3, <1>4 DEF Marks
<1>6. rx'.next = [rx.next EXCEPT ![u.w] = u.i + 1]
  BY <1>1 DEF Counted
<1> QED BY <1>5, <1>6 DEF Counted

\* The frame at the head of the queue is the next one of its writer.
LEMMA FrameInTurn ==
  ASSUME upw_IInv, GoodRun, GoodFrames, upw_recvFrame
  PROVE  /\ ring \in Seq(Units) /\ ring # <<>> /\ ring[1].w \in Writers /\ ring[1].w \in 1..2
         /\ ring[1].i = rx.next[ring[1].w]
         /\ rx' \in RxType /\ rx'.at \in {"account", "poll", "drain"} /\ rx'.hup = rx.hup
         /\ rx'.fds = rx.fds + IF hasFd(ring[1].i) THEN 1 ELSE 0
         /\ rx'.marks = {} /\ rx'.wake = "prompt" /\ rx'.recv = rx.recv + 1 /\ rx'.quit = rx.quit
         /\ rx'.next = [rx.next EXCEPT ![ring[1].w] = ring[1].i + 1]
<1> DEFINE h == ring[1]
           u == Frame(Head(ring))
<1>0. upw_TypeOK
  BY DEF upw_IInv
<1>1. /\ ring # <<>> /\ Head(ring) \in Units /\ u \in Records /\ Accounted(u)
      /\ rx'.fds = rx.fds + IF Head(ring).fd THEN 1 ELSE 0
  BY <1>0, FrameEffect
<1>2. ring \in Seq(Units) /\ Len(ring) \in Nat /\ 1 \in 1..Len(ring) /\ Head(ring) = h /\ upw_case \in upw_cases
  BY <1>0, <1>1 DEF upw_TypeOK
<1>3. u.w = h.w /\ u.i = h.i /\ u.bad = h.bad /\ u.fdGot = IF h.fd THEN 1 ELSE 0
  BY <1>1, <1>2, RecordFacts
<1> HIDE DEF u
<1>4. h.w \in Writers /\ h.i \in rx.next[h.w]..(Sents[h.w] - 1) /\ h.fd = hasFd(h.i) /\ ~h.bad
  BY <1>2 DEF GoodFrames, FramesAre, FramesFit
<1>5. h.w \in 1..2
  BY <1>2, <1>4, CaseFacts
<1>6. rx.next[h.w] \in Nat /\ h.i \in Nat /\ Sents[h.w] \in Nat
  <2>1. tx[h.w] \in TxType /\ rx.next \in [1..2 -> Nat]
    BY <1>0, <1>5 DEF upw_TypeOK, RxType
  <2>2. tx[h.w].i \in Nat
    BY <2>1 DEF TxType
  <2> QED BY <1>1, <1>2, <1>5, <2>1, <2>2 DEF Sent, Sents, Units
<1>7. h.i = rx.next[h.w]
  <2>1. PICK k \in 1..Len(ring) : ring[k].w = h.w /\ ring[k].i = rx.next[h.w]
    <3>1. rx.next[h.w] \in rx.next[h.w]..(Sents[h.w] - 1)
      BY <1>4, <1>6
    <3> QED BY <1>4, <3>1 DEF GoodFrames, FramesAre, FramesThere
  <2>2. CASE k = 1
    BY <2>1, <2>2
  <2>3. CASE k # 1
    <3>1. 1 < k
      BY <1>2, <2>3
    <3>2. h.i < ring[k].i
      BY <1>2, <2>1, <3>1 DEF GoodFrames, FramesAre, FramesOrdered
    <3> QED BY <1>4, <1>6, <2>1, <3>2
  <2> QED BY <2>2, <2>3
<1>8. Counted(u) /\ rx' \in RxType /\ rx'.at \in {"account", "poll", "drain"} /\ rx'.hup = rx.hup
  <2>1. ~u.bad /\ u.w # QUIT
    BY <1>3, <1>4, <1>5 DEF QUIT
  <2> QED BY <1>1, <2>1 DEF Accounted
<1>9. rx.marks = {} /\ rx.wake = "prompt" /\ ~rx.quit
  BY DEF GoodRun
<1>10. u.fdGot >= 0 => (u.fdGot > 0) = hasFd(u.i)
  <2>1. CASE h.fd
    <3>1. u.fdGot = 1 /\ hasFd(u.i) = TRUE
      BY <1>2, <1>3, <1>4, <1>6, <2>1, CaseFacts
    <3>2. (u.fdGot > 0) = TRUE
      BY <3>1
    <3> QED BY <3>1, <3>2, Zenon
  <2>2. CASE ~h.fd
    <3>1. u.fdGot = 0 /\ hasFd(u.i) = FALSE
      BY <1>2, <1>3, <1>4, <1>6, <2>2, CaseFacts
    <3>2. (u.fdGot > 0) = FALSE
      BY <3>1
    <3> QED BY <3>1, <3>2, Zenon
  <2> QED BY <2>1, <2>2
<1>11. /\ rx'.marks = {} /\ rx'.wake = "prompt" /\ rx'.recv = rx.recv + 1 /\ rx'.quit = rx.quit
       /\ rx'.next = [rx.next EXCEPT ![h.w] = h.i + 1]
  BY <1>0, <1>1, <1>3, <1>7, <1>8, <1>9, <1>10, InTurn, SMTT(40)
<1> QED BY <1>1, <1>2, <1>4, <1>5, <1>7, <1>8, <1>11

\* The message at the head of the buffer is the next one.
LEMMA PairInTurn ==
  ASSUME upw_IInv, GoodRun, GoodBytes, upw_nextMessage, ~upw_case.framed
  PROVE  /\ rx' \in RxType /\ rx'.at \in {"account", "poll", "drain"} /\ rx'.hup = rx.hup
         /\ rx'.fds = rx.fds /\ rx'.half = SubSeq(rx.half, 3, Len(rx.half)) /\ Len(rx.half) >= 2
         /\ rx'.marks = {} /\ rx'.wake = "prompt" /\ rx'.recv = rx.recv + 1 /\ rx'.quit = rx.quit
<1> DEFINE u == Pair(rx.half[1], rx.half[2])
<1>0. upw_TypeOK /\ LogOK /\ UnitsOK /\ upw_case \in upw_cases
  BY DEF upw_IInv, upw_TypeOK
<1>1. /\ Len(rx.half) >= 2 /\ rx.half[1] \in Units /\ rx.half[2] \in Units
      /\ u \in Records /\ Accounted(u)
      /\ rx'.half = SubSeq(rx.half, 3, Len(rx.half)) /\ rx'.fds = rx.fds
  BY <1>0, PairEffect
<1>2. /\ u.w = rx.half[1].w /\ u.i = rx.half[1].i
      /\ u.bad = (rx.half[1].bad \/ rx.half[1].part # "head") /\ u.fdGot = -1
  BY <1>1, RecordFacts
<1> HIDE DEF u
<1>3. 1 \in 1..Len(Unread) /\ Unread[1] = rx.half[1] /\ 1 \in 1..Len(rx.half) /\ rx.recv \in Nat
  <2>1. rx.recv \in Nat /\ rx.half \in Seq(Units)
    BY <1>0 DEF upw_TypeOK, RxType
  <2> QED BY <1>0, <1>1, <2>1, UnreadFacts
<1>4. rx.half[1].w = 1
  <2>1. Known(rx.half[1]) /\ ~rxTimedOut
    BY <1>0, <1>3 DEF UnitsOK, AllKnown, GoodRun
  <2>2. Writers = {1}
    BY <1>0, CaseFacts DEF Writers
  <2> QED BY <2>1, <2>2 DEF Known
<1>5. rx.half[1].part = "head" /\ rx.half[1].i = rx.recv /\ ~rx.half[1].bad
  <2>1. Pos(rx.half[1]) = 2 * rx.recv
    BY <1>3 DEF GoodBytes, InOrder, Read
  <2>2. ~rx.half[1].bad
    BY <1>3 DEF GoodBytes, Sound
  <2>3. PICK h \in Units : h = rx.half[1]
    BY <1>1
  <2>4. PICK r \in Int : r = rx.recv
    BY <1>3
  <2>5. h.part = "head" /\ h.i = r
    BY <2>1, <2>3, <2>4, PosFacts
  <2> QED BY <2>2, <2>3, <2>4, <2>5
<1>6. rx.marks = {} /\ rx.wake = "prompt"
  BY DEF GoodRun
<1>7. rx.next[1] = rx.recv
  <2>1. rx.recv = Len(log[1]) + Len(log[2]) /\ Len(log[1]) = rx.next[1]
    BY <1>0, <1>6 DEF LogOK
  <2>2. log[2] = <<>>
    BY <1>0, CaseFacts DEF LogOK
  <2>3. Len(log[2]) = 0 /\ Len(log[1]) \in Nat
    BY <1>0, <2>2 DEF upw_TypeOK
  <2> QED BY <2>1, <2>3
<1>8. Counted(u) /\ rx' \in RxType /\ rx'.at \in {"account", "poll", "drain"} /\ rx'.hup = rx.hup
  <2>1. u.bad = FALSE /\ u.w = 1
    BY <1>1, <1>2, <1>4, <1>5 DEF Records
  <2>2. ~(u.bad \/ u.w = QUIT)
    BY <2>1 DEF QUIT
  <2> QED BY <1>1, <2>2 DEF Accounted
<1>9. u.fdGot >= 0 => (u.fdGot > 0) = hasFd(u.i)
  BY <1>2
<1>10. /\ rx'.marks = {} /\ rx'.wake = "prompt" /\ rx'.recv = rx.recv + 1 /\ rx'.quit = rx.quit
  BY <1>0, <1>1, <1>2, <1>4, <1>5, <1>6, <1>7, <1>8, <1>9, InTurn, Zenon
<1> QED BY <1>1, <1>8, <1>10

\* A writer adds its next frame at the end.
LEMMA FramesAppend ==
  ASSUME upw_case \in upw_cases, NEW r \in Seq(Units), NEW nx \in [1..2 -> Nat],
         NEW sn \in [1..2 -> Nat], NEW w \in Writers, NEW u \in Units, u.w = w, u.i = sn[w],
         ~u.bad, u.fd = hasFd(u.i), FramesAre(r, nx, sn),
         NEW q, q = Append(r, u), NEW sm \in [1..2 -> Nat], sm[w] = sn[w] + 1,
         \A v \in 1..2 : v # w => sm[v] = sn[v]
  PROVE  FramesAre(q, nx, sm)
<1> DEFINE m == Len(r)
<1>1. Writers \subseteq 1..2 /\ m \in Nat
  BY CaseFacts
<1>2. Len(q) = m + 1 /\ q[m + 1] = u /\ \A k \in 1..m : q[k] = r[k]
  BY AppendProperties
<1>3. nx[w] <= sn[w] /\ nx[w] \in Nat /\ sn[w] \in Nat
  BY <1>1 DEF FramesAre, FramesThere
<1> HIDE DEF m
<1>31. \A k \in 1..(m + 1) : k \in 1..m \/ k = m + 1
  BY <1>1
<1>4. FramesFit(q, nx, sm)
  <2> SUFFICES ASSUME NEW k \in 1..(m + 1)
               PROVE  /\ q[k].w \in Writers /\ ~q[k].bad
                      /\ q[k].i \in nx[q[k].w]..(sm[q[k].w] - 1)
                      /\ q[k].fd = hasFd(q[k].i)
    BY <1>2 DEF FramesFit
  <2>1. CASE k \in 1..m
    <3>1. /\ q[k] = r[k] /\ r[k].w \in Writers /\ ~r[k].bad
          /\ r[k].i \in nx[r[k].w]..(sn[r[k].w] - 1)
          /\ r[k].fd = hasFd(r[k].i)
      BY <1>2, <2>1, SMTT(40) DEF FramesAre, FramesFit, m
    <3>2. r[k].i \in nx[r[k].w]..(sm[r[k].w] - 1)
      <4>1. CASE r[k].w = w
        BY <1>3, <3>1, <4>1
      <4>2. CASE r[k].w # w
        BY <1>1, <3>1, <4>2
      <4> QED BY <4>1, <4>2
    <3> QED BY <3>1, <3>2
  <2>2. CASE k = m + 1
    <3>1. u.i \in nx[w]..(sm[w] - 1)
      BY <1>3
    <3> QED BY <1>2, <2>2, <3>1
  <2> QED BY <1>31, <2>1, <2>2, Zenon
<1>5. FramesOrdered(q)
  <2> SUFFICES ASSUME NEW j \in 1..(m + 1), NEW k \in 1..(m + 1), j < k, q[j].w = q[k].w
               PROVE  q[j].i < q[k].i
    BY <1>2, Zenon DEF FramesOrdered
  <2>1. j \in 1..m /\ q[j] = r[j]
    BY <1>1, <1>2
  <2>2. CASE k \in 1..m
    <3>1. q[k] = r[k]
      BY <1>2, <2>2
    <3> QED BY <2>1, <2>2, <3>1 DEF FramesAre, FramesOrdered, m
  <2>3. CASE k = m + 1
    <3>1. q[k] = u /\ r[j].w = w
      BY <1>2, <2>1, <2>3
    <3>2. r[j].i \in nx[w]..(sn[w] - 1)
      BY <2>1, <3>1, SMTT(40) DEF FramesAre, FramesFit, m
    <3>3. r[j].i < sn[w]
      <4>1. PICK a \in Nat, b \in Nat : a = nx[w] /\ b = sn[w]
        BY <1>3
      <4>2. r[j].i \in a..(b - 1)
        BY <3>2, <4>1
      <4>3. r[j].i < b
        BY <4>2, SMTT(40)
      <4> QED BY <4>1, <4>3
    <3> QED BY <2>1, <3>1, <3>3
  <2> QED BY <1>31, <2>2, <2>3, Zenon
<1>6. FramesThere(q, nx, sm)
  <2> SUFFICES ASSUME NEW v \in Writers
               PROVE  /\ nx[v] <= sm[v]
                      /\ \A i \in nx[v]..(sm[v] - 1) : \E k \in 1..Len(q) : q[k].w = v /\ q[k].i = i
    BY DEF FramesThere
  <2>1. /\ nx[v] <= sn[v] /\ v \in 1..2 /\ nx[v] \in Nat /\ sn[v] \in Nat
        /\ \A i \in nx[v]..(sn[v] - 1) : \E k \in 1..m : r[k].w = v /\ r[k].i = i
    BY <1>1, Zenon DEF FramesAre, FramesThere, m
  <2>2. sm[v] = IF v = w THEN sn[v] + 1 ELSE sn[v]
    BY <2>1
  <2>3. nx[v] <= sm[v]
    BY <2>1, <2>2
  <2>4. ASSUME NEW i \in nx[v]..(sm[v] - 1) PROVE \E k \in 1..(m + 1) : q[k].w = v /\ q[k].i = i
    <3>1. CASE i \in nx[v]..(sn[v] - 1)
      <4>1. PICK k \in 1..m : r[k].w = v /\ r[k].i = i
        BY <2>1, <3>1
      <4>2. k \in 1..(m + 1) /\ q[k] = r[k]
        BY <1>1, <1>2
      <4> QED BY <4>1, <4>2, Zenon
    <3>2. CASE i \notin nx[v]..(sn[v] - 1)
      <4>1. v = w /\ i = sn[w]
        BY <2>1, <2>2, <3>2
      <4>2. m + 1 \in 1..(m + 1)
        BY <1>1
      <4> QED BY <1>2, <4>1, <4>2
    <3> QED BY <3>1, <3>2, Zenon
  <2> QED BY <1>2, <2>3, <2>4
<1> QED BY <1>4, <1>5, <1>6 DEF FramesAre

\* The receiver takes the first.
LEMMA FramesTake ==
  ASSUME upw_case \in upw_cases, NEW r \in Seq(Units), r # <<>>, NEW nx \in [1..2 -> Nat],
         NEW sn \in [1..2 -> Nat], NEW w \in Writers, r[1].w = w, r[1].i = nx[w],
         FramesAre(r, nx, sn),
         NEW q, q = Tail(r), NEW ny \in [1..2 -> Nat], ny[w] = nx[w] + 1,
         \A v \in 1..2 : v # w => ny[v] = nx[v]
  PROVE  FramesAre(q, ny, sn)
<1> DEFINE m == Len(q)
<1>1. Writers \subseteq 1..2
  BY CaseFacts
<1>2. m \in Nat /\ Len(r) = m + 1 /\ 1 \in 1..Len(r)
  OBVIOUS
<1>3. \A k \in 1..m : q[k] = r[k + 1] /\ k + 1 \in 1..Len(r) /\ 1 < k + 1
  BY <1>2
<1> HIDE DEF m
<1>4. FramesFit(q, ny, sn)
  <2> SUFFICES ASSUME NEW k \in 1..m
               PROVE  /\ q[k].w \in Writers /\ ~q[k].bad
                      /\ q[k].i \in ny[q[k].w]..(sn[q[k].w] - 1)
                      /\ q[k].fd = hasFd(q[k].i)
    BY DEF FramesFit, m
  <2>1. q[k] = r[k + 1] /\ k + 1 \in 1..Len(r) /\ 1 < k + 1
    BY <1>3
  <2>2. PICK h : h = r[k + 1]
    OBVIOUS
  <2>3. /\ h.w \in Writers /\ ~h.bad /\ h.i \in nx[h.w]..(sn[h.w] - 1)
        /\ h.fd = hasFd(h.i)
    BY <2>1, <2>2 DEF FramesAre, FramesFit
  <2>4. h.w = w => nx[w] < h.i
    BY <1>2, <2>1, <2>2 DEF FramesAre, FramesOrdered
  <2>5. h.w \in 1..2 /\ nx[h.w] \in Nat /\ sn[h.w] \in Nat
    BY <1>1, <2>3, Zenon
  <2>6. h.i \in ny[h.w]..(sn[h.w] - 1)
    <3>1. CASE h.w = w
      BY <2>3, <2>4, <2>5, <3>1
    <3>2. CASE h.w # w
      BY <2>3, <2>5, <3>2
    <3> QED BY <3>1, <3>2
  <2> QED BY <2>1, <2>2, <2>3, <2>6
<1>5. FramesOrdered(q)
  <2> SUFFICES ASSUME NEW j \in 1..m, NEW k \in 1..m, j < k, q[j].w = q[k].w
               PROVE  q[j].i < q[k].i
    BY Zenon DEF FramesOrdered, m
  <2>1. q[j] = r[j + 1] /\ j + 1 \in 1..Len(r) /\ q[k] = r[k + 1] /\ k + 1 \in 1..Len(r)
    BY <1>3, SMTT(40)
  <2>2. j + 1 < k + 1
    BY <1>2
  <2> QED BY <2>1, <2>2 DEF FramesAre, FramesOrdered
<1>6. FramesThere(q, ny, sn)
  <2> SUFFICES ASSUME NEW v \in Writers
               PROVE  /\ ny[v] <= sn[v]
                      /\ \A i \in ny[v]..(sn[v] - 1) : \E k \in 1..m : q[k].w = v /\ q[k].i = i
    BY DEF FramesThere, m
  <2>1. /\ nx[v] <= sn[v] /\ v \in 1..2 /\ nx[v] \in Nat /\ sn[v] \in Nat
        /\ \A i \in nx[v]..(sn[v] - 1) : \E k \in 1..Len(r) : r[k].w = v /\ r[k].i = i
    BY <1>1 DEF FramesAre, FramesThere
  <2>2. ny[v] = IF v = w THEN nx[v] + 1 ELSE nx[v]
    BY <2>1
  <2>3. r[1].i \in nx[w]..(sn[w] - 1)
    BY <1>2 DEF FramesAre, FramesFit
  <2>4. ny[v] <= sn[v]
    BY <2>1, <2>2, <2>3
  <2>5. ASSUME NEW i \in ny[v]..(sn[v] - 1) PROVE \E k \in 1..m : q[k].w = v /\ q[k].i = i
    <3>1. i \in nx[v]..(sn[v] - 1) /\ (v = w => i # nx[w])
      BY <2>1, <2>2
    <3>2. PICK k \in 1..Len(r) : r[k].w = v /\ r[k].i = i
      BY <2>1, <3>1
    <3>3. k # 1
      BY <3>1, <3>2
    <3>4. k - 1 \in 1..m /\ (k - 1) + 1 = k
      BY <1>2, <3>3
    <3>5. q[k - 1] = r[k]
      BY <1>3, <3>4
    <3> QED BY <3>2, <3>4, <3>5
  <2> QED BY <2>4, <2>5, Zenon
<1> QED BY <1>4, <1>5, <1>6 DEF FramesAre

\* The frames of the next state, by its queue and its counters.
LEMMA FramesCarry ==
  ASSUME UNCHANGED upw_case, FramesAre(ring', rx'.next, Sents'),
         rx'.fds = Fds(rx'.next[1]) + Fds(rx'.next[2])
  PROVE  GoodFrames'
<1>1. FramesFit(ring, rx.next, Sents)'
  BY DEF FramesAre, FramesFit, Writers, hasFd
<1>2. FramesOrdered(ring)'
  BY DEF FramesAre, FramesOrdered
<1>3. FramesThere(ring, rx.next, Sents)'
  BY DEF FramesAre, FramesThere, Writers
<1>4. (rx.fds = Fds(rx.next[1]) + Fds(rx.next[2]))'
  BY DEF Fds, hasFd
<1> QED BY <1>1, <1>2, <1>3, <1>4 DEF GoodFrames, FramesAre

\* What the writers have sent are numbers.
LEMMA SentsType ==
  ASSUME upw_TypeOK
  PROVE  Sents \in [1..2 -> Nat]
<1> SUFFICES ASSUME NEW w \in 1..2 PROVE Sent(w) \in Nat
  BY DEF Sents
<1>1. tx[w] \in TxType
  BY DEF upw_TypeOK
<1>2. tx[w].i \in Nat
  BY <1>1 DEF TxType
<1> QED BY <1>2 DEF Sent

\* The steps that neither send nor take a frame.
LEMMA FramesStill ==
  ASSUME GoodFrames, UNCHANGED upw_case, ring' = ring, rx'.next = rx.next, rx'.fds = rx.fds,
         \A w \in 1..2 : Sent(w)' = Sent(w)
  PROVE  GoodFrames'
<1>1. Sents' = Sents
  BY DEF Sents
<1> QED BY <1>1, FramesCarry DEF GoodFrames

\* upw_sendOne() with frames.
LEMMA FrameSent ==
  ASSUME upw_IInv, upw_IInv', GoodFrames, NEW w \in Writers, upw_sendOne(w), upw_case.framed
  PROVE  GoodFrames'
<1> DEFINE i == tx[w].i
           u == Unit(w, i, "whole", hasFd(i))
<1>0. upw_TypeOK /\ SendersOK /\ upw_TypeOK'
  BY DEF upw_IInv
<1>1. /\ tx[w].at = "send" /\ Len(ring) < Room /\ ring' = ring \o Taken(w)
      /\ UNCHANGED <<upw_case, rx>>
  BY DEF upw_sendOne, upw_fixed, upw_rxSide
<1>2. TakenIs(w)
  BY <1>0, <1>1, TakenFacts
<1>3. upw_case \in upw_cases /\ ring \in Seq(Units) /\ rx.next \in [1..2 -> Nat] /\ w \in 1..2
  BY <1>0, CaseFacts DEF upw_TypeOK, RxType
<1>4. u \in Units /\ u.w = w /\ u.i = i /\ ~u.bad /\ u.fd = hasFd(u.i)
  <2>1. Taken(w) = <<u>> /\ Taken(w) \in Seq(Units)
    BY <1>2 DEF TakenIs
  <2>2. u \in Units
    BY <2>1
  <2> QED BY <2>2 DEF Unit
<1>5. ring' = Append(ring, u)
  <2>1. ring' = ring \o <<u>>
    BY <1>1, <1>2, Zenon DEF TakenIs
  <2> QED BY <1>3, <1>4, <2>1, AppendIsConcat
<1> HIDE DEF u
<1>6. /\ \A v \in 1..2 : v # w => Sent(v)' = Sent(v)
      /\ Sent(w)' = i + 1 /\ Sent(w) = i
  <2>1. /\ \A v \in 1..2 : v # w => tx'[v] = tx[v]
        /\ PartSent(w) \/ WholeSent(w)
    BY <1>0, SendEffect
  <2>2. \/ tx'[w].at = "token" /\ tx'[w].i = i
        \/ tx'[w].at \in {"send", "over"} /\ tx'[w].i = i + 1
    BY <2>1 DEF PartSent, WholeSent
  <2>3. ASSUME NEW v \in 1..2, v # w PROVE Sent(v)' = Sent(v)
    BY <2>1, <2>3 DEF Sent
  <2>4. Sent(w)' = i + 1
    BY <2>2 DEF Sent
  <2> QED BY <1>1, <2>3, <2>4 DEF Sent
<1>7. Sents \in [1..2 -> Nat] /\ Sents' \in [1..2 -> Nat]
  <2>1. Sents \in [1..2 -> Nat]
    BY <1>0, SentsType
  <2>2. (Sents \in [1..2 -> Nat])'
    <3>1. upw_TypeOK => Sents \in [1..2 -> Nat]
      BY SentsType
    <3> QED BY <1>0, <3>1, SentsType, PTL
  <2> QED BY <2>1, <2>2
<1>8. /\ Sents[w] = i /\ Sents'[w] = i + 1
      /\ \A v \in 1..2 : v # w => Sents'[v] = Sents[v]
  BY <1>3, <1>6 DEF Sents
<1> HIDE DEF i
<1>9. FramesAre(ring', rx.next, Sents')
  <2>1. PICK r \in Seq(Units), nx \in [1..2 -> Nat], sn \in [1..2 -> Nat],
             sm \in [1..2 -> Nat], h \in Units, q \in {ring'} :
          r = ring /\ nx = rx.next /\ sn = Sents /\ sm = Sents' /\ h = u /\ q = ring'
    BY <1>3, <1>4, <1>7
  <2>2. FramesAre(r, nx, sn)
    BY <2>1 DEF GoodFrames
  <2>3. /\ q = Append(r, h) /\ h.w = w /\ h.i = sn[w] /\ ~h.bad /\ h.fd = hasFd(h.i)
        /\ sm[w] = sn[w] + 1 /\ \A v \in 1..2 : v # w => sm[v] = sn[v]
    BY <1>4, <1>5, <1>8, <2>1
  <2>4. FramesAre(q, nx, sm)
    BY <1>3, <2>2, <2>3, FramesAppend, ZenonT(40)
  <2> QED BY <2>1, <2>4
<1> QED BY <1>1, <1>9, FramesCarry DEF GoodFrames

\* upw_drainSocket() with frames.
LEMMA FrameTaken ==
  ASSUME upw_IInv, GoodRun, GoodFrames, upw_recvFrame
  PROVE  GoodFrames'
<1> DEFINE w == ring[1].w
           n == rx.next[w]
<1>0. upw_TypeOK /\ upw_case \in upw_cases /\ rx.next \in [1..2 -> Nat]
  BY DEF upw_IInv, upw_TypeOK, RxType
<1>1. /\ ring \in Seq(Units) /\ ring # <<>> /\ w \in Writers /\ w \in 1..2
      /\ ring[1].i = n /\ rx' \in RxType
      /\ rx'.fds = rx.fds + IF hasFd(n) THEN 1 ELSE 0
      /\ rx'.next = [rx.next EXCEPT ![w] = n + 1]
  BY FrameInTurn
<1>2. UNCHANGED <<upw_case, tx>> /\ ring' = Tail(ring)
  BY DEF upw_recvFrame, upw_fixed
<1>3. Sents' = Sents /\ Sents \in [1..2 -> Nat]
  BY <1>0, <1>2, SentsType DEF Sents, Sent
<1>4. /\ rx'.next \in [1..2 -> Nat] /\ n \in Nat /\ rx'.next[w] = n + 1
      /\ \A v \in 1..2 : v # w => rx'.next[v] = rx.next[v]
  BY <1>0, <1>1
<1> HIDE DEF w, n
<1>5. FramesAre(ring', rx'.next, Sents)
  <2>1. PICK r \in Seq(Units), nx \in [1..2 -> Nat], sn \in [1..2 -> Nat],
             ny \in [1..2 -> Nat], q \in {ring'}, v \in Writers :
          r = ring /\ nx = rx.next /\ sn = Sents /\ ny = rx'.next /\ q = ring' /\ v = w
    BY <1>0, <1>1, <1>3, <1>4
  <2>2. FramesAre(r, nx, sn)
    BY <2>1 DEF GoodFrames
  <2>3. /\ r # <<>> /\ q = Tail(r) /\ r[1].w = v /\ r[1].i = nx[v]
        /\ ny[v] = nx[v] + 1 /\ \A x \in 1..2 : x # v => ny[x] = nx[x]
    BY <1>1, <1>2, <1>4, <2>1 DEF n, w
  <2>4. FramesAre(q, ny, sn)
    BY <1>0, <2>2, <2>3, FramesTake, ZenonT(40)
  <2> QED BY <2>1, <2>4
<1>6. rx'.fds = Fds(rx'.next[1]) + Fds(rx'.next[2])
  <2>1. rx.fds = Fds(rx.next[1]) + Fds(rx.next[2])
    BY DEF GoodFrames
  <2>2. Fds(n + 1) = Fds(n) + (IF hasFd(n) THEN 1 ELSE 0) /\ Fds(n) \in Nat
    BY <1>0, <1>4, FdsCount
  <2>3. Fds(rx.next[1]) \in Nat /\ Fds(rx.next[2]) \in Nat
    <3>1. rx.next[1] \in Nat /\ rx.next[2] \in Nat
      BY <1>0
    <3> QED BY <1>0, <3>1, FdsCount
  <2>4. CASE w = 1
    <3>1. rx'.next[1] = n + 1 /\ rx'.next[2] = rx.next[2] /\ n = rx.next[1]
      BY <1>4, <2>4 DEF n
    <3> QED BY <1>1, <2>1, <2>2, <2>3, <3>1
  <2>5. CASE w = 2
    <3>1. rx'.next[2] = n + 1 /\ rx'.next[1] = rx.next[1] /\ n = rx.next[2]
      BY <1>4, <2>5 DEF n
    <3> QED BY <1>1, <2>1, <2>2, <2>3, <3>1
  <2> QED BY <1>1, <2>4, <2>5
<1> QED BY <1>2, <1>3, <1>5, <1>6, FramesCarry

\* The descriptors of k halves in a row, from place b on, are those of the
\* messages that have their heads there.
LEMMA FdsBetween ==
  ASSUME upw_case \in upw_cases, NEW b \in Nat, NEW k \in Nat, NEW s \in Seq(Units),
         k <= Len(s), Sound(s), \A j \in 1..k : Pos(s[j]) = b + j - 1
  PROVE  Fds((b + k + 1) \div 2)
           = Fds((b + 1) \div 2) + Cardinality({ j \in 1..k : s[j].fd })
<1> DEFINE p == (b + 1) \div 2
           n == (b + k + 1) \div 2
           A == { i \in 0..(p - 1) : hasFd(i) }
           B == { i \in p..(n - 1) : hasFd(i) }
           S == { j \in 1..k : s[j].fd }
<1>1. /\ p \in Nat /\ b <= 2 * p /\ 2 * p <= b + 1
      /\ n \in Nat /\ b + k <= 2 * n /\ 2 * n <= b + k + 1
  OBVIOUS
<1>2. Fds(p) = Cardinality(A) /\ Fds(n) = Cardinality({ i \in 0..(n - 1) : hasFd(i) })
  BY DEF Fds
<1> HIDE DEF p, n
<1>3. p <= n
  BY <1>1
<1>4. { i \in 0..(n - 1) : hasFd(i) } = A \cup B /\ A \cap B = {}
  BY <1>1, <1>3
<1>5. IsFiniteSet(A) /\ IsFiniteSet(B) /\ Cardinality(A) \in Nat /\ Cardinality(B) \in Nat
  <2>1. IsFiniteSet(0..(p - 1)) /\ IsFiniteSet(p..(n - 1))
    BY <1>1, FS_Interval
  <2>2. A \subseteq 0..(p - 1) /\ B \subseteq p..(n - 1)
    OBVIOUS
  <2>3. IsFiniteSet(A) /\ IsFiniteSet(B)
    BY <2>1, <2>2, FS_Subset, Zenon
  <2> QED BY <2>3, FS_CardinalityType
<1>6. Fds(n) = Fds(p) + Cardinality(B)
  <2>1. Cardinality({}) = 0
    BY FS_EmptySet
  <2> HIDE DEF A, B
  <2>2. Cardinality(A \cup B) = Cardinality(A) + Cardinality(B) - Cardinality(A \cap B)
    BY <1>5, FS_Union
  <2>3. Cardinality(A \cap B) = 0 /\ Fds(n) = Cardinality(A \cup B) /\ Fds(p) = Cardinality(A)
    BY <1>2, <1>4, <2>1, Zenon
  <2> QED BY <1>5, <2>2, <2>3
<1>7. \A i \in B : 2 * i - b + 1 \in S
  <2> TAKE i \in B
  <2>1. i \in Nat /\ p <= i /\ i <= n - 1 /\ hasFd(i)
    BY <1>1
  <2>2. PICK j \in Int : j = 2 * i - b + 1
    BY <2>1
  <2>3. j \in 1..k /\ b + j - 1 = 2 * i
    BY <1>1, <2>1, <2>2
  <2>4. Pos(s[j]) = 2 * i /\ s[j] \in Units
    BY <2>3
  <2>5. s[j].part = "head" /\ s[j].i = i
    <3>1. PICK h \in Units, x \in Int : h = s[j] /\ x = i
      BY <2>1, <2>4
    <3>2. Pos(h) = 2 * x
      BY <2>4, <3>1
    <3>3. h.part = "head" /\ h.i = x
      BY <3>2, PosFacts, Zenon
    <3> QED BY <3>1, <3>3
  <2>6. j \in 1..Len(s)
    BY <2>3
  <2>7. s[j].fd
    BY <2>1, <2>5, <2>6, Zenon DEF Sound
  <2> QED BY <2>2, <2>3, <2>7
<1>8. \A j \in S : \E i \in B : j = 2 * i - b + 1
  <2> TAKE j \in S
  <2>1. j \in 1..k /\ s[j].fd /\ s[j] \in Units /\ j \in 1..Len(s)
    OBVIOUS
  <2>2. s[j].part = "head" /\ hasFd(s[j].i)
    BY <2>1, Zenon DEF Sound
  <2>3. PICK i \in Nat : i = s[j].i
    BY <2>1 DEF Units
  <2>4. b + j - 1 = 2 * i
    <3>1. Pos(s[j]) = 2 * s[j].i + 0
      BY <2>2 DEF Pos
    <3>2. Pos(s[j]) = b + j - 1
      BY <2>1
    <3> QED BY <2>3, <3>1, <3>2
  <2>5. p <= i /\ i <= n - 1
    BY <1>1, <2>1, <2>3, <2>4
  <2>6. i \in B
    BY <1>1, <2>2, <2>3, <2>5
  <2>7. j = 2 * i - b + 1
    BY <2>1, <2>3, <2>4
  <2> QED BY <2>6, <2>7
<1>9. Cardinality(S) = Cardinality(B)
  <2> DEFINE f == [i \in B |-> 2 * i - b + 1]
  <2>1. B \subseteq Int
    BY <1>1
  <2> HIDE DEF B, S
  <2>2. f \in [B -> S] /\ (\A i \in B : f[i] = 2 * i - b + 1)
    BY <1>7
  <2>3. \A i, j \in B : f[i] = f[j] => i = j
    BY <2>1, <2>2
  <2>4. \A j \in S : \E i \in B : f[i] = j
    BY <1>8, <2>2
  <2> HIDE DEF f
  <2>5. f \in Bijection(B, S)
    BY <2>2, <2>3, <2>4 DEF Bijection, Injection, Surjection, IsInjective
  <2>6. ExistsBijection(B, S)
    BY <2>5 DEF ExistsBijection
  <2> QED BY <1>5, <2>6, FS_Bijection
<1> QED BY <1>6, <1>9 DEF p, n

\* Putting together and cutting sequences of sound units.
LEMMA SoundParts ==
  ASSUME NEW s \in Seq(Units), NEW t \in Seq(Units), Sound(s)
  PROVE  /\ Sound(t) => Sound(s \o t)
         /\ \A m, n \in Nat : m >= 1 /\ n <= Len(s) => Sound(SubSeq(s, m, n))
<1>1. ASSUME Sound(t) PROVE Sound(s \o t)
  <2>1. /\ Len(s \o t) = Len(s) + Len(t)
        /\ \A k \in 1..(Len(s) + Len(t)) : (s \o t)[k] = IF k <= Len(s) THEN s[k] ELSE t[k - Len(s)]
    BY ConcatProperties
  <2>2. PICK a \in Nat, b \in Nat : a = Len(s) /\ b = Len(t)
    OBVIOUS
  <2>3. ASSUME NEW k \in 1..(a + b)
        PROVE  LET u == (s \o t)[k] IN ~u.bad /\ u.fd = (u.part = "head" /\ hasFd(u.i))
    <3>1. CASE k <= a
      <4>1. (s \o t)[k] = s[k] /\ k \in 1..Len(s)
        BY <2>1, <2>2, <3>1
      <4> QED BY <4>1 DEF Sound
    <3>2. CASE ~(k <= a)
      <4>1. (s \o t)[k] = t[k - a] /\ k - a \in 1..Len(t)
        BY <2>1, <2>2, <3>2
      <4> QED BY <1>1, <4>1 DEF Sound
    <3> QED BY <3>1, <3>2, Zenon
  <2>4. Len(s \o t) = a + b
    BY <2>1, <2>2
  <2> QED BY <2>3, <2>4 DEF Sound
<1>2. ASSUME NEW m \in Nat, NEW n \in Nat, m >= 1, n <= Len(s) PROVE Sound(SubSeq(s, m, n))
  <2> DEFINE q == SubSeq(s, m, n)
  <2>1. /\ Len(q) = IF m <= n THEN n - m + 1 ELSE 0
        /\ \A k \in 1..Len(q) : q[k] = s[m + k - 1]
    BY <1>2, SubSeqFacts, SubSeqProperties
  <2> HIDE DEF q
  <2>2. ASSUME NEW k \in 1..Len(q)
        PROVE  ~q[k].bad /\ q[k].fd = (q[k].part = "head" /\ hasFd(q[k].i))
    <3>1. m + k - 1 \in 1..Len(s)
      BY <1>2, <2>1
    <3> QED BY <2>1, <3>1, Zenon DEF Sound
  <2> QED BY <2>2 DEF Sound, q
<1> QED BY <1>1, <1>2

\* The halves of the next state: their order is StreamOK's.
LEMMA BytesCarry ==
  ASSUME UNCHANGED upw_case, ~upw_case.framed, StreamOK', faults' = 0, rx'.marks = {},
         ~rxTimedOut', Sound(ring'), Sound(rx'.half),
         rx'.fds = Fds((Read' + Len(rx'.half) + 1) \div 2)
  PROVE  GoodBytes'
<1>1. Watched'
  BY DEF Watched
<1>2. InOrder(Unread, Read, Written)'
  BY <1>1 DEF StreamOK, StreamIs
<1>3. Sound(ring)' /\ Sound(rx.half)'
  BY DEF Sound, hasFd
<1>4. (rx.fds = Fds((Read + Len(rx.half) + 1) \div 2))'
  BY DEF Fds, hasFd
<1> QED BY <1>2, <1>3, <1>4 DEF GoodBytes

\* The steps that neither send nor read bytes.
LEMMA BytesStill ==
  ASSUME GoodBytes, UNCHANGED upw_case, ~upw_case.framed, StreamOK', faults' = 0, rx'.marks = {},
         ~rxTimedOut', ring' = ring, rx'.half = rx.half, rx'.recv = rx.recv, rx'.fds = rx.fds
  PROVE  GoodBytes'
<1>1. Read' = Read
  BY DEF Read
<1> QED BY <1>1, BytesCarry DEF GoodBytes

\* upw_sendOne() on a stream.
LEMMA BytesSent ==
  ASSUME upw_TypeOK, SendersOK, GoodBytes, NEW w \in Writers, upw_sendOne(w), ~upw_case.framed
  PROVE  Sound(ring')
<1>1. /\ tx[w].at = "send" /\ Len(ring) < Room /\ ring' = ring \o Taken(w)
  BY DEF upw_sendOne
<1>2. TakenIs(w) /\ upw_case \in upw_cases
  BY <1>1, TakenFacts DEF upw_TypeOK
<1>3. Taken(w) \in Seq(Units) /\ Len(Taken(w)) \in 1..2 /\ tx[w].i \in Nat /\ tx[w].left \in 1..2
  BY <1>1, <1>2 DEF TakenIs, TxType, SendersOK, SenderOK
<1>4. hasFd(tx[w].i) \in BOOLEAN
  BY <1>2, <1>3, CaseFacts
<1>5. ASSUME NEW k \in 1..Len(Taken(w))
      PROVE  \/ Taken(w)[k] = Unit(w, tx[w].i, "head", hasFd(tx[w].i))
             \/ Taken(w)[k] = Unit(w, tx[w].i, "tail", FALSE)
  <2>0. PICK n \in 1..2 : n = Len(Taken(w))
    BY <1>3
  <2>4. k \in 1..n
    BY <2>0
  <2>1. CASE k = 1
    <3>1. tx[w].left = 1 \/ tx[w].left = 2
      BY <1>3
    <3>2. CASE tx[w].left = 1
      <4>1. Taken(w)[1] = Unit(w, tx[w].i, "tail", FALSE)
        BY <1>2, <3>2, Zenon DEF TakenIs
      <4> QED BY <2>1, <4>1
    <3>3. CASE tx[w].left = 2
      <4>1. Taken(w)[1] = Unit(w, tx[w].i, "head", hasFd(tx[w].i))
        BY <1>2, <3>3, Zenon DEF TakenIs
      <4> QED BY <2>1, <4>1
    <3> QED BY <3>1, <3>2, <3>3, Zenon
  <2>2. CASE k = 2
    <3>1. n = 2
      BY <2>4, <2>2
    <3>2. Taken(w)[2] = Unit(w, tx[w].i, "tail", FALSE)
      BY <1>2, <2>0, <3>1, Zenon DEF TakenIs
    <3> QED BY <2>2, <3>2
  <2>3. k = 1 \/ k = 2
    BY <2>4
  <2> QED BY <2>1, <2>2, <2>3, Zenon
<1>6. Sound(Taken(w))
  <2>1. ASSUME NEW u, u = Unit(w, tx[w].i, "head", hasFd(tx[w].i))
        PROVE  ~u.bad /\ u.fd = (u.part = "head" /\ hasFd(u.i))
    BY <1>4, <2>1 DEF Unit
  <2>2. ASSUME NEW u, u = Unit(w, tx[w].i, "tail", FALSE)
        PROVE  ~u.bad /\ u.fd = (u.part = "head" /\ hasFd(u.i))
    BY <2>2, Zenon DEF Unit
  <2> QED BY <1>5, <2>1, <2>2, Zenon DEF Sound
<1>7. ring \in Seq(Units) /\ Sound(ring)
  BY DEF upw_TypeOK, GoodBytes
<1> QED BY <1>1, <1>3, <1>6, <1>7, SoundParts

\* recvmsg() on a stream counts the descriptors of what it moves.
LEMMA BytesTaken ==
  ASSUME upw_TypeOK, GoodBytes, upw_recvBytes
  PROVE  /\ Sound(ring') /\ Sound(rx'.half)
         /\ rx'.fds = Fds((Read' + Len(rx'.half) + 1) \div 2)
<1>1. PICK k \in 1..Len(ring) : TookBytes(k)
  BY BytesEffect
<1>2. rx.half \in Seq(Units) /\ ring \in Seq(Units) /\ upw_case \in upw_cases /\ rx.recv \in Nat
  BY DEF upw_TypeOK, RxType
<1>3. /\ Sound(rx.half) /\ Sound(ring) /\ InOrder(Unread, Read, Written)
      /\ rx.fds = Fds((Read + Len(rx.half) + 1) \div 2)
  BY DEF GoodBytes
<1>4. PICK h \in Seq(Units), r \in Seq(Units), n \in Nat, m \in Nat, c \in Nat :
        h = rx.half /\ r = ring /\ n = Len(ring) /\ m = Len(rx.half) /\ c = Read
  BY <1>2 DEF Read
<1>5. k \in Nat /\ k >= 1 /\ k <= n /\ n = Len(r) /\ m = Len(h)
  BY <1>4
<1> DEFINE f == SubSeq(r, 1, k)
           g == SubSeq(r, k + 1, n)
<1>6. f \in Seq(Units) /\ g \in Seq(Units) /\ Len(f) = k
  BY <1>5, SubSeqProperties
<1>7. Sound(f) /\ Sound(g) /\ Sound(h) /\ Sound(r)
  <2>1. Sound(r) /\ Sound(h)
    BY <1>3, <1>4
  <2>2. 1 \in Nat /\ k + 1 \in Nat /\ k + 1 >= 1 /\ 1 >= 1
    BY <1>5
  <2> QED BY <1>5, <2>1, <2>2, SoundParts
<1>8. rx'.half = h \o f /\ ring' = g /\ rx'.fds = rx.fds + Cardinality({ j \in 1..k : r[j].fd })
      /\ Read' = c
  BY <1>1, <1>4 DEF TookBytes, Read
<1> HIDE DEF f, g
<1>9. Sound(h \o f) /\ Len(h \o f) = m + k
  BY <1>5, <1>6, <1>7, SoundParts, ConcatProperties, ZenonT(40)
<1>10. \A j \in 1..k : Pos(r[j]) = (c + m) + j - 1
  <2> TAKE j \in 1..k
  <2>1. /\ Len(Unread) = m + n /\ m + j \in 1..(m + n) /\ ~(m + j <= m) /\ (m + j) - m = j
    BY <1>4, <1>5, UnreadFacts
  <2>2. Unread[m + j] = r[j]
    BY <1>4, <2>1, UnreadFacts, Zenon
  <2>3. Pos(Unread[m + j]) = c + (m + j) - 1
    BY <1>3, <1>4, <2>1 DEF InOrder
  <2>4. c + (m + j) - 1 = (c + m) + j - 1
    BY <1>5
  <2> QED BY <2>2, <2>3, <2>4
<1>11. Fds(((c + m) + k + 1) \div 2)
          = Fds(((c + m) + 1) \div 2) + Cardinality({ j \in 1..k : r[j].fd })
  <2>1. PICK b \in Nat : b = c + m
    BY <1>5
  <2>2. \A j \in 1..k : Pos(r[j]) = b + j - 1
    BY <1>10, <2>1
  <2>3. Fds((b + k + 1) \div 2) = Fds((b + 1) \div 2) + Cardinality({ j \in 1..k : r[j].fd })
    BY <1>2, <1>5, <1>7, <2>2, FdsBetween, ZenonT(40)
  <2> QED BY <2>1, <2>3
<1>12. rx.fds = Fds(((c + m) + 1) \div 2)
  <2>1. c + m + 1 = (c + m) + 1
    OBVIOUS
  <2> QED BY <1>3, <1>4, <2>1
<1>13. Read' + Len(rx'.half) + 1 = (c + m) + k + 1
  <2>1. Len(rx'.half) = m + k
    BY <1>8, <1>9
  <2> QED BY <1>5, <1>8, <2>1
<1> QED BY <1>7, <1>8, <1>9, <1>11, <1>12, <1>13

\* A message leaves the buffer: what was read of the stream stays the same.
LEMMA PairTaken ==
  ASSUME upw_IInv, GoodRun, GoodBytes, upw_nextMessage, ~upw_case.framed
  PROVE  /\ Sound(ring') /\ Sound(rx'.half)
         /\ rx'.fds = Fds((Read' + Len(rx'.half) + 1) \div 2)
<1>1. /\ rx'.fds = rx.fds /\ rx'.half = SubSeq(rx.half, 3, Len(rx.half)) /\ Len(rx.half) >= 2
      /\ rx'.recv = rx.recv + 1
  BY PairInTurn
<1>2. rx.half \in Seq(Units) /\ rx.recv \in Nat /\ ring' = ring
  BY DEF upw_IInv, upw_TypeOK, RxType, upw_nextMessage
<1>3. Sound(rx.half) /\ Sound(ring) /\ rx.fds = Fds((Read + Len(rx.half) + 1) \div 2)
  BY DEF GoodBytes
<1>4. PICK h \in Seq(Units), m \in Nat, c \in Nat :
        h = rx.half /\ m = Len(rx.half) /\ c = rx.recv /\ m = Len(h) /\ m >= 2
  BY <1>1, <1>2
<1>5. Sound(SubSeq(h, 3, m)) /\ Len(SubSeq(h, 3, m)) = m - 2
  <2>1. Sound(h) /\ 3 \in Nat /\ 3 >= 1 /\ m <= Len(h)
    BY <1>3, <1>4
  <2> QED BY <1>4, <2>1, SoundParts, SubSeqProperties
<1>6. rx'.half = SubSeq(h, 3, m)
  BY <1>1, <1>4
<1>7. Read' = 2 * (c + 1) /\ Read = 2 * c
  BY <1>1, <1>4 DEF Read
<1>8. Read' + Len(rx'.half) + 1 = Read + m + 1
  <2>1. Len(rx'.half) = m - 2
    BY <1>5, <1>6
  <2> QED BY <1>4, <1>7, <2>1, SMTT(40)
<1> QED BY <1>1, <1>2, <1>3, <1>4, <1>5, <1>6, <1>8

\* The steps of a case without faults and timeouts.
SendSteps == \E w \in Writers : upw_sendOne(w) \/ upw_sendBlocks(w) \/ upw_sendToken(w)
RecvSteps == \/ upw_recvFrame \/ upw_recvBytes \/ upw_nextMessage
             \/ upw_receive("prompt") \/ upw_drained \/ upw_finish
MainSteps == \/ upw_join \/ upw_settles \/ upw_collect \/ upw_stopHelpers \/ upw_helperEnds
             \/ upw_check

\* It takes only such steps: the others are faults, or a timeout that runs out.
LEMMA GoodSteps ==
  ASSUME upw_TypeOK, Good, Good', GoodRun, StepKinds
  PROVE  SendSteps \/ RecvSteps \/ MainSteps \/ UNCHANGED upw_vars
<1>1. faults = 0 /\ faults' = 0 /\ ~expired' /\ ~Fault
  BY DEF Good, Fault
<1>2. ASSUME NEW w \in Writers, SenderSteps(w) PROVE SendSteps
  BY <1>1, <1>2 DEF SenderSteps, SendSteps, upw_sendFails, upw_sendGivesUp
<1>3. ASSUME NEW how \in Hows, upw_receive(how), how # "prompt" => faults' = faults + 1
      PROVE  RecvSteps
  <2>1. how = "prompt"
    BY <1>1, <1>3
  <2> QED BY <1>3, <2>1 DEF RecvSteps
<1>4. ASSUME MoveSteps PROVE RecvSteps
  BY <1>1, <1>4 DEF MoveSteps, RecvSteps, upw_childDies, upw_receiveFails
<1>5. ASSUME RunSteps PROVE MainSteps
  BY <1>1, <1>5 DEF RunSteps, MainSteps, upw_hupEnds, upw_idleSleepsOn, GoodRun
<1>6. ~upw_settleEnds
  BY <1>1, Zenon DEF upw_settleEnds, GoodRun
<1>7. ~upw_quitEnds /\ ~upw_kernelFaults
  BY <1>1 DEF upw_quitEnds, upw_kernelFaults, GoodRun
<1>8. CASE \E w \in Writers : SenderSteps(w)
  BY <1>2, <1>8
<1>9. CASE \E how \in Hows : upw_receive(how) /\ faults' \in {faults, faults + 1}
                               /\ (how # "prompt" => faults' = faults + 1)
  BY <1>3, <1>9
<1>10. CASE upw_recvFrame \/ upw_recvBytes \/ upw_nextMessage
  BY <1>10 DEF RecvSteps
<1> QED BY <1>4, <1>5, <1>6, <1>7, <1>8, <1>9, <1>10, SMTT(40) DEF StepKinds

\* upw_check() finds everything that was sent.
LEMMA GoodPasses ==
  ASSUME upw_IInv, GoodRun, GoodUnits, run = "close"
  PROVE  upw_ok
<1>1. /\ upw_TypeOK /\ RunOK /\ SendersOK /\ LogOK /\ upw_case \in upw_cases
      /\ rx.next \in [1..2 -> Nat] /\ rx.recv \in Nat /\ rx.half \in Seq(Units) /\ ring \in Seq(Units)
  BY DEF upw_IInv, upw_TypeOK, RxType
<1>2. /\ rx.marks = {} /\ ~rxTimedOut /\ ~abandoned /\ rx.at = "done" /\ upw_isComplete(rx)
      /\ \A w \in 1..2 : ~tx[w].err
  BY DEF GoodRun
<1>3. Writers \subseteq 1..2 /\ 1 \in Writers /\ upw_case.writers \in 1..2
  BY <1>1, CaseFacts
<1>4. PICK P \in Nat \ {0} : perWriter = P
  BY <1>1, CaseFacts
<1>5. \A w \in Writers : tx[w].at = "over" /\ ~tx[w].err
  BY <1>1, <1>2, <1>3 DEF RunOK
<1>6. \A w \in Writers : tx[w].i = P /\ (~upw_case.framed => tx[w].left = 2)
  BY <1>1, <1>3, <1>4, <1>5 DEF SendersOK, SenderOK
<1>7. FdsSent = upw_case.writers * Fds(P)
  BY <1>4, <1>5, FdsAllSent
<1>8. PICK a \in Nat, b \in Nat : a = rx.next[1] /\ b = rx.next[2]
  BY <1>1
<1>9. rx.recv = a + b /\ (upw_case.writers = 1 => b = 0)
  <2>1. Len(log[1]) = a /\ Len(log[2]) = b
    BY <1>1, <1>2, <1>8 DEF LogOK
  <2>2. ASSUME upw_case.writers = 1 PROVE b = 0
    BY <1>1, <2>1, <2>2 DEF LogOK
  <2> QED BY <1>1, <2>1, <2>2 DEF LogOK
<1>10. a >= P /\ (upw_case.writers = 2 => b >= P)
  BY <1>2, <1>3, <1>4, <1>8 DEF upw_isComplete, Writers
<1>11. Fds(0) = 0 /\ Fds(P) \in Nat
  BY <1>1, FdsCount
<1>12. CASE upw_case.framed
  <2>1. GoodFrames
    BY <1>12 DEF GoodUnits
  <2>2. \A w \in Writers : rx.next[w] <= P
    <3> SUFFICES ASSUME NEW w \in Writers PROVE rx.next[w] <= P
      OBVIOUS
    <3>1. Sents[w] = P
      BY <1>3, <1>5, <1>6 DEF Sents, Sent
    <3> QED BY <2>1, <3>1 DEF GoodFrames, FramesAre, FramesThere
  <2>3. CASE upw_case.writers = 1
    <3>1. a = P /\ b = 0
      BY <1>3, <1>4, <1>8, <1>9, <1>10, <2>2, <2>3, SMTT(40)
    <3>2. rx.recv = Expected
      BY <1>4, <1>9, <2>3, <3>1 DEF Expected
    <3>3. rx.fds = FdsSent
      BY <1>7, <1>8, <1>11, <2>1, <2>3, <3>1, SMTT(40) DEF GoodFrames
    <3> QED BY <1>2, <1>5, <3>2, <3>3 DEF upw_ok
  <2>4. CASE upw_case.writers = 2
    <3>1. a = P /\ b = P
      BY <1>3, <1>4, <1>8, <1>10, <2>2, <2>4, SMTT(40) DEF Writers
    <3>2. rx.recv = Expected
      BY <1>4, <1>9, <2>4, <3>1 DEF Expected
    <3>3. rx.fds = FdsSent
      BY <1>7, <1>8, <1>11, <2>1, <2>4, <3>1, SMTT(40) DEF GoodFrames
    <3> QED BY <1>2, <1>5, <3>2, <3>3 DEF upw_ok
  <2> QED BY <1>3, <2>3, <2>4
<1>13. CASE ~upw_case.framed
  <2>1. GoodBytes /\ upw_case.writers = 1
    BY <1>1, <1>13, CaseFacts DEF GoodUnits
  <2>2. Read = 2 * a /\ Written = 2 * P /\ b = 0
    BY <1>3, <1>4, <1>6, <1>8, <1>9, <1>13, <2>1, SMTT(40) DEF Read, Written
  <2>3. PICK m \in Nat, n \in Nat : m = Len(rx.half) /\ n = Len(ring) /\ Len(Unread) = m + n
    BY <1>1, ConcatProperties DEF Unread
  <2>4. m + n = 2 * P - 2 * a
    BY <2>1, <2>2, <2>3, Zenon DEF GoodBytes, InOrder
  <2>5. a = P /\ m = 0
    BY <1>4, <1>8, <1>10, <2>3, <2>4, SMTT(40)
  <2>6. (2 * P + 0 + 1) \div 2 = P
    BY <1>4
  <2>7. rx.fds = Fds(P)
    BY <2>1, <2>2, <2>3, <2>5, <2>6, SMTT(40) DEF GoodBytes
  <2>8. rx.recv = Expected
    BY <1>4, <1>9, <2>1, <2>2, <2>5, SMTT(40) DEF Expected
  <2>9. rx.fds = FdsSent
    BY <1>7, <1>11, <2>1, <2>7
  <2> QED BY <1>2, <1>5, <2>8, <2>9 DEF upw_ok
<1> QED BY <1>12, <1>13

\* The senders of such a case do not fail, and leave the rest alone.
LEMMA GoodSend ==
  ASSUME upw_TypeOK, SendersOK, GoodRun, SendSteps
  PROVE  GoodRun'
<1>1. PICK w \in Writers : upw_sendOne(w) \/ upw_sendBlocks(w) \/ upw_sendToken(w)
  BY DEF SendSteps
<1>2. UNCHANGED <<upw_case, rx, peerGone, run, rxTimedOut, abandoned, verdict>>
  BY <1>1 DEF upw_sendOne, upw_sendBlocks, upw_sendToken, upw_fixed, upw_rxSide, upw_runSide
<1>3. w \in 1..2 /\ tx[w] \in TxType /\ ~tx[w].err /\ upw_case \in upw_cases
  BY CaseFacts DEF upw_TypeOK, GoodRun
<1>4. ~tx'[w].err /\ \A v \in 1..2 : v # w => tx'[v] = tx[v]
  <2>1. CASE upw_sendOne(w)
    <3>1. tx' \in [1..2 -> TxType] /\ (PartSent(w) \/ WholeSent(w))
          /\ \A v \in 1..2 : v # w => tx'[v] = tx[v]
      BY <2>1, SendEffect
    <3> QED BY <1>3, <3>1 DEF PartSent, WholeSent, TxType
  <2>2. CASE upw_sendBlocks(w)
    BY <1>3, <2>2 DEF upw_sendBlocks, upw_TypeOK, TxType
  <2>3. CASE upw_sendToken(w)
    <3>1. tx' = [tx EXCEPT ![w] = NextMessage(tx[w])]
      BY <2>3 DEF upw_sendToken
    <3>2. NextMessage(tx[w]).err = tx[w].err
      BY <1>3, NextMessageFields
    <3> QED BY <1>3, <3>1, <3>2 DEF upw_TypeOK
  <2> QED BY <1>1, <2>1, <2>2, <2>3
<1>5. \A v \in 1..2 : ~tx'[v].err
  BY <1>4 DEF GoodRun
<1>6. upw_isComplete(rx)' = upw_isComplete(rx)
  BY <1>2 DEF upw_isComplete, Writers, perWriter
<1> QED BY <1>2, <1>5, <1>6 DEF GoodRun

\* The receiver leaves no mark, and only the loop's end makes it done.
LEMMA GoodReceive ==
  ASSUME upw_IInv, GoodRun, GoodUnits, RecvSteps
  PROVE  GoodRun'
<1>1. upw_TypeOK /\ upw_case \in upw_cases /\ rx \in RxType
  BY DEF upw_IInv, upw_TypeOK
<1>2. /\ rx.marks = {} /\ rx.wake = "prompt" /\ ~rx.quit /\ ~rx.hup
      /\ rx.at \in {"poll", "drain", "account", "done"}
      /\ run \notin {"join", "settle"} => rx.at = "done"
      /\ peerGone => run = "over"
  BY SMTT(40) DEF GoodRun
<1>3. UNCHANGED <<upw_case, tx, peerGone, run, rxTimedOut, abandoned, verdict>>
  BY ZenonT(40) DEF RecvSteps, upw_recvFrame, upw_recvBytes, upw_nextMessage, upw_receive, upw_drained,
         upw_finish, upw_fixed, upw_runSide
<1>4. rx.at # "done"
  BY <1>2, Zenon DEF RecvSteps, upw_recvFrame, upw_recvBytes, upw_nextMessage, upw_receive, upw_drained,
         upw_finish
<1>5. run \in {"join", "settle"} /\ ~peerGone
  BY <1>2, <1>4
<1>6. SUFFICES /\ rx'.marks = {} /\ rx'.wake = "prompt" /\ ~rx'.quit /\ ~rx'.hup
               /\ \/ rx'.at \in {"poll", "drain", "account"}
                  \/ rx'.at = "done" /\ upw_isComplete(rx) /\ rx'.next = rx.next
  <2>1. CASE rx'.at \in {"poll", "drain", "account"}
    BY <1>3, <1>5, <1>6, <2>1 DEF GoodRun
  <2>2. CASE rx'.at = "done" /\ upw_isComplete(rx) /\ rx'.next = rx.next
    <3>1. upw_isComplete(rx)'
      BY <1>3, <2>2 DEF upw_isComplete, Writers, perWriter
    <3> QED BY <1>3, <1>5, <1>6, <2>2, <3>1 DEF GoodRun
  <2> QED BY <1>6, <2>1, <2>2
<1>7. CASE upw_recvFrame
  <2>1. GoodFrames
    BY <1>7 DEF GoodUnits, upw_recvFrame
  <2> QED BY <1>2, <1>7, <2>1, FrameInTurn
<1>8. CASE upw_recvBytes
  BY <1>1, <1>2, <1>8, BytesEffect, Zenon DEF TookBytes
<1>9. CASE upw_nextMessage
  <2>1. ~upw_case.framed
    <3>1. Len(rx.half) >= 2
      BY <1>1, <1>9, PairEffect
    <3>2. upw_case.framed => Len(rx.half) = 0
      BY DEF upw_IInv, UnitsOK
    <3> QED BY <3>1, <3>2
  <2>2. GoodBytes
    BY <2>1 DEF GoodUnits
  <2> QED BY <1>2, <1>9, <2>1, <2>2, PairInTurn
<1>10. CASE upw_receive("prompt")
  <2>1. Woken("prompt")
    BY <1>1, <1>10, ReceiveEffect DEF Hows
  <2>2. Worse(rx.wake, "prompt") = "prompt"
    BY <1>2 DEF Worse
  <2>3. Mark("pipe" \in Ready /\ "prompt" = "slow", "pipeMax") = {}
    BY DEF Mark
  <2> QED BY <1>2, <2>1, <2>2, <2>3 DEF Woken
<1>11. CASE upw_drained
  BY <1>1, <1>2, <1>5, <1>11, MoveEffect DEF Moved
<1>12. CASE upw_finish
  <2>1. Moved("done", {}) /\ rx'.hup = rx.hup
    BY <1>1, <1>12, MoveEffect
  <2>2. upw_isComplete(rx)
    BY <1>2, <1>12 DEF upw_finish, LoopEnds
  <2> QED BY <1>2, <2>1, <2>2 DEF Moved
<1> QED BY <1>7, <1>8, <1>9, <1>10, <1>11, <1>12 DEF RecvSteps

\* upw_run() waits for the receiver, and upw_check() passes the case.
LEMMA GoodMain ==
  ASSUME upw_IInv, GoodRun, GoodUnits, MainSteps
  PROVE  GoodRun'
<1>1. UNCHANGED <<upw_case, rx, tx, rxTimedOut>>
  BY DEF MainSteps, upw_join, upw_settles, upw_collect, upw_stopHelpers, upw_helperEnds, upw_check,
         upw_fixed, upw_rxSide
<1>2. upw_isComplete(rx)' = upw_isComplete(rx)
  BY <1>1 DEF upw_isComplete, Writers, perWriter
<1>3. CASE upw_check
  <2>1. /\ run = "close" /\ run' = "over" /\ UNCHANGED abandoned
        /\ verdict' = IF upw_ok THEN "PASS" ELSE "FAIL"
    BY <1>3 DEF upw_check
  <2>2. upw_ok
    BY <2>1, GoodPasses
  <2>3. verdict' = "PASS" /\ rx.at = "done"
    BY <2>1, <2>2 DEF GoodRun
  <2> QED BY <1>1, <1>2, <2>1, <2>3 DEF GoodRun
<1>4. CASE upw_collect
  <2>1. rx.at = "done" /\ run = "collect"
    BY <1>4 DEF upw_collect, GoodRun
  <2>2. ~abandoned'
    BY <1>4, <2>1, Zenon DEF upw_collect
  <2>3. UNCHANGED <<peerGone, verdict>> /\ run' = "helpers"
    BY <1>4 DEF upw_collect
  <2> QED BY <1>1, <1>2, <2>1, <2>2, <2>3 DEF GoodRun
<1>5. CASE upw_join \/ upw_settles
  BY <1>1, <1>2, <1>5 DEF upw_join, upw_settles, GoodRun
<1>6. CASE upw_stopHelpers
  BY <1>1, <1>2, <1>6 DEF upw_stopHelpers, GoodRun
<1>7. CASE upw_helperEnds
  BY <1>1, <1>2, <1>7 DEF upw_helperEnds, GoodRun
<1> QED BY <1>3, <1>4, <1>5, <1>6, <1>7 DEF MainSteps

\* What is queued stays what was sent and not yet counted.
LEMMA GoodUnitsStep ==
  ASSUME upw_IInv, upw_IInv', StreamOK', Good', GoodRun, GoodRun', GoodUnits,
         SendSteps \/ RecvSteps \/ MainSteps \/ UNCHANGED upw_vars
  PROVE  GoodUnits'
<1>0. upw_TypeOK /\ SendersOK /\ upw_case \in upw_cases /\ upw_case.framed \in BOOLEAN
  BY CaseFacts DEF upw_IInv, upw_TypeOK
<1>1. UNCHANGED upw_case /\ faults' = 0 /\ ~rxTimedOut' /\ rx'.marks = {}
  <2>1. UNCHANGED upw_case
    BY Zenon DEF SendSteps, RecvSteps, MainSteps, upw_sendOne, upw_sendBlocks, upw_sendToken,
           upw_recvFrame, upw_recvBytes, upw_nextMessage, upw_receive, upw_drained, upw_finish,
           upw_join, upw_settles, upw_collect, upw_stopHelpers, upw_helperEnds, upw_check,
           upw_fixed, upw_vars
  <2> QED BY <2>1, SMTT(40) DEF Good, GoodRun
<1>2. ASSUME ring' = ring, rx'.next = rx.next, rx'.fds = rx.fds, rx'.half = rx.half,
             rx'.recv = rx.recv, \A w \in 1..2 : Sent(w)' = Sent(w)
      PROVE  GoodUnits'
  <2>1. CASE upw_case.framed
    <3>1. GoodFrames
      BY <2>1 DEF GoodUnits
    <3>2. GoodFrames'
      BY <1>1, <1>2, <3>1, FramesStill
    <3> QED BY <1>1, <2>1, <3>2 DEF GoodUnits
  <2>2. CASE ~upw_case.framed
    <3>1. GoodBytes
      BY <2>2 DEF GoodUnits
    <3>2. GoodBytes'
      BY <1>1, <1>2, <2>2, <3>1, BytesStill
    <3> QED BY <1>1, <2>2, <3>2 DEF GoodUnits
  <2> QED BY <2>1, <2>2
<1>3. ASSUME UNCHANGED <<ring, rx, tx>> PROVE GoodUnits'
  <2>1. \A w \in 1..2 : Sent(w)' = Sent(w)
    BY <1>3 DEF Sent
  <2> QED BY <1>2, <1>3, <2>1
<1>4. ASSUME NEW w \in Writers, upw_sendOne(w) PROVE GoodUnits'
  <2>1. CASE upw_case.framed
    <3>1. GoodFrames
      BY <2>1 DEF GoodUnits
    <3>2. GoodFrames'
      BY <1>4, <2>1, <3>1, FrameSent
    <3> QED BY <1>1, <2>1, <3>2 DEF GoodUnits
  <2>2. CASE ~upw_case.framed
    <3>1. GoodBytes
      BY <2>2 DEF GoodUnits
    <3>2. Sound(ring')
      BY <1>0, <1>4, <2>2, <3>1, BytesSent
    <3>3. rx' = rx
      BY <1>4 DEF upw_sendOne, upw_rxSide
    <3>4. Sound(rx'.half) /\ rx'.fds = Fds((Read' + Len(rx'.half) + 1) \div 2)
      BY <3>1, <3>3 DEF GoodBytes, Read
    <3>5. GoodBytes'
      BY <1>1, <2>2, <3>2, <3>4, BytesCarry
    <3> QED BY <1>1, <2>2, <3>5 DEF GoodUnits
  <2> QED BY <2>1, <2>2
<1>5. ASSUME NEW w \in Writers, upw_sendBlocks(w) \/ upw_sendToken(w) PROVE GoodUnits'
  <2>1. UNCHANGED <<ring, rx>>
    BY <1>5 DEF upw_sendBlocks, upw_sendToken, upw_rxSide
  <2>2. w \in 1..2 /\ tx[w] \in TxType /\ tx \in [1..2 -> TxType]
    BY <1>0, CaseFacts DEF upw_TypeOK
  <2>3. tx' = [tx EXCEPT ![w] = tx'[w]] /\ tx'[w].at \in {"send", "over"}
        /\ tx'[w].i = IF tx[w].at = "token" THEN tx[w].i + 1 ELSE tx[w].i
    <3>1. CASE upw_sendBlocks(w)
      BY <2>2, <3>1, Zenon DEF upw_sendBlocks, TxType
    <3>2. CASE upw_sendToken(w)
      <4>1. tx[w].at = "token" /\ tx' = [tx EXCEPT ![w] = NextMessage(tx[w])]
        BY <3>2 DEF upw_sendToken
      <4>2. NextMessage(tx[w]).i = tx[w].i + 1 /\ NextMessage(tx[w]).at \in {"send", "over"}
        BY <1>0, <2>2, NextMessageFields
      <4> QED BY <2>2, <4>1, <4>2, Zenon
    <3> QED BY <1>5, <3>1, <3>2
  <2>4. Sent(w)' = Sent(w)
    <3>1. tx'[w].at # "token"
      BY <2>3
    <3> QED BY <2>3, <3>1 DEF Sent
  <2>5. ASSUME NEW v \in 1..2, v # w PROVE Sent(v)' = Sent(v)
    BY <2>2, <2>3, <2>5 DEF Sent
  <2> QED BY <1>2, <2>1, <2>4, <2>5
<1>6. CASE upw_recvFrame
  <2>1. upw_case.framed
    BY <1>6 DEF upw_recvFrame
  <2>2. GoodFrames'
    BY <1>6, <2>1, FrameTaken DEF GoodUnits
  <2> QED BY <1>1, <2>1, <2>2 DEF GoodUnits
<1>7. CASE upw_recvBytes
  <2>1. ~upw_case.framed /\ GoodBytes
    BY <1>7 DEF upw_recvBytes, GoodUnits
  <2>2. GoodBytes'
    BY <1>0, <1>1, <1>7, <2>1, BytesTaken, BytesCarry, SMTT(40)
  <2> QED BY <1>1, <2>1, <2>2 DEF GoodUnits
<1>8. CASE upw_nextMessage
  <2>1. ~upw_case.framed
    <3>1. Len(rx.half) >= 2
      BY <1>0, <1>8, PairEffect
    <3>2. upw_case.framed => Len(rx.half) = 0
      BY DEF upw_IInv, UnitsOK
    <3> QED BY <3>1, <3>2
  <2>2. GoodBytes
    BY <2>1 DEF GoodUnits
  <2>3. GoodBytes'
    BY <1>1, <1>8, <2>1, <2>2, PairTaken, BytesCarry, SMTT(40)
  <2> QED BY <1>1, <2>1, <2>3 DEF GoodUnits
<1>9. CASE upw_receive("prompt") \/ upw_drained \/ upw_finish
  <2>1. UNCHANGED <<ring, tx>>
    BY <1>9 DEF upw_receive, upw_drained, upw_finish
  <2>2. /\ rx'.next = rx.next /\ rx'.recv = rx.recv /\ rx'.fds = rx.fds /\ rx'.half = rx.half
    BY <1>0, <1>9, ReceiveEffect, MoveEffect DEF Woken, Moved, Hows
  <2>3. \A w \in 1..2 : Sent(w)' = Sent(w)
    BY <2>1 DEF Sent
  <2> QED BY <1>2, <2>1, <2>2, <2>3, SMTT(40)
<1>10. CASE MainSteps
  BY <1>3, <1>10 DEF MainSteps, upw_join, upw_settles, upw_collect, upw_stopHelpers,
         upw_helperEnds, upw_check, upw_rxSide
<1>11. CASE UNCHANGED upw_vars
  BY <1>3, <1>11 DEF upw_vars
<1>12. CASE SendSteps
  BY <1>4, <1>5, <1>12 DEF SendSteps
<1> QED BY <1>6, <1>7, <1>8, <1>9, <1>10, <1>11, <1>12, SMTT(40) DEF RecvSteps

\* At the start nothing is queued or counted.
LEMMA GoodInit == upw_Init => GoodInv
<1> SUFFICES ASSUME upw_Init PROVE GoodRun /\ GoodUnits
  BY DEF GoodInv
<1>1. /\ upw_case \in upw_cases /\ ring = <<>> /\ Len(ring) = 0 /\ rx.half = <<>> /\ Len(rx.half) = 0
      /\ rx.next = [w \in 1..2 |-> 0] /\ rx.fds = 0 /\ rx.recv = 0
      /\ \A w \in 1..2 : tx[w].at = "send" /\ tx[w].i = 0 /\ tx[w].left = 2 /\ ~tx[w].err
  BY DEF upw_Init
<1>2. Writers \subseteq 1..2 /\ Fds(0) = 0
  BY <1>1, CaseFacts, FdsCount
<1>3. GoodRun
  BY <1>1 DEF GoodRun, upw_Init
<1>4. GoodFrames
  <2>1. \A w \in 1..2 : Sents[w] = 0 /\ rx.next[w] = 0
    BY <1>1 DEF Sents, Sent
  <2>2. FramesFit(ring, rx.next, Sents) /\ FramesOrdered(ring)
    BY <1>1 DEF FramesFit, FramesOrdered
  <2>3. FramesThere(ring, rx.next, Sents)
    BY <1>2, <2>1 DEF FramesThere
  <2> QED BY <1>1, <1>2, <2>1, <2>2, <2>3, SMTT(40) DEF GoodFrames, FramesAre
<1>5. GoodBytes
  <2>1. Unread = <<>> /\ Len(Unread) = 0 /\ Read = 0 /\ Written = 0
    BY <1>1 DEF Unread, Read, Written
  <2>2. InOrder(Unread, Read, Written) /\ Sound(rx.half) /\ Sound(ring)
    BY <1>1, <2>1 DEF InOrder, Sound
  <2>3. (0 + 0 + 1) \div 2 = 0
    OBVIOUS
  <2> QED BY <1>1, <1>2, <2>1, <2>2, <2>3, SMTT(40) DEF GoodBytes
<1> QED BY <1>3, <1>4, <1>5 DEF GoodUnits

\* Every step of a case without faults and timeouts keeps it good.
LEMMA GoodStep ==
  ASSUME upw_IInv, upw_IInv', StreamOK', GoodInv, StepKinds
  PROVE  GoodInv'
<1> SUFFICES ASSUME Good' PROVE GoodRun' /\ GoodUnits'
  BY DEF GoodInv
<1>1. upw_TypeOK /\ SendersOK
  BY DEF upw_IInv
<1>2. Good
  <2>1. faults' \in {faults, faults + 1} /\ (expired => expired') /\ faults \in Nat
    BY <1>1, Grows DEF upw_TypeOK
  <2> QED BY <2>1 DEF Good
<1>3. GoodRun /\ GoodUnits
  BY <1>2 DEF GoodInv
<1>4. SendSteps \/ RecvSteps \/ MainSteps \/ UNCHANGED upw_vars
  BY <1>1, <1>2, <1>3, GoodSteps
<1>5. GoodRun'
  <2>1. CASE UNCHANGED upw_vars
    <3>1. upw_isComplete(rx)' = upw_isComplete(rx)
      BY <2>1 DEF upw_vars, upw_isComplete, Writers, perWriter
    <3> QED BY <1>3, <2>1, <3>1 DEF GoodRun, upw_vars
  <2> QED BY <1>1, <1>3, <1>4, <2>1, GoodSend, GoodReceive, GoodMain
<1>6. GoodUnits'
  BY <1>3, <1>4, <1>5, GoodUnitsStep
<1> QED BY <1>5, <1>6

\* A kernel without faults gets a PASS in every case, if no timeout runs out,
\* whatever the order of senders, receiver and main.
THEOREM FaultlessPassesTheorem == upw_Spec => []FaultlessPasses
<1>1. upw_Init => StreamOK /\ GoodInv
  BY StreamInit, GoodInit
<1>2. upw_IInv /\ StreamOK /\ [upw_Next]_upw_vars => StreamOK'
  BY NextSteps, StreamStep
<1>3. upw_IInv /\ upw_IInv' /\ StreamOK' /\ GoodInv /\ [upw_Next]_upw_vars => GoodInv'
  BY NextSteps, GoodStep
<1>4. upw_IInv /\ GoodInv => FaultlessPasses
  <2> SUFFICES ASSUME upw_IInv, GoodInv, verdict = "FAIL" PROVE faults > 0 \/ expired
    BY DEF FaultlessPasses
  <2>1. ~Good
    BY DEF GoodInv, GoodRun
  <2>2. faults \in Nat
    BY DEF upw_IInv, upw_TypeOK
  <2> QED BY <2>1, <2>2 DEF Good
<1> QED BY <1>1, <1>2, <1>3, <1>4, upw_InductiveInvariant, PTL DEF upw_Spec

=============================================================================
