---------------------------- MODULE PollWakePass -----------------------------
(***************************************************************************)
(* What a PASS of upw_check() vouches for.                                 *)
(*                                                                         *)
(* upw_IInv is enough when the case sends frames.  On a stream a fault     *)
(* shifts the halves of messages against each other, and StreamOK follows  *)
(* the break through the buffer and the queue until a counter shows it.    *)
(***************************************************************************)
EXTENDS PollWakeProofs

\* A stream, as the sequence of units that are not accounted for: in order; with
\* one lost, repeated or swapped with the next from place d on; or with the rest
\* of a message in front.
Pos(u) == 2 * u.i + IF u.part = "head" THEN 0 ELSE 1
Split(q) == \A k \in 1..Len(q) : q[k].w = 1 /\ q[k].part \in {"head", "tail"}
InOrder(q, c, e) == /\ Len(q) = e - c
                    /\ \A k \in 1..Len(q) : Pos(q[k]) = c + k - 1
Lacks(q, c, e, d) == /\ Len(q) = e - c - 1
                     /\ \A k \in 1..Len(q) : Pos(q[k]) = IF k < d THEN c + k - 1 ELSE c + k
Repeats(q, c, e, d) == /\ Len(q) = e - c + 1
                       /\ \A k \in 1..Len(q) : Pos(q[k]) = IF k < d THEN c + k - 1 ELSE c + k - 2
Swaps(q, c, e, d) == /\ Len(q) = e - c /\ d < Len(q)
                     /\ \A k \in 1..Len(q) : Pos(q[k]) = IF k = d THEN c + d
                                                         ELSE IF k = d + 1 THEN c + d - 1 ELSE c + k - 1
Displaced(q, c, e) == Len(q) = e - c /\ Len(q) >= 1 /\ q[1].part = "tail"
Adrift(q, c, e) == Lacks(q, c, e, 1) \/ Repeats(q, c, e, 1) \/ Displaced(q, c, e)
Shape(q, c, e) == \/ InOrder(q, c, e) \/ Displaced(q, c, e)
                  \/ \E d \in 1..(Len(q) + 1) :
                       Lacks(q, c, e, d) \/ Repeats(q, c, e, d) \/ Swaps(q, c, e, d)

Unread  == rx.half \o ring
Read    == 2 * rx.recv
Written == 2 * tx[1].i + 2 - tx[1].left
Watched == ~upw_case.framed /\ faults < 2 /\ ~rxTimedOut /\ rx.marks \cap {"lost", "dup", "bad"} = {}
\* All the messages that were taken are whole, but for the last if that shows in
\* what follows.
StreamIs(q, c, e, lg, f) ==
  /\ Split(q) /\ Shape(q, c, e) /\ (f = 0 => InOrder(q, c, e))
  /\ \A k \in 1..(Len(lg) - 1) : lg[k].intact
  /\ Len(lg) > 0 => lg[Len(lg)].intact \/ Adrift(q, c, e)
StreamOK == Watched => StreamIs(Unread, Read, Written, log[1], faults)

--------------------------------------------------------------------------------
\* Places in a stream: even for the head of a message, odd for its tail.
LEMMA PosFacts ==
  ASSUME NEW u \in Units, NEW r \in Int
  PROVE  /\ Pos(u) \in Nat
         /\ Pos(u) = 2 * r <=> u.part = "head" /\ u.i = r
         /\ Pos(u) = 2 * r + 1 <=> u.part # "head" /\ u.i = r
<1>1. u.i \in Nat
  BY DEF Units
<1>2. CASE u.part = "head"
  <2>1. Pos(u) = 2 * u.i
    BY <1>1, <1>2 DEF Pos
  <2> QED BY <1>1, <1>2, <2>1
<1>3. CASE u.part # "head"
  <2>1. Pos(u) = 2 * u.i + 1
    BY <1>1, <1>3 DEF Pos
  <2> QED BY <1>1, <1>3, <2>1
<1> QED BY <1>2, <1>3

\* One more unit at the end.
LEMMA ShapeAppend ==
  ASSUME NEW q \in Seq(Units), NEW c \in Int, NEW e \in Int, NEW t \in Seq(Units),
         Len(t) = Len(q) + 1, \A k \in 1..Len(q) : t[k] = q[k], Pos(t[Len(q) + 1]) = e
  PROVE  /\ InOrder(q, c, e) => InOrder(t, c, e + 1)
         /\ Shape(q, c, e) => Shape(t, c, e + 1)
         /\ Adrift(q, c, e) => Adrift(t, c, e + 1)
<1>0. Len(q) \in Nat
  OBVIOUS
<1>1. InOrder(q, c, e) => InOrder(t, c, e + 1)
  BY <1>0 DEF InOrder
<1>2. \A d \in 1..(Len(q) + 1) : Lacks(q, c, e, d) => Lacks(t, c, e + 1, d)
  <2> SUFFICES ASSUME NEW d \in 1..(Len(q) + 1), Lacks(q, c, e, d)
               PROVE  Lacks(t, c, e + 1, d)
    OBVIOUS
  <2>1. Len(t) = (e + 1) - c - 1 /\ e = c + Len(q) + 1
    BY <1>0 DEF Lacks
  <2>2. ASSUME NEW k \in 1..Len(t)
        PROVE  Pos(t[k]) = IF k < d THEN c + k - 1 ELSE c + k
    <3>1. CASE k \in 1..Len(q)
      BY <3>1 DEF Lacks
    <3>2. CASE k = Len(q) + 1
      BY <1>0, <2>1, <3>2
    <3> QED BY <1>0, <2>2, <3>1, <3>2
  <2> QED BY <2>1, <2>2 DEF Lacks
<1>3. \A d \in 1..(Len(q) + 1) : Repeats(q, c, e, d) => Repeats(t, c, e + 1, d)
  BY <1>0 DEF Repeats
<1>4. \A d \in 1..(Len(q) + 1) : Swaps(q, c, e, d) => Swaps(t, c, e + 1, d)
  <2> SUFFICES ASSUME NEW d \in 1..(Len(q) + 1), Swaps(q, c, e, d)
               PROVE  Swaps(t, c, e + 1, d)
    OBVIOUS
  <2>1. Len(t) = (e + 1) - c /\ d < Len(t) /\ d < Len(q) /\ e = c + Len(q)
    BY <1>0 DEF Swaps
  <2>2. ASSUME NEW k \in 1..Len(t)
        PROVE  Pos(t[k]) = IF k = d THEN c + d ELSE IF k = d + 1 THEN c + d - 1 ELSE c + k - 1
    <3>1. CASE k \in 1..Len(q)
      BY <3>1 DEF Swaps
    <3>2. CASE k = Len(q) + 1
      BY <1>0, <2>1, <3>2
    <3> QED BY <1>0, <2>2, <3>1, <3>2
  <2> QED BY <2>1, <2>2 DEF Swaps
<1>5. Displaced(q, c, e) => Displaced(t, c, e + 1)
  BY <1>0 DEF Displaced
<1>6. \A d \in 1..(Len(q) + 1) : d \in 1..(Len(t) + 1)
  BY <1>0
<1>7. Shape(q, c, e) => Shape(t, c, e + 1)
  BY <1>1, <1>2, <1>3, <1>4, <1>5, <1>6 DEF Shape
<1>8. Adrift(q, c, e) => Adrift(t, c, e + 1)
  BY <1>0, <1>2, <1>3, <1>5 DEF Adrift
<1> QED BY <1>1, <1>7, <1>8

\* One fault in a stream that was in order.
LEMMA ShapeSpoil ==
  ASSUME NEW q \in Seq(Units), NEW c \in Int, NEW e \in Int, NEW t \in Seq(Units),
         InOrder(q, c, e), NEW k \in 1..Len(q),
         Removed(q, t, k) \/ Inserted(q, t, k) \/ Flagged(q, t) \/ Swapped(q, t, k)
  PROVE  Shape(t, c, e)
<1>0. Len(q) \in Nat /\ Len(q) = e - c /\ \A j \in 1..Len(q) : Pos(q[j]) = c + j - 1
  BY DEF InOrder
<1>1. CASE Removed(q, t, k)
  <2>1. Lacks(t, c, e, k) /\ k \in 1..(Len(t) + 1)
    BY <1>0, <1>1 DEF Removed, Lacks
  <2> QED BY <2>1 DEF Shape
<1>2. CASE Inserted(q, t, k)
  <2>1. Len(t) = e - c + 1 /\ k + 1 \in 1..(Len(t) + 1)
    BY <1>0, <1>2 DEF Inserted
  <2>2. ASSUME NEW j \in 1..Len(t)
        PROVE  Pos(t[j]) = IF j < k + 1 THEN c + j - 1 ELSE c + j - 2
    <3>1. CASE j <= k
      <4>1. t[j] = q[j] /\ j \in 1..Len(q)
        BY <1>0, <1>2, <2>2, <3>1 DEF Inserted
      <4> QED BY <1>0, <3>1, <4>1
    <3>2. CASE ~(j <= k)
      <4>1. t[j] = q[j - 1] /\ j - 1 \in 1..Len(q)
        BY <1>0, <1>2, <2>2, <3>2 DEF Inserted
      <4> QED BY <1>0, <3>2, <4>1
    <3> QED BY <3>1, <3>2
  <2>3. Repeats(t, c, e, k + 1)
    BY <2>1, <2>2 DEF Repeats
  <2> QED BY <2>1, <2>3 DEF Shape
<1>3. CASE Flagged(q, t)
  <2>1. \A j \in 1..Len(t) : Pos(t[j]) = Pos(q[j])
    BY <1>0, <1>3 DEF Flagged, Pos
  <2>2. InOrder(t, c, e)
    BY <1>0, <1>3, <2>1 DEF Flagged, InOrder
  <2> QED BY <2>2 DEF Shape
<1>4. CASE Swapped(q, t, k)
  <2>1. Swaps(t, c, e, k) /\ k \in 1..(Len(t) + 1)
    BY <1>0, <1>4 DEF Swapped, Swaps
  <2> QED BY <2>1 DEF Shape
<1> QED BY <1>1, <1>2, <1>3, <1>4

\* Numbers only: where a stream breaks once a message, two units, is off its front.
LEMMA ShiftBreak ==
  ASSUME NEW c \in Nat, NEW e \in Int, NEW d \in Nat, NEW m \in Nat, NEW n \in Nat,
         d > 2, n = m - 2, d \in 1..(m + 1)
  PROVE  /\ d - 2 \in 1..(n + 1)
         /\ m = e - c - 1 => n = e - (c + 2) - 1
         /\ m = e - c + 1 => n = e - (c + 2) + 1
         /\ m = e - c /\ d < m => n = e - (c + 2) /\ d - 2 < n
OBVIOUS

\* Numbers only: the place of unit k + 2 of a stream is the place of unit k of the rest.
LEMMA ShiftPlace ==
  ASSUME NEW c \in Nat, NEW d \in Nat, NEW k \in Nat, NEW p
  PROVE  /\ (p = IF k + 2 < d THEN c + (k + 2) - 1 ELSE c + (k + 2))
            => (p = IF k < d - 2 THEN (c + 2) + k - 1 ELSE (c + 2) + k)
         /\ (p = IF k + 2 < d THEN c + (k + 2) - 1 ELSE c + (k + 2) - 2)
            => (p = IF k < d - 2 THEN (c + 2) + k - 1 ELSE (c + 2) + k - 2)
         /\ (p = IF k + 2 = d THEN c + d ELSE IF k + 2 = d + 1 THEN c + d - 1 ELSE c + (k + 2) - 1)
            => (p = IF k = d - 2 THEN (c + 2) + (d - 2)
                    ELSE IF k = (d - 2) + 1 THEN (c + 2) + (d - 2) - 1 ELSE (c + 2) + k - 1)
OBVIOUS

\* A message is taken for a good one: then it is whole, or the next one is not.
LEMMA ShapeTake ==
  ASSUME NEW q \in Seq(Units), NEW r \in Nat, NEW e \in Int, NEW t \in Seq(Units),
         Len(q) >= 2, Len(t) = Len(q) - 2, \A k \in 1..Len(t) : t[k] = q[k + 2],
         Split(q), Shape(q, 2 * r, e), q[1].part = "head", q[1].i = r
  PROVE  /\ ~Adrift(q, 2 * r, e)
         /\ Shape(t, 2 * (r + 1), e)
         /\ InOrder(q, 2 * r, e) => InOrder(t, 2 * (r + 1), e)
         /\ \/ q[2].part = "tail" /\ q[2].i = r
            \/ Adrift(t, 2 * (r + 1), e)
<1> DEFINE c == 2 * r
<1>0. /\ c \in Nat /\ 2 * (r + 1) = c + 2 /\ Len(q) \in Nat /\ q[1] \in Units /\ q[2] \in Units
      /\ 1 \in 1..Len(q) /\ 2 \in 1..Len(q)
  OBVIOUS
<1>1. Pos(q[1]) = c
  BY <1>0 DEF Pos
<1>2. ASSUME NEW k \in 1..Len(q), Pos(q[k]) = c + 1
      PROVE  q[k].part = "tail" /\ q[k].i = r
  <2>1. q[k] \in Units /\ q[k].part \in {"head", "tail"}
    BY DEF Split
  <2>2. r \in Int /\ Pos(q[k]) = 2 * r + 1
    BY <1>2
  <2>3. q[k].part # "head" /\ q[k].i = r
    BY <2>1, <2>2, PosFacts, Zenon
  <2> QED BY <2>1, <2>3
<1>t. \A k \in 1..Len(t) : k \in Nat /\ k + 2 \in 1..Len(q) /\ t[k] = q[k + 2]
  BY <1>0
<1>n. Len(t) \in Nat /\ Len(t) = Len(q) - 2 /\ \A d \in 1..(Len(q) + 1) : d \in Nat
  OBVIOUS
<1>3. ~Adrift(q, c, e)
  <2>1. ~Lacks(q, c, e, 1)
    BY <1>0, <1>1 DEF Lacks
  <2>2. ~Repeats(q, c, e, 1)
    BY <1>0, <1>1 DEF Repeats
  <2> QED BY <2>1, <2>2 DEF Adrift, Displaced
<1> HIDE DEF c
<1>4. CASE InOrder(q, c, e)
  <2>1. InOrder(t, c + 2, e)
    <3>1. Len(t) = e - (c + 2)
      BY <1>0, <1>4 DEF InOrder
    <3>2. ASSUME NEW k \in 1..Len(t) PROVE Pos(t[k]) = (c + 2) + k - 1
      <4>1. Pos(q[k + 2]) = c + (k + 2) - 1
        BY <1>t, <1>4 DEF InOrder
      <4> QED BY <1>0, <1>t, <4>1
    <3> QED BY <3>1, <3>2 DEF InOrder
  <2>2. Pos(q[2]) = c + 1
    BY <1>0, <1>4 DEF InOrder
  <2> QED BY <1>0, <1>2, <1>3, <2>1, <2>2 DEF Shape, c
<1>5. ASSUME NEW d \in 1..(Len(q) + 1), Lacks(q, c, e, d)
      PROVE  /\ Shape(t, c + 2, e)
             /\ Pos(q[2]) = c + 1 \/ Adrift(t, c + 2, e)
             /\ ~InOrder(q, c, e)
  <2>0. ~InOrder(q, c, e)
    BY <1>0, <1>5 DEF InOrder, Lacks
  <2>1. d # 1
    BY <1>0, <1>1, <1>5 DEF Lacks
  <2>2. CASE d = 2
    <3>1. Lacks(t, c + 2, e, 1) /\ 1 \in 1..(Len(t) + 1)
      BY <1>0, <1>5, <2>2 DEF Lacks
    <3> QED BY <2>0, <3>1 DEF Adrift, Shape
  <2>3. CASE d > 2
    <3>1. Lacks(t, c + 2, e, d - 2) /\ d - 2 \in 1..(Len(t) + 1)
      <4>1. Len(t) = e - (c + 2) - 1 /\ d - 2 \in 1..(Len(t) + 1)
        <5>1. Len(q) = e - c - 1
          BY <1>5 DEF Lacks
        <5> QED BY <1>0, <1>n, <2>3, <5>1, ShiftBreak
      <4>2. ASSUME NEW k \in 1..Len(t)
            PROVE  Pos(t[k]) = IF k < d - 2 THEN (c + 2) + k - 1 ELSE (c + 2) + k
        <5>1. Pos(q[k + 2]) = IF k + 2 < d THEN c + (k + 2) - 1 ELSE c + (k + 2)
          BY <1>t, <1>5 DEF Lacks
        <5> QED BY <1>0, <1>n, <1>t, <5>1, ShiftPlace
      <4> QED BY <4>1, <4>2 DEF Lacks
    <3>2. Pos(q[2]) = c + 1
      BY <1>0, <1>5, <2>3 DEF Lacks
    <3> QED BY <2>0, <3>1, <3>2 DEF Shape
  <2> QED BY <2>1, <2>2, <2>3
<1>6. ASSUME NEW d \in 1..(Len(q) + 1), Repeats(q, c, e, d)
      PROVE  /\ Shape(t, c + 2, e)
             /\ Pos(q[2]) = c + 1 \/ Adrift(t, c + 2, e)
             /\ ~InOrder(q, c, e)
  <2>0. ~InOrder(q, c, e)
    BY <1>0, <1>6 DEF InOrder, Repeats
  <2>1. d # 1
    BY <1>0, <1>1, <1>6 DEF Repeats
  <2>2. CASE d = 2
    <3>1. Repeats(t, c + 2, e, 1) /\ 1 \in 1..(Len(t) + 1)
      BY <1>0, <1>6, <2>2 DEF Repeats
    <3> QED BY <2>0, <3>1 DEF Adrift, Shape
  <2>3. CASE d > 2
    <3>1. Repeats(t, c + 2, e, d - 2) /\ d - 2 \in 1..(Len(t) + 1)
      <4>1. Len(t) = e - (c + 2) + 1 /\ d - 2 \in 1..(Len(t) + 1)
        <5>1. Len(q) = e - c + 1
          BY <1>6 DEF Repeats
        <5> QED BY <1>0, <1>n, <2>3, <5>1, ShiftBreak
      <4>2. ASSUME NEW k \in 1..Len(t)
            PROVE  Pos(t[k]) = IF k < d - 2 THEN (c + 2) + k - 1 ELSE (c + 2) + k - 2
        <5>1. Pos(q[k + 2]) = IF k + 2 < d THEN c + (k + 2) - 1 ELSE c + (k + 2) - 2
          BY <1>t, <1>6 DEF Repeats
        <5> QED BY <1>0, <1>n, <1>t, <5>1, ShiftPlace
      <4> QED BY <4>1, <4>2 DEF Repeats
    <3>2. Pos(q[2]) = c + 1
      BY <1>0, <1>6, <2>3 DEF Repeats
    <3> QED BY <2>0, <3>1, <3>2, SMTT(40) DEF Shape
  <2> QED BY <2>1, <2>2, <2>3
<1>7. ASSUME NEW d \in 1..(Len(q) + 1), Swaps(q, c, e, d)
      PROVE  /\ Shape(t, c + 2, e)
             /\ Pos(q[2]) = c + 1 \/ Adrift(t, c + 2, e)
             /\ ~InOrder(q, c, e)
  <2>0. ~InOrder(q, c, e)
    <3>1. d \in 1..Len(q) /\ Pos(q[d]) = c + d
      BY <1>0, <1>7 DEF Swaps
    <3> QED BY <1>0, <3>1 DEF InOrder
  <2>1. d # 1
    BY <1>0, <1>1, <1>7 DEF Swaps
  <2>2. CASE d = 2
    <3>1. 1 \in 1..Len(t) /\ t[1] = q[3] /\ 3 \in 1..Len(q)
      BY <1>0, <1>7, <2>2 DEF Swaps
    <3>2. Pos(q[3]) = c + 1
      BY <1>0, <1>7, <2>2, <3>1 DEF Swaps
    <3>3. q[3].part = "tail"
      BY <1>2, <3>1, <3>2
    <3>4. Len(t) = e - (c + 2) /\ Len(t) >= 1
      BY <1>0, <1>7, <2>2, <3>1 DEF Swaps
    <3>5. Displaced(t, c + 2, e)
      BY <3>1, <3>3, <3>4 DEF Displaced
    <3> QED BY <2>0, <3>5 DEF Adrift, Shape
  <2>3. CASE d > 2
    <3>1. Swaps(t, c + 2, e, d - 2) /\ d - 2 \in 1..(Len(t) + 1)
      <4>1. Len(t) = e - (c + 2) /\ d - 2 < Len(t) /\ d - 2 \in 1..(Len(t) + 1)
        <5>1. Len(q) = e - c /\ d < Len(q)
          BY <1>7 DEF Swaps
        <5> QED BY <1>0, <1>n, <2>3, <5>1, ShiftBreak
      <4>2. ASSUME NEW k \in 1..Len(t)
            PROVE  Pos(t[k]) = IF k = d - 2 THEN (c + 2) + (d - 2)
                               ELSE IF k = (d - 2) + 1 THEN (c + 2) + (d - 2) - 1 ELSE (c + 2) + k - 1
        <5>1. Pos(q[k + 2]) = IF k + 2 = d THEN c + d
                              ELSE IF k + 2 = d + 1 THEN c + d - 1 ELSE c + (k + 2) - 1
          BY <1>t, <1>7 DEF Swaps
        <5> QED BY <1>0, <1>n, <1>t, <5>1, ShiftPlace
      <4> QED BY <4>1, <4>2 DEF Swaps
    <3>2. Pos(q[2]) = c + 1
      BY <1>0, <1>7, <2>3 DEF Swaps
    <3> QED BY <2>0, <3>1, <3>2 DEF Shape
  <2> QED BY <2>1, <2>2, <2>3
<1>8. ~Displaced(q, c, e)
  BY <1>3 DEF Adrift
<1>9. Shape(q, c, e)
  BY DEF c
<1>10. CASE \E d \in 1..(Len(q) + 1) : Lacks(q, c, e, d) \/ Repeats(q, c, e, d) \/ Swaps(q, c, e, d)
  <2>1. /\ Shape(t, c + 2, e)
        /\ Pos(q[2]) = c + 1 \/ Adrift(t, c + 2, e)
        /\ ~InOrder(q, c, e)
    BY <1>5, <1>6, <1>7, <1>10
  <2> QED BY <1>0, <1>2, <1>3, <2>1 DEF c
<1> QED BY <1>4, <1>8, <1>9, <1>10 DEF Shape

\* One more unit at the end of a stream: a sender adds the one that is next.
LEMMA StreamAppend ==
  ASSUME NEW q \in Seq(Units), NEW c \in Int, NEW e \in Int, NEW lg, NEW f, NEW u \in Units,
         StreamIs(q, c, e, lg, f), u.w = 1, u.part \in {"head", "tail"}, Pos(u) = e
  PROVE  Append(q, u) \in Seq(Units) /\ StreamIs(Append(q, u), c, e + 1, lg, f)
<1> DEFINE t == Append(q, u)
<1>1. /\ t \in Seq(Units) /\ Len(t) = Len(q) + 1 /\ \A k \in 1..Len(q) : t[k] = q[k]
      /\ t[Len(q) + 1] = u /\ Len(q) \in Nat
  BY AppendProperties
<1> HIDE DEF t
<1>2. /\ InOrder(q, c, e) => InOrder(t, c, e + 1)
      /\ Shape(q, c, e) => Shape(t, c, e + 1)
      /\ Adrift(q, c, e) => Adrift(t, c, e + 1)
  BY <1>1, ShapeAppend
<1>3. Split(t)
  <2> SUFFICES ASSUME NEW k \in 1..Len(t) PROVE t[k].w = 1 /\ t[k].part \in {"head", "tail"}
    BY DEF Split
  <2>1. CASE k \in 1..Len(q)
    BY <1>1, <2>1 DEF StreamIs, Split
  <2>2. CASE k = Len(q) + 1
    BY <1>1, <2>2
  <2> QED BY <1>1, <2>1, <2>2
<1> QED BY <1>1, <1>2, <1>3 DEF StreamIs, t

\* What is not accounted for is what is buffered, and then what is queued.
LEMMA UnreadFacts ==
  ASSUME upw_TypeOK
  PROVE  /\ Unread \in Seq(Units) /\ Len(Unread) = Len(rx.half) + Len(ring)
         /\ Len(rx.half) \in Nat /\ Len(ring) \in Nat
         /\ \A k \in 1..Len(Unread) :
              Unread[k] = IF k <= Len(rx.half) THEN rx.half[k] ELSE ring[k - Len(rx.half)]
<1>1. rx.half \in Seq(Units) /\ ring \in Seq(Units)
  BY DEF upw_TypeOK, RxType
<1> QED BY <1>1, ConcatProperties DEF Unread

\* upw_sendOne() adds to the stream what comes next.
LEMMA StreamSend ==
  ASSUME upw_TypeOK, SendersOK, NEW w \in Writers, upw_sendOne(w), ~upw_case.framed,
         StreamIs(Unread, Read, Written, log[1], faults)
  PROVE  StreamIs(Unread, Read, Written, log[1], faults)'
<1>1. w = 1 /\ upw_case \in upw_cases
  BY CaseFacts DEF upw_TypeOK, Writers
<1>2. /\ tx[1].at = "send" /\ Len(ring) < Room /\ ring' = ring \o Taken(1)
      /\ UNCHANGED <<rx, log, faults>>
  BY <1>1 DEF upw_sendOne, upw_rxSide
<1>3. TakenIs(1)
  BY <1>1, <1>2, TakenFacts
<1>4. /\ tx[1].i \in Nat /\ tx[1].left \in {1, 2} /\ Taken(1) \in Seq(Units)
      /\ Len(Taken(1)) \in {1, 2} /\ Len(Taken(1)) <= tx[1].left
  <2>1. /\ tx[1] \in TxType /\ Taken(1) \in Seq(Units) /\ Len(Taken(1)) \in 1..2
        /\ Len(Taken(1)) <= tx[1].left
    BY <1>3, Zenon DEF TakenIs
  <2>2. SenderOK(1)
    BY DEF SendersOK
  <2>3. tx[1].left \in 1..2
    BY <1>2, <2>2 DEF SenderOK
  <2>4. tx[1].i \in Nat
    BY <2>1 DEF TxType
  <2>5. Len(Taken(1)) \in {1, 2} /\ tx[1].left \in {1, 2}
    BY <2>1, <2>3
  <2> QED BY <2>1, <2>4, <2>5
<1>5. Unread' = Unread \o Taken(1) /\ Unread \in Seq(Units)
  <2>1. rx.half \in Seq(Units) /\ ring \in Seq(Units)
    BY DEF upw_TypeOK, RxType
  <2>2. Unread' = rx.half \o (ring \o Taken(1))
    BY <1>2 DEF Unread
  <2>3. rx.half \o (ring \o Taken(1)) = (rx.half \o ring) \o Taken(1)
    <3>1. Taken(1) \in Seq(Units)
      BY <1>4
    <3>2. PICK h \in Seq(Units), r \in Seq(Units), t \in Seq(Units) :
            rx.half = h /\ ring = r /\ Taken(1) = t
      BY <2>1, <3>1
    <3>3. h \o (r \o t) = (h \o r) \o t
      BY ConcatAssociative
    <3> QED BY <3>2, <3>3
  <2>4. rx.half \o ring \in Seq(Units)
    BY <2>1, ConcatProperties
  <2> QED BY <2>2, <2>3, <2>4, Zenon DEF Unread
<1>6. Written' = Written + Len(Taken(1)) /\ Written \in Int /\ Read \in Int
  <2>0. rx.recv \in Nat
    BY DEF upw_TypeOK, RxType
  <2>1. PartSent(1) \/ WholeSent(1)
    BY <1>1, SendEffect
  <2>2. tx[1] \in TxType
    BY <1>3 DEF TakenIs
  <2>3. CASE PartSent(1)
    <3>1. tx'[1].i = tx[1].i /\ tx'[1].left = 1 /\ Len(Taken(1)) = 1 /\ tx[1].left = 2
      BY <2>2, <2>3 DEF PartSent, TxType
    <3>2. PICK i \in Nat, j \in 1..2, n \in 1..2 :
            tx[1].i = i /\ tx[1].left = j /\ Len(Taken(1)) = n
        BY <1>4
      <3>3. Written = 2 * i + 2 - j
        BY <3>2 DEF Written
      <3>4. Written' = 2 * tx'[1].i + 2 - tx'[1].left
        BY DEF Written
      <3>5. tx'[1].i = i /\ tx'[1].left = 1 /\ j = 2 /\ n = 1
        BY <3>1, <3>2
      <3>6. Written' = 2 * i + 2 - 1 /\ Written = 2 * i + 2 - 2
        BY <3>3, <3>4, <3>5
      <3>7. Written' = Written + 1 /\ Written \in Int
        BY <3>6
      <3>8. Len(Taken(1)) = 1
        BY <2>3 DEF PartSent
      <3>9. Read \in Int
        BY <2>0 DEF Read
      <3> QED BY <3>7, <3>8, <3>9, Zenon
  <2>4. CASE WholeSent(1)
    <3>1. tx'[1].i = tx[1].i + 1 /\ tx'[1].left = 2 /\ Len(Taken(1)) = tx[1].left
      BY <2>4 DEF WholeSent
    <3>2. PICK i \in Nat, j \in 1..2, n \in 1..2 :
            tx[1].i = i /\ tx[1].left = j /\ Len(Taken(1)) = n
        BY <1>4
      <3>3. Written = 2 * i + 2 - j
        BY <3>2 DEF Written
      <3>4. Written' = 2 * tx'[1].i + 2 - tx'[1].left
        BY DEF Written
      <3>5. Written' = Written + Len(Taken(1)) /\ Written \in Int
        BY <3>1, <3>2, <3>3, <3>4
      <3> QED BY <2>0, <3>5 DEF Read
  <2> QED BY <2>1, <2>3, <2>4
<1> DEFINE a == Taken(1)[1]
           b == Taken(1)[2]
<1>7. a \in Units /\ a.w = 1 /\ a.part \in {"head", "tail"} /\ Pos(a) = Written
  <2>1. a \in Units
    BY <1>4
  <2>2. CASE tx[1].left = 2
    <3>1. a = Unit(1, tx[1].i, "head", hasFd(tx[1].i))
      BY <1>3, <2>2, Zenon DEF TakenIs
    <3> QED BY <1>4, <2>1, <2>2, <3>1 DEF Unit, Pos, Written
  <2>3. CASE tx[1].left = 1
    <3>1. a = Unit(1, tx[1].i, "tail", FALSE)
      BY <1>3, <2>3, Zenon DEF TakenIs
    <3> QED BY <1>4, <2>1, <2>3, <3>1 DEF Unit, Pos, Written
  <2> QED BY <1>4, <2>2, <2>3
<1>8. /\ Append(Unread, a) \in Seq(Units)
      /\ StreamIs(Append(Unread, a), Read, Written + 1, log[1], faults)
  BY <1>5, <1>6, <1>7, StreamAppend, Zenon
<1>9. CASE Len(Taken(1)) = 1
  <2>1. Unread' = Append(Unread, a)
    <3>1. Taken(1) = <<a>>
      BY <1>4, <1>9
    <3> QED BY <1>5, <1>7, <3>1, AppendIsConcat
  <2>2. Written' = Written + 1 /\ Read' = Read /\ log' = log /\ faults' = faults
    BY <1>2, <1>6, <1>9 DEF Read
  <2> QED BY <1>8, <2>1, <2>2
<1>10. CASE Len(Taken(1)) = 2
  <2>1. tx[1].left = 2 /\ b = Unit(1, tx[1].i, "tail", FALSE) /\ b \in Units
    <3>1. tx[1].left = 2 /\ Taken(1)[2] = Unit(1, tx[1].i, "tail", FALSE)
      BY <1>3, <1>10, Zenon DEF TakenIs
    <3>2. Taken(1)[2] \in Units
      BY <1>4, <1>10
    <3> QED BY <3>1, <3>2, Zenon
  <2>2. b.w = 1 /\ b.part = "tail" /\ Pos(b) = Written + 1
    BY <1>4, <2>1 DEF Unit, Pos, Written
  <2>3. StreamIs(Append(Append(Unread, a), b), Read, (Written + 1) + 1, log[1], faults)
    <3> DEFINE q == Append(Unread, a)
               e == Written + 1
    <3>1. q \in Seq(Units) /\ e \in Int /\ StreamIs(q, Read, e, log[1], faults)
      BY <1>6, <1>8
    <3>2. b.part \in {"head", "tail"} /\ b \in Units /\ b.w = 1 /\ Pos(b) = e
      BY <2>1, <2>2
    <3> HIDE DEF q, e, a, b
    <3>3. StreamIs(Append(q, b), Read, e + 1, log[1], faults)
      BY <1>6, <3>1, <3>2, StreamAppend
    <3> QED BY <3>3 DEF q, e
  <2>4. Unread' = Append(Append(Unread, a), b)
    <3>1. Taken(1) = <<a>> \o <<b>> /\ <<a>> \in Seq(Units) /\ <<b>> \in Seq(Units)
      BY <1>4, <1>7, <1>10, <2>1
    <3>2. (Unread \o <<a>>) \o <<b>> = Unread \o (<<a>> \o <<b>>)
      BY <1>5, <3>1, ConcatAssociative
    <3> QED BY <1>5, <1>7, <1>8, <2>1, <3>1, <3>2, AppendIsConcat, Zenon
  <2>5. Written' = (Written + 1) + 1 /\ Read' = Read /\ log' = log /\ faults' = faults
    <3>1. Written' = Written + 2
      BY <1>6, <1>10, Zenon
    <3>2. Read' = Read /\ log' = log /\ faults' = faults
      BY <1>2 DEF Read
    <3>3. Written + 2 = (Written + 1) + 1
      BY <1>6
    <3> QED BY <3>1, <3>2, <3>3
  <2> QED BY <2>3, <2>4, <2>5
<1> QED BY <1>4, <1>9, <1>10

\* A queue that a fault spoils, seen behind what is buffered.
LEMMA Shift ==
  ASSUME NEW m \in Nat, NEW l \in Nat, NEW j \in 1..(m + l), j \notin 1..m
  PROVE  \E i \in 1..l : j = m + i
<1>1. j - m \in 1..l /\ j = m + (j - m)
  OBVIOUS
<1> QED BY <1>1

\* The same for each of the faults.
LEMMA UnreadSpoil ==
  ASSUME NEW h \in Seq(Units), NEW s \in Seq(Units), NEW t \in Seq(Units), NEW k \in 1..Len(s)
  PROVE  /\ h \o s \in Seq(Units) /\ h \o t \in Seq(Units) /\ Len(h) + k \in 1..Len(h \o s)
         /\ Removed(s, t, k) => Removed(h \o s, h \o t, Len(h) + k)
         /\ Inserted(s, t, k) => Inserted(h \o s, h \o t, Len(h) + k)
         /\ Flagged(s, t) => Flagged(h \o s, h \o t)
         /\ Swapped(s, t, k) => Swapped(h \o s, h \o t, Len(h) + k)
<1> DEFINE q == h \o s
           r == h \o t
<1>1. /\ q \in Seq(Units) /\ Len(q) = Len(h) + Len(s)
      /\ \A j \in 1..(Len(h) + Len(s)) : q[j] = IF j <= Len(h) THEN h[j] ELSE s[j - Len(h)]
  BY ConcatProperties
<1>2. /\ r \in Seq(Units) /\ Len(r) = Len(h) + Len(t)
      /\ \A j \in 1..(Len(h) + Len(t)) : r[j] = IF j <= Len(h) THEN h[j] ELSE t[j - Len(h)]
  BY ConcatProperties
<1>3. Len(h) \in Nat /\ Len(s) \in Nat /\ Len(t) \in Nat
  OBVIOUS
<1> HIDE DEF q, r
<1>4. PICK m \in Nat, n \in Nat, l \in Nat : m = Len(h) /\ n = Len(s) /\ l = Len(t)
  BY <1>3
<1>10. /\ \A j \in 1..m : q[j] = h[j] /\ r[j] = h[j]
       /\ \A i \in 1..n : q[m + i] = s[i]
       /\ \A i \in 1..l : r[m + i] = t[i]
  <2>1. ASSUME NEW j \in 1..m PROVE q[j] = h[j] /\ r[j] = h[j]
    BY <1>1, <1>2, <1>4
  <2>2. ASSUME NEW i \in 1..n PROVE q[m + i] = s[i]
    <3>1. m + i \in 1..(Len(h) + Len(s)) /\ ~(m + i <= Len(h)) /\ m + i - Len(h) = i
      BY <1>4
    <3> QED BY <1>1, <3>1
  <2>3. ASSUME NEW i \in 1..l PROVE r[m + i] = t[i]
    <3>1. m + i \in 1..(Len(h) + Len(t)) /\ ~(m + i <= Len(h)) /\ m + i - Len(h) = i
      BY <1>4
    <3> QED BY <1>2, <3>1
  <2> QED BY <2>1, <2>2, <2>3
<1>5. ASSUME Removed(s, t, k) PROVE Removed(q, r, m + k)
  <2>1. l = n - 1
    BY <1>5, <1>4 DEF Removed
  <2>2. ASSUME NEW j \in 1..m PROVE r[j] = q[j] /\ j < m + k
    BY <1>4, <1>10
  <2>3. ASSUME NEW i \in 1..l
        PROVE  r[m + i] = IF m + i < m + k THEN q[m + i] ELSE q[m + i + 1]
    <3>1. r[m + i] = t[i]
      BY <1>10
    <3>2. t[i] = IF i < k THEN s[i] ELSE s[i + 1]
      BY <1>5, <1>4 DEF Removed
    <3>3. q[m + i] = s[i] /\ q[m + (i + 1)] = s[i + 1]
      <4>1. i \in 1..n /\ i + 1 \in 1..n
        BY <1>4, <2>1
      <4> QED BY <1>10, <4>1
    <3> QED BY <3>1, <3>2, <3>3
  <2>4. ASSUME NEW j \in 1..(m + l)
        PROVE  r[j] = IF j < m + k THEN q[j] ELSE q[j + 1]
    <3>1. CASE j \in 1..m
      BY <2>2, <3>1
    <3>2. CASE j \notin 1..m
      <4>1. PICK i \in 1..l : j = m + i
        BY <1>4, <3>2, Shift, ZenonT(40)
      <4> QED BY <1>4, <2>3, <4>1
    <3> QED BY <3>1, <3>2
  <2> QED BY <1>1, <1>2, <1>4, <2>1, <2>4 DEF Removed
<1>6. ASSUME Inserted(s, t, k) PROVE Inserted(q, r, m + k)
  <2>1. l = n + 1
    BY <1>6, <1>4 DEF Inserted
  <2>2. ASSUME NEW j \in 1..m PROVE r[j] = q[j] /\ j < m + k
    BY <1>4, <1>10
  <2>3. ASSUME NEW i \in 1..l
        PROVE  r[m + i] = IF m + i <= m + k THEN q[m + i] ELSE q[m + i - 1]
    <3>1. r[m + i] = t[i]
      BY <1>10
    <3>2. t[i] = IF i <= k THEN s[i] ELSE s[i - 1]
      BY <1>6, <1>4 DEF Inserted
    <3>3. (i <= k => q[m + i] = s[i]) /\ (i > k => q[m + (i - 1)] = s[i - 1])
      <4>1. (i <= k => i \in 1..n) /\ (i > k => i - 1 \in 1..n)
        BY <1>4, <2>1
      <4> QED BY <1>10, <4>1
    <3> QED BY <3>1, <3>2, <3>3
  <2>4. ASSUME NEW j \in 1..(m + l)
        PROVE  r[j] = IF j <= m + k THEN q[j] ELSE q[j - 1]
    <3>1. CASE j \in 1..m
      BY <2>2, <3>1
    <3>2. CASE j \notin 1..m
      <4>1. PICK i \in 1..l : j = m + i
        BY <1>4, <3>2, Shift, ZenonT(40)
      <4> QED BY <1>4, <2>3, <4>1
    <3> QED BY <3>1, <3>2
  <2> QED BY <1>1, <1>2, <1>4, <2>1, <2>4 DEF Inserted
<1>7. ASSUME Flagged(s, t) PROVE Flagged(q, r)
  <2>1. l = n
    BY <1>7, <1>4 DEF Flagged
  <2>2. ASSUME NEW j \in 1..m PROVE r[j] = q[j] /\ j < m + k
    BY <1>4, <1>10
  <2>3. ASSUME NEW i \in 1..l
        PROVE  r[m + i].w = q[m + i].w /\ r[m + i].i = q[m + i].i /\ r[m + i].part = q[m + i].part
    <3>1. r[m + i] = t[i]
      BY <1>10
    <3>2. t[i].w = s[i].w /\ t[i].i = s[i].i /\ t[i].part = s[i].part
      BY <1>7, <1>4 DEF Flagged
    <3>3. q[m + i] = s[i]
      BY <1>4, <1>10, <2>1
    <3> QED BY <3>1, <3>2, <3>3
  <2>4. ASSUME NEW j \in 1..(m + l)
        PROVE  r[j].w = q[j].w /\ r[j].i = q[j].i /\ r[j].part = q[j].part
    <3>1. CASE j \in 1..m
      BY <2>2, <3>1
    <3>2. CASE j \notin 1..m
      <4>1. PICK i \in 1..l : j = m + i
        BY <1>4, <3>2, Shift, ZenonT(40)
      <4> QED BY <1>4, <2>3, <4>1
    <3> QED BY <3>1, <3>2
  <2> QED BY <1>1, <1>2, <1>4, <2>1, <2>4 DEF Flagged
<1>8. ASSUME Swapped(s, t, k) PROVE Swapped(q, r, m + k)
  <2>1. l = n /\ k < n
    BY <1>8, <1>4 DEF Swapped
  <2>2. ASSUME NEW j \in 1..m PROVE r[j] = q[j] /\ j < m + k
    BY <1>4, <1>10
  <2>3. ASSUME NEW i \in 1..l
        PROVE  r[m + i] = IF m + i = m + k THEN q[m + k + 1]
                          ELSE IF m + i = m + k + 1 THEN q[m + k] ELSE q[m + i]
    <3>1. r[m + i] = t[i]
      BY <1>10
    <3>2. t[i] = IF i = k THEN s[k + 1] ELSE IF i = k + 1 THEN s[k] ELSE s[i]
      BY <1>8, <1>4 DEF Swapped
    <3>3. q[m + i] = s[i] /\ q[m + k] = s[k] /\ q[m + (k + 1)] = s[k + 1]
      <4>1. i \in 1..n /\ k \in 1..n /\ k + 1 \in 1..n
        BY <1>4, <2>1
      <4> QED BY <1>10, <4>1
    <3> QED BY <3>1, <3>2, <3>3
  <2>4. ASSUME NEW j \in 1..(m + l)
        PROVE  r[j] = IF j = m + k THEN q[m + k + 1] ELSE IF j = m + k + 1 THEN q[m + k] ELSE q[j]
    <3>1. CASE j \in 1..m
      BY <2>2, <3>1
    <3>2. CASE j \notin 1..m
      <4>1. PICK i \in 1..l : j = m + i
        BY <1>4, <3>2, Shift, ZenonT(40)
      <4> QED BY <1>4, <2>3, <4>1
    <3> QED BY <3>1, <3>2
  <2> QED BY <1>1, <1>2, <1>4, <2>1, <2>4 DEF Swapped
<1>9. m + k \in 1..Len(q)
  BY <1>1, <1>4
<1> QED BY <1>1, <1>2, <1>4, <1>5, <1>6, <1>7, <1>8, <1>9 DEF q, r

\* No fault changes whose half a unit is, or that it is one.
LEMMA SplitSpoil ==
  ASSUME NEW q \in Seq(Units), NEW t \in Seq(Units), NEW k \in 1..Len(q), Split(q),
         Removed(q, t, k) \/ Inserted(q, t, k) \/ Flagged(q, t) \/ Swapped(q, t, k)
  PROVE  Split(t)
<1>1. Len(q) \in Nat
  OBVIOUS
<1> SUFFICES ASSUME NEW j \in 1..Len(t) PROVE t[j].w = 1 /\ t[j].part \in {"head", "tail"}
  BY DEF Split
<1>2. CASE Removed(q, t, k)
  BY <1>1, <1>2 DEF Removed, Split
<1>3. CASE Inserted(q, t, k)
  <2>1. Len(t) = Len(q) + 1 /\ t[j] = IF j <= k THEN q[j] ELSE q[j - 1]
    BY <1>3 DEF Inserted
  <2>2. IF j <= k THEN j \in 1..Len(q) ELSE j - 1 \in 1..Len(q)
    BY <1>1, <2>1
  <2> QED BY <2>1, <2>2 DEF Split
<1>4. CASE Flagged(q, t)
  BY <1>1, <1>4 DEF Flagged, Split
<1>5. CASE Swapped(q, t, k)
  BY <1>1, <1>5 DEF Swapped, Split
<1> QED BY <1>2, <1>3, <1>4, <1>5

\* A stream that is in order shows no break at its front.
LEMMA InOrderIsNotAdrift ==
  ASSUME NEW q \in Seq(Units), NEW r \in Nat, NEW e \in Int, InOrder(q, 2 * r, e)
  PROVE  ~Adrift(q, 2 * r, e)
<1>1. ~Lacks(q, 2 * r, e, 1) /\ ~Repeats(q, 2 * r, e, 1)
  BY DEF InOrder, Lacks, Repeats
<1>2. ~Displaced(q, 2 * r, e)
  <2> SUFFICES ASSUME Displaced(q, 2 * r, e) PROVE FALSE
    OBVIOUS
  <2>1. Len(q) >= 1 /\ q[1].part = "tail" /\ Pos(q[1]) = 2 * r + 1 - 1 /\ q[1] \in Units
    BY DEF Displaced, InOrder
  <2>2. q[1].i \in Nat /\ Pos(q[1]) = 2 * q[1].i + 1
    BY <2>1 DEF Pos, Units
  <2> QED BY <2>1, <2>2
<1> QED BY <1>1, <1>2 DEF Adrift

\* The first fault of the kernel leaves a break somewhere in the stream.
LEMMA StreamFault ==
  ASSUME upw_TypeOK, upw_kernelFaults, faults = 0,
         StreamIs(Unread, Read, Written, log[1], faults)
  PROVE  StreamIs(Unread, Read, Written, log[1], faults)'
<1>1. /\ rx.half \in Seq(Units) /\ ring \in Seq(Units) /\ rx.recv \in Nat
      /\ tx[1].i \in Nat /\ tx[1].left \in 0..2
  BY DEF upw_TypeOK, RxType, TxType
<1>2. /\ ring' \in Spoil(ring) /\ faults' = 1
      /\ UNCHANGED <<rx, tx, log>>
  BY DEF upw_kernelFaults, Fault, upw_rxSide
<1>3. PICK k \in 1..Len(ring) :
        /\ ring' \in Seq(Units)
        /\ \/ Removed(ring, ring', k) \/ Inserted(ring, ring', k) \/ Flagged(ring, ring')
           \/ Swapped(ring, ring', k)
  BY <1>1, <1>2, SpoilFacts
<1>4. Unread' = rx.half \o ring' /\ Read' = Read /\ Written' = Written
  BY <1>2 DEF Unread, Read, Written
<1>5. PICK m \in 1..Len(Unread) :
        /\ Unread \in Seq(Units) /\ Unread' \in Seq(Units)
        /\ \/ Removed(Unread, Unread', m) \/ Inserted(Unread, Unread', m)
           \/ Flagged(Unread, Unread') \/ Swapped(Unread, Unread', m)
  BY <1>1, <1>3, <1>4, UnreadSpoil, SMTT(40) DEF Unread
<1>6. InOrder(Unread, Read, Written) /\ Split(Unread) /\ Read \in Int /\ Written \in Int
  BY <1>1 DEF StreamIs, Read, Written
<1>7. Shape(Unread', Read, Written) /\ Split(Unread')
  BY <1>5, <1>6, ShapeSpoil, SplitSpoil
<1>8. ~Adrift(Unread, Read, Written)
  BY <1>1, <1>5, <1>6, InOrderIsNotAdrift DEF Read
<1> QED BY <1>2, <1>4, <1>7, <1>8 DEF StreamIs

\* A stream without its first two units.
LEMMA DropTwo ==
  ASSUME NEW h \in Seq(Units), NEW r \in Seq(Units), NEW g \in Seq(Units),
         Len(h) >= 2, Len(g) = Len(h) - 2, \A k \in 1..Len(g) : g[k] = h[k + 2]
  PROVE  /\ g \o r \in Seq(Units) /\ Len(g \o r) = Len(h \o r) - 2
         /\ \A k \in 1..Len(g \o r) : (g \o r)[k] = (h \o r)[k + 2]
<1> DEFINE t == g \o r
           q == h \o r
<1>1. PICK m \in Nat, n \in Nat : m = Len(h) /\ n = Len(r) /\ m >= 2
  OBVIOUS
<1>2. Len(g) = m - 2 /\ \A k \in 1..(m - 2) : g[k] = h[k + 2]
  BY <1>1
<1>3. /\ t \in Seq(Units) /\ Len(t) = Len(g) + Len(r)
      /\ \A k \in 1..(Len(g) + Len(r)) : t[k] = IF k <= Len(g) THEN g[k] ELSE r[k - Len(g)]
  BY ConcatProperties, Zenon
<1>4. /\ q \in Seq(Units) /\ Len(q) = Len(h) + Len(r)
      /\ \A k \in 1..(Len(h) + Len(r)) : q[k] = IF k <= Len(h) THEN h[k] ELSE r[k - Len(h)]
  BY ConcatProperties
<1> HIDE DEF t, q
<1>5. ASSUME NEW k \in 1..Len(t) PROVE t[k] = q[k + 2]
  <2>1. k \in 1..(m - 2 + n)
    BY <1>1, <1>2, <1>3
  <2>2. t[k] = IF k <= m - 2 THEN g[k] ELSE r[k - (m - 2)]
    BY <1>1, <1>2, <1>3, <2>1
  <2>3. q[k + 2] = IF k + 2 <= m THEN h[k + 2] ELSE r[k + 2 - m]
    <3>1. k + 2 \in 1..(Len(h) + Len(r))
      BY <1>1, <2>1
    <3> QED BY <1>1, <1>4, <3>1
  <2>4. k - (m - 2) = k + 2 - m /\ (k <= m - 2 <=> k + 2 <= m)
    BY <1>1, <2>1
  <2>5. CASE k <= m - 2
    <3>1. g[k] = h[k + 2]
      BY <1>2, <2>1, <2>5
    <3> QED BY <2>2, <2>3, <2>4, <2>5, <3>1
  <2>6. CASE ~(k <= m - 2)
    BY <2>2, <2>3, <2>4, <2>6
  <2> QED BY <2>5, <2>6
<1>6. Len(t) = Len(q) - 2
  BY <1>1, <1>2, <1>3, <1>4
<1> QED BY <1>3, <1>5, <1>6 DEF t, q

\* upw_nextMessage() on a stream: the message is whole, or the break is now in
\* front of what is left.
LEMMA StreamTake ==
  ASSUME upw_TypeOK, LogOK, upw_nextMessage, Watched, Watched',
         StreamIs(Unread, Read, Written, log[1], faults)
  PROVE  StreamIs(Unread, Read, Written, log[1], faults)'
<1> DEFINE u == Pair(rx.half[1], rx.half[2])
           q == Unread
           t == Unread'
<1>1. /\ Len(rx.half) >= 2 /\ rx.half[1] \in Units /\ rx.half[2] \in Units
      /\ u \in Records /\ Accounted(u) /\ rx'.half = SubSeq(rx.half, 3, Len(rx.half))
  BY PairEffect
<1>2. UNCHANGED <<upw_case, ring, tx, faults>>
  BY DEF upw_nextMessage, upw_fixed
<1>3. /\ rx.half \in Seq(Units) /\ ring \in Seq(Units) /\ rx.recv \in Nat
      /\ tx[1].i \in Nat /\ tx[1].left \in 0..2 /\ upw_case \in upw_cases
      /\ log[1] \in Seq(Entries)
  BY DEF upw_TypeOK, RxType, TxType
<1>4. /\ q \in Seq(Units) /\ Len(q) = Len(rx.half) + Len(ring) /\ q[1] = rx.half[1] /\ q[2] = rx.half[2]
  BY <1>1, UnreadFacts
<1>5. /\ u.w = q[1].w /\ u.i = q[1].i /\ u.bad = (q[1].bad \/ q[1].part # "head")
      /\ u.intact = (q[2].part = "tail" /\ q[2].w = q[1].w /\ q[2].i = q[1].i)
  BY <1>1, <1>4, RecordFacts
<1> HIDE DEF u
<1>6. q[1].w = 1 /\ q[2].w = 1 /\ q[1].part \in {"head", "tail"} /\ Len(q) >= 2
  <2>1. 1 \in 1..Len(q) /\ 2 \in 1..Len(q) /\ Len(q) >= 2
    BY <1>1, <1>3, <1>4
  <2> QED BY <2>1 DEF StreamIs, Split
<1>7. ~u.bad /\ Counted(u)
  <2>1. ~u.bad
    BY <1>1, Zenon DEF Accounted, NotCounted, Watched
  <2> QED BY <1>1, <1>5, <1>6, <2>1 DEF Accounted, QUIT
<1>8. q[1].part = "head"
  BY <1>5, <1>7, Zenon
<1>9. /\ Len(log[1]) = rx.next[1] /\ rx.recv = Len(log[1])
  <2>1. log[2] = <<>>
    BY <1>3, CaseFacts DEF LogOK, Watched
  <2>2. Len(log[2]) = 0
    BY <2>1
  <2>3. rx.marks \cap {"lost", "dup"} = {}
    BY DEF Watched
  <2> QED BY <1>3, <2>2, <2>3 DEF LogOK
<1>10. q[1].i = rx.recv
  <2>1. "lost" \notin rx'.marks /\ "dup" \notin rx'.marks
    BY DEF Watched
  <2>2. ~(u.i > rx.next[1]) /\ ~(u.i < rx.next[1])
    BY <1>5, <1>6, <1>7, <2>1 DEF Counted
  <2>3. q[1].i \in Nat /\ rx.next[1] \in Nat
    <3>1. rx.next \in [1..2 -> Nat]
      BY DEF upw_TypeOK, RxType
    <3>2. q[1].i \in Nat
      BY <1>1, <1>4 DEF Units
    <3> QED BY <3>1, <3>2
  <2> QED BY <1>5, <1>9, <2>2, <2>3
<1>11. t \in Seq(Units) /\ Len(t) = Len(q) - 2 /\ \A k \in 1..Len(t) : t[k] = q[k + 2]
  <2>1. t = SubSeq(rx.half, 3, Len(rx.half)) \o ring
    BY <1>1, <1>2 DEF Unread
  <2>2. q = rx.half \o ring
    BY DEF Unread
  <2>3. PICK h \in Seq(Units), r \in Seq(Units) : h = rx.half /\ r = ring
    BY <1>3
  <2> DEFINE g == SubSeq(h, 3, Len(h))
  <2>4. g \in Seq(Units) /\ Len(g) = Len(h) - 2 /\ \A k \in 1..Len(g) : g[k] = h[k + 2]
    BY <1>1, <2>3, SubSeqProperties
  <2>5. Len(h) >= 2 /\ t = g \o r /\ q = h \o r
    BY <1>1, <2>1, <2>2, <2>3
  <2> HIDE DEF q, t, g
  <2>6. /\ g \o r \in Seq(Units) /\ Len(g \o r) = Len(h \o r) - 2
        /\ \A k \in 1..Len(g \o r) : (g \o r)[k] = (h \o r)[k + 2]
    BY <2>4, <2>5, DropTwo, Zenon
  <2> QED BY <2>5, <2>6
<1>12. Read = 2 * rx.recv /\ Read' = 2 * (rx.recv + 1) /\ Written' = Written /\ Written \in Int
  BY <1>2, <1>3, <1>7 DEF Read, Written, Counted
<1>13. Split(q) /\ Shape(q, 2 * rx.recv, Written)
  BY <1>12 DEF StreamIs
<1>14. /\ ~Adrift(q, 2 * rx.recv, Written)
       /\ Shape(t, 2 * (rx.recv + 1), Written)
       /\ InOrder(q, 2 * rx.recv, Written) => InOrder(t, 2 * (rx.recv + 1), Written)
       /\ (q[2].part = "tail" /\ q[2].i = rx.recv) \/ Adrift(t, 2 * (rx.recv + 1), Written)
  <2> HIDE DEF q, t
  <2> QED BY <1>3, <1>4, <1>6, <1>8, <1>10, <1>11, <1>12, <1>13, ShapeTake, Zenon
<1>15. Split(t)
  <2>1. ASSUME NEW k \in 1..Len(t) PROVE t[k].w = 1 /\ t[k].part \in {"head", "tail"}
    <3>1. k + 2 \in 1..Len(q) /\ t[k] = q[k + 2]
      BY <1>4, <1>11
    <3> QED BY <1>13, <3>1 DEF Split
  <2> QED BY <2>1 DEF Split
<1>16. /\ log'[1] \in Seq(Entries) /\ Len(log'[1]) = Len(log[1]) + 1
       /\ \A k \in 1..Len(log[1]) : log'[1][k] = log[1][k] /\ log[1][k].intact
       /\ log'[1][Len(log[1]) + 1].intact = u.intact
  <2>1. log'[1] = Append(log[1], Entry(u))
    BY <1>5, <1>6, <1>7 DEF Counted
  <2>2. Entry(u) \in Entries /\ Entry(u).intact = u.intact
    BY <1>1 DEF Entry, Entries, Records
  <2> HIDE DEF Entry
  <2>3. \A k \in 1..Len(log[1]) : log[1][k].intact
    <3>1. /\ \A k \in 1..(Len(log[1]) - 1) : log[1][k].intact
          /\ Len(log[1]) > 0 => log[1][Len(log[1])].intact
      BY <1>12, <1>14 DEF StreamIs
    <3> QED BY <1>3, <3>1
  <2> QED BY <1>3, <2>1, <2>2, <2>3, AppendProperties
<1>17. u.intact \/ Adrift(t, 2 * (rx.recv + 1), Written)
  BY <1>5, <1>6, <1>10, <1>14, Zenon
<1>18. faults' = 0 => InOrder(t, 2 * (rx.recv + 1), Written)
  BY <1>2, <1>12, <1>14 DEF StreamIs
<1>19. /\ \A k \in 1..(Len(log'[1]) - 1) : log'[1][k].intact
       /\ log'[1][Len(log'[1])].intact \/ Adrift(t, 2 * (rx.recv + 1), Written)
  <2>1. Len(log'[1]) - 1 = Len(log[1])
    BY <1>3, <1>16
  <2> QED BY <1>16, <1>17, <2>1
<1> HIDE DEF q
<1> QED BY <1>12, <1>14, <1>15, <1>18, <1>19 DEF StreamIs

\* recvmsg() on a stream leaves what is not accounted for as it is.
LEMMA BytesUnread ==
  ASSUME upw_TypeOK, upw_recvBytes
  PROVE  Unread' = Unread
<1>1. PICK k \in 1..Len(ring) : TookBytes(k)
  BY BytesEffect
<1>2. rx.half \in Seq(Units) /\ ring \in Seq(Units)
  BY DEF upw_TypeOK, RxType
<1> DEFINE f == SubSeq(ring, 1, k)
           g == SubSeq(ring, k + 1, Len(ring))
<1>3. Unread' = (rx.half \o f) \o g
  BY <1>1 DEF TookBytes, Unread
<1>4. f \in Seq(Units) /\ g \in Seq(Units)
  BY <1>2, SubSeqProperties
<1>5. f \o g = ring
  BY <1>2, ConcatAdjacentSubSeq
<1> HIDE DEF f, g
<1>6. (rx.half \o f) \o g = rx.half \o (f \o g)
  <2>1. PICK h \in Seq(Units) : h = rx.half
    BY <1>2
  <2>2. (h \o f) \o g = h \o (f \o g)
    BY <1>4, ConcatAssociative, SMTT(40)
  <2> QED BY <2>1, <2>2
<1> QED BY <1>3, <1>5, <1>6 DEF Unread

\* Faults, marks and timeouts stay.
LEMMA Grows ==
  ASSUME upw_TypeOK, StepKinds
  PROVE  /\ UNCHANGED upw_case /\ rx.marks \subseteq rx'.marks
         /\ faults' \in {faults, faults + 1} /\ (rxTimedOut => rxTimedOut')
         /\ (expired => expired')
<1> USE DEF upw_fixed, upw_rxSide, upw_runSide, Fault
<1>1. ASSUME NEW w \in Writers, SenderSteps(w)
      PROVE  /\ UNCHANGED <<upw_case, rx, rxTimedOut>> /\ faults' \in {faults, faults + 1}
             /\ (expired => expired')
  BY <1>1 DEF SenderSteps, upw_sendOne, upw_sendBlocks, upw_sendGivesUp, upw_sendToken,
              upw_sendFails
<1>2. CASE upw_recvFrame
  <2>1. UNCHANGED <<upw_case, rxTimedOut, faults, expired>>
    BY <1>2 DEF upw_recvFrame
  <2> QED BY <1>2, <2>1, FrameEffect, Zenon DEF Accounted, Counted, NotCounted
<1>3. CASE upw_nextMessage
  <2>1. UNCHANGED <<upw_case, rxTimedOut, faults, expired>>
    BY <1>3 DEF upw_nextMessage
  <2> QED BY <1>3, <2>1, PairEffect, Zenon DEF Accounted, Counted, NotCounted
<1>4. CASE upw_recvBytes
  <2>1. UNCHANGED <<upw_case, rxTimedOut, faults, expired>>
    BY <1>4 DEF upw_recvBytes
  <2> QED BY <1>4, <2>1, BytesEffect, Zenon DEF TookBytes
<1>5. ASSUME NEW how \in Hows, upw_receive(how), faults' \in {faults, faults + 1}
      PROVE  /\ UNCHANGED upw_case /\ rx.marks \subseteq rx'.marks
             /\ UNCHANGED <<rxTimedOut, expired>>
  <2>1. UNCHANGED <<upw_case, rxTimedOut, expired>>
    BY <1>5 DEF upw_receive
  <2> QED BY <1>5, <2>1, ReceiveEffect DEF Woken
<1>6. CASE MoveSteps
  <2>1. UNCHANGED <<upw_case, rxTimedOut, expired>> /\ faults' \in {faults, faults + 1}
    BY <1>6 DEF MoveSteps, upw_drained, upw_finish, upw_childDies, upw_receiveFails
  <2> QED BY <1>6, <2>1, MoveEffect DEF MoveSteps, Moved
<1>7. CASE RunSteps
  BY <1>7 DEF RunSteps, upw_join, upw_settles, upw_hupEnds, upw_collect, upw_stopHelpers,
              upw_helperEnds, upw_idleSleepsOn, upw_check
<1>8. CASE upw_settleEnds
  BY <1>8, Zenon DEF upw_settleEnds
<1>9. CASE upw_quitEnds
  <2>1. UNCHANGED <<upw_case, rxTimedOut, faults, expired>>
    BY <1>9 DEF upw_quitEnds
  <2> QED BY <1>9, <2>1, MoveEffect DEF Moved
<1>10. CASE upw_kernelFaults
  BY <1>10 DEF upw_kernelFaults
<1>11. CASE UNCHANGED upw_vars
  BY <1>11 DEF upw_vars
<1>12. CASE \E w \in Writers : SenderSteps(w)
  BY <1>1, <1>12
<1>13. CASE \E how \in Hows : upw_receive(how) /\ faults' \in {faults, faults + 1}
  BY <1>5, <1>13
<1> QED BY <1>2, <1>3, <1>4, <1>6, <1>7, <1>8, <1>9, <1>10, <1>11, <1>12, <1>13 DEF StepKinds

\* The steps that move no unit across the ends of the stream.
LEMMA StreamStill ==
  ASSUME upw_TypeOK, SendersOK, StepKinds, ~upw_case.framed,
         \A w \in Writers : ~upw_sendOne(w),
         ~upw_recvFrame, ~upw_nextMessage, ~upw_settleEnds, ~upw_kernelFaults
  PROVE  Unread' = Unread /\ Read' = Read /\ Written' = Written /\ log' = log
<1> USE DEF upw_fixed, upw_rxSide, upw_runSide, Fault
<1>1. ASSUME rx'.half = rx.half, rx'.recv = rx.recv, UNCHANGED <<ring, tx>>
      PROVE  Unread' = Unread /\ Read' = Read /\ Written' = Written
  BY <1>1 DEF Unread, Read, Written
<1>2. ASSUME NEW w \in Writers, SenderSteps(w)
      PROVE  Unread' = Unread /\ Read' = Read /\ Written' = Written /\ log' = log
  <2>1. UNCHANGED <<rx, log>>
    BY <1>2, Zenon DEF SenderSteps, upw_sendOne, upw_sendBlocks, upw_sendGivesUp, upw_sendToken,
                upw_sendFails
  <2>2. w = 1
    BY CaseFacts DEF upw_TypeOK, Writers
  <2>3. tx[1].at # "token" /\ tx[1] \in TxType
    BY DEF SendersOK, SenderOK, upw_TypeOK
  <2>4. ring' = ring /\ tx'[1].i = tx[1].i /\ tx'[1].left = tx[1].left
    <3>1. ring' = ring
      BY <1>2, TxEffect, Zenon
    <3>2. \/ tx'[1] = [tx[1] EXCEPT !.stuck = TRUE]
          \/ tx'[1].i = tx[1].i /\ tx'[1].left = tx[1].left
      BY <1>2, <2>2, <2>3, TxEffect, Zenon
    <3> QED BY <2>3, <3>1, <3>2 DEF TxType
  <2> QED BY <2>1, <2>4, SMTT(40) DEF Unread, Read, Written
<1>3. CASE upw_recvBytes
  <2>1. UNCHANGED tx
    BY <1>3 DEF upw_recvBytes
  <2>2. rx'.recv = rx.recv /\ log' = log
    BY <1>3, BytesEffect, Zenon DEF TookBytes
  <2> QED BY <1>3, <2>1, <2>2, BytesUnread DEF Read, Written
<1>4. ASSUME NEW how \in Hows, upw_receive(how)
      PROVE  Unread' = Unread /\ Read' = Read /\ Written' = Written /\ log' = log
  <2>1. UNCHANGED <<ring, tx, log>>
    BY <1>4 DEF upw_receive
  <2> QED BY <1>1, <1>4, <2>1, ReceiveEffect DEF Woken
<1>5. CASE MoveSteps
  <2>1. UNCHANGED <<ring, tx, log>>
    BY <1>5 DEF MoveSteps, upw_drained, upw_finish, upw_childDies, upw_receiveFails
  <2> QED BY <1>1, <1>5, <2>1, MoveEffect DEF MoveSteps, Moved
<1>6. CASE RunSteps
  BY <1>1, <1>6 DEF RunSteps, upw_join, upw_settles, upw_hupEnds, upw_collect, upw_stopHelpers,
                    upw_helperEnds, upw_idleSleepsOn, upw_check
<1>7. CASE upw_quitEnds
  <2>1. UNCHANGED <<ring, tx, log>>
    BY <1>7 DEF upw_quitEnds
  <2> QED BY <1>1, <1>7, <2>1, MoveEffect DEF Moved
<1>8. CASE UNCHANGED upw_vars
  BY <1>1, <1>8 DEF upw_vars
<1> QED BY <1>2, <1>3, <1>4, <1>5, <1>6, <1>7, <1>8 DEF StepKinds

\* The stream starts empty.
LEMMA StreamInit == upw_Init => StreamOK
<1> SUFFICES ASSUME upw_Init PROVE StreamIs(Unread, Read, Written, log[1], faults)
  BY DEF StreamOK
<1>1. rx.half = <<>> /\ ring = <<>> /\ rx.recv = 0 /\ tx[1].i = 0 /\ tx[1].left = 2 /\ log[1] = <<>>
  BY DEF upw_Init
<1>2. Unread = <<>> /\ Len(Unread) = 0 /\ Read = 0 /\ Written = 0 /\ Len(log[1]) = 0
  BY <1>1 DEF Unread, Read, Written
<1> QED BY <1>2 DEF StreamIs, Split, Shape, InOrder

\* Every step keeps the stream in order but for one break, and the messages
\* taken from it whole but for one at the break.
LEMMA StreamStep ==
  ASSUME upw_IInv, StreamOK, StepKinds
  PROVE  StreamOK'
<1> SUFFICES ASSUME Watched'
             PROVE  StreamIs(Unread, Read, Written, log[1], faults)'
  BY DEF StreamOK
<1>1. upw_TypeOK /\ SendersOK /\ LogOK /\ faults \in Nat
  BY DEF upw_IInv, upw_TypeOK
<1>2. Watched /\ (faults' = 0 => faults = 0)
  <2>1. /\ UNCHANGED upw_case /\ rx.marks \subseteq rx'.marks
        /\ faults' \in {faults, faults + 1} /\ (rxTimedOut => rxTimedOut')
    BY <1>1, Grows
  <2> QED BY <1>1, <2>1 DEF Watched
<1>3. StreamIs(Unread, Read, Written, log[1], faults) /\ ~upw_case.framed
  BY <1>2 DEF StreamOK, Watched
<1>4. ASSUME NEW w \in Writers, upw_sendOne(w)
      PROVE  StreamIs(Unread, Read, Written, log[1], faults)'
  BY <1>1, <1>3, <1>4, StreamSend
<1>5. CASE upw_nextMessage
  BY <1>1, <1>2, <1>3, <1>5, StreamTake
<1>6. CASE upw_kernelFaults
  <2>1. faults' = faults + 1 /\ faults' < 2
    BY <1>6 DEF upw_kernelFaults, Fault, Watched
  <2>2. faults = 0
    BY <1>1, <2>1
  <2> QED BY <1>1, <1>3, <1>6, <2>2, StreamFault
<1>7. ~upw_recvFrame /\ ~upw_settleEnds
  BY <1>3 DEF upw_recvFrame, upw_settleEnds, Watched
<1>8. CASE /\ \A w \in Writers : ~upw_sendOne(w)
           /\ ~upw_nextMessage /\ ~upw_kernelFaults
  <2>1. Unread' = Unread /\ Read' = Read /\ Written' = Written /\ log' = log
    BY <1>1, <1>3, <1>7, <1>8, StreamStill
  <2> QED BY <1>2, <1>3, <2>1 DEF StreamIs
<1> QED BY <1>4, <1>5, <1>6, <1>8

\* The descriptors of all messages of all writers.
LEMMA FdsOfAll ==
  ASSUME upw_case \in upw_cases
  PROVE  Cardinality({ m \in Writers \X (0..(perWriter - 1)) : hasFd(m[2]) })
           = upw_case.writers * Fds(perWriter)
<1> DEFINE S == { i \in 0..(perWriter - 1) : hasFd(i) }
           M == { m \in Writers \X (0..(perWriter - 1)) : hasFd(m[2]) }
<1>1. M = Writers \X S
  OBVIOUS
<1>2. perWriter \in Nat /\ upw_case.writers \in 1..2
  BY CaseFacts
<1>3. IsFiniteSet(S)
  <2>1. IsFiniteSet(0..(perWriter - 1))
    BY <1>2, FS_Interval
  <2> QED BY <2>1, FS_Subset, Zenon
<1>4. IsFiniteSet(Writers) /\ Cardinality(Writers) = upw_case.writers
  <2>1. IsFiniteSet(1..upw_case.writers)
        /\ Cardinality(1..upw_case.writers) = IF 1 > upw_case.writers THEN 0 ELSE upw_case.writers - 1 + 1
    BY <1>2, FS_Interval
  <2> QED BY <1>2, <2>1 DEF Writers
<1> HIDE DEF M, S
<1>5. Cardinality(M) = Cardinality(Writers) * Cardinality(S)
  BY <1>1, <1>3, <1>4, FS_Product
<1> QED BY <1>4, <1>5 DEF M, S, Fds

\* The descriptors that senders which got through have counted.
LEMMA FdsAllSent ==
  ASSUME upw_IInv, \A w \in Writers : tx[w].at = "over" /\ ~tx[w].err
  PROVE  FdsSent = upw_case.writers * Fds(perWriter)
<1>1. SendersOK /\ upw_case \in upw_cases
  BY DEF upw_IInv, upw_TypeOK
<1>2. PICK P \in Nat \ {0} : perWriter = P
  BY <1>1, CaseFacts
<1>3. Fds(0) = 0 /\ Fds(P) \in Nat /\ upw_case.writers \in 1..2
  BY <1>1, FdsCount, CaseFacts
<1>4. \A w \in 1..2 : tx[w].fdsSent = IF w \in Writers THEN Fds(P) ELSE 0
  <2> SUFFICES ASSUME NEW w \in 1..2 PROVE tx[w].fdsSent = IF w \in Writers THEN Fds(P) ELSE 0
    OBVIOUS
  <2>1. SenderOK(w)
    BY <1>1 DEF SendersOK
  <2>2. CASE w \in Writers
    BY <1>2, <2>1, <2>2 DEF SenderOK, Sent
  <2>3. CASE w \notin Writers
    <3>1. tx[w].at = "send" /\ tx[w].i = 0 /\ ~tx[w].err /\ tx[w].fdsSent = Fds(Sent(w))
      BY <2>1, <2>3 DEF SenderOK
    <3> QED BY <1>3, <2>3, <3>1 DEF Sent
  <2> QED BY <2>2, <2>3
<1>5. CASE upw_case.writers = 1
  <2>1. 1 \in Writers /\ 2 \notin Writers
    BY <1>5 DEF Writers
  <2> QED BY <1>2, <1>3, <1>4, <1>5, <2>1 DEF FdsSent
<1>6. CASE upw_case.writers = 2
  <2>1. 1 \in Writers /\ 2 \in Writers
    BY <1>6 DEF Writers
  <2> QED BY <1>2, <1>3, <1>4, <1>6, <2>1 DEF FdsSent
<1> QED BY <1>3, <1>5, <1>6

\* What a PASS of upw_check() vouches for: every message was taken once, in order
\* and whole, with its descriptor, and no poll() woke late.
LEMMA PassProves ==
  ASSUME upw_IInv, StreamOK
  PROVE  PassIsEarned
<1> SUFFICES ASSUME verdict = "PASS" PROVE
      /\ \A w \in Writers :
           /\ Len(log[w]) = perWriter
           /\ \A k \in 1..perWriter :
                /\ log[w][k].i = k - 1
                /\ upw_case.framed => (log[w][k].fdGot = 1) = hasFd(k - 1)
                /\ faults < 2 => \/ log[w][k].intact
                                 \/ k = perWriter /\ rx.half \o ring # <<>>
      /\ rx.fds = Cardinality({ m \in Writers \X (0..(perWriter - 1)) : hasFd(m[2]) })
      /\ \A fd \in {"sock", "pipe"} : <<fd, "slow">> \notin wakes
      /\ strict /\ upw_case.readinessWoken => <<"sock", "late">> \notin wakes
  BY DEF PassIsEarned
<1>1. upw_TypeOK /\ RunOK /\ SendersOK /\ UnitsOK /\ LogOK /\ WakesOK /\ upw_case \in upw_cases
  BY DEF upw_IInv, upw_TypeOK
<1>2. upw_ok /\ \A w \in Writers : tx[w].at = "over"
  BY <1>1 DEF RunOK
<1>3. /\ \A w \in Writers : ~tx[w].err
      /\ ~rxTimedOut /\ upw_isComplete(rx) /\ rx.recv = Expected /\ rx.fds = FdsSent
      /\ rx.marks \cap Fatal = {}
  BY <1>2 DEF upw_ok
<1>4. /\ rx.marks \cap {"lost", "dup"} = {} /\ rx.marks \cap {"lost", "dup", "bad"} = {}
      /\ "fdMismatch" \notin rx.marks
      /\ "gt1s" \notin rx.marks /\ "pipeMax" \notin rx.marks
      /\ strict /\ upw_case.readinessWoken => "ge15ms" \notin rx.marks
  BY <1>3 DEF Fatal, Mark
<1>5. PICK P \in Nat \ {0} : perWriter = P
  BY <1>1, CaseFacts
<1>6. Writers \subseteq 1..2 /\ 1 \in Writers /\ upw_case.writers \in 1..2
  BY <1>1, CaseFacts
<1>7. \A w \in 1..2 : log[w] \in Seq(Entries) /\ Len(log[w]) \in Nat
  BY <1>1 DEF upw_TypeOK
<1>8. \A w \in 1..2 : /\ Len(log[w]) = rx.next[w]
                      /\ \A k \in 1..Len(log[w]) : log[w][k].i = k - 1
  BY <1>1, <1>4 DEF LogOK
<1>9. \A w \in Writers : Len(log[w]) >= P
  BY <1>3, <1>5, <1>6, <1>8 DEF upw_isComplete
<1>10. Len(log[1]) + Len(log[2]) = P * upw_case.writers
  BY <1>1, <1>3, <1>5, Zenon DEF LogOK, Expected
<1>11. \A w \in Writers : Len(log[w]) = P
  <2>1. CASE upw_case.writers = 1
    <3>1. Len(log[2]) = 0
      BY <1>1, <2>1 DEF LogOK
    <3>2. Writers = {1}
      BY <2>1 DEF Writers
    <3> QED BY <1>5, <1>7, <1>10, <2>1, <3>1, <3>2
  <2>2. CASE upw_case.writers = 2
    <3>1. Writers = {1, 2}
      BY <2>2 DEF Writers
    <3>2. PICK a \in Nat, b \in Nat : a = Len(log[1]) /\ b = Len(log[2])
      BY <1>7
    <3>3. a >= P /\ b >= P /\ a + b = P * 2
      BY <1>9, <1>10, <2>2, <3>1, <3>2, Zenon
    <3>4. a = P /\ b = P
      BY <1>5, <3>3
    <3> QED BY <3>1, <3>2, <3>4, Zenon
  <2> QED BY <1>6, <2>1, <2>2
<1>12. ASSUME NEW w \in Writers, NEW k \in 1..P
       PROVE  /\ log[w][k].i = k - 1
              /\ upw_case.framed => (log[w][k].fdGot = 1) = hasFd(k - 1)
  <2>1. w \in 1..2 /\ k \in 1..Len(log[w])
    BY <1>6, <1>11
  <2>2. log[w][k].i = k - 1
    BY <1>8, <2>1
  <2>3. upw_case.framed => (log[w][k].fdGot = 1) = hasFd(log[w][k].i)
    BY <1>1, <1>4, <2>1 DEF LogOK
  <2> QED BY <2>2, <2>3
<1>13. ASSUME NEW w \in Writers, NEW k \in 1..P, faults < 2
       PROVE  log[w][k].intact \/ (k = P /\ rx.half \o ring # <<>>)
  <2>1. CASE upw_case.framed
    <3>1. w \in 1..2 /\ k \in 1..Len(log[w])
      BY <1>6, <1>11
    <3> QED BY <1>1, <2>1, <3>1 DEF LogOK
  <2>2. CASE ~upw_case.framed
    <3>1. w = 1 /\ Writers = {1} /\ upw_case.writers = 1
      BY <1>1, <2>2, CaseFacts DEF Writers
    <3>2. Watched
      BY <1>3, <1>4, <1>13, <2>2 DEF Watched
    <3>3. StreamIs(Unread, Read, Written, log[1], faults)
      BY <3>2 DEF StreamOK
    <3>4. Read = 2 * P
      BY <1>3, <1>5, <3>1 DEF Read, Expected
    <3>5. Written = 2 * P
      <4>1. SenderOK(1) /\ tx[1].at = "over" /\ ~tx[1].err
        BY <1>1, <1>2, <1>3, <1>6 DEF SendersOK
      <4>2. tx[1].i = P /\ tx[1].left = 2
        BY <1>5, <2>2, <4>1 DEF SenderOK
      <4> QED BY <1>5, <4>2 DEF Written
    <3>6. Len(log[1]) = P
      BY <1>6, <1>11
    <3>7. CASE k < P
      BY <1>5, <3>1, <3>3, <3>6, <3>7 DEF StreamIs
    <3>8. CASE k = P
      <4>1. log[1][P].intact \/ Adrift(Unread, 2 * P, 2 * P)
        BY <1>5, <3>3, <3>4, <3>5, <3>6 DEF StreamIs
      <4>2. ASSUME Adrift(Unread, 2 * P, 2 * P) PROVE Unread # <<>>
        <5> SUFFICES ASSUME Unread = <<>> PROVE FALSE
          OBVIOUS
        <5>1. Len(Unread) = 0
          OBVIOUS
        <5> QED BY <1>5, <4>2, <5>1 DEF Adrift, Lacks, Repeats, Displaced
      <4> QED BY <3>1, <3>8, <4>1, <4>2 DEF Unread
    <3> QED BY <1>5, <3>7, <3>8
  <2> QED BY <2>1, <2>2
<1>14. rx.fds = upw_case.writers * Fds(P)
  BY <1>2, <1>3, <1>5, FdsAllSent
<1>15. rx.fds = Cardinality({ m \in Writers \X (0..(perWriter - 1)) : hasFd(m[2]) })
  BY <1>1, <1>5, <1>14, FdsOfAll
<1>16. /\ <<"pipe", "slow">> \notin wakes /\ <<"sock", "slow">> \notin wakes
       /\ strict /\ upw_case.readinessWoken => <<"sock", "late">> \notin wakes
  BY <1>1, <1>3, <1>4 DEF WakesOK
<1> QED BY <1>5, <1>11, <1>12, <1>13, <1>15, <1>16

\* Every message of every writer was taken once, in order and whole when
\* upw_check() prints a PASS, whatever the numbers of messages and of faults.
THEOREM PassIsEarnedTheorem == upw_Spec => []PassIsEarned
<1>1. upw_Init => StreamOK
  BY StreamInit
<1>2. upw_IInv /\ StreamOK /\ [upw_Next]_upw_vars => StreamOK'
  BY NextSteps, StreamStep
<1>3. upw_IInv /\ StreamOK => PassIsEarned
  BY PassProves
<1> QED BY <1>1, <1>2, <1>3, upw_InductiveInvariant, PTL DEF upw_Spec

=============================================================================
