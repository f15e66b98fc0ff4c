---------------------------- MODULE HarnessProofs ----------------------------
(***************************************************************************)
(* The two harnesses that turn a conversation into results.  The report of *)
(* the unity harness is complete and its messages are attributed to the    *)
(* right tests, for any number of tests.  The pytest bridge reports for    *)
(* each test case its own result, for any fixtures and any sessions.       *)
(***************************************************************************)
EXTENDS UnityLink, PytestBridge, SequenceTheorems, TLAPS

\* The fields of a line on the console, by its kind.
LEMMA LineFacts ==
    ASSUME NEW l \in Line
    PROVE  /\ l.kind \in {"assertion", "result", "final"}
           /\ l.kind = "assertion" => l.msg \in 0 .. N /\ l.status \in {"FAIL", "IGNORE", "INFO"}
           /\ l.kind = "result" => l.test \in Tests /\ l.status \in {"PASS", "FAIL", "IGNORE"}
           /\ l.kind = "final" => l.total \in Nat
           /\ Pos(l) \in 0 .. N + 1
           /\ l.kind = "result" => Pos(l) = l.test
           /\ l.kind = "assertion" => Pos(l) = l.msg
           /\ l.kind = "final" => Pos(l) = N + 1
  BY NAssumption DEF Line, Pos, Tests

\* The fields of a sub-result.
LEMMA SubFacts ==
    ASSUME NEW s \in SubResult
    PROVE  s.test \in Tests /\ s.status \in Status /\ s.msg \in 0 .. N
  BY DEF SubResult

\* Nothing is on the console before the program starts.
LEMMA InitInductive == Init => Inductive
  BY NAssumption DEF Init, Inductive, TypeOK, ProgramInv, WireInv, SubsInv, MessageInv, Tests

\* What a step of the program that prints nothing leaves intact.
LEMMA Quiet ==
    ASSUME Inductive, TypeOK',
           at' >= at,
           \A t \in Tests : t < at => truth'[t] = truth[t],
           phase' = "next" => phase = "next" \/ at' > at,
           phase = "over" => phase' = "over",
           UNCHANGED <<wire, harness>>
    PROVE  WireInv' /\ SubsInv' /\ MessageInv'
<1> USE NAssumption
<1>1. /\ TypeOK /\ WireInv /\ SubsInv /\ MessageInv
      /\ wire' = wire /\ subs' = subs /\ stats' = stats /\ last_assertion' = last_assertion
      /\ at \in Nat /\ at' \in Nat
  BY DEF Inductive, harness, TypeOK
<1>2. \A k \in 1 .. Len(wire) : wire[k] \in Line
  BY <1>1 DEF TypeOK
<1>3. WireInv'
  <2>1. ASSUME NEW k \in 1 .. Len(wire)
        PROVE  /\ wire[k].kind = "result" =>
                    wire[k].test < at' /\ wire[k].status = truth'[wire[k].test]
               /\ wire[k].kind = "assertion" =>
                    wire[k].msg <= at' /\ (phase' = "next" => wire[k].msg < at')
               /\ wire[k].kind = "final" => k = Len(wire) /\ phase' = "over" /\ wire[k].total = N
    <3>1. wire[k] \in Line
      BY <1>2
    <3> QED BY <1>1, <3>1, LineFacts DEF WireInv, Tests
  <2>2. \A j, k \in 1 .. Len(wire) :
          j < k /\ Pos(wire[j]) # 0 /\ Pos(wire[k]) # 0 =>
              Pos(wire[j]) <= Pos(wire[k]) /\ (wire[j].kind = "result" => Pos(wire[j]) < Pos(wire[k]))
    BY <1>1 DEF WireInv
  <2> QED BY <1>1, <2>1, <2>2, Zenon DEF WireInv, Pos
<1>4. SubsInv'
  <2>1. \A k \in 1 .. Len(subs) : subs[k].test \in Tests
    <3>1. \A k \in 1 .. Len(subs) : subs[k] \in SubResult
      BY <1>1 DEF TypeOK
    <3> QED BY <3>1, SubFacts
  <2>2. ASSUME NEW k \in 1 .. Len(subs)
        PROVE  subs[k].test < at' /\ subs[k].status = FromStr(truth'[subs[k].test])
    <3>1. /\ subs[k].test \in Tests /\ subs[k].test < at
          /\ subs[k].status = FromStr(truth[subs[k].test])
      BY <1>1, <2>1 DEF SubsInv
    <3> QED BY <1>1, <3>1 DEF Tests
  <2> QED BY <1>1, <2>2, Zenon DEF SubsInv, Pos, FromStr
<1>5. MessageInv'
  <2>1. last_assertion \in Nat
    BY <1>1 DEF TypeOK
  <2>2. last_assertion <= at' /\ (phase' = "next" => last_assertion < at')
    BY <1>1, <2>1 DEF MessageInv
  <2> QED BY <1>1, <2>2, Zenon DEF MessageInv, Pos
<1> QED BY <1>3, <1>4, <1>5

\* What printing line l leaves intact, if it is a line of the current test.
LEMMA Say ==
    ASSUME Inductive, TypeOK',
           NEW l \in Line,
           wire' = Append(wire, l),
           at' >= at,
           \A t \in Tests : t < at => truth'[t] = truth[t],
           phase' = "next" => phase = "next" \/ at' > at,
           phase # "over",
           l.kind = "result" => l.test = at /\ at' > at /\ l.status = truth'[at],
           l.kind = "assertion" => l.msg \in {0, at} /\ phase' # "next",
           l.kind = "final" => l.total = N /\ phase' = "over" /\ at = N + 1,
           UNCHANGED harness
    PROVE  WireInv' /\ SubsInv' /\ MessageInv'
<1> USE NAssumption
<1>1. /\ TypeOK /\ WireInv /\ SubsInv /\ MessageInv
      /\ subs' = subs /\ stats' = stats /\ last_assertion' = last_assertion
      /\ at \in 1 .. N + 1 /\ at' \in 1 .. N + 1
      /\ wire \in Seq(Line)
  BY DEF Inductive, harness, TypeOK
<1>2. PICK n \in Nat : n = Len(wire)
  BY <1>1
<1>3. /\ Len(wire') = n + 1 /\ wire'[n + 1] = l
      /\ \A k \in 1 .. n : wire'[k] = wire[k] /\ wire[k] \in Line
  BY <1>1, <1>2
<1>4. /\ Pos(l) \in {0, at}
      /\ l.kind = "assertion" => Pos(l) = l.msg
      /\ l.kind = "result" => Pos(l) = at
  BY <1>1, LineFacts
<1>5. ASSUME NEW k \in 1 .. n
      PROVE  /\ wire[k].kind # "final"
             /\ Pos(wire[k]) \in 0 .. N + 1 /\ Pos(wire[k]) <= at
             /\ wire[k].kind = "result" => Pos(wire[k]) < at
  <2>1. wire[k] \in Line
    BY <1>3
  <2> QED BY <1>1, <1>2, <2>1, LineFacts DEF WireInv
<1>6. ASSUME NEW k \in 1 .. n + 1
      PROVE  /\ wire'[k].kind = "result" =>
                  wire'[k].test < at' /\ wire'[k].status = truth'[wire'[k].test]
             /\ wire'[k].kind = "assertion" =>
                  wire'[k].msg <= at' /\ (phase' = "next" => wire'[k].msg < at')
             /\ wire'[k].kind = "final" => k = n + 1 /\ phase' = "over" /\ wire'[k].total = N
  <2>1. CASE k = n + 1
    BY <1>1, <1>3, <2>1
  <2>2. CASE k \in 1 .. n
    <3>1. wire[k] \in Line /\ wire'[k] = wire[k] /\ wire[k].kind # "final"
      BY <1>3, <1>5, <2>2
    <3>2. CASE wire[k].kind = "result"
      <4>1. wire[k].test \in Tests /\ wire[k].test < at /\ wire[k].status = truth[wire[k].test]
        BY <1>1, <1>2, <2>2, <3>1, <3>2, LineFacts DEF WireInv
      <4> QED BY <1>1, <3>1, <3>2, <4>1 DEF Tests
    <3>3. CASE wire[k].kind = "assertion"
      <4>1. wire[k].msg \in 0 .. N /\ wire[k].msg <= at /\ (phase = "next" => wire[k].msg < at)
        BY <1>1, <1>2, <2>2, <3>1, <3>3, LineFacts DEF WireInv
      <4> QED BY <1>1, <3>1, <3>3, <4>1
    <3> QED BY <3>1, <3>2, <3>3, LineFacts
  <2> QED BY <1>2, <2>1, <2>2
<1>7. ASSUME NEW j \in 1 .. n + 1, NEW k \in 1 .. n + 1, j < k,
             Pos(wire'[j]) # 0, Pos(wire'[k]) # 0
      PROVE  Pos(wire'[j]) <= Pos(wire'[k])
             /\ (wire'[j].kind = "result" => Pos(wire'[j]) < Pos(wire'[k]))
  <2>1. j \in 1 .. n /\ wire'[j] = wire[j]
    BY <1>2, <1>3, <1>7
  <2>2. CASE k = n + 1
    BY <1>1, <1>3, <1>4, <1>5, <1>7, <2>1, <2>2
  <2>3. CASE k \in 1 .. n
    BY <1>1, <1>2, <1>3, <1>7, <2>1, <2>3 DEF WireInv
  <2> QED BY <1>2, <2>2, <2>3
<1>8. WireInv'
  BY <1>3, <1>6, <1>7, Zenon DEF WireInv, Pos
<1>9. SubsInv'
  <2>1. \A k \in 1 .. Len(subs) : subs[k].test \in Tests
    <3>1. \A k \in 1 .. Len(subs) : subs[k] \in SubResult
      BY <1>1 DEF TypeOK
    <3> QED BY <3>1, SubFacts
  <2>2. ASSUME NEW k \in 1 .. Len(subs)
        PROVE  subs[k].test < at' /\ subs[k].status = FromStr(truth'[subs[k].test])
    <3>1. /\ subs[k].test \in Tests /\ subs[k].test < at
          /\ subs[k].status = FromStr(truth[subs[k].test])
      BY <1>1, <2>1 DEF SubsInv
    <3> QED BY <1>1, <3>1 DEF Tests
  <2>3. ASSUME NEW j \in 1 .. Len(subs), NEW k \in 1 .. n + 1, Pos(wire'[k]) # 0
        PROVE  subs[j].test < Pos(wire'[k])
    <3>1. CASE k = n + 1
      BY <1>1, <1>3, <1>4, <2>3, <3>1 DEF SubsInv
    <3>2. CASE k \in 1 .. n
      BY <1>1, <1>2, <1>3, <2>3, <3>2 DEF SubsInv
    <3> QED BY <1>2, <3>1, <3>2
  <2> QED BY <1>1, <1>3, <2>2, <2>3, Zenon DEF SubsInv, Pos, FromStr
<1>10. MessageInv'
  <2>1. ASSUME NEW k \in 1 .. n + 1, Pos(wire'[k]) # 0, last_assertion # 0
        PROVE  last_assertion <= Pos(wire'[k])
    <3>1. CASE k = n + 1
      BY <1>1, <1>3, <1>4, <2>1, <3>1 DEF MessageInv
    <3>2. CASE k \in 1 .. n
      BY <1>1, <1>2, <1>3, <2>1, <3>2 DEF MessageInv
    <3> QED BY <1>2, <3>1, <3>2
  <2>2. last_assertion \in 0 .. N
    BY <1>1 DEF TypeOK
  <2>3. last_assertion <= at' /\ (phase' = "next" => last_assertion < at')
    BY <1>1, <2>2 DEF MessageInv
  <2>4. /\ last_assertion # 0 => \A j \in 1 .. Len(subs) : subs[j].test < last_assertion
        /\ \A k \in 1 .. Len(subs) :
              subs[k].msg # 0 =>
                  /\ subs[k].msg <= subs[k].test
                  /\ \A j \in 1 .. k - 1 : subs[j].test < subs[k].msg
    BY <1>1 DEF MessageInv
  <2> QED BY <1>1, <1>3, <2>1, <2>3, <2>4, Zenon DEF MessageInv, Pos
<1> QED BY <1>8, <1>9, <1>10

\* Every step of the program, a crash included, preserves the invariant.
LEMMA ProgramStep == ASSUME Inductive, Program \/ Crash PROVE Inductive'
<1> USE NAssumption
<1>1. TypeOK /\ ProgramInv /\ at \in 1 .. N + 1
  BY DEF Inductive, TypeOK
<1>2. UNCHANGED harness
  BY DEF Program, Start, IgnoreTest, Message, Return, Assert, Conclude, UnityEnd, Crash
<1>3. verdict' \in {"OK", "FAIL"} => Len(subs') = N
  BY <1>2 DEF Inductive, harness
<1>4. CASE Start
  <2>1. TypeOK' /\ ProgramInv'
    <3>1. TypeOK'
      BY <1>1, <1>2, <1>4 DEF Start, TypeOK, harness
    <3>2. ProgramInv'
      BY <1>1, <1>4 DEF Start, TypeOK, ProgramInv, Tests
    <3> QED BY <3>1, <3>2
  <2>2. WireInv' /\ SubsInv' /\ MessageInv'
    BY <1>1, <1>4, <2>1, Quiet DEF Start
  <2> QED BY <1>3, <2>1, <2>2 DEF Inductive
<1>5. CASE Return
  <2>1. TypeOK' /\ ProgramInv'
    <3>1. TypeOK'
      BY <1>1, <1>2, <1>5 DEF Return, After, TypeOK, harness
    <3>2. ProgramInv'
      BY <1>1, <1>5 DEF Return, After, TypeOK, ProgramInv, Tests
    <3> QED BY <3>1, <3>2
  <2>2. WireInv' /\ SubsInv' /\ MessageInv'
    BY <1>1, <1>5, <2>1, Quiet DEF Return, After
  <2> QED BY <1>3, <2>1, <2>2 DEF Inductive
<1>6. CASE Crash
  <2>1. TypeOK' /\ ProgramInv'
    <3>1. TypeOK'
      BY <1>1, <1>2, <1>6 DEF Crash, TypeOK, harness
    <3>2. ProgramInv'
      BY <1>1, <1>6 DEF Crash, TypeOK, ProgramInv, Tests
    <3> QED BY <3>1, <3>2
  <2>2. WireInv' /\ SubsInv' /\ MessageInv'
    BY <1>1, <1>6, <2>1, Quiet DEF Crash
  <2> QED BY <1>3, <2>1, <2>2 DEF Inductive
<1>7. CASE IgnoreTest
  <2> DEFINE l == [kind |-> "result", status |-> "IGNORE", test |-> at]
  <2>1. l \in Line /\ wire' = Append(wire, l) /\ at \in Tests
    BY <1>1, <1>7 DEF IgnoreTest, Says, Line, Tests
  <2>2. TypeOK' /\ ProgramInv'
    <3>1. /\ count' = [total |-> count.total + 1, fail |-> count.fail, ignore |-> count.ignore + 1]
          /\ truth' = [truth EXCEPT ![at] = "IGNORE"] /\ at' = at + 1
          /\ phase = "next" /\ phase' = "next" /\ flag' = flag
      BY <1>7 DEF IgnoreTest
    <3>2. count \in [total : Nat, fail : Nat, ignore : Nat]
      BY <1>1 DEF TypeOK
    <3>3. count' \in [total : Nat, fail : Nat, ignore : Nat] /\ count'.total = count.total + 1
      BY <3>1, <3>2
    <3>4. wire' \in Seq(Line)
      BY <1>1, <2>1 DEF TypeOK
    <3>5. TypeOK'
      BY <1>1, <1>2, <2>1, <3>1, <3>3, <3>4 DEF TypeOK, harness, Tests
    <3>6. ProgramInv'
      BY <1>1, <2>1, <3>1, <3>3 DEF TypeOK, ProgramInv, Tests
    <3> QED BY <3>5, <3>6
  <2>3. /\ l.kind = "result" /\ l.test = at /\ l.status = "IGNORE" /\ at' = at + 1
        /\ truth'[at] = "IGNORE" /\ \A t \in Tests : t < at => truth'[t] = truth[t]
        /\ phase = "next"
    BY <1>1, <1>7, <2>1 DEF IgnoreTest, TypeOK, Tests
  <2>4. WireInv' /\ SubsInv' /\ MessageInv'
    <3> HIDE DEF l
    <3> QED BY <1>1, <1>2, <2>1, <2>2, <2>3, Say
  <2> QED BY <1>3, <2>2, <2>4 DEF Inductive
<1>8. CASE Message
  <2> DEFINE l == [kind |-> "assertion", status |-> "INFO", msg |-> at]
  <2>1. l \in Line /\ wire' = Append(wire, l) /\ UNCHANGED program
    BY <1>1, <1>8 DEF Message, Says, Line, ProgramInv
  <2>2. TypeOK' /\ ProgramInv'
    BY <1>1, <1>2, <2>1 DEF TypeOK, ProgramInv, program, harness
  <2>3. l.kind = "assertion" /\ l.msg = at /\ phase \in {"body", "teardown"}
    BY <1>8 DEF Message
  <2>4. WireInv' /\ SubsInv' /\ MessageInv'
    <3> HIDE DEF l
    <3> QED BY <1>1, <1>2, <2>1, <2>2, <2>3, Say DEF program
  <2> QED BY <1>3, <2>2, <2>4 DEF Inductive
<1>9. ASSUME NEW s \in {"FAIL", "IGNORE"}, Assert(s) PROVE Inductive'
  <2>1. at \in Tests /\ phase \in {"body", "teardown"} /\ phase' \in {"teardown", "conclude"}
        /\ at' = at /\ count' = count
    BY <1>1, <1>9 DEF Assert, After, ProgramInv, Tests
  <2>2. CASE flag # "none"
    <3>1. UNCHANGED <<flag, truth, wire>>
      BY <1>9, <2>2 DEF Assert
    <3>2. TypeOK' /\ ProgramInv'
      BY <1>1, <1>2, <2>1, <3>1 DEF TypeOK, ProgramInv, harness
    <3>3. WireInv' /\ SubsInv' /\ MessageInv'
      BY <1>1, <1>2, <2>1, <3>1, <3>2, Quiet
    <3> QED BY <1>3, <3>2, <3>3 DEF Inductive
  <2>3. CASE flag = "none"
    <3>1. PICK m \in {0, at} : wire' = Append(wire, [kind |-> "assertion", status |-> s, msg |-> m])
      BY <1>9, <2>3 DEF Assert, Says
    <3> DEFINE l == [kind |-> "assertion", status |-> s, msg |-> m]
    <3>2. l \in Line /\ wire' = Append(wire, l) /\ l.kind = "assertion" /\ l.msg = m
      BY <1>1, <2>1, <3>1 DEF Line, Tests
    <3>3. flag' = s /\ truth' = [truth EXCEPT ![at] = s]
      BY <1>9, <2>3 DEF Assert
    <3> HIDE DEF l
    <3>4. TypeOK' /\ ProgramInv'
      BY <1>1, <1>2, <2>1, <3>2, <3>3 DEF TypeOK, ProgramInv, harness, Tests
    <3>5. \A t \in Tests : t < at => truth'[t] = truth[t]
      BY <1>1, <2>1, <3>3 DEF TypeOK, Tests
    <3>6. WireInv' /\ SubsInv' /\ MessageInv'
      BY <1>1, <1>2, <2>1, <3>1, <3>2, <3>4, <3>5, Say
    <3> QED BY <1>3, <3>4, <3>6 DEF Inductive
  <2> QED BY <2>2, <2>3
<1>10. CASE Conclude
  <2> DEFINE s == IF flag = "none" THEN "PASS" ELSE flag
             l == [kind |-> "result", status |-> s, test |-> at]
  <2>1. at \in Tests /\ truth[at] = flag /\ phase = "conclude" /\ phase' = "next" /\ at' = at + 1
        /\ flag' = "none"
    BY <1>1, <1>10 DEF Conclude, ProgramInv, Tests
  <2>2. l \in Line /\ wire' = Append(wire, l)
    BY <1>1, <1>10, <2>1 DEF Conclude, Says, Line, TypeOK
  <2>3. truth' = [truth EXCEPT ![at] = s]
    BY <1>1, <1>10, <2>1 DEF Conclude, TypeOK
  <2>4. s \in {"PASS", "FAIL", "IGNORE"} /\ l.kind = "result" /\ l.test = at /\ l.status = s
    BY <1>1 DEF TypeOK
  <2>5. count' \in [total : Nat, fail : Nat, ignore : Nat] /\ count'.total = count.total
    <3>1. count \in [total : Nat, fail : Nat, ignore : Nat]
      BY <1>1 DEF TypeOK
    <3>2. count' = [total |-> count.total,
                    fail |-> count.fail + (IF s = "FAIL" THEN 1 ELSE 0),
                    ignore |-> count.ignore + (IF s = "IGNORE" THEN 1 ELSE 0)]
      BY <1>10 DEF Conclude
    <3> HIDE DEF s
    <3> QED BY <3>1, <3>2
  <2> HIDE DEF l, s
  <2>6. TypeOK' /\ ProgramInv'
    <3>1. TypeOK'
      <4>1. wire' \in Seq(Line)
        BY <1>1, <2>2 DEF TypeOK
      <4> QED BY <1>1, <1>2, <2>1, <2>3, <2>4, <2>5, <4>1 DEF TypeOK, harness, Tests
    <3>2. ProgramInv'
      BY <1>1, <2>1, <2>3, <2>4, <2>5 DEF TypeOK, ProgramInv, Tests
    <3> QED BY <3>1, <3>2
  <2>7. truth'[at] = s /\ \A t \in Tests : t < at => truth'[t] = truth[t]
    BY <1>1, <2>1, <2>3 DEF TypeOK, Tests
  <2>8. WireInv' /\ SubsInv' /\ MessageInv'
    BY <1>1, <1>2, <2>1, <2>2, <2>4, <2>6, <2>7, Say
  <2> QED BY <1>3, <2>6, <2>8 DEF Inductive
<1>11. CASE UnityEnd
  <2> DEFINE l == [kind |-> "final", total |-> count.total, fail |-> count.fail, ignore |-> count.ignore]
  <2>1. wire' = Append(wire, l) /\ phase = "next" /\ phase' = "over" /\ at = N + 1 /\ count.total = N
        /\ UNCHANGED <<at, flag, count, truth>>
    BY <1>1, <1>11 DEF UnityEnd, Says, ProgramInv
  <2>2. l \in Line /\ l.kind = "final" /\ l.total = N
    BY <1>1, <2>1 DEF Line, TypeOK
  <2> HIDE DEF l
  <2>3. TypeOK' /\ ProgramInv'
    BY <1>1, <1>2, <2>1, <2>2 DEF TypeOK, ProgramInv, harness, Tests
  <2>4. WireInv' /\ SubsInv' /\ MessageInv'
    BY <1>1, <1>2, <2>1, <2>2, <2>3, Say
  <2> QED BY <1>3, <2>3, <2>4 DEF Inductive
<1> QED BY <1>4, <1>5, <1>6, <1>7, <1>8, <1>9, <1>10, <1>11 DEF Program

\* Taking the first line off the console leaves the order of the others.
LEMMA Read ==
    ASSUME Inductive, wire # <<>>, wire' = Tail(wire), UNCHANGED program
    PROVE  /\ wire' \in Seq(Line) /\ ProgramInv' /\ WireInv'
           /\ Head(wire) \in Line /\ Head(wire) = wire[1] /\ Len(wire) >= 1
           /\ \A k \in 1 .. Len(wire') : k + 1 \in 2 .. Len(wire) /\ wire'[k] = wire[k + 1]
<1> USE NAssumption
<1>1. TypeOK /\ WireInv /\ wire \in Seq(Line)
  BY DEF Inductive, TypeOK
<1>2. PICK n \in Nat : n + 1 = Len(wire)
  BY <1>1
<1>3. /\ Len(wire') = n /\ wire' \in Seq(Line)
      /\ \A k \in 1 .. n : wire'[k] = wire[k + 1]
      /\ Head(wire) \in Line /\ Head(wire) = wire[1]
  BY <1>1, <1>2
<1>4. ProgramInv'
  BY DEF Inductive, ProgramInv, program
<1>5. WireInv'
  <2>1. at' = at /\ phase' = phase /\ truth' = truth
    BY DEF program
  <2>2. ASSUME NEW k \in 1 .. n
        PROVE  /\ wire'[k].kind = "result" =>
                    wire'[k].test < at /\ wire'[k].status = truth[wire'[k].test]
               /\ wire'[k].kind = "assertion" =>
                    wire'[k].msg <= at /\ (phase = "next" => wire'[k].msg < at)
               /\ wire'[k].kind = "final" => k = n /\ phase = "over" /\ wire'[k].total = N
    <3>1. k + 1 \in 1 .. Len(wire) /\ wire'[k] = wire[k + 1]
      BY <1>2, <1>3
    <3>2. wire[k + 1].kind = "final" => k + 1 = Len(wire)
      BY <1>1, <3>1 DEF WireInv
    <3> QED BY <1>1, <1>2, <3>1, <3>2 DEF WireInv
  <2>3. ASSUME NEW j \in 1 .. n, NEW k \in 1 .. n, j < k,
               Pos(wire'[j]) # 0, Pos(wire'[k]) # 0
        PROVE  Pos(wire'[j]) <= Pos(wire'[k])
               /\ (wire'[j].kind = "result" => Pos(wire'[j]) < Pos(wire'[k]))
    <3>1. /\ j + 1 \in 1 .. Len(wire) /\ k + 1 \in 1 .. Len(wire) /\ j + 1 < k + 1
          /\ wire'[j] = wire[j + 1] /\ wire'[k] = wire[k + 1]
      BY <1>2, <1>3, <2>3
    <3> QED BY <1>1, <2>3, <3>1 DEF WireInv
  <2> QED BY <1>3, <2>1, <2>2, <2>3, Zenon DEF WireInv, Pos
<1> QED BY <1>2, <1>3, <1>4, <1>5

\* A line that is lost, an assertion, the totals and a timeout: the sub-results
\* stay as they are.
LEMMA OtherLine ==
    ASSUME Inductive, Lose \/ Assertion \/ Final
    PROVE  Inductive'
<1> USE NAssumption
<1>1. /\ TypeOK /\ SubsInv /\ MessageInv /\ WireInv /\ wire # <<>> /\ wire' = Tail(wire)
      /\ UNCHANGED program /\ subs' = subs /\ stats' = stats
      /\ verdict = "none"
  BY DEF Inductive, Lose, Assertion, Final, Expect, harness
<1>2. /\ wire' \in Seq(Line) /\ ProgramInv' /\ WireInv'
      /\ Head(wire) \in Line /\ Head(wire) = wire[1] /\ Len(wire) >= 1
      /\ \A k \in 1 .. Len(wire') : k + 1 \in 2 .. Len(wire) /\ wire'[k] = wire[k + 1]
  BY <1>1, Read
<1>3. at \in Nat /\ at' = at /\ phase' = phase /\ truth' = truth /\ last_assertion \in 0 .. N
  BY <1>1 DEF program, TypeOK
<1>4. SubsInv'
  <2>1. ASSUME NEW j \in 1 .. Len(subs), NEW k \in 1 .. Len(wire'), Pos(wire'[k]) # 0
        PROVE  subs[j].test < Pos(wire'[k])
    <3>1. k + 1 \in 1 .. Len(wire) /\ wire'[k] = wire[k + 1]
      BY <1>2
    <3> QED BY <1>1, <2>1, <3>1 DEF SubsInv
  <2> QED BY <1>1, <1>3, <2>1, Zenon DEF SubsInv, Pos, FromStr
<1>5. last_assertion' = last_assertion
      \/ (Head(wire).kind = "assertion" /\ last_assertion' = Head(wire).msg)
  BY DEF Lose, Assertion, Final, Expect, harness
<1>6. last_assertion' \in 0 .. N /\ MessageInv'
  <2>1. CASE last_assertion' = last_assertion
    <3>1. ASSUME last_assertion # 0, NEW k \in 1 .. Len(wire'), Pos(wire'[k]) # 0
          PROVE  last_assertion <= Pos(wire'[k])
      <4>1. k + 1 \in 1 .. Len(wire) /\ wire'[k] = wire[k + 1]
        BY <1>2
      <4> QED BY <1>1, <3>1, <4>1 DEF MessageInv
    <3> QED BY <1>1, <1>3, <2>1, <3>1, Zenon DEF MessageInv, Pos
  <2>2. CASE Head(wire).kind = "assertion" /\ last_assertion' = Head(wire).msg
    <3>1. /\ 1 \in 1 .. Len(wire) /\ wire[1] \in Line /\ wire[1].kind = "assertion"
          /\ last_assertion' = wire[1].msg
      BY <1>2, <2>2
    <3>2. last_assertion' \in 0 .. N /\ last_assertion' = Pos(wire[1])
      BY <3>1, LineFacts
    <3>3. last_assertion' <= at /\ (phase = "next" => last_assertion' < at)
      BY <1>1, <3>1 DEF WireInv
    <3>4. last_assertion' # 0 => \A j \in 1 .. Len(subs) : subs[j].test < last_assertion'
      BY <1>1, <3>1, <3>2, Zenon DEF SubsInv
    <3>5. last_assertion' # 0 =>
            \A k \in 1 .. Len(wire') : Pos(wire'[k]) # 0 => last_assertion' <= Pos(wire'[k])
      <4>1. SUFFICES ASSUME last_assertion' # 0, NEW k \in 1 .. Len(wire'), Pos(wire'[k]) # 0
                     PROVE  last_assertion' <= Pos(wire'[k])
        OBVIOUS
      <4>2. k + 1 \in 1 .. Len(wire) /\ 1 < k + 1 /\ wire'[k] = wire[k + 1]
        BY <1>2
      <4> QED BY <1>1, <3>1, <3>2, <4>1, <4>2 DEF WireInv
    <3>6. \A k \in 1 .. Len(subs) :
            subs[k].msg # 0 =>
                /\ subs[k].msg <= subs[k].test
                /\ \A j \in 1 .. k - 1 : subs[j].test < subs[k].msg
      BY <1>1 DEF MessageInv
    <3> QED BY <1>1, <1>3, <3>2, <3>3, <3>4, <3>5, <3>6, Zenon DEF MessageInv, Pos
  <2> QED BY <1>5, <2>1, <2>2
<1>7. verdict' \in {"none", "OK", "FAIL", "mismatch"}
      /\ (verdict' \in {"OK", "FAIL"} => Len(subs) = N)
  <2>1. CASE Lose \/ Assertion
    BY <1>1, <2>1 DEF Lose, Assertion, harness
  <2>2. CASE Final
    <3>1. 1 \in 1 .. Len(wire) /\ wire[1].kind = "final" /\ wire[1].total = N
      BY <1>1, <1>2, <2>2 DEF Final, Expect, WireInv
    <3>2. /\ verdict' \in {"none", "OK", "FAIL", "mismatch"}
          /\ verdict' \in {"OK", "FAIL"} => Head(wire).total = stats.PASS + stats.FAIL + stats.IGNORE
      BY <2>2 DEF Final
    <3> QED BY <1>1, <1>2, <3>1, <3>2 DEF SubsInv
  <2> QED BY <2>1, <2>2
<1>8. TypeOK'
  BY <1>1, <1>2, <1>3, <1>6, <1>7 DEF TypeOK, program
<1> QED BY <1>1, <1>2, <1>4, <1>6, <1>7, <1>8 DEF Inductive

\* A result line becomes a sub-result, behind all the others.
LEMMA ResultLine == ASSUME Inductive, TestLine PROVE Inductive'
<1> USE NAssumption
<1>1. /\ TypeOK /\ SubsInv /\ MessageInv /\ WireInv /\ ProgramInv
      /\ wire # <<>> /\ wire' = Tail(wire)
      /\ UNCHANGED program /\ verdict = "none" /\ verdict' = verdict /\ last_assertion' = 0
      /\ Head(wire).kind = "result"
  BY DEF Inductive, TestLine, Expect
<1>2. /\ wire' \in Seq(Line) /\ ProgramInv' /\ WireInv'
      /\ Head(wire) \in Line /\ Head(wire) = wire[1] /\ Len(wire) >= 1
      /\ \A k \in 1 .. Len(wire') : k + 1 \in 2 .. Len(wire) /\ wire'[k] = wire[k + 1]
  BY <1>1, Read
<1>3. at \in 1 .. N + 1 /\ at' = at /\ phase' = phase /\ truth' = truth /\ last_assertion \in 0 .. N
  BY <1>1 DEF program, TypeOK
<1>4. PICK t \in Tests : t = wire[1].test /\ t = Pos(wire[1])
  BY <1>1, <1>2, LineFacts
<1>5. /\ 1 \in 1 .. Len(wire) /\ t < at /\ wire[1].status = truth[t]
      /\ truth[t] \in {"PASS", "FAIL", "IGNORE"}
  BY <1>1, <1>2, <1>4, LineFacts DEF WireInv
<1>6. PICK n \in Nat : n = Len(subs)
  BY <1>1 DEF TypeOK
<1> DEFINE s == [test |-> t, status |-> FromStr(truth[t]), msg |-> last_assertion]
<1>7. subs' = Append(subs, s)
  BY <1>2, <1>4, <1>5, Zenon DEF TestLine
<1>8. s \in SubResult /\ s.test = t /\ s.status = FromStr(truth[t]) /\ s.msg = last_assertion
  BY <1>3, <1>4, <1>5 DEF SubResult, FromStr, Status
<1> HIDE DEF s
<1>9. /\ subs' \in Seq(SubResult) /\ Len(subs') = n + 1 /\ subs'[n + 1] = s
      /\ \A k \in 1 .. n : subs'[k] = subs[k] /\ subs[k] \in SubResult
  BY <1>1, <1>6, <1>7, <1>8 DEF TypeOK
<1>10. \A k \in 1 .. n : subs[k].test \in Tests /\ subs[k].test < t
  <2>1. Pos(wire[1]) # 0
    BY <1>4 DEF Tests
  <2>2. \A k \in 1 .. n : subs[k].test < Pos(wire[1])
    BY <1>1, <1>5, <1>6, <2>1 DEF SubsInv
  <2> QED BY <1>4, <1>9, <2>2, SubFacts
<1>11. /\ stats' \in [PASS : Nat, FAIL : Nat, IGNORE : Nat]
       /\ stats'.PASS + stats'.FAIL + stats'.IGNORE = stats.PASS + stats.FAIL + stats.IGNORE + 1
  <2>1. stats \in [PASS : Nat, FAIL : Nat, IGNORE : Nat] /\ stats' = [stats EXCEPT ![truth[t]] = @ + 1]
    BY <1>1, <1>2, <1>5, Zenon DEF TypeOK, TestLine
  <2>2. CASE truth[t] = "PASS"
    BY <2>1, <2>2
  <2>3. CASE truth[t] = "FAIL"
    BY <2>1, <2>3
  <2>4. CASE truth[t] = "IGNORE"
    BY <2>1, <2>4
  <2> QED BY <1>5, <2>2, <2>3, <2>4
<1>12. TypeOK'
  BY <1>1, <1>2, <1>3, <1>9, <1>11 DEF TypeOK, program
<1>13. SubsInv'
  <2>1. ASSUME NEW k \in 1 .. n + 1
        PROVE  subs'[k].test < at /\ subs'[k].status = FromStr(truth[subs'[k].test])
    <3>1. CASE k = n + 1
      BY <1>5, <1>8, <1>9, <3>1
    <3>2. CASE k \in 1 .. n
      BY <1>1, <1>6, <1>9, <3>2 DEF SubsInv
    <3> QED BY <3>1, <3>2
  <2>2. ASSUME NEW j \in 1 .. n + 1, NEW k \in 1 .. n + 1, j < k
        PROVE  subs'[k].test - subs'[j].test >= k - j
    <3>1. j \in 1 .. n /\ subs'[j] = subs[j] /\ subs[j].test \in Nat /\ t \in Nat
      BY <1>9, <1>10, <2>2 DEF Tests
    <3>2. CASE k \in 1 .. n
      BY <1>1, <1>6, <1>9, <2>2, <3>1, <3>2 DEF SubsInv
    <3>3. CASE k = n + 1 /\ j = n
      BY <1>8, <1>9, <1>10, <3>1, <3>3
    <3>4. CASE k = n + 1 /\ j < n
      <4>1. n \in 1 .. n /\ subs[n].test \in Nat /\ subs[n].test < t
        BY <1>10, <3>1 DEF Tests
      <4>2. subs[n].test - subs[j].test >= n - j
        BY <1>1, <1>6, <3>1, <3>4, <4>1 DEF SubsInv
      <4> QED BY <1>8, <1>9, <3>1, <3>4, <4>1, <4>2
    <3> QED BY <3>1, <3>2, <3>3, <3>4
  <2>3. ASSUME NEW j \in 1 .. n + 1, NEW k \in 1 .. Len(wire'), Pos(wire'[k]) # 0
        PROVE  subs'[j].test < Pos(wire'[k])
    <3>1. k + 1 \in 1 .. Len(wire) /\ 1 < k + 1 /\ wire'[k] = wire[k + 1]
      BY <1>2
    <3>2. CASE j = n + 1
      <4>1. Pos(wire[1]) # 0 /\ Pos(wire[k + 1]) # 0 /\ wire[1].kind = "result"
        BY <1>1, <1>2, <1>4, <2>3, <3>1 DEF Tests
      <4>2. Pos(wire[1]) < Pos(wire[k + 1])
        BY <1>1, <1>5, <3>1, <4>1 DEF WireInv
      <4> QED BY <1>4, <1>8, <1>9, <3>1, <3>2, <4>2
    <3>3. CASE j \in 1 .. n
      BY <1>1, <1>6, <1>9, <2>3, <3>1, <3>3, Zenon DEF SubsInv
    <3> QED BY <3>2, <3>3
  <2>4. Len(subs') = stats'.PASS + stats'.FAIL + stats'.IGNORE
    BY <1>1, <1>6, <1>9, <1>11 DEF SubsInv
  <2> QED BY <1>3, <1>9, <2>1, <2>2, <2>3, <2>4, Zenon DEF SubsInv, Pos, FromStr
<1>14. MessageInv'
  <2>1. ASSUME NEW k \in 1 .. n + 1, subs'[k].msg # 0
        PROVE  /\ subs'[k].msg <= subs'[k].test
               /\ \A j \in 1 .. k - 1 : subs'[j].test < subs'[k].msg
    <3>1. CASE k = n + 1
      <4>1. last_assertion # 0 /\ Pos(wire[1]) # 0
        BY <1>4, <1>8, <1>9, <2>1, <3>1 DEF Tests
      <4>2. last_assertion <= t /\ \A j \in 1 .. n : subs[j].test < last_assertion
        BY <1>1, <1>4, <1>5, <1>6, <4>1 DEF MessageInv
      <4> QED BY <1>8, <1>9, <3>1, <4>2
    <3>2. CASE k \in 1 .. n
      BY <1>1, <1>6, <1>9, <2>1, <3>2 DEF MessageInv
    <3> QED BY <3>1, <3>2
  <2> QED BY <1>1, <1>3, <1>9, <2>1 DEF MessageInv
<1> QED BY <1>1, <1>2, <1>12, <1>13, <1>14 DEF Inductive

\* The inductive invariant holds: no step of the program, of the console or of
\* the harness leaves it.
THEOREM InductiveHolds == Spec => []Inductive
<1>1. Inductive /\ [Next]_vars => Inductive'
  <2> SUFFICES ASSUME Inductive, [Next]_vars PROVE Inductive'
    OBVIOUS
  <2>1. CASE Timeout
    <3>1. UNCHANGED <<at, phase, flag, count, truth, wire, last_assertion, stats, subs>>
          /\ verdict' = "timeout"
      BY <2>1 DEF Timeout, program
    <3>2. TypeOK'
      BY <3>1 DEF Inductive, TypeOK
    <3>3. ProgramInv' /\ WireInv' /\ SubsInv' /\ MessageInv'
      BY <3>1, ZenonT(40) DEF Inductive, ProgramInv, WireInv, SubsInv, MessageInv, Pos, FromStr
    <3> QED BY <3>1, <3>2, <3>3 DEF Inductive
  <2>2. CASE UNCHANGED vars
    BY <2>2, ZenonT(40) DEF Inductive, TypeOK, ProgramInv, WireInv, SubsInv, MessageInv, vars, Pos, FromStr
  <2> QED BY <2>1, <2>2, ProgramStep, OtherLine, ResultLine DEF Next, Harness, Over
<1> QED BY <1>1, InitInductive, PTL DEF Spec

\* A report whose totals the harness accepts has one sub-result per test, with
\* what really became of it, whichever lines the console lost.
THEOREM ReportIsComplete == Spec => []CompleteReport
<1>1. Inductive => CompleteReport
  <2> SUFFICES ASSUME Inductive, Len(subs) = N, NEW k \in 1 .. N
               PROVE  subs[k].test = k /\ subs[k].status = FromStr(truth[k])
    BY DEF Inductive, CompleteReport
  <2> USE NAssumption
  <2>1. /\ 1 \in 1 .. N /\ N \in 1 .. N
        /\ subs[1].test \in 1 .. N /\ subs[k].test \in 1 .. N /\ subs[N].test \in 1 .. N
    BY SubFacts DEF Inductive, TypeOK, Tests
  <2>2. k # 1 => subs[k].test - subs[1].test >= k - 1
    BY <2>1 DEF Inductive, SubsInv
  <2>3. k # N => subs[N].test - subs[k].test >= N - k
    BY <2>1 DEF Inductive, SubsInv
  <2>4. subs[k].test = k
    BY <2>1, <2>2, <2>3
  <2> QED BY <2>4 DEF Inductive, SubsInv
<1> QED BY <1>1, InductiveHolds, PTL

\* In such a report no sub-result carries the message of another test.
THEOREM MessagesAreOwn == Spec => []MessageIsOwn
<1>1. Inductive /\ CompleteReport => MessageIsOwn
  <2> SUFFICES ASSUME Inductive, CompleteReport, verdict \in {"OK", "FAIL"},
                      NEW k \in 1 .. Len(subs), subs[k].msg # 0
               PROVE  subs[k].msg = k
    BY DEF MessageIsOwn
  <2> USE NAssumption
  <2>1. /\ Len(subs) = N /\ \A j \in 1 .. N : subs[j].test = j
        /\ subs[k].msg <= k /\ \A j \in 1 .. k - 1 : subs[j].test < subs[k].msg
    BY DEF Inductive, CompleteReport, MessageInv
  <2>2. subs[k].msg \in 1 .. N
    BY SubFacts DEF Inductive, TypeOK
  <2>3. CASE k = 1
    BY <2>1, <2>2, <2>3
  <2>4. CASE k > 1
    <3>1. k - 1 \in 1 .. k - 1 /\ k - 1 \in 1 .. N
      BY <2>1, <2>4
    <3> QED BY <2>1, <2>2, <3>1
  <2> QED BY <2>3, <2>4
<1> QED BY <1>1, InductiveHolds, ReportIsComplete, PTL

\* The harness counts a failure exactly if it has a part that failed, and that
\* decides a verdict it comes to by itself.
TallyInv ==
    /\ stats.FAIL # 0 <=> "FAIL" \in {subs[k].status : k \in 1 .. Len(subs)}
    /\ verdict \in {"OK", "FAIL"} => (verdict = "FAIL" <=> stats.FAIL # 0)

\* The counts of unity_harness and its sub-results agree throughout.
THEOREM TallyHolds == Spec => []TallyInv
<1>1. Init => TallyInv
  BY DEF Init, TallyInv
<1>2. Inductive /\ TallyInv /\ [Next]_vars => TallyInv'
  <2> SUFFICES ASSUME Inductive, TallyInv, [Next]_vars PROVE TallyInv'
    OBVIOUS
  <2>1. CASE TestLine
    <3> DEFINE l == Head(wire)
               e == [test |-> l.test, status |-> FromStr(l.status), msg |-> last_assertion]
    <3>1. /\ subs' = Append(subs, e) /\ stats' = [stats EXCEPT ![l.status] = @ + 1]
          /\ l.kind = "result" /\ wire # <<>> /\ verdict' = verdict /\ verdict = "none"
      BY <2>1 DEF TestLine, Expect
    <3>2. l \in Line
      BY <3>1 DEF Inductive, TypeOK
    <3>3. l.status \in {"PASS", "FAIL", "IGNORE"} /\ l.test \in Tests
      BY <3>1, <3>2, LineFacts
    <3>4. e.status = FromStr(l.status) /\ (e.status = "FAIL" <=> l.status = "FAIL")
      BY <3>3 DEF FromStr
    <3>5. e \in SubResult
      BY <3>3 DEF SubResult, FromStr, Status, Inductive, TypeOK
    <3> HIDE DEF e
    <3>6. /\ Len(subs) \in Nat /\ Len(subs') = Len(subs) + 1
          /\ \A k \in 1 .. Len(subs) : subs'[k] = subs[k]
          /\ subs'[Len(subs) + 1] = e
      BY <3>1, <3>5 DEF Inductive, TypeOK
    <3>7. {subs'[k].status : k \in 1 .. Len(subs')}
             = {subs[k].status : k \in 1 .. Len(subs)} \cup {e.status}
      BY <3>6
    <3>8. stats'.FAIL # 0 <=> stats.FAIL # 0 \/ l.status = "FAIL"
      <4>1. stats \in [PASS : Nat, FAIL : Nat, IGNORE : Nat]
        BY DEF Inductive, TypeOK
      <4>2. CASE l.status = "FAIL"
        BY <3>1, <4>1, <4>2
      <4>3. CASE l.status \in {"PASS", "IGNORE"}
        BY <3>1, <4>1, <4>3
      <4> QED
        BY <3>3, <4>2, <4>3
    <3> QED
      BY <3>1, <3>4, <3>7, <3>8 DEF TallyInv
  <2>2. CASE Final
    <3>1. /\ UNCHANGED <<stats, subs>>
          /\ verdict' = "mismatch" \/ verdict' = IF stats.FAIL # 0 THEN "FAIL" ELSE "OK"
      BY <2>2 DEF Final
    <3> QED
      BY <3>1 DEF TallyInv
  <2>3. CASE Timeout
    BY <2>3 DEF Timeout, TallyInv
  <2>4. CASE Program \/ Crash \/ Lose \/ Assertion \/ Over \/ UNCHANGED vars
    <3>1. UNCHANGED <<stats, subs, verdict>>
      BY <2>4 DEF Program, Start, IgnoreTest, Message, Return, Assert, Conclude, UnityEnd,
                  Crash, Lose, Assertion, Over, vars, harness
    <3> QED
      BY <3>1 DEF TallyInv
  <2> QED
    BY <2>1, <2>2, <2>3, <2>4 DEF Next, Harness
<1> QED
  BY <1>1, <1>2, InductiveHolds, PTL DEF Spec

\* to_junit_testsuite shows a failure of a unity test exactly if the test failed,
\* also if the harness broke off after parts that went well.
THEOREM XmlIsSound == Spec => []XmlShowsVerdict
<1>1. Inductive /\ TallyInv => XmlShowsVerdict
  <2> SUFFICES ASSUME Inductive, TallyInv, verdict # "none"
               PROVE  "FAIL" \in JunitStatuses(HarnessResult) <=> StatusOf(HarnessResult) = "FAIL"
    BY DEF XmlShowsVerdict
  <2> DEFINE parts == {subs[k].status : k \in 1 .. Len(subs)}
             r == AddSubresults(NewResult, parts)
  <2>1. r.subs = parts
    BY DEF AddSubresults, NewResult
  <2>2. CASE verdict \in {"OK", "FAIL"}
    <3> DEFINE o == [NewResult EXCEPT !.status = verdict]
               h == Overwrite(r, o)
    <3>1. HarnessResult = h
      BY <2>2 DEF HarnessResult
    <3>2. StatusOf(o) = verdict
      BY <2>2 DEF StatusOf, NewResult, UNSET
    <3>3. h.status = StatusOf(o) /\ h.subs = r.subs
      BY DEF Overwrite, AddSubresults, NewResult
    <3> HIDE DEF h, o, r
    <3>4. StatusOf(h) = verdict
      BY <2>2, <3>2, <3>3 DEF StatusOf, UNSET
    <3>5. verdict = "FAIL" <=> "FAIL" \in parts
      BY <2>2 DEF TallyInv
    <3> QED
      BY <2>1, <3>1, <3>3, <3>4, <3>5, Zenon DEF JunitStatuses
  <2>3. CASE verdict \notin {"OK", "FAIL"}
    <3> DEFINE h == FailComposite(r)
    <3>1. HarnessResult = h
      BY <2>3 DEF HarnessResult
    <3>2. Fail(r).status = "FAIL" /\ Fail(r).subs = r.subs
      BY DEF Fail, AddSubresults, NewResult
    <3>3. h.status = "FAIL" /\ (parts = {} => h.subs = {}) /\ (parts # {} => "FAIL" \in h.subs)
      <4>1. CASE parts = {}
        <5>1. h = Fail(r)
          BY <2>1, <4>1, Zenon DEF FailComposite
        <5> QED
          BY <2>1, <3>2, <4>1, <5>1, Zenon
      <4>2. CASE parts # {}
        <5>1. h = AddSubresults(Fail(r), {"FAIL"})
          BY <2>1, <4>2, Zenon DEF FailComposite
        <5>2. /\ AddSubresults(Fail(r), {"FAIL"}).status = Fail(r).status
              /\ AddSubresults(Fail(r), {"FAIL"}).subs = Fail(r).subs \cup {"FAIL"}
          BY DEF Fail, AddSubresults, NewResult
        <5> QED
          BY <3>2, <4>2, <5>1, <5>2, Zenon
      <4> QED
        BY <4>1, <4>2, Zenon
    <3> HIDE DEF h, r
    <3> QED
      BY <3>1, <3>3 DEF JunitStatuses, StatusOf, UNSET
  <2> QED
    BY <2>2, <2>3
<1> QED
  BY <1>1, InductiveHolds, TallyHolds, PTL

-----------------------------------------------------------------------------
\* The status that the outcomes of a test case's set-up and call add up to, and
\* with its teardown.
Summary(o) == IF "failed" \in o THEN "FAIL" ELSE IF "skipped" \in o THEN "SKIP" ELSE "OK"

Reported(o) == IF o.teardown = "failed" THEN "FAIL" ELSE Summary(o.body)

Owns == [body : SUBSET Outcome, teardown : Outcome]

Members(s) == {s[n] : n \in 1 .. Len(s)}

Over2 == {"ended", "broken"}

\* Where a session is: the test cases before `current` have their sub-results.
PlaceInv ==
    /\ cases \in Seq(Seq(Fixtures))
    /\ Len(subresults) = Len(owns)
    /\ current = Len(subresults) + 1
    /\ when \in {"call", "teardown"} => current <= Len(cases)

\* What the one pending result holds where it is going to be used, and the
\* outcomes it stands for.
PendingInv ==
    /\ when = "setup" => own = {}
    /\ when = "call" => own = {"passed"}
    /\ when = "teardown" => pending_result = Summary(own)
    /\ \A n \in 1 .. Len(subresults) : subresults[n] = Reported(owns[n])

\* The TestResult follows the sub-results until the session is over.
ResultInv ==
    when \notin Over2 => result.status = UNSET /\ result.subs = Members(subresults)

\* What was reported as failed with its source in the traceback is remembered.
FixtureInv == \A f \in Fixtures : <<f, "failed">> \in failing => f \in broken_fixtures

IInv == BridgeTypeOK /\ PlaceInv /\ PendingInv /\ ResultInv /\ FixtureInv /\ VerdictIsSound

-----------------------------------------------------------------------------
\* The fixtures that a test case requires are fixtures (what
\* pytest_runtest_setup looks up).
LEMMA RequiredType ==
  ASSUME NEW c \in Seq(Fixtures)
  PROVE  Required(c) \subseteq Fixtures
BY DEF Required

\* Members after append: what AddSubresults adds is what _finalize_and_report
\* appends.
LEMMA MembersAppend ==
  ASSUME NEW S, NEW s \in Seq(S), NEW e \in S
  PROVE  Members(Append(s, e)) = Members(s) \cup {e}
<1>1. Len(Append(s, e)) = Len(s) + 1 /\ Len(s) \in Nat
  OBVIOUS
<1>2. \A n \in 1 .. Len(s) : Append(s, e)[n] = s[n]
  OBVIOUS
<1>3. Append(s, e)[Len(s) + 1] = e
  OBVIOUS
<1>4. 1 .. (Len(s) + 1) = (1 .. Len(s)) \cup {Len(s) + 1}
  BY <1>1
<1> QED
  BY <1>1, <1>2, <1>3, <1>4 DEF Members

\* The status of a result that nobody has set is FAIL exactly if a part failed
\* (_compute_status), and it is a status.
LEMMA StatusFromParts ==
  ASSUME NEW r \in Result, r.status = UNSET
  PROVE  /\ StatusOf(r) = "FAIL" <=> "FAIL" \in r.subs
         /\ StatusOf(r) \in Status
BY DEF Result, StatusOf, ComputeStatus, UNSET, Status

\* overwrite with itself keeps the status (the end of PyHarness.__call__).
LEMMA OverwriteSelf ==
  ASSUME NEW r \in Result
  PROVE  /\ Overwrite(r, r) \in Result
         /\ StatusOf(Overwrite(r, r)) = StatusOf(r)
<1>1. StatusOf(r) \in Status
  BY DEF Result, StatusOf, ComputeStatus, UNSET, Status
<1>2. /\ Overwrite(r, r) \in Result
      /\ Overwrite(r, r).status = StatusOf(r)
  <2>1. DONE \in TestStage
    BY DEF TestStage, INIT, DONE
  <2> QED
    BY <1>1, <2>1, Zenon DEF Result, Overwrite
<1>3. StatusOf(r) # UNSET
  BY <1>1 DEF Status, UNSET
<1> QED
  BY <1>2, <1>3 DEF StatusOf

-----------------------------------------------------------------------------
\* The first state of a session.
LEMMA InitInv == BridgeInit => IInv
<1> SUFFICES ASSUME BridgeInit PROVE IInv
  OBVIOUS
<1>1. BridgeTypeOK
  BY SessionsAssumption DEF BridgeInit, BridgeTypeOK, NewResult, Result, Status, UNSET, TestStage, INIT, DONE
<1>2. PlaceInv
  BY SessionsAssumption DEF BridgeInit, PlaceInv
<1>3. PendingInv /\ FixtureInv /\ VerdictIsSound
  BY DEF BridgeInit, PendingInv, FixtureInv, VerdictIsSound
<1>4. ResultInv
  BY DEF BridgeInit, ResultInv, NewResult, Members
<1> QED
  BY <1>1, <1>2, <1>3, <1>4 DEF IInv

\* Recording a set-up phase (_record_setup_phase) keeps the types.
LEMMA RecordSetupType ==
  ASSUME BridgeTypeOK, NEW outcome \in Outcome, NEW fixture \in Fixtures \cup {UNKNOWN},
         RecordSetupPhase(outcome, fixture)
  PROVE  /\ pending_result' \in Status
         /\ broken_fixtures' \subseteq Fixtures
         /\ broken_fixtures \subseteq broken_fixtures'
         /\ outcome = "failed" => pending_result' = "FAIL" /\ {fixture} \ {UNKNOWN} \subseteq broken_fixtures'
         /\ outcome = "skipped" => pending_result' = "SKIP"
BY DEF RecordSetupPhase, BridgeTypeOK, Outcome, Status

\* A test case whose set-up raises, in pytest_runtest_setup or in a fixture.
LEMMA RaisingSetupInv ==
  ASSUME IInv, when = "setup", current <= Len(cases), NEW outcome \in Raised,
         NEW fixture \in Fixtures \cup {UNKNOWN}, RecordSetupPhase(outcome, fixture),
         failing' = failing \/ (fixture \in Fixtures /\ failing' = failing \cup {<<fixture, outcome>>}),
         started' \subseteq Fixtures, own' = {outcome}, when' = "teardown",
         UNCHANGED <<cases, current, owns, subresults, result>>
  PROVE  IInv'
<1> USE DEF IInv
<1>1. /\ pending_result' = IF outcome = "failed" THEN "FAIL" ELSE "SKIP"
      /\ broken_fixtures' \subseteq Fixtures
      /\ broken_fixtures \subseteq broken_fixtures'
      /\ outcome = "failed" => {fixture} \ {UNKNOWN} \subseteq broken_fixtures'
  BY RecordSetupType DEF Outcome, Raised
<1>2. FixtureInv'
  <2>1. UNKNOWN \notin Fixtures
    BY SessionsAssumption
  <2> QED
    BY <1>1, <2>1 DEF FixtureInv
<1>3. BridgeTypeOK'
  <2>1. failing' \subseteq Fixtures \X Raised
    BY DEF BridgeTypeOK
  <2>2. pending_result' \in Status /\ own' \subseteq Outcome
    BY <1>1 DEF Status, Outcome, Raised
  <2> QED
    BY <1>1, <2>1, <2>2 DEF BridgeTypeOK
<1>4. PlaceInv' /\ VerdictIsSound'
  BY DEF PlaceInv, VerdictIsSound
<1>5. PendingInv'
  BY <1>1 DEF PendingInv, Summary, Reported, Raised
<1>6. ResultInv'
  BY DEF ResultInv, Members, Over2
<1> QED
  BY <1>2, <1>3, <1>4, <1>5, <1>6

\* Every step of a session preserves the invariant.
LEMMA StepInv == IInv /\ [BridgeNext]_bridgeVars => IInv'
<1> SUFFICES ASSUME IInv, [BridgeNext]_bridgeVars PROVE IInv'
  OBVIOUS
<1> USE DEF IInv
<1>0. cases \in Seq(Seq(Fixtures)) /\ (current <= Len(cases) => cases[current] \in Seq(Fixtures))
  BY DEF PlaceInv, BridgeTypeOK
<1>1. CASE FastFail
  <2>1. PICK f \in Required(cases[current]) \cap broken_fixtures, outcome \in Raised :
          RecordSetupPhase(outcome, f) /\ own' = {outcome}
    BY <1>1 DEF FastFail
  <2>2. f \in Fixtures
    BY DEF BridgeTypeOK
  <2> QED
    BY <1>1, <2>1, <2>2, RaisingSetupInv DEF FastFail
<1>2. CASE FixtureFails
  <2>1. PICK n \in 1 .. Len(cases[current]), outcome \in Raised :
          /\ \/ /\ RecordSetupPhase(outcome, cases[current][n])
                /\ failing' = failing \cup {<<cases[current][n], outcome>>}
             \/ RecordSetupPhase(outcome, UNKNOWN) /\ UNCHANGED failing
          /\ started' = SetUp(n)
          /\ own' = {outcome}
    BY <1>2 DEF FixtureFails
  <2>2. cases[current] \in Seq(Fixtures) /\ cases[current][n] \in Fixtures
    BY <1>0, <1>2 DEF FixtureFails
  <2>3. started' \subseteq Fixtures
    BY <2>1, <2>2 DEF SetUp
  <2>4. CASE /\ RecordSetupPhase(outcome, cases[current][n])
             /\ failing' = failing \cup {<<cases[current][n], outcome>>}
    BY <1>2, <2>1, <2>2, <2>3, <2>4, RaisingSetupInv DEF FixtureFails
  <2>5. CASE RecordSetupPhase(outcome, UNKNOWN) /\ UNCHANGED failing
    BY <1>2, <2>1, <2>3, <2>5, RaisingSetupInv DEF FixtureFails
  <2> QED
    BY <2>1, <2>4, <2>5
<1>3. CASE Setup
  <2>1. PICK outcome \in {"passed", "skipped"}, n \in 0 .. Len(cases[current]) :
          /\ RecordSetupPhase(outcome, UNKNOWN)
          /\ started' = SetUp(n)
          /\ own' = {outcome}
          /\ when' = IF outcome = "passed" THEN "call" ELSE "teardown"
    BY <1>3 DEF Setup
  <2>2. /\ pending_result' \in Status /\ broken_fixtures' \subseteq Fixtures
        /\ broken_fixtures \subseteq broken_fixtures'
        /\ outcome = "skipped" => pending_result' = "SKIP"
    BY <2>1, RecordSetupType DEF Outcome
  <2>3. started' \subseteq Fixtures
    BY <1>0, <1>3, <2>1 DEF Setup, SetUp
  <2>4. BridgeTypeOK'
    BY <1>3, <2>1, <2>2, <2>3 DEF Setup, BridgeTypeOK, Outcome
  <2>5. PlaceInv' /\ VerdictIsSound' /\ FixtureInv'
    BY <1>3, <2>1, <2>2 DEF Setup, PlaceInv, VerdictIsSound, FixtureInv
  <2>6. PendingInv'
    BY <1>3, <2>1, <2>2 DEF Setup, PendingInv, Summary, Reported
  <2>7. ResultInv'
    BY <1>3, <2>1 DEF Setup, ResultInv, Members, Over2
  <2> QED
    BY <2>4, <2>5, <2>6, <2>7
<1>4. CASE Call
  <2>1. PICK outcome \in Outcome : RecordCallPhase(outcome) /\ own' = own \cup {outcome}
    BY <1>4 DEF Call
  <2>2. BridgeTypeOK'
    BY <1>4, <2>1 DEF Call, BridgeTypeOK, RecordCallPhase, Outcome, Status
  <2>3. PlaceInv' /\ VerdictIsSound' /\ FixtureInv'
    BY <1>4 DEF Call, PlaceInv, VerdictIsSound, FixtureInv
  <2>4. PendingInv'
    BY <1>4, <2>1 DEF Call, PendingInv, RecordCallPhase, Outcome, Summary, Reported
  <2>5. ResultInv'
    BY <1>4 DEF Call, ResultInv, Members, Over2
  <2> QED
    BY <2>2, <2>3, <2>4, <2>5
<1>5. CASE Teardown
  <2>1. PICK outcome \in Outcome :
          FinalizeAndReport(outcome) /\ owns' = Append(owns, [body |-> own, teardown |-> outcome])
    BY <1>5 DEF Teardown
  <2> DEFINE final == IF outcome = "failed" THEN "FAIL" ELSE pending_result
             o == [body |-> own, teardown |-> outcome]
  <2>2. final \in Status /\ final = Reported(o)
    BY <1>5 DEF Teardown, BridgeTypeOK, Status, PendingInv, Reported
  <2>3. subresults' = Append(subresults, final) /\ result' = AddSubresults(result, {final})
    BY <2>1 DEF FinalizeAndReport
  <2>4. subresults \in Seq(Status) /\ owns \in Seq(Owns) /\ o \in Owns
    BY DEF BridgeTypeOK, Owns
  <2>5. /\ subresults' \in Seq(Status) /\ Len(subresults') = Len(subresults) + 1
        /\ owns' \in Seq(Owns) /\ Len(owns') = Len(owns) + 1
    BY <2>1, <2>2, <2>3, <2>4
  <2>6. result' \in Result /\ result'.status = result.status /\ result'.subs = result.subs \cup {final}
    BY <2>2, <2>3, Zenon DEF BridgeTypeOK, Result, AddSubresults
  <2>7. BridgeTypeOK'
    BY <1>5, <2>5, <2>6 DEF Teardown, BridgeTypeOK, PlaceInv, Owns
  <2>8. PlaceInv' /\ VerdictIsSound' /\ FixtureInv'
    BY <1>5, <2>5 DEF Teardown, PlaceInv, VerdictIsSound, FixtureInv
  <2>9. PendingInv'
    <3>1. \A n \in 1 .. Len(subresults) : subresults'[n] = subresults[n] /\ owns'[n] = owns[n]
      BY <2>1, <2>2, <2>3, <2>4 DEF PlaceInv
    <3>2. subresults'[Len(subresults) + 1] = final /\ owns'[Len(subresults) + 1] = o
      BY <2>1, <2>2, <2>3, <2>4 DEF PlaceInv
    <3>3. \A n \in 1 .. Len(subresults') : subresults'[n] = Reported(owns'[n])
      <4>1. 1 .. Len(subresults') = (1 .. Len(subresults)) \cup {Len(subresults) + 1}
        BY <2>4, <2>5
      <4> QED
        BY <2>2, <3>1, <3>2, <4>1, Zenon DEF PendingInv
    <3> QED
      BY <1>5, <3>3, Zenon DEF Teardown, PendingInv
  <2>10. ResultInv'
    <3>1. Members(subresults)' = Members(subresults) \cup {final}
      BY <2>2, <2>3, <2>4, MembersAppend DEF Members
    <3> QED
      BY <1>5, <2>6, <3>1 DEF Teardown, ResultInv, Over2
  <2> QED
    BY <2>7, <2>8, <2>9, <2>10
<1>6. CASE SessionEnds
  <2>1. /\ result' = Overwrite(result, result) /\ when = "setup" /\ when' = "ended"
        /\ UNCHANGED <<cases, current, pending_result, broken_fixtures, started, failing, own, owns, subresults>>
    BY <1>6 DEF SessionEnds, HarnessEnd
  <2>2. result' \in Result /\ StatusOf(result') = StatusOf(result)
    BY <2>1, OverwriteSelf DEF BridgeTypeOK
  <2>3. StatusOf(result) = "FAIL" <=> "FAIL" \in Members(subresults)
    BY <2>1, StatusFromParts DEF BridgeTypeOK, ResultInv, Over2
  <2>4. \A n \in 1 .. Len(subresults) : subresults[n] = "FAIL" <=> AnyFailed(owns[n])
    BY DEF PendingInv, Reported, Summary, AnyFailed
  <2>5. "FAIL" \in Members(subresults) <=> \E n \in 1 .. Len(owns) : AnyFailed(owns[n])
    BY <2>4 DEF Members, PlaceInv
  <2>6. "FAIL" \notin Members(subresults) => Len(subresults) = Len(cases)
    <3>1. "FAIL" \notin Members(subresults) => current > Len(cases)
      BY <1>6 DEF SessionEnds, Members
    <3> QED
      BY <3>1 DEF PlaceInv, BridgeTypeOK
  <2>7. VerdictIsSound'
    BY <2>1, <2>2, <2>3, <2>5, <2>6 DEF VerdictIsSound
  <2>8. BridgeTypeOK' /\ PlaceInv' /\ PendingInv' /\ ResultInv' /\ FixtureInv'
    BY <2>1, <2>2 DEF BridgeTypeOK, PlaceInv, PendingInv, ResultInv, FixtureInv, Over2
  <2> QED
    BY <2>7, <2>8
<1>7. CASE SessionBreaks
  <2>1. /\ result' = Overwrite(Fail(result), Fail(result)) /\ when' = "broken"
        /\ UNCHANGED <<cases, current, pending_result, broken_fixtures, started, failing, own, owns, subresults>>
    BY <1>7 DEF SessionBreaks, HarnessEnd
  <2>2. Fail(result) \in Result /\ StatusOf(Fail(result)) = "FAIL"
    <3>1. DONE \in TestStage
      BY DEF TestStage, INIT, DONE
    <3>2. Fail(result) \in Result
      BY <3>1, Zenon DEF BridgeTypeOK, Result, Fail, Status
    <3>3. StatusOf(Fail(result)) = "FAIL"
      BY DEF BridgeTypeOK, Result, Fail, StatusOf, UNSET
    <3> QED
      BY <3>2, <3>3
  <2>3. result' \in Result /\ StatusOf(result') = "FAIL"
    BY <2>1, <2>2, OverwriteSelf
  <2>4. VerdictIsSound'
    BY <2>1, <2>3 DEF VerdictIsSound
  <2>5. BridgeTypeOK' /\ PlaceInv' /\ PendingInv' /\ ResultInv' /\ FixtureInv'
    BY <2>1, <2>3 DEF BridgeTypeOK, PlaceInv, PendingInv, ResultInv, FixtureInv, Over2
  <2> QED
    BY <2>4, <2>5
<1>8. CASE BridgeOver \/ UNCHANGED bridgeVars
  BY <1>8, Zenon DEF BridgeOver, bridgeVars, BridgeTypeOK, PlaceInv, PendingInv, ResultInv, FixtureInv, VerdictIsSound, Members
<1> QED
  BY <1>1, <1>2, <1>3, <1>4, <1>5, <1>6, <1>7, <1>8 DEF BridgeNext

-----------------------------------------------------------------------------
\* The invariant holds throughout a session.
THEOREM BridgeInductiveHolds == BridgeSpec => []IInv
BY InitInv, StepInv, PTL DEF BridgeSpec

\* Every variable of a session keeps its type, for any fixtures and sessions.
THEOREM TypeCorrect == BridgeSpec => []BridgeTypeOK
<1>1. IInv => BridgeTypeOK
  BY DEF IInv
<1> QED
  BY <1>1, BridgeInductiveHolds, PTL

\* _finalize_and_report gives every test case the status of its own phases,
\* whatever pytest reports of each of them.
THEOREM ResultIsOwn == BridgeSpec => []OwnResult
<1>1. IInv => OwnResult
  BY DEF IInv, PlaceInv, PendingInv, OwnResult, Reported, Summary, AnyFailed
<1> QED
  BY <1>1, BridgeInductiveHolds, PTL

\* pytest_harness: a session that is over has the verdict of its test cases, and
\* one that broke off has failed.
THEOREM VerdictSound == BridgeSpec => []VerdictIsSound
<1>1. IInv => VerdictIsSound
  BY DEF IInv
<1> QED
  BY <1>1, BridgeInductiveHolds, PTL

\* pytest_runtest_setup keeps every later test case from a fixture whose failure
\* was reported as failed.
THEOREM BrokenStaysDown == BridgeSpec => BrokenNotRerun
<1>1. IInv /\ [BridgeNext]_bridgeVars =>
        [started' # started => \A f \in started' : <<f, "failed">> \notin failing]_bridgeVars
  <2> SUFFICES ASSUME IInv, BridgeNext, started' # started, NEW f \in started'
               PROVE  <<f, "failed">> \notin failing
    OBVIOUS
  <2>1. f \in Fixtures => (<<f, "failed">> \in failing => f \in broken_fixtures)
    BY DEF IInv, FixtureInv
  <2>2. CASE FixtureFails \/ Setup
    <3>1. PICK n \in 0 .. Len(cases[current]) : started' = SetUp(n)
      BY <2>2 DEF FixtureFails, Setup
    <3>2. cases[current] \in Seq(Fixtures)
      BY <2>2 DEF FixtureFails, Setup, IInv, PlaceInv, BridgeTypeOK
    <3>3. f \in Required(cases[current]) /\ f \in Fixtures
      BY <3>1, <3>2 DEF Required, SetUp
    <3>4. Required(cases[current]) \cap broken_fixtures = {}
      BY <2>2, Zenon DEF FixtureFails, Setup
    <3> QED
      BY <2>1, <3>3, <3>4
  <2>3. CASE FastFail \/ Call \/ Teardown
    BY <2>3 DEF FastFail, Call, Teardown
  <2>4. CASE SessionEnds \/ SessionBreaks \/ BridgeOver
    BY <2>4, Zenon DEF SessionEnds, SessionBreaks, BridgeOver, bridgeVars
  <2> QED
    BY <2>2, <2>3, <2>4 DEF BridgeNext
<1> QED
  BY <1>1, BridgeInductiveHolds, PTL DEF BridgeSpec, BrokenNotRerun

=============================================================================
