---------------------------- MODULE ConfigProofs ----------------------------
(* Proofs for module Config: whatever the yaml files say, what is taken is    *)
(* what the keywords of its own file mean, and no file changes what another   *)
(* one comes to.  The invariant remembers that the main part that the parser  *)
(* works with is that of the file it is in, what became of the tests that it  *)
(* is past, and that what was taken lies in order behind it.                  *)
EXTENDS Config, TLAPS

\* The targets that a main part leaves.
MainTargets(t) == IF t = NONE THEN {} ELSE BuildTargets(t)

\* _parse_targets of a test under a main part that leaves the targets mt.
TestTargets(t, mt) ==
    IF t = NONE THEN IF mt = {} THEN Default ELSE mt
    ELSE IF mt = {} \/ t.value # NONE THEN BuildTargets(t)
    ELSE BuildTargets([t EXCEPT !.value = mt])

\* What is known of a test that was taken.
Good(r) ==
    /\ r.of[1] \in 1 .. Len(files)
    /\ r.of[2] \in 1 .. Len(files[r.of[1]].tests)
    /\ Taken(Alone(r.of[1]), TestOf(r))
    /\ r = TestOptions(Alone(r.of[1]), TestOf(r), r.of)

\* What became of test j of file i, once the parser is past it.
Dealt(i, j) ==
    /\ Accepted(Alone(i), files[i].tests[j])
    /\ Taken(Alone(i), files[i].tests[j]) => \E n \in 1 .. Len(res) : res[n].of = <<i, j>>

Place ==
    /\ files \in Files
    /\ f \in Nat \ {0}
    /\ k \in Nat
    /\ \E S : res \in Seq(S)

\* The tests that were taken lie in order, before the place of the parser.
Sorted ==
    \A n \in 1 .. Len(res) :
        /\ Before(res[n].of, <<f, k>>)
        /\ \A m \in 1 .. n - 1 : Before(res[m].of, res[n].of)

IInv ==
    /\ Place
    /\ k > 0 => f <= Len(files) /\ main = Alone(f)
    /\ \A n \in 1 .. Len(res) : Good(res[n])
    /\ Sorted
    /\ \A i \in 1 .. Len(files) : \A j \in 1 .. Len(files[i].tests) :
          Before(<<i, j>>, <<f, k>>) => Dealt(i, j)
    /\ pc = "done" => f > Len(files)
    /\ pc = "error" => ~Accepted(Alone(f), files[f].tests[k])

-----------------------------------------------------------------------------
\* Appending to any sequence.
LEMMA AppendAny ==
    ASSUME NEW S, NEW s \in Seq(S), NEW e
    PROVE  /\ Append(s, e) \in Seq(S \cup {e})
           /\ Len(Append(s, e)) = Len(s) + 1
           /\ Len(s) \in Nat
           /\ \A n \in 1 .. Len(s) : Append(s, e)[n] = s[n]
           /\ Append(s, e)[Len(s) + 1] = e
<1>1. s \in Seq(S \cup {e})
  OBVIOUS
<1> QED
  BY <1>1

\* A test that is taken for an experimental target is in a file that names it.
LEMMA NamedWhenExperimental ==
    ASSUME target.experimental,
           NEW m \in {NONE} \cup TargetsKeyword, NEW t \in {NONE} \cup TargetsKeyword,
           This \in TestTargets(t, MainTargets(m))
    PROVE  This \in Names(m) \cup Names(t)
<1>1. Default = {}
  BY DEF Default
<1>2. MainTargets(m) \subseteq Names(m)
  BY <1>1 DEF MainTargets, BuildTargets, Get, Names
<1>3. CASE t = NONE
  BY <1>1, <1>2, <1>3 DEF TestTargets
<1>4. CASE t # NONE /\ (MainTargets(m) = {} \/ t.value # NONE)
  BY <1>1, <1>4 DEF TestTargets, BuildTargets, Get, Names
<1>5. CASE t # NONE /\ ~(MainTargets(m) = {} \/ t.value # NONE)
  <2>1. t \in TargetsKeyword
    BY <1>5
  <2>2. [t EXCEPT !.value = MainTargets(m)].value = MainTargets(m)
    BY <2>1 DEF TargetsKeyword
  <2>3. [t EXCEPT !.value = MainTargets(m)].include = t.include
    BY <2>1 DEF TargetsKeyword
  <2>4. This \in Get(MainTargets(m), Default) \cup t.include
    BY <1>5, <2>2, <2>3 DEF TestTargets, BuildTargets
  <2> QED
    BY <1>1, <1>2, <1>5, <2>4 DEF Get, Names
<1> QED
  BY <1>3, <1>4, <1>5

\* The targets that _parse_targets comes to are what the keywords mean, if the
\* main part leaves a target.
LEMMA InheritedAsMeant ==
    ASSUME NEW m \in {NONE} \cup TargetsKeyword, NEW t \in {NONE} \cup TargetsKeyword,
           Meaning(m, Default) # {}
    PROVE  TestTargets(t, MainTargets(m)) = Meaning(t, Meaning(m, Default))
<1>0. Default \in SUBSET Targets
  BY FilesAssumption DEF Default
<1>1. CASE m = NONE
  <2>1. MainTargets(m) = {} /\ Meaning(m, Default) = Default
    BY <1>1 DEF MainTargets, Meaning
  <2> QED
    BY <2>1 DEF TestTargets, Meaning, BuildTargets
<1>2. CASE m # NONE
  <2>1. m \in TargetsKeyword /\ MainTargets(m) = Meaning(m, Default)
    BY <1>2 DEF MainTargets, Meaning, BuildTargets
  <2>2. MainTargets(m) \in SUBSET Targets
    BY <1>0, <2>1 DEF Meaning, Get, TargetsKeyword
  <2>3. MainTargets(m) # NONE /\ MainTargets(m) # {}
    BY <2>1, <2>2, FilesAssumption
  <2>4. CASE t = NONE
    BY <2>1, <2>3, <2>4 DEF TestTargets, Meaning
  <2>5. CASE t # NONE /\ t.value # NONE
    BY <2>5 DEF TestTargets, Meaning, BuildTargets, Get
  <2>6. CASE t # NONE /\ t.value = NONE
    <3>1. t \in TargetsKeyword
      BY <2>6
    <3> DEFINE u == [t EXCEPT !.value = MainTargets(m)]
    <3>2. u.value = MainTargets(m) /\ u.include = t.include /\ u.exclude = t.exclude
      BY <3>1 DEF TargetsKeyword
    <3>3. BuildTargets(u) = (MainTargets(m) \cup t.include) \ t.exclude
      BY <2>3, <3>2 DEF BuildTargets, Get
    <3>4. TestTargets(t, MainTargets(m)) = BuildTargets(u)
      BY <2>3, <2>6 DEF TestTargets
    <3> QED
      BY <2>1, <2>6, <3>3, <3>4 DEF Meaning, Get
  <2> QED
    BY <2>4, <2>5, <2>6
<1> QED
  BY <1>1, <1>2

-----------------------------------------------------------------------------
\* Before the first file.
LEMMA InitInv == Init => IInv
<1> SUFFICES ASSUME Init PROVE IInv
  OBVIOUS
<1>1. res \in Seq({}) /\ Len(res) = 0
  BY DEF Init
<1>2. Place /\ Sorted
  BY <1>1 DEF Init, Place, Sorted
<1>3. \A i, j \in Nat \ {0} : ~Before(<<i, j>>, <<f, k>>)
  BY DEF Init, Before
<1>4. \A i \in 1 .. Len(files) : \A j \in 1 .. Len(files[i].tests) : i \in Nat \ {0} /\ j \in Nat \ {0}
  BY <1>2, FilesAssumption DEF Place
<1>5. k = 0 /\ pc = "parse"
  BY DEF Init
<1> QED
  BY <1>1, <1>2, <1>3, <1>4, <1>5 DEF IInv

\* What the parser makes of a test depends on nothing that it changes.
LEMMA GivenIsKept ==
    ASSUME UNCHANGED given
    PROVE  /\ \A i : Alone(i)' = Alone(i)
           /\ \A m, c : Taken(m, c)' <=> Taken(m, c)
           /\ \A m, c : Accepted(m, c)' <=> Accepted(m, c)
           /\ \A r : Good(r)' <=> Good(r)
<1>0. target' = target /\ nightly' = nightly /\ files' = files
  BY DEF given
<1>1. \A t : BuildTargets(t)' = BuildTargets(t)
  BY <1>0 DEF BuildTargets, Default
<1>2. \A i : Alone(i)' = Alone(i)
  BY <1>0, <1>1, Zenon DEF Alone, Preprocessed
<1>3. \A m, t : ParseTargets(m, t)' = ParseTargets(m, t)
  BY <1>0, <1>1 DEF ParseTargets, Default
<1>4. \A m, c : Taken(m, c)' <=> Taken(m, c)
  BY <1>0, <1>3 DEF Taken
<1>5. \A m, c : Accepted(m, c)' <=> Accepted(m, c)
  BY <1>4 DEF Accepted
<1>6. \A m, c, of : TestOptions(m, c, of)' = TestOptions(m, c, of)
  BY <1>0 DEF TestOptions, ParseLoad
<1>7. \A r : Good(r)' <=> Good(r)
  BY <1>0, <1>2, <1>4, <1>6 DEF Good, TestOf
<1> QED
  BY <1>2, <1>4, <1>5, <1>7

\* Every step of the parser preserves the invariant.
LEMMA StepInv == IInv /\ [Next]_vars => IInv'
<1> SUFFICES ASSUME IInv, [Next]_vars PROVE IInv'
  OBVIOUS
<1>0. /\ files' = files
      /\ Len(files) \in Nat
      /\ \A i \in 1 .. Len(files) : Len(files[i].tests) \in Nat
      /\ \A i : Alone(i)' = Alone(i)
      /\ \A m, c : Taken(m, c)' <=> Taken(m, c)
      /\ \A m, c : Accepted(m, c)' <=> Accepted(m, c)
      /\ \A r : Good(r)' <=> Good(r)
  <2>1. Len(files) \in Nat /\ \A i \in 1 .. Len(files) : Len(files[i].tests) \in Nat
    BY FilesAssumption DEF IInv, Place
  <2>2. UNCHANGED given
    BY DEF Next, PreprocessMainConfig, ParseConfig, NextFile, Parsed, Over, vars, given
  <2>3. files' = files
    BY <2>2 DEF given
  <2> QED
    BY <2>1, <2>2, <2>3, GivenIsKept
<1>1. ASSUME res' = res
      PROVE  \A i, j : Dealt(i, j)' <=> Dealt(i, j)
  BY <1>0, <1>1 DEF Dealt
<1>2. CASE PreprocessMainConfig
  <2>1. /\ k = 0 /\ k' = 1 /\ f' = f /\ res' = res /\ pc = "parse" /\ pc' = pc
        /\ f <= Len(files) /\ main' = Alone(f)
    BY <1>2 DEF PreprocessMainConfig, Alone
  <2>2. Place' /\ (k > 0 => f <= Len(files) /\ main = Alone(f))'
    BY <1>0, <2>1 DEF IInv, Place
  <2>3. Sorted'
    BY <2>1, SMTT(40) DEF IInv, Place, Good, Sorted, Before
  <2>4. \A i \in 1 .. Len(files) : \A j \in 1 .. Len(files[i].tests) :
            Before(<<i, j>>, <<f, k>>)' => Dealt(i, j)'
    BY <1>0, <1>1, <2>1 DEF IInv, Place, Before
  <2> QED
    BY <1>0, <2>1, <2>2, <2>3, <2>4 DEF IInv
<1>3. CASE ParseConfig
  <2> DEFINE c == files[f].tests[k]
  <2>0. /\ f' = f /\ main' = main /\ pc = "parse"
        /\ f \in 1 .. Len(files) /\ k \in 1 .. Len(files[f].tests)
        /\ main = Alone(f)
    <3>1. f \in 1 .. Len(files)
      BY <1>0, <1>3 DEF ParseConfig, IInv, Place
    <3> QED
      BY <1>0, <1>3, <3>1 DEF ParseConfig, IInv, Place
  <2>1. CASE Accepted(main, c)
    <3>1. k' = k + 1 /\ pc' = pc
      BY <1>3, <2>1 DEF ParseConfig
    <3>2. (k > 0 => f <= Len(files) /\ main = Alone(f))'
      BY <1>0, <2>0
    <3>3. \A i, j \in Nat : Before(<<i, j>>, <<f, k>>)' <=> (Before(<<i, j>>, <<f, k>>) \/ <<i, j>> = <<f, k>>)
      BY <2>0, <3>1 DEF Before, IInv, Place
    <3>4. CASE Taken(main, c)
      <4> DEFINE o == TestOptions(main, c, <<f, k>>)
      <4>1. res' = Append(res, o)
        BY <1>3, <2>1, <3>4 DEF ParseConfig
      <4>2. o.of = <<f, k>> /\ TestOf(o) = c
        BY DEF TestOptions, TestOf
      <4>3. Good(o)
        BY <2>0, <3>4, <4>2, SMTT(40) DEF Good
      <4>4. PICK S : res \in Seq(S)
        BY DEF IInv, Place
      <4>5. /\ res' \in Seq(S \cup {o}) /\ Len(res') = Len(res) + 1 /\ Len(res) \in Nat
            /\ \A n \in 1 .. Len(res) : res'[n] = res[n]
            /\ res'[Len(res) + 1] = o
        BY <4>1, <4>4, AppendAny
      <4> HIDE DEF o
      <4>6. \A n \in 1 .. Len(res') : Good(res[n])'
        BY <1>0, <4>3, <4>5 DEF IInv
      <4>7. Place'
        BY <1>0, <2>0, <3>1, <4>5 DEF IInv, Place
      <4>8. Sorted'
        <5>1. ASSUME NEW n \in 1 .. Len(res) PROVE Before(res[n].of, <<f, k>>)'
          <6>1. Before(res[n].of, <<f, k>>) /\ res'[n] = res[n]
            BY <4>5 DEF IInv, Sorted
          <6> QED
            BY <2>0, <3>1, <6>1, <5>1 DEF Before, IInv, Place, Good
        <5>2. Before(o.of, <<f, k>>')
          BY <2>0, <3>1, <4>2 DEF Before
        <5>3. \A m \in 1 .. Len(res) : Before(res'[m].of, o.of)
          BY <4>2, <4>5 DEF IInv, Sorted
        <5>4. \A n \in 1 .. Len(res) : \A m \in 1 .. n - 1 : Before(res'[m].of, res'[n].of)
          BY <4>5 DEF IInv, Sorted
        <5> QED
          BY <4>5, <5>1, <5>2, <5>3, <5>4 DEF Sorted, Before
      <4>9. ASSUME NEW i \in 1 .. Len(files), NEW j \in 1 .. Len(files[i].tests),
                   Before(<<i, j>>, <<f, k>>)'
            PROVE  Dealt(i, j)'
        <5>1. CASE <<i, j>> = <<f, k>>
          BY <1>0, <2>0, <2>1, <4>2, <4>5, <5>1 DEF Dealt
        <5>2. CASE Before(<<i, j>>, <<f, k>>)
          <6>1. Dealt(i, j)
            BY <4>9, <5>2 DEF IInv
          <6> QED
            BY <1>0, <4>5, <6>1 DEF Dealt
        <5>3. i \in Nat /\ j \in Nat
          BY <1>0
        <5> QED
          BY <3>3, <4>9, <5>1, <5>2, <5>3
      <4> QED
        BY <1>0, <2>0, <3>1, <3>2, <4>6, <4>7, <4>8, <4>9, Zenon DEF IInv
    <3>5. CASE ~Taken(main, c)
      <4>1. res' = res
        BY <1>3, <2>1, <3>5 DEF ParseConfig
      <4>2. Place'
        BY <1>0, <2>0, <3>1, <4>1 DEF IInv, Place
      <4>3. Sorted'
        BY <2>0, <3>1, <4>1 DEF IInv, Place, Good, Sorted, Before
      <4>4. ASSUME NEW i \in 1 .. Len(files), NEW j \in 1 .. Len(files[i].tests),
                   Before(<<i, j>>, <<f, k>>)'
            PROVE  Dealt(i, j)'
        <5>1. CASE <<i, j>> = <<f, k>>
          BY <1>0, <2>0, <2>1, <3>5, <5>1 DEF Dealt
        <5>2. CASE Before(<<i, j>>, <<f, k>>)
          BY <1>1, <4>1, <5>2 DEF IInv
        <5>3. i \in Nat /\ j \in Nat
          BY <1>0
        <5> QED
          BY <3>3, <4>4, <5>1, <5>2, <5>3
      <4> QED
        BY <1>0, <2>0, <3>1, <3>2, <4>1, <4>2, <4>3, <4>4, Zenon DEF IInv
    <3> QED
      BY <3>4, <3>5
  <2>2. CASE ~Accepted(main, c)
    <3>1. pc' = "error" /\ res' = res /\ k' = k
      BY <1>3, <2>2 DEF ParseConfig
    <3>2. (pc = "error" => ~Accepted(Alone(f), files[f].tests[k]))'
      BY <1>0, <2>0, <2>2, <3>1
    <3> QED
      BY <1>0, <1>1, <2>0, <3>1, <3>2 DEF IInv, Place, Sorted, Before
  <2> QED
    BY <2>1, <2>2
<1>4. CASE NextFile
  <2>1. /\ f' = f + 1 /\ k' = 0 /\ res' = res /\ pc = "parse" /\ pc' = pc
        /\ f \in 1 .. Len(files) /\ k > Len(files[f].tests)
    BY <1>0, <1>4 DEF NextFile, IInv, Place
  <2>2. Place'
    BY <1>0, <2>1 DEF IInv, Place
  <2>3. Sorted'
    BY <2>1, SMTT(40) DEF IInv, Place, Good, Sorted, Before
  <2>4. ASSUME NEW i \in 1 .. Len(files), NEW j \in 1 .. Len(files[i].tests),
               Before(<<i, j>>, <<f, k>>)'
        PROVE  Dealt(i, j)'
    <3>1. Before(<<i, j>>, <<f, k>>)
      BY <1>0, <2>1, <2>4 DEF IInv, Place, Before
    <3> QED
      BY <1>1, <2>1, <3>1 DEF IInv
  <2>5. ~(k > 0)' /\ pc' = "parse" /\ \A n \in 1 .. Len(res') : Good(res[n])'
    BY <1>0, <2>1 DEF IInv
  <2> QED
    BY <1>0, <2>2, <2>3, <2>4, <2>5 DEF IInv
<1>5. CASE Parsed \/ Over \/ UNCHANGED vars
  <2>1. UNCHANGED <<f, k, main, res>> /\ (pc' = pc \/ (pc' = "done" /\ f > Len(files)))
    BY <1>5 DEF Parsed, Over, vars, given
  <2> QED
    BY <1>0, <1>1, <2>1 DEF IInv, Place, Sorted, Before
<1> QED
  BY <1>2, <1>3, <1>4, <1>5 DEF Next

-----------------------------------------------------------------------------
\* The invariant holds while the files are parsed.
THEOREM InductiveHolds == Spec => []IInv
BY InitInv, StepInv, PTL DEF Spec

\* The tests that were taken are tests of the files, with keywords of their type.
LEMMA TakenTypes ==
    ASSUME IInv, NEW n \in 1 .. Len(res)
    PROVE  /\ FileOf(res[n]).targets \in {NONE} \cup TargetsKeyword
           /\ TestOf(res[n]).targets \in {NONE} \cup TargetsKeyword
           /\ This \in TestTargets(TestOf(res[n]).targets, MainTargets(FileOf(res[n]).targets))
<1>1. Good(res[n])
  BY DEF IInv
<1>2. /\ FileOf(res[n]).targets \in {NONE} \cup TargetsKeyword
      /\ TestOf(res[n]).targets \in {NONE} \cup TargetsKeyword
  BY <1>1, FilesAssumption, Zenon DEF IInv, Place, Good, FileOf, TestOf
<1>3. Alone(res[n].of[1]).targets = MainTargets(FileOf(res[n]).targets)
  BY DEF Alone, Preprocessed, MainTargets, FileOf
<1>4. This \in ParseTargets(Alone(res[n].of[1]), TestOf(res[n]).targets)
  BY <1>1 DEF Good, Taken
<1> QED
  BY <1>2, <1>3, <1>4 DEF ParseTargets, TestTargets

\* An experimental target gets no test of a file that does not name it
\* (_parse_targets), whatever the files before it said.
THEOREM ExperimentalExplicit == Spec => []ExperimentalIsExplicit
<1>1. IInv => ExperimentalIsExplicit
  BY TakenTypes, NamedWhenExperimental DEF ExperimentalIsExplicit
<1> QED
  BY <1>1, InductiveHolds, PTL

\* The targets of a test that is taken are what the keywords mean, if the main
\* part leaves a target (_parse_targets).
THEOREM InheritanceIsMeant == Spec => []TakenAsMeant
<1>1. IInv => TakenAsMeant
  BY TakenTypes, InheritedAsMeant, Zenon DEF TakenAsMeant, MeantFor
<1> QED
  BY <1>1, InductiveHolds, PTL

\* The files of a campaign do not mix (parse, _preprocess_main_config and
\* _parse_config): every test fares as it would if its file were the only one.
THEOREM FilesDoNotMix == Spec => []AsIfAlone
<1>1. IInv => AsIfAlone
  <2> SUFFICES ASSUME IInv PROVE AsIfAlone
    OBVIOUS
  <2>1. ASSUME NEW n \in 1 .. Len(res)
        PROVE  /\ Taken(Alone(res[n].of[1]), TestOf(res[n]))
               /\ res[n] = TestOptions(Alone(res[n].of[1]), TestOf(res[n]), res[n].of)
               /\ \A m \in 1 .. n - 1 : Before(res[m].of, res[n].of)
    BY <2>1, Zenon DEF IInv, Good, Sorted
  <2>2. ASSUME pc = "done", NEW i \in 1 .. Len(files), NEW j \in 1 .. Len(files[i].tests)
        PROVE  Dealt(i, j)
    <3>1. Len(files) \in Nat
      BY FilesAssumption DEF IInv, Place
    <3>2. Before(<<i, j>>, <<f, k>>)
      BY <2>2, <3>1 DEF IInv, Place, Before
    <3> QED
      BY <2>2, <3>2 DEF IInv
  <2> QED
    BY <2>1, <2>2, Zenon DEF AsIfAlone, IInv, Dealt
<1> QED
  BY <1>1, InductiveHolds, PTL

=============================================================================
