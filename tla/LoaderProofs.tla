---------------------------- MODULE LoaderProofs ----------------------------
(***************************************************************************)
(* How programs and files get to a target: phoenixd's handler, for any     *)
(* number of runs, and the two passes of the loaders through a debugger,   *)
(* which agree for any page size, load offset, number of items and sizes   *)
(* of items.                                                               *)
(***************************************************************************)
EXTENDS Phoenixd, SyspageLoader, TLAPS

\* Before the handler is used no run has begun.
LEMMA InitInductive == Init => Inductive
  BY MaxRunsAssumption DEF Init, Inductive, TypeOK, Unused, MainInv, Runs

\* Steps of the main thread that leave processes and readers alone: a port that
\* is not found, the wait and its timeout, the body, SIGTERM, the join, the end.
LEMMA MainStep ==
    ASSUME Inductive,
           NoPort \/ DispatcherReady \/ WaitTimeout \/ Body \/ Term \/ Join \/ Finish
    PROVE  Inductive'
<1> USE MaxRunsAssumption DEF Runs
<1>1. TypeOK' /\ UNCHANGED <<cur, process, terminated, event, reader>>
  BY DEF Inductive, TypeOK, NoPort, DispatcherReady, WaitTimeout, Body, Term, Join, Finish, process
<1>2. ASSUME NEW r \in Runs PROVE (IF r <= cur THEN Used(r) ELSE Unused(r))'
  <2>1. IF r <= cur THEN Used(r) ELSE Unused(r)
    BY DEF Inductive
  <2>2. CASE r <= cur
    BY <1>1, <2>1, <2>2 DEF Inductive, TypeOK, Used, MainInv, NoPort, DispatcherReady,
       WaitTimeout, Body, Term, Join, Finish, process
  <2>3. CASE ~(r <= cur)
    BY <1>1, <2>1, <2>3 DEF Unused, process
  <2> QED BY <2>2, <2>3
<1>3. MainInv'
  <2>1. CASE cur = 0
    BY <1>1, <2>1 DEF Inductive, MainInv, NoPort, DispatcherReady, WaitTimeout, Body,
       Term, Join, Finish, process
  <2>2. CASE cur # 0
    <3>1. cur \in Runs /\ Used(cur) /\ MainInv
      BY <2>2 DEF Inductive, TypeOK
    <3> QED
      BY <1>1, <2>2, <3>1 DEF Used, MainInv, NoPort, DispatcherReady, WaitTimeout, Body,
         Term, Join, Finish, process
  <2> QED BY <2>1, <2>2
<1> QED BY <1>1, <1>2, <1>3 DEF Inductive

\* A run begins: its process and its reader are new.
LEMMA SpawnStep == ASSUME Inductive, Spawn PROVE Inductive'
<1> USE MaxRunsAssumption DEF Runs
<1>1. TypeOK' /\ cur + 1 \in Runs /\ cur \in Nat
  BY DEF Inductive, TypeOK, Spawn
<1>2. ASSUME NEW r \in Runs PROVE (IF r <= cur THEN Used(r) ELSE Unused(r))'
  <2>1. IF r <= cur THEN Used(r) ELSE Unused(r)
    BY DEF Inductive
  <2>2. CASE r <= cur
    BY <1>1, <2>1, <2>2 DEF Inductive, TypeOK, Used, Spawn
  <2>3. CASE r = cur + 1
    BY <1>1, <2>1, <2>3 DEF Inductive, TypeOK, Used, Unused, Spawn
  <2>4. CASE r > cur + 1
    BY <1>1, <2>1, <2>4 DEF Inductive, TypeOK, Unused, Spawn
  <2> QED BY <1>1, <2>2, <2>3, <2>4
<1>3. MainInv'
  BY <1>1 DEF Inductive, TypeOK, MainInv, Spawn
<1> QED BY <1>1, <1>2, <1>3 DEF Inductive

\* Steps of the main thread that wait for the process or send it SIGKILL.
LEMMA CloseStep ==
    ASSUME Inductive, Close \/ Check \/ Kill
    PROVE  Inductive'
<1> USE MaxRunsAssumption DEF Runs
<1>1. cur \in Runs /\ Used(cur) /\ UNCHANGED <<cur, said, event, reader>>
  BY DEF Inductive, TypeOK, MainInv, Close, Check, Kill
<1>2. TypeOK'
  BY <1>1, Zenon DEF Inductive, TypeOK, Close, Check, Kill, Isalive
<1>3. ASSUME NEW r \in Runs PROVE (IF r <= cur THEN Used(r) ELSE Unused(r))'
  <2>1. IF r <= cur THEN Used(r) ELSE Unused(r)
    BY DEF Inductive
  <2>2. CASE r <= cur
    BY <1>1, <2>1, <2>2 DEF Inductive, TypeOK, Used, Close, Check, Kill, Isalive
  <2>3. CASE ~(r <= cur)
    BY <1>1, <2>1, <2>3 DEF Inductive, TypeOK, Unused, Close, Check, Kill, Isalive
  <2> QED BY <2>2, <2>3
<1>4. MainInv'
  BY <1>1 DEF Inductive, TypeOK, Used, MainInv, Close, Check, Kill, Isalive
<1> QED BY <1>2, <1>3, <1>4 DEF Inductive

\* Steps of a reader and of a process.
LEMMA RunStep ==
    ASSUME Inductive, NEW q \in Runs, Reader(q) \/ Say(q) \/ End(q) \/ Exit(q)
    PROVE  Inductive'
<1> USE MaxRunsAssumption DEF Runs
<1>1. q <= cur /\ Used(q) /\ cur \in Runs /\ UNCHANGED <<main, exc, cur, killed>>
  <2>1. UNCHANGED <<main, exc, cur, killed>>
    BY DEF Reader, Match, NoMatch, Set, Eof, Note, Say, End, Exit, process
  <2>2. os[q] # "none" \/ reader[q] # "none"
    BY DEF Reader, Match, NoMatch, Set, Eof, Note, Say, End, Exit
  <2> QED BY <2>1, <2>2 DEF Inductive, TypeOK, Unused
<1>2. TypeOK'
  BY <1>1, Zenon DEF Inductive, TypeOK, Reader, Match, NoMatch, Set, Eof, Note, Say, End, Exit, process
<1>3. reader[q] = "set" => cur = q
  BY <1>1 DEF Used
<1>4. ASSUME NEW r \in Runs PROVE (IF r <= cur THEN Used(r) ELSE Unused(r))'
  <2>1. IF r <= cur THEN Used(r) ELSE Unused(r)
    BY DEF Inductive
  <2>2. CASE r # q
    BY <1>1, <1>3, <2>1, <2>2 DEF Inductive, TypeOK, Used, Unused, Reader, Match, NoMatch,
       Set, Eof, Note, Say, End, Exit, process
  <2>3. CASE r = q
    BY <1>1, <1>3, <2>1, <2>3 DEF Inductive, TypeOK, Used, Reader, Match, NoMatch, Set,
       Eof, Note, Say, End, Exit, process
  <2> QED BY <2>2, <2>3
<1>5. MainInv'
  BY <1>1, <1>3 DEF Inductive, TypeOK, Used, MainInv, Reader, Match, NoMatch, Set, Eof, Note,
     Say, End, Exit, process
<1> QED BY <1>2, <1>4, <1>5 DEF Inductive

\* The inductive invariant holds in every reachable state of the handler.
THEOREM InductiveHolds == Spec => []Inductive
<1>1. Inductive /\ [Next]_vars => Inductive'
  <2> SUFFICES ASSUME Inductive, [Next]_vars PROVE Inductive'
    OBVIOUS
  <2>1. CASE Main
    BY <2>1, MainStep, SpawnStep, CloseStep DEF Main
  <2>2. CASE \E r \in Runs : Reader(r) \/ Say(r) \/ End(r) \/ Exit(r)
    BY <2>2, RunStep
  <2>3. CASE UNCHANGED vars
    BY <2>3 DEF Inductive, TypeOK, MainInv, Used, Unused, vars
  <2> QED BY <2>1, <2>2, <2>3 DEF Next, Over
<1> QED BY <1>1, InitInductive, PTL DEF Spec

\* plo commands are sent only to a dispatcher that this run's process announced.
THEOREM DispatcherCurrent == Spec => []DispatcherIsCurrent
<1>1. Inductive => DispatcherIsCurrent
  BY MaxRunsAssumption DEF Inductive, TypeOK, MainInv, Used, DispatcherIsCurrent, Runs
<1> QED BY <1>1, InductiveHolds, PTL

\* While plo commands are sent, the output of phoenixd is read.
THEOREM OutputIsRead == Spec => []ReaderReads
<1>1. Inductive => ReaderReads
  BY MaxRunsAssumption DEF Inductive, TypeOK, MainInv, Used, ReaderReads, Runs
<1> QED BY <1>1, InductiveHolds, PTL

\* No phoenixd is left behind: it has ended or SIGKILL is on its way.
THEOREM NothingLeft == Spec => []NoOrphan
<1>1. Inductive => NoOrphan
  BY MaxRunsAssumption DEF Inductive, TypeOK, Used, Unused, NoOrphan, Runs
<1> QED BY <1>1, InductiveHolds, PTL

\* A dispatcher that does not start is reported as a PhoenixdError.
THEOREM NotStartedReported == Spec => []NotStartedIsCaught
<1>1. Inductive => NotStartedIsCaught
  BY DEF Inductive, MainInv, NotStartedIsCaught
<1> QED BY <1>1, InductiveHolds, PTL


-----------------------------------------------------------------------------
\* Rounding up gives a natural number that is not smaller (_aligned_size).
LEMMA AlignedFacts == \A sz \in Nat : Aligned(sz) \in Nat /\ sz <= Aligned(sz)
<1> SUFFICES ASSUME NEW sz \in Nat PROVE Aligned(sz) \in Nat /\ sz <= Aligned(sz)
  OBVIOUS
<1>1. (Page - sz) % Page \in Nat
  BY LayoutAssumption
<1> QED BY <1>1 DEF Aligned

\* The same for the size of a region.
LEMMA RegionFacts ==
    \A r \in Region : /\ r.off \in Nat /\ r.size \in Nat
                      /\ Aligned(r.size) \in Nat /\ r.size <= Aligned(r.size)
<1>1. \A r \in Region : r.off \in Nat /\ r.size \in Nat
  BY DEF Region
<1> QED BY <1>1, AlignedFacts

\* Adding item n + 1 to a list of regions keeps the regions that are there.
LEMMA AppendRegion ==
    ASSUME NEW s \in Seq(Region), NEW e \in Region
    PROVE  /\ Append(s, e) \in Seq(Region)
           /\ Len(Append(s, e)) = Len(s) + 1
           /\ \A k \in 1 .. Len(s) : Append(s, e)[k] = s[k]
           /\ Append(s, e)[Len(s) + 1] = e
  OBVIOUS

\* Nothing has been loaded at the start.
LEMMA RamInitInductive == RamInit => RamInductive
<1> SUFFICES ASSUME RamInit PROVE RamInductive
  OBVIOUS
<1>1. sizes \in Seq(Sizes) /\ napps \in 0 .. Len(sizes)
  <2>1. PICK n \in 0 .. MaxItems : sizes \in [1 .. n -> Sizes]
    BY DEF RamInit
  <2> QED BY <2>1, LayoutAssumption DEF RamInit
<1>2. loads = <<>> /\ aliases = <<>> /\ Len(loads) = 0 /\ Len(aliases) = 0
  BY DEF RamInit
<1>3. RamTypeOK
  BY <1>1, <1>2, LayoutAssumption DEF RamInit, RamTypeOK
<1>4. LoadsInv /\ PassInv
  BY <1>1, <1>2, LayoutAssumption DEF RamInit, LoadsInv, PassInv, After, Handled
<1> QED BY <1>3, <1>4 DEF RamInductive

\* A load keeps the chain of addresses.
LEMMA LoadStep ==
    ASSUME RamInductive, LoadApp \/ LoadFile
    PROVE  RamInductive'
<1>0. PICK n \in Nat : n = Len(loads)
  BY DEF RamInductive, RamTypeOK
<1> DEFINE e == [off |-> offset, size |-> sizes[n + 1]]
<1>1. /\ RamTypeOK /\ LoadsInv /\ PassInv
      /\ n + 1 <= Handled /\ Handled <= Len(sizes)
      /\ (pc = "apps" => n + 1 <= napps)
      /\ UNCHANGED <<input, pc, files_offset, aliases>>
      /\ loads' = Append(loads, e)
      /\ offset' = offset + Aligned(sizes[n + 1])
      /\ pc \in {"apps", "files"}
  BY <1>0 DEF RamInductive, LoadApp, LoadFile, Load, RamTypeOK, Handled
<1>2. sizes[n + 1] \in Nat /\ e \in Region /\ offset \in Nat /\ Aligned(sizes[n + 1]) \in Nat
  <2>1. sizes[n + 1] \in Nat
    <3>1. n + 1 \in 1 .. Len(sizes) /\ sizes \in Seq(Sizes)
      BY <1>0, <1>1 DEF RamTypeOK, Handled
    <3>2. sizes[n + 1] \in Sizes
      BY <3>1
    <3> QED BY <3>2, LayoutAssumption, Zenon
  <2> QED BY <1>0, <1>1, <2>1, AlignedFacts DEF RamTypeOK, Region
<1> HIDE DEF e
<1>3. /\ loads' \in Seq(Region) /\ Len(loads') = n + 1
      /\ \A k \in 1 .. n : loads'[k] = loads[k]
      /\ loads'[n + 1] = e
  BY <1>0, <1>1, <1>2, AppendRegion DEF RamTypeOK
<1>4. RamTypeOK'
  BY <1>0, <1>1, <1>2, <1>3 DEF RamTypeOK, input
<1>5. /\ \A k \in 0 .. n : After(k)' = After(k)
      /\ After(n + 1)' = offset + Aligned(sizes[n + 1])
      /\ e.off = After(n) /\ e.size = sizes[n + 1]
  <2>1. e.off = After(n) /\ e.size = sizes[n + 1]
    BY <1>0, <1>1 DEF PassInv, e
  <2>2. After(n + 1)' = offset + Aligned(sizes[n + 1])
    <3>1. e.off = offset
      BY DEF e
    <3> QED BY <1>0, <1>1, <1>3, <2>1, <3>1 DEF After
  <2>3. \A k \in 0 .. n : After(k)' = After(k)
    BY <1>0, <1>1, <1>3 DEF After
  <2> QED BY <2>1, <2>2, <2>3
<1>6. LoadsInv'
  <2>1. (Len(loads) <= Handled /\ (pc = "apps" => Len(loads) <= napps))'
    BY <1>0, <1>1, <1>3 DEF Handled, input
  <2>2. (\A k \in 1 .. Len(loads) : loads[k].size = sizes[k] /\ loads[k].off = After(k - 1))'
    BY <1>0, <1>1, <1>3, <1>5 DEF LoadsInv, input
  <2>3. ASSUME NEW k \in 1 .. n + 1, NEW m \in 1 .. n + 1, k < m
        PROVE  After(k)' <= loads'[m].off
    <3>1. CASE m <= n
      BY <1>0, <1>1, <1>3, <1>5, <2>3, <3>1 DEF LoadsInv
    <3>2. CASE m = n + 1 /\ k = n
      BY <1>0, <1>2, <1>3, <1>5, <3>2, <1>1 DEF PassInv
    <3>3. CASE m = n + 1 /\ k < n
      <4>1. After(k) <= loads[n].off /\ n \in 1 .. Len(loads) /\ loads[n] \in Region
        BY <1>0, <1>1, <2>3, <3>3 DEF LoadsInv, RamTypeOK
      <4>2. loads[n].off <= After(n)
        BY <4>1, RegionFacts, <3>3 DEF After
      <4>3. After(k) \in Nat /\ After(n) \in Nat
        <5>1. loads[k] \in Region /\ k # 0 /\ n # 0
          BY <1>0, <1>1, <2>3, <3>3 DEF RamTypeOK
        <5> QED BY <5>1, <4>1, RegionFacts DEF After
      <4>4. After(k)' = After(k) /\ loads'[m].off = After(n) /\ loads[n].off \in Nat
        <5>1. After(k)' = After(k)
          BY <1>0, <1>5, <2>3, <3>3
        <5>2. loads'[m].off = After(n)
          BY <1>3, <1>5, <3>3
        <5> QED BY <4>1, <5>1, <5>2, RegionFacts
      <4> QED BY <4>1, <4>2, <4>3, <4>4
    <3> QED BY <1>0, <1>1, <2>3, <3>1, <3>2, <3>3
  <2> QED BY <1>0, <1>3, <2>1, <2>2, <2>3 DEF LoadsInv
<1>7. PassInv'
  <2>1. aliases' = <<>> /\ Len(aliases) = 0 /\ Len(aliases') = 0
    BY <1>0, <1>1 DEF PassInv
  <2>2. (pc \in {"apps", "files"} => offset = After(Len(loads)) /\ aliases = <<>>)'
    BY <1>0, <1>1, <1>3, <1>5, <2>1
  <2>3. pc = "files" => napps \in 0 .. n /\ files_offset = After(napps)
    BY <1>0, <1>1 DEF PassInv, RamTypeOK
  <2>4. (pc # "apps" /\ pc # "failed" => Len(loads) >= napps /\ files_offset = After(napps))'
    BY <1>0, <1>1, <1>3, <1>5, <2>3 DEF input
  <2> QED BY <1>0, <1>1, <1>3, <2>1, <2>2, <2>4 DEF PassInv
<1> QED BY <1>4, <1>6, <1>7 DEF RamInductive

\* A registration follows the chain of addresses.
LEMMA RegisterStep ==
    ASSUME RamInductive, RegisterApp \/ RegisterFile
    PROVE  RamInductive'
<1>0. PICK n \in Nat : n = Len(aliases)
  BY DEF RamInductive, RamTypeOK
<1> DEFINE e == [off |-> offset, size |-> sizes[n + 1]]
<1>1. /\ RamTypeOK /\ LoadsInv /\ PassInv
      /\ n + 1 <= Handled /\ Handled <= Len(sizes)
      /\ (pc = "reg_apps" => n + 1 <= napps)
      /\ UNCHANGED <<input, pc, files_offset, loads>>
      /\ aliases' = Append(aliases, e)
      /\ offset' = offset + Aligned(sizes[n + 1])
      /\ pc \in {"reg_apps", "reg_files"}
  BY <1>0 DEF RamInductive, RegisterApp, RegisterFile, Register, RamTypeOK, Handled
<1>2. sizes[n + 1] \in Nat /\ e \in Region /\ offset \in Nat /\ Aligned(sizes[n + 1]) \in Nat
  <2>1. sizes[n + 1] \in Nat
    <3>1. n + 1 \in 1 .. Len(sizes) /\ sizes \in Seq(Sizes)
      BY <1>0, <1>1 DEF RamTypeOK, Handled
    <3>2. sizes[n + 1] \in Sizes
      BY <3>1
    <3> QED BY <3>2, LayoutAssumption, Zenon
  <2> QED BY <1>0, <1>1, <2>1, AlignedFacts DEF RamTypeOK, Region
<1>3. e = loads[n + 1] /\ n + 1 \in 1 .. Len(loads)
  <2>1. n + 1 \in 1 .. Len(loads) /\ loads[n + 1].off = offset /\ loads[n + 1].size = sizes[n + 1]
    BY <1>0, <1>1 DEF PassInv, LoadsInv
  <2>2. loads[n + 1] \in Region
    BY <1>0, <1>1, <2>1 DEF RamTypeOK
  <2> QED BY <2>1, <2>2 DEF Region
<1>4. offset' = After(n + 1)
  BY <1>0, <1>1, <1>2, <1>3 DEF After
<1> HIDE DEF e
<1>5. /\ aliases' \in Seq(Region) /\ Len(aliases') = n + 1
      /\ \A k \in 1 .. n : aliases'[k] = aliases[k]
      /\ aliases'[n + 1] = e
  BY <1>0, <1>1, <1>2, AppendRegion DEF RamTypeOK
<1>6. RamTypeOK'
  BY <1>0, <1>1, <1>2, <1>5 DEF RamTypeOK, input
<1>7. LoadsInv'
  BY <1>0, <1>1, Zenon DEF LoadsInv, After, Handled, input
<1>8. PassInv'
  BY <1>0, <1>1, <1>3, <1>4, <1>5 DEF PassInv, After, Handled, RamTypeOK, input
<1> QED BY <1>6, <1>7, <1>8 DEF RamInductive

\* The steps between the loops, the end and a failure.
LEMMA OtherStep ==
    ASSUME RamInductive,
           AppsLoaded \/ FilesLoaded \/ AppsRegistered \/ FilesRegistered \/ Fail \/ UNCHANGED ramVars
    PROVE  RamInductive'
<1>1. RamTypeOK /\ LoadsInv /\ PassInv /\ UNCHANGED <<input, loads, aliases>>
  BY DEF RamInductive, AppsLoaded, FilesLoaded, AppsRegistered, FilesRegistered, Fail, ramVars, input
<1>2. RamTypeOK'
  BY <1>1, LayoutAssumption DEF RamTypeOK, AppsLoaded, FilesLoaded, AppsRegistered,
     FilesRegistered, Fail, ramVars, input
<1>3. LoadsInv'
  BY <1>1 DEF LoadsInv, RamTypeOK, After, Handled, AppsLoaded, FilesLoaded, AppsRegistered,
     FilesRegistered, Fail, ramVars, input
<1>4. PassInv'
  BY <1>1 DEF PassInv, LoadsInv, RamTypeOK, After, Handled, AppsLoaded, FilesLoaded,
     AppsRegistered, FilesRegistered, Fail, ramVars, input
<1> QED BY <1>2, <1>3, <1>4 DEF RamInductive

\* The inductive invariant holds in every reachable state of a loader.
THEOREM RamInductiveHolds == RamSpec => []RamInductive
<1>1. RamInductive /\ [RamNext]_ramVars => RamInductive'
  BY LoadStep, RegisterStep, OtherStep DEF RamNext, RamOver
<1> QED BY <1>1, RamInitInductive, PTL DEF RamSpec

\* Every alias names exactly the bytes of its item, and they are not overwritten.
THEOREM AliasesAreIntact == RamSpec => []AliasIsIntact
<1>1. RamInductive => AliasIsIntact
  <2> SUFFICES ASSUME RamInductive, NEW k \in 1 .. Len(aliases)
               PROVE  /\ k <= Len(loads) /\ aliases[k] = loads[k]
                      /\ \A m \in k + 1 .. Len(loads) :
                            loads[k].off + loads[k].size <= loads[m].off
    BY DEF AliasIsIntact
  <2>1. k \in 1 .. Len(loads) /\ aliases[k] = loads[k] /\ loads[k] \in Region
    BY DEF RamInductive, PassInv, RamTypeOK
  <2>2. ASSUME NEW m \in k + 1 .. Len(loads) PROVE loads[k].off + loads[k].size <= loads[m].off
    <3>1. After(k) <= loads[m].off /\ loads[m] \in Region
      BY <2>1, <2>2 DEF RamInductive, LoadsInv, RamTypeOK
    <3>2. loads[k].off + loads[k].size <= After(k) /\ After(k) \in Nat
      <4>1. k # 0 /\ k \in Nat
        BY <2>1
      <4> QED BY <2>1, <4>1, RegionFacts DEF After
    <3> QED BY <2>1, <3>1, <3>2, RegionFacts
  <2> QED BY <2>1, <2>2
<1> QED BY <1>1, RamInductiveHolds, PTL

-----------------------------------------------------------------------------
\* A multiple of the page size has remainder 0, and the other way round.
LEMMA Multiple == \A x, q \in Int : x = q * Page => x % Page = 0
  BY LayoutAssumption

\* The other way round, a number is its quotient times the page size and a rest.
LEMMA DivMod == \A x \in Int : \E q \in Int : x = q * Page + (x % Page)
<1> SUFFICES ASSUME NEW x \in Int PROVE \E q \in Int : x = q * Page + (x % Page)
  OBVIOUS
<1>1. x \div Page \in Int /\ x = (x \div Page) * Page + (x % Page)
  BY LayoutAssumption
<1> QED BY <1>1

\* A size rounded up is a whole number of pages.
LEMMA AlignedIsPages == \A sz \in Nat : Aligned(sz) % Page = 0
<1> SUFFICES ASSUME NEW sz \in Nat PROVE Aligned(sz) % Page = 0
  OBVIOUS
<1> DEFINE x == Page - sz
<1>1. x \in Int /\ Page \in Int
  BY LayoutAssumption
<1>2. x % Page \in Int /\ Aligned(sz) = sz + (x % Page) /\ sz = Page - x
  BY LayoutAssumption DEF Aligned
<1> HIDE DEF x
<1>3. PICK q \in Int : x = q * Page + (x % Page)
  BY <1>1, DivMod, Zenon
<1> DEFINE p == q * Page
           m == x % Page
<1>4. Aligned(sz) = Page - p /\ p \in Int
  <2>1. p \in Int /\ m \in Int /\ x = p + m /\ Aligned(sz) = sz + m /\ sz = Page - x
    BY <1>1, <1>2, <1>3
  <2> HIDE DEF p, m
  <2> QED BY <1>1, <2>1
<1>5. (1 - q) * Page = Page - p
  BY <1>1
<1>6. Aligned(sz) = (1 - q) * Page /\ 1 - q \in Int /\ Aligned(sz) \in Int
  BY <1>4, <1>5, AlignedFacts
<1> QED BY <1>6, Multiple

\* Whole numbers of pages add up to a whole number of pages.
LEMMA PagesAdd == \A x, y \in Int : x % Page = 0 /\ y % Page = 0 => (x + y) % Page = 0
<1> SUFFICES ASSUME NEW x \in Int, NEW y \in Int, x % Page = 0, y % Page = 0
             PROVE  (x + y) % Page = 0
  OBVIOUS
<1>1. PICK a \in Int : x = a * Page + (x % Page)
  BY DivMod
<1>2. PICK b \in Int : y = b * Page + (y % Page)
  BY DivMod
<1>3. x + y = (a + b) * Page
  BY <1>1, <1>2, LayoutAssumption
<1> QED BY <1>3, Multiple

\* Every load begins at a page boundary: with Inductive, this is inductive.
Grid == \A k \in 1 .. Len(loads) : (loads[k].off - Base) % Page = 0

\* A load begins where the previous item ended, rounded up to a page.
LEMMA GridStep ==
    ASSUME RamInductive, Grid, LoadApp \/ LoadFile
    PROVE  Grid'
<1>0. PICK n \in Nat : n = Len(loads)
  BY DEF RamInductive, RamTypeOK
<1>1. /\ loads' = Append(loads, [off |-> offset, size |-> sizes[n + 1]])
      /\ offset = After(n) /\ loads \in Seq(Region)
  BY <1>0 DEF RamInductive, LoadApp, LoadFile, Load, RamTypeOK, PassInv
<1>2. /\ Len(loads') = n + 1
      /\ \A k \in 1 .. n : loads'[k] = loads[k]
      /\ loads'[n + 1].off = After(n)
  BY <1>0, <1>1
<1>3. (After(n) - Base) % Page = 0
  <2>1. CASE n = 0
    BY <2>1, Multiple, LayoutAssumption DEF After
  <2>2. CASE n # 0
    <3>1. loads[n] \in Region /\ (loads[n].off - Base) % Page = 0
      BY <1>0, <1>1, <2>2 DEF Grid
    <3>2. (loads[n].off - Base) \in Int /\ Aligned(loads[n].size) \in Int
      BY <3>1, RegionFacts, LayoutAssumption
    <3>3. Aligned(loads[n].size) % Page = 0
      BY <3>1, RegionFacts, AlignedIsPages
    <3>4. ((loads[n].off - Base) + Aligned(loads[n].size)) % Page = 0
      BY <3>1, <3>2, <3>3, PagesAdd
    <3>5. After(n) - Base = (loads[n].off - Base) + Aligned(loads[n].size)
      BY <2>2, <3>1, <3>2, RegionFacts, LayoutAssumption DEF After
    <3> QED BY <3>4, <3>5
  <2> QED BY <2>1, <2>2
<1> QED
  <2> SUFFICES ASSUME NEW k \in 1 .. n + 1 PROVE (loads'[k].off - Base) % Page = 0
    BY <1>2 DEF Grid
  <2>1. CASE k = n + 1
    BY <1>2, <1>3, <2>1
  <2>2. CASE k \in 1 .. n
    BY <1>0, <1>2, <2>2 DEF Grid
  <2> QED BY <1>0, <2>1, <2>2

\* Every item that plo is told of begins at a page boundary.
THEOREM AliasesOnPages == RamSpec => []OnPageBoundary
<1>1. RamInit => Grid
  BY DEF RamInit, Grid
<1>2. RamInductive /\ Grid /\ [RamNext]_ramVars => Grid'
  <2> SUFFICES ASSUME RamInductive, Grid, [RamNext]_ramVars PROVE Grid'
    OBVIOUS
  <2>1. CASE LoadApp \/ LoadFile
    BY <2>1, GridStep
  <2>2. CASE UNCHANGED loads
    BY <2>2 DEF Grid
  <2> QED BY <2>1, <2>2 DEF RamNext, RamOver, AppsLoaded, FilesLoaded, RegisterApp, RegisterFile,
     Register, AppsRegistered, FilesRegistered, Fail, ramVars
<1>3. RamInductive /\ Grid => OnPageBoundary
  BY DEF RamInductive, PassInv, RamTypeOK, Grid, OnPageBoundary
<1> QED BY <1>1, <1>2, <1>3, RamInductiveHolds, PTL DEF RamSpec

=============================================================================
