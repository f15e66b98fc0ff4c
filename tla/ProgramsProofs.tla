---------------------------- MODULE ProgramsProofs ----------------------------
(***************************************************************************)
(* The accounting of two test programs: spawn-storm, for every number of   *)
(* launches and every width of the window (the slots, the tally and the    *)
(* verdict), and the pipe of pipe_nonblock_contention, for every bound of  *)
(* the pipe and any number of bytes (the counters and the verdict).        *)
(***************************************************************************)
EXTENDS SpawnStorm, PipeContention, FiniteSetTheorems, TLAPS

PCs    == {"setup", "top", "fill", "vfork", "wait", "blocked", "success", "failure", "killed"}
States == {"starting", "running", "ok", "bad"}

\* The children that main() knows of: vfork() has not told it the last one yet.
Born == IF wpc = "vfork" THEN Len(child) - 1 ELSE Len(child)
Good == { k \in collected : child[k] = "ok" }

Types ==
  /\ wpc \in PCs
  /\ launched \in Nat /\ reaped \in Nat /\ ok \in Nat /\ failed \in Nat
  /\ inflight \in [Slots -> Nat]
  /\ child \in Seq(States)
  /\ collected \in SUBSET (1..Len(child))
  /\ waitErrors \in Nat

Tally ==
  /\ ok + failed = reaped /\ reaped <= launched /\ launched <= Iterations
  /\ ok = Cardinality(Good)

Pending ==
  /\ \A k \in collected : child[k] \in {"ok", "bad"}
  /\ wpc \in {"wait", "blocked"} => reaped < launched
  /\ wpc = "vfork" =>
       /\ Len(child) > 0 /\ Len(child) \notin collected
       /\ launched < Iterations /\ launched - reaped < Parallel

Clean ==
  failed = 0 =>
    /\ waitErrors = 0 /\ launched = Born
    /\ \A k \in collected : child[k] = "ok"

Window ==
  waitErrors = 0 =>
    /\ Cardinality(Occupied) = launched - reaped
    /\ \A s \in Slots : inflight[s] # 0 => inflight[s] \in (1..Born) \ collected
    /\ \A r, s \in Slots : inflight[r] # 0 /\ inflight[r] = inflight[s] => r = s
    /\ \A k \in (1..Born) \ collected : \E s \in Slots : inflight[s] = k

Judged ==
  /\ wpc = "success" => failed = 0 /\ reaped >= Iterations
  /\ mresult = "success" => wpc = "success"

IInv == Types /\ Tally /\ Pending /\ Clean /\ Window /\ Judged

--------------------------------------------------------------------------------
(* The slots are finitely many, and so are the ones in use.                *)
LEMMA SlotsFinite ==
  /\ IsFiniteSet(Slots) /\ Cardinality(Slots) = Parallel
  /\ IsFiniteSet(Occupied) /\ Cardinality(Occupied) \in Nat
<1>1. Parallel \in Nat \ {0}
  BY StormAssumption
<1>2. IsFiniteSet(1..Parallel) /\ Cardinality(1..Parallel) = Parallel
  BY <1>1, FS_Interval
<1>3. IsFiniteSet(Slots) /\ Cardinality(Slots) = Parallel
  BY <1>2 DEF Slots
<1>4. Occupied \in SUBSET Slots
  BY DEF Occupied
<1>5. IsFiniteSet(Occupied)
  BY <1>3, <1>4, FS_Subset
<1> QED
  BY <1>3, <1>5, FS_CardinalityType

(* The children waited for are finitely many, and so are the good ones.    *)
LEMMA CollectedFinite ==
  ASSUME Types
  PROVE  /\ IsFiniteSet(collected) /\ IsFiniteSet(Good)
         /\ Cardinality(collected) \in Nat /\ Cardinality(Good) \in Nat
<1>1. Len(child) \in Nat /\ collected \in SUBSET (1..Len(child))
  BY DEF Types
<1>2. IsFiniteSet(1..Len(child))
  BY <1>1, FS_Interval
<1>3. IsFiniteSet(collected)
  BY <1>1, <1>2, FS_Subset, Zenon
<1>4. Good \in SUBSET collected
  BY DEF Good
<1>5. IsFiniteSet(Good)
  BY <1>3, <1>4, FS_Subset
<1> QED
  BY <1>3, <1>5, FS_CardinalityType

(* A step of a child or of the monitor: the worker's tally is untouched,   *)
(* the dead stay as they are, and the worker is at most woken or killed.   *)
LEMMA FrameStep ==
  ASSUME IInv,
         UNCHANGED <<worker, collected, waitErrors>>,
         child' \in Seq(States), Len(child') = Len(child),
         \A k \in 1..Len(child) : child[k] \in {"ok", "bad"} => child'[k] = child[k],
         wpc' \in PCs,
         wpc' = "vfork" <=> wpc = "vfork",
         wpc' \in {"wait", "blocked"} => wpc \in {"wait", "blocked"},
         wpc' = "success" <=> wpc = "success",
         mresult' = "success" => mresult = "success" \/ wpc = "success"
  PROVE  IInv'
<1> USE DEF worker
<1>1. Types'
  BY DEF IInv, Types
<1>2. \A k \in collected : child[k] \in {"ok", "bad"} /\ child'[k] = child[k]
  BY DEF IInv, Types, Pending
<1>3. Good' = Good /\ Born' = Born /\ Occupied' = Occupied
  <2>1. Good' = Good
    BY <1>2 DEF Good
  <2>2. Born' = Born
    BY DEF Born
  <2>3. Occupied' = Occupied
    BY DEF Occupied, Slots
  <2> QED BY <2>1, <2>2, <2>3
<1>4. Tally'
  BY <1>3 DEF IInv, Tally
<1>5. Pending'
  BY <1>2 DEF IInv, Pending
<1>6. Clean'
  BY <1>2, <1>3 DEF IInv, Clean
<1>7. Window'
  BY <1>3 DEF IInv, Window, Slots
<1>8. Judged'
  BY DEF IInv, Judged
<1> QED
  BY <1>1, <1>4, <1>5, <1>6, <1>7, <1>8 DEF IInv

--------------------------------------------------------------------------------
(* Recording a launch: the new child is in a slot of its own and counted,  *)
(* whether fork() or vfork() made it.                                      *)
LEMMA RecordStep ==
  ASSUME IInv, NEW s \in Slots, NEW pid \in Nat,
         IsFree(s), Record(s, pid),
         launched < Iterations, launched - reaped < Parallel,
         pid = Born + 1, Born' = pid,
         UNCHANGED <<collected, waitErrors, mresult>>,
         child' \in Seq(States), Len(child') >= Len(child),
         \A k \in 1..Len(child) : child'[k] = child[k],
         wpc' = "fill", wpc # "success"
  PROVE  IInv'
<1>0. /\ inflight' = [inflight EXCEPT ![s] = pid] /\ inflight[s] = 0
      /\ launched' = launched + 1 /\ reaped' = reaped /\ ok' = ok /\ failed' = failed
  BY DEF Record, IsFree
<1>1. Types'
  BY <1>0 DEF IInv, Types, PCs, Slots
<1>2. \A k \in collected : child'[k] = child[k] /\ k <= Born /\ k \in 1..Len(child)
  <2>1. collected \subseteq 1..Len(child)
    BY DEF IInv, Types
  <2>2. wpc = "vfork" => Len(child) \notin collected
    BY DEF IInv, Pending
  <2>3. Len(child) \in Nat
    BY DEF IInv, Types
  <2> QED
    BY <2>1, <2>2, <2>3 DEF Born
<1>3. Good' = Good
  BY <1>2 DEF Good
<1>4. Tally'
  <2>1. launched \in Nat /\ Iterations \in Nat
    BY StormAssumption DEF IInv, Types
  <2> QED
    BY <1>0, <1>3, <2>1 DEF IInv, Tally, Types
<1>5. Pending'
  BY <1>2 DEF IInv, Pending
<1>6. Clean'
  BY <1>0, <1>2 DEF IInv, Clean, Types
<1>7. Window'
  <2> SUFFICES ASSUME waitErrors = 0
               PROVE  Window'
    BY DEF Window
  <2>0. /\ \A r \in Slots : inflight'[r] = IF r = s THEN pid ELSE inflight[r]
        /\ pid # 0
    <3>1. \A r \in Slots : inflight'[r] = IF r = s THEN pid ELSE inflight[r]
      BY <1>0 DEF IInv, Types
    <3>2. Born \in Nat
      BY DEF IInv, Types, Pending, Born
    <3> QED
      BY <3>1, <3>2
  <2>1. Occupied' = Occupied \cup {s} /\ s \notin Occupied
    BY <1>0, <2>0 DEF Occupied, Slots
  <2>2. Cardinality(Occupied') = Cardinality(Occupied) + 1
    BY <2>1, SlotsFinite, FS_AddElement, Zenon
  <2>3. Cardinality(Occupied') = launched' - reaped'
    BY <1>0, <2>2 DEF IInv, Window, Types
  <2>4. pid \notin collected /\ Born \in Int
    BY <1>2 DEF Born, IInv, Types
  <2>5. \A r \in Slots : inflight'[r] # 0 => inflight'[r] \in (1..pid) \ collected
    BY <1>0, <2>4 DEF IInv, Window, Types
  <2>6. \A q, r \in Slots : inflight'[q] # 0 /\ inflight'[q] = inflight'[r] => q = r
    BY <1>0, <2>4 DEF IInv, Window, Types
  <2>7. \A k \in (1..pid) \ collected : \E r \in Slots : inflight'[r] = k
    <3> SUFFICES ASSUME NEW k \in (1..pid) \ collected
                 PROVE  \E r \in Slots : inflight'[r] = k
      OBVIOUS
    <3>1. CASE k = pid
      BY <1>0, <3>1 DEF IInv, Types
    <3>2. CASE k # pid
      <4>1. k \in (1..Born) \ collected
        BY <2>4, <3>2
      <4>2. PICK r \in Slots : inflight[r] = k
        BY <4>1 DEF IInv, Window
      <4>3. r # s
        BY <1>0, <4>1, <4>2
      <4> QED
        BY <1>0, <4>2, <4>3 DEF IInv, Types
    <3> QED BY <3>1, <3>2
  <2> QED
    BY <2>3, <2>5, <2>6, <2>7, Zenon DEF Window, Slots
<1>8. Judged'
  BY <1>0 DEF IInv, Judged
<1> QED
  BY <1>1, <1>4, <1>5, <1>6, <1>7, <1>8 DEF IInv

--------------------------------------------------------------------------------
(* A launch preserves the invariant.                                       *)
LEMMA ForkStep ==
  ASSUME IInv, NEW s \in Slots, Fork(s)
  PROVE  IInv'
<1>1. /\ wpc = "fill" /\ launched < Iterations /\ launched - reaped < Parallel
      /\ IsFree(s) /\ child' = Append(child, "starting")
      /\ UNCHANGED <<collected, waitErrors, mresult>>
  BY DEF Fork, Filling, monitor
<1>2. /\ child \in Seq(States) /\ Len(child) \in Nat
      /\ child' \in Seq(States) /\ Len(child') = Len(child) + 1
      /\ \A k \in 1..Len(child) : child'[k] = child[k]
  BY <1>1 DEF IInv, Types, States
<1>3. CASE useFork /\ Record(s, Len(child) + 1) /\ UNCHANGED wpc
  <2>1. Len(child) + 1 = Born + 1 /\ Born' = Len(child) + 1
    BY <1>1, <1>2, <1>3 DEF Born
  <2> QED
    BY <1>1, <1>2, <1>3, <2>1, RecordStep
<1>4. CASE ~useFork /\ wpc' = "vfork" /\ UNCHANGED worker
  <2> USE DEF worker
  <2>1. Types'
    BY <1>1, <1>2, <1>4 DEF IInv, Types, PCs, Slots
  <2>2. /\ collected \subseteq 1..Len(child)
        /\ \A k \in collected : child'[k] = child[k]
    BY <1>2 DEF IInv, Types
  <2>3. Good' = Good /\ Occupied' = Occupied /\ Born' = Born
    <3>1. Good' = Good
      BY <1>1, <2>2, Zenon DEF Good
    <3>2. Occupied' = Occupied
      BY <1>4 DEF Occupied, Slots
    <3>3. Born' = Born
      BY <1>1, <1>2, <1>4 DEF Born
    <3> QED BY <3>1, <3>2, <3>3
  <2>4. Tally'
    BY <1>4, <2>3 DEF IInv, Tally
  <2>5. Pending'
    BY <1>1, <1>2, <1>4, <2>2 DEF IInv, Pending
  <2>6. Clean'
    BY <1>1, <1>4, <2>2, <2>3 DEF IInv, Clean
  <2>7. Window'
    BY <1>1, <1>4, <2>3 DEF IInv, Window, Slots
  <2>8. Judged'
    BY <1>1, <1>4 DEF IInv, Judged
  <2> QED
    BY <2>1, <2>4, <2>5, <2>6, <2>7, <2>8 DEF IInv
<1> QED
  BY <1>3, <1>4 DEF Fork

(* The return of vfork() preserves the invariant.                          *)
LEMMA VforkStep ==
  ASSUME IInv, NEW s \in Slots, VforkReturns(s)
  PROVE  IInv'
<1>1. /\ wpc = "vfork" /\ wpc' = "fill" /\ IsFree(s) /\ Record(s, Len(child))
      /\ UNCHANGED <<child, collected, waitErrors, mresult>>
  BY DEF VforkReturns, monitor
<1>2. launched < Iterations /\ launched - reaped < Parallel
  BY <1>1 DEF IInv, Pending
<1>3. child \in Seq(States) /\ Len(child) \in Nat
  BY DEF IInv, Types
<1>4. Len(child) = Born + 1 /\ Born' = Len(child)
  BY <1>1, <1>3 DEF Born
<1> QED
  BY <1>1, <1>2, <1>3, <1>4, RecordStep

(* A failed fork() is a launch that is reaped and failed at once.          *)
LEMMA ForkFailsStep ==
  ASSUME IInv, ForkFails
  PROVE  IInv'
<1>1. /\ wpc = "fill" /\ launched < Iterations /\ launched - reaped < Parallel
      /\ failed' = failed + 1 /\ launched' = launched + 1 /\ reaped' = reaped + 1
      /\ UNCHANGED <<wpc, ok, inflight, child, collected, waitErrors, mresult>>
  BY DEF ForkFails, Filling, monitor
<1>2. Types'
  BY <1>1 DEF IInv, Types, Slots
<1>3. Good' = Good /\ Born' = Born /\ Occupied' = Occupied
  BY <1>1 DEF Good, Born, Occupied, Slots
<1>4. Tally'
  BY <1>1, <1>3, StormAssumption DEF IInv, Tally, Types
<1>5. Pending'
  BY <1>1 DEF IInv, Pending
<1>6. Clean'
  BY <1>1 DEF IInv, Clean, Types
<1>7. Window'
  <2>1. launched' - reaped' = launched - reaped
    BY <1>1 DEF IInv, Types
  <2> QED
    BY <1>1, <1>3, <2>1 DEF IInv, Window, Slots
<1>8. Judged'
  BY <1>1 DEF IInv, Judged
<1> QED
  BY <1>2, <1>4, <1>5, <1>6, <1>7, <1>8 DEF IInv

--------------------------------------------------------------------------------
(* A child that is waited for leaves its slot and is counted.              *)
LEMMA ReapStep ==
  ASSUME IInv, NEW k \in Pids, Reap(k)
  PROVE  IInv'
<1>1. /\ wpc = "wait" /\ wpc' = "top" /\ k \in Zombies
      /\ collected' = collected \cup {k}
      /\ inflight' = [s \in Slots |-> IF inflight[s] = k THEN 0 ELSE inflight[s]]
      /\ reaped' = reaped + 1
      /\ ok' = IF child[k] = "ok" THEN ok + 1 ELSE ok
      /\ failed' = IF child[k] = "ok" THEN failed ELSE failed + 1
      /\ UNCHANGED <<launched, child, waitErrors, mresult>>
  BY DEF Reap, monitor
<1>2. /\ k \in 1..Len(child) /\ k \notin collected /\ child[k] \in {"ok", "bad"}
      /\ Len(child) \in Nat /\ k \in Nat /\ k # 0
  <2>1. child \in Seq(States)
    BY DEF IInv, Types
  <2> QED
    BY <1>1, <2>1 DEF Zombies, Alive, Pids, States
<1>3. Types'
  <2>1. inflight' \in [Slots -> Nat]
    BY <1>1 DEF IInv, Types
  <2>2. collected' \in SUBSET (1..Len(child))
    BY <1>1, <1>2 DEF IInv, Types
  <2> QED
    BY <1>1, <2>1, <2>2 DEF IInv, Types, PCs, Slots
<1>4. Cardinality(Good') = IF child[k] = "ok" THEN Cardinality(Good) + 1 ELSE Cardinality(Good)
  <2>1. CASE child[k] = "ok"
    <3>1. Good' = Good \cup {k} /\ k \notin Good
      BY <1>1, <1>2, <2>1 DEF Good
    <3> QED
      BY <2>1, <3>1, CollectedFinite, FS_AddElement, Zenon DEF IInv
  <2>2. CASE child[k] # "ok"
    BY <1>1, <2>2 DEF Good
  <2> QED BY <2>1, <2>2
<1>5. reaped < launched
  BY <1>1 DEF IInv, Pending
<1>6. Tally'
  BY <1>1, <1>4, <1>5 DEF IInv, Tally, Types
<1>7. Pending'
  BY <1>1, <1>2 DEF IInv, Pending
<1>8. Born' = Born /\ Born = Len(child)
  BY <1>1 DEF Born
<1>9. Clean'
  <2> SUFFICES ASSUME failed' = 0
               PROVE  Clean'
    BY DEF Clean
  <2>1. failed = 0 /\ child[k] = "ok"
    BY <1>1 DEF IInv, Types
  <2> QED
    BY <1>1, <1>8, <2>1 DEF IInv, Clean
<1>10. Window'
  <2> SUFFICES ASSUME waitErrors = 0
               PROVE  Window'
    BY <1>1 DEF Window
  <2>1. PICK s \in Slots : inflight[s] = k
    BY <1>2, <1>8 DEF IInv, Window
  <2>2. /\ \A r \in Slots : inflight'[r] = IF r = s THEN 0 ELSE inflight[r]
    BY <1>1, <1>2, <2>1 DEF IInv, Window
  <2>3. Occupied' = Occupied \ {s} /\ s \in Occupied
    BY <1>2, <2>1, <2>2 DEF Occupied, Slots
  <2>4. Cardinality(Occupied') = Cardinality(Occupied) - 1
    BY <2>3, SlotsFinite, FS_RemoveElement, Zenon
  <2>5. Cardinality(Occupied') = launched' - reaped'
    BY <1>1, <2>4 DEF IInv, Window, Types
  <2>6. \A r \in Slots : inflight'[r] # 0 => inflight'[r] \in (1..Born) \ collected'
    BY <1>1, <1>2, <2>1, <2>2 DEF IInv, Window
  <2>7. \A q, r \in Slots : inflight'[q] # 0 /\ inflight'[q] = inflight'[r] => q = r
    BY <2>2 DEF IInv, Window
  <2>8. \A j \in (1..Born) \ collected' : \E r \in Slots : inflight'[r] = j
    BY <1>1, <2>1, <2>2 DEF IInv, Window
  <2> QED
    BY <1>8, <2>5, <2>6, <2>7, <2>8 DEF Window, Slots
<1>11. Judged'
  BY <1>1 DEF IInv, Judged
<1> QED
  BY <1>3, <1>6, <1>7, <1>9, <1>10, <1>11 DEF IInv

(* A failure of waitpid() counts the rest as failed.                       *)
LEMMA WaitFailsStep ==
  ASSUME IInv, WaitFails
  PROVE  IInv'
<1>1. /\ wpc = "wait" /\ wpc' = "top" /\ waitErrors' = waitErrors + 1
      /\ failed' = failed + (launched - reaped) /\ reaped' = launched
      /\ UNCHANGED <<launched, ok, inflight, child, collected, mresult>>
  BY DEF WaitFails, monitor
<1>2. reaped < launched
  BY <1>1 DEF IInv, Pending
<1>3. failed' \in Nat /\ failed' > 0 /\ waitErrors' > 0
  BY <1>1, <1>2 DEF IInv, Types
<1>4. Types'
  BY <1>1, <1>3 DEF IInv, Types, PCs, Slots
<1>5. Tally'
  <2>1. Good' = Good
    BY <1>1 DEF Good
  <2> QED
    BY <1>1, <2>1 DEF IInv, Tally, Types
<1>6. Pending'
  BY <1>1 DEF IInv, Pending
<1>7. Clean' /\ Window'
  BY <1>3 DEF Clean, Window
<1>8. Judged'
  BY <1>1 DEF IInv, Judged
<1> QED
  BY <1>4, <1>5, <1>6, <1>7, <1>8 DEF IInv

(* The steps of main() between its calls.                                  *)
LEMMA ControlStep ==
  ASSUME IInv, Setup \/ Top \/ StopFilling \/ Block
  PROVE  IInv'
<1>1. /\ UNCHANGED <<worker, child, collected, waitErrors, mresult>>
      /\ wpc \in {"setup", "top", "fill", "wait"}
      /\ wpc' \in {"top", "fill", "wait", "blocked", "success", "failure"}
      /\ wpc' \in {"wait", "blocked"} => wpc = "wait" \/ launched # reaped
      /\ wpc' = "success" => failed = 0 /\ ~(reaped < Iterations)
  BY DEF Setup, Top, StopFilling, Block, Leave, monitor
<1> USE DEF worker
<1>2. Types'
  BY <1>1 DEF IInv, Types, PCs, Slots
<1>3. Good' = Good /\ Born' = Born /\ Occupied' = Occupied
  BY <1>1 DEF Good, Born, Occupied, Slots
<1>4. Tally'
  BY <1>1, <1>3 DEF IInv, Tally
<1>5. Pending'
  BY <1>1 DEF IInv, Pending, Tally, Types
<1>6. Clean' /\ Window'
  BY <1>1, <1>3 DEF IInv, Clean, Window, Slots
<1>7. Judged'
  BY <1>1, StormAssumption DEF IInv, Judged, Types
<1> QED
  BY <1>2, <1>4, <1>5, <1>6, <1>7 DEF IInv

--------------------------------------------------------------------------------
(* The waking of the worker by an exit, as the frame needs it.             *)
LEMMA WakesFrame ==
  ASSUME Types, Wakes
  PROVE  /\ wpc' \in PCs
         /\ wpc' = "vfork" <=> wpc = "vfork"
         /\ wpc' \in {"wait", "blocked"} => wpc \in {"wait", "blocked"}
         /\ wpc' = "success" <=> wpc = "success"
  BY DEF Wakes, Types, PCs

(* A step of a child preserves the invariant.                              *)
LEMMA ChildStep ==
  ASSUME IInv, NEW k \in Pids, Child(k)
  PROVE  IInv'
<1>1. /\ Types /\ child \in Seq(States) /\ wpc \in PCs
      /\ k \in 1..Len(child)
  BY DEF IInv, Types, Pids
<1>2. child[k] \in {"starting", "running"}
  BY DEF Child, Exec, ChildExits, ChildHangs, CanGoOn, Alive
<1>3. UNCHANGED <<worker, collected, waitErrors, mresult>>
  BY DEF Child, Exec, ChildExits, ChildHangs, monitor
<1>4. CASE Exec(k)
  <2>1. child' = [child EXCEPT ![k] = "running"] /\ wpc' = wpc
    BY <1>4 DEF Exec
  <2>2. /\ child' \in Seq(States) /\ Len(child') = Len(child)
        /\ \A j \in 1..Len(child) : j # k => child'[j] = child[j]
    BY <1>1, <2>1 DEF States
  <2> QED
    BY <1>1, <1>2, <1>3, <2>1, <2>2, FrameStep
<1>5. CASE ChildExits(k)
  <2>1. PICK r \in {"ok", "bad"} : child' = [child EXCEPT ![k] = r]
    BY <1>5, Zenon DEF ChildExits
  <2>2. /\ child' \in Seq(States) /\ Len(child') = Len(child)
        /\ \A j \in 1..Len(child) : j # k => child'[j] = child[j]
    BY <1>1, <2>1 DEF States
  <2>3. Wakes
    BY <1>5 DEF ChildExits
  <2> QED
    BY <1>1, <1>2, <1>3, <2>2, <2>3, WakesFrame, FrameStep
<1>6. CASE ChildHangs(k)
  <2>1. child' = child /\ wpc' = wpc
    BY <1>6 DEF ChildHangs
  <2> QED
    BY <1>1, <1>3, <2>1, FrameStep
<1> QED
  BY <1>4, <1>5, <1>6 DEF Child

(* A step of the monitor preserves the invariant.                          *)
LEMMA MonitorStep ==
  ASSUME IInv, Monitor \/ GiveUp
  PROVE  IInv'
<1>1. /\ Types /\ child \in Seq(States) /\ wpc \in PCs /\ Len(child) \in Nat
  BY DEF IInv, Types
<1>2. CASE Done \/ GiveUp \/ Progress \/ Quiet \/ Dump
  <2>1. UNCHANGED <<worker, collected, waitErrors, child, wpc>>
    BY <1>2 DEF Done, GiveUp, Progress, Quiet, Dump
  <2>2. mresult' = "success" => mresult = "success" \/ wpc = "success"
    BY <1>2 DEF Done, GiveUp, Progress, Quiet, Dump
  <2> QED
    BY <1>1, <2>1, <2>2, FrameStep
<1>3. CASE Kill
  <2>1. /\ UNCHANGED <<worker, collected, waitErrors, mresult>>
        /\ child' = [k \in Pids |-> IF k \in victims \cap Alive THEN "bad" ELSE child[k]]
        /\ Wakes \/ wpc' = wpc
    BY <1>3 DEF Kill
  <2>2. Pids = 1..Len(child)
    BY <1>1 DEF Pids
  <2>3. child' \in [1..Len(child) -> States]
    BY <1>1, <2>1, <2>2 DEF States
  <2>4. child' \in Seq(States) /\ Len(child') = Len(child)
    BY <1>1, <2>3
  <2>5. \A k \in 1..Len(child) : child[k] \in {"ok", "bad"} => child'[k] = child[k]
    BY <2>1, <2>2 DEF Alive
  <2> QED
    BY <1>1, <2>1, <2>4, <2>5, WakesFrame, FrameStep, Zenon
<1>4. CASE Poke
  <2>1. UNCHANGED <<worker, collected, waitErrors, child, mresult>>
    BY <1>4 DEF Poke
  <2>2. wpc' = CASE wpc = "blocked" -> "wait" [] wpc = "setup" -> "killed" [] OTHER -> wpc
    BY <1>4 DEF Poke
  <2>3. /\ wpc' \in PCs
        /\ wpc' = "vfork" <=> wpc = "vfork"
        /\ wpc' \in {"wait", "blocked"} => wpc \in {"wait", "blocked"}
        /\ wpc' = "success" <=> wpc = "success"
    BY <1>1, <2>2 DEF PCs
  <2> QED
    BY <1>1, <2>1, <2>3, FrameStep
<1> QED
  BY <1>2, <1>3, <1>4 DEF Monitor

(* The storm starts with empty slots and an empty tally.                   *)
LEMMA InitInv ==
  ASSUME Init
  PROVE  IInv
<1> USE DEF Init
<1>1. Types
  BY DEF Types, PCs, Slots
<1>2. Good = {} /\ Occupied = {} /\ Born = 0
  BY DEF Good, Occupied, Born, Slots
<1>3. Tally
  BY <1>2, FS_EmptySet, StormAssumption DEF Tally
<1>4. Pending
  BY DEF Pending
<1>5. Clean
  BY <1>2 DEF Clean
<1>6. Window
  BY <1>2, FS_EmptySet DEF Window, Slots
<1>7. Judged
  BY DEF Judged
<1> QED
  BY <1>1, <1>3, <1>4, <1>5, <1>6, <1>7 DEF IInv

(* Every step of the worker, its children and the monitor preserves the    *)
(* invariant.                                                              *)
LEMMA StepInv ==
  ASSUME IInv, [Next]_vars
  PROVE  IInv'
<1>1. CASE Worker
  BY <1>1, ControlStep, ForkFailsStep, ForkStep, VforkStep, ReapStep DEF Worker
<1>2. CASE Monitor \/ GiveUp
  BY <1>2, MonitorStep
<1>3. CASE WaitFails
  BY <1>3, WaitFailsStep
<1>4. CASE \E k \in Pids : Child(k)
  BY <1>4, ChildStep
<1>5. CASE UNCHANGED vars
  <2>1. UNCHANGED <<worker, collected, waitErrors, child, wpc, mresult>>
    BY <1>5 DEF vars, worker
  <2>2. Types /\ child \in Seq(States) /\ wpc \in PCs
    BY DEF IInv, Types
  <2> QED
    BY <2>1, <2>2, FrameStep
<1> QED
  BY <1>1, <1>2, <1>3, <1>4, <1>5 DEF Next, Finished

(* What the invariant says of the slots, the tally and the verdict.        *)
LEMMA InvImplies ==
  ASSUME IInv
  PROVE  SlotIsFree /\ TallyAddsUp /\ SuccessIsTrue
<1>1. SlotIsFree
  <2> SUFFICES ASSUME Filling, waitErrors = 0, \A s \in Slots : ~IsFree(s)
               PROVE  FALSE
    BY DEF SlotIsFree
  <2>1. Occupied = Slots
    BY DEF Occupied, IsFree
  <2>2. Parallel = launched - reaped
    BY <2>1, SlotsFinite DEF IInv, Window
  <2> QED
    BY <2>2, StormAssumption DEF Filling, IInv, Types
<1>2. TallyAddsUp
  BY DEF TallyAddsUp, IInv, Tally, Good
<1>3. SuccessIsTrue
  <2> SUFFICES ASSUME wpc = "success"
               PROVE  /\ collected = 1..Iterations
                      /\ \A k \in 1..Iterations : child[k] = "ok"
    BY DEF SuccessIsTrue, IInv, Judged
  <2>1. failed = 0 /\ reaped >= Iterations
    BY DEF IInv, Judged
  <2>2. /\ \A k \in collected : child[k] = "ok"
        /\ launched = Len(child)
    BY <2>1 DEF IInv, Clean, Born
  <2>3. reaped = Iterations /\ launched = Iterations /\ ok = Iterations
    BY <2>1, StormAssumption DEF IInv, Tally, Types
  <2>4. Good = collected
    BY <2>2 DEF Good
  <2>5. Cardinality(collected) = Iterations
    BY <2>3, <2>4, Zenon DEF IInv, Tally
  <2>6. IsFiniteSet(1..Iterations) /\ Cardinality(1..Iterations) = Iterations
    BY StormAssumption, FS_Interval
  <2>7. collected \in SUBSET (1..Iterations)
    BY <2>2, <2>3 DEF IInv, Types
  <2>8. collected = 1..Iterations
    BY <2>5, <2>6, <2>7, FS_Subset, Zenon
  <2> QED
    BY <2>2, <2>8
<1> QED
  BY <1>1, <1>2, <1>3

(* For every number of launches and every width of the window, as long as  *)
(* waitpid() has not failed, the search of main() for a slot finds one.    *)
THEOREM SlotTheorem == Spec => []SlotIsFree
  BY InitInv, StepInv, InvImplies, PTL DEF Spec

(* The tally of main() always adds up, whatever fails, hangs, is killed or *)
(* is missed.                                                              *)
THEOREM TallyTheorem == Spec => []TallyAddsUp
  BY InitInv, StepInv, InvImplies, PTL DEF Spec

(* EXIT_SUCCESS of spawn-storm means that every launch ended with status 0. *)
THEOREM SuccessTheorem == Spec => []SuccessIsTrue
  BY InitInv, StepInv, InvImplies, PTL DEF Spec

--------------------------------------------------------------------------------
(* The two counters lag behind the pipe: written by the byte that has been *)
(* written and not stored, readn by the one that has been read and not     *)
(* stored.  The invariant says that the pipe holds exactly the bytes       *)
(* between the two corrected counters; that written - readn, as either     *)
(* side knows it, bounds what is queued from its own side follows.         *)
WriterPlaces == {"top", "load", "write", "store", "over"}
ReaderPlaces == {"top", "idle", "read", "store", "over"}

Put  == IF writer.at = "store" THEN written + 1 ELSE written
Got  == IF reader.at = "store" THEN readn + 1 ELSE readn

nb_TypeOK ==
  /\ pipe \in Seq(Int) /\ stop \in BOOLEAN
  /\ written \in Nat /\ readn \in Nat /\ pipeFaults \in Nat
  /\ writer \in [at : WriterPlaces, w : Nat]
  /\ reader \in [at : ReaderPlaces, n : Nat]

\* A thread's copy of its own counter is good while it uses it.
Local ==
  /\ writer.at \in {"load", "write", "store"} => writer.w = written
  /\ reader.at \in {"read", "store"} => reader.n = readn

Queue ==
  /\ Len(pipe) = Put - Got
  /\ \A k \in 1..Len(pipe) : pipe[k] = (Got + k - 1) % 256

Knows ==
  /\ readn <= written
  /\ writer.at = "write" => written - readn < UPW_NB_INFLIGHT
  /\ reader.at \in {"read", "store"} => readn < written

Ended ==
  /\ nbVerdict \in {"none", "PASS", "FAIL"}
  /\ nbVerdict # "none" => writer.at = "over" /\ reader.at = "over"
  /\ nbVerdict = "PASS" => nb_ok
  /\ nbVerdict = "FAIL" => ~nb_ok

nb_IInv ==
  /\ nb_TypeOK /\ Local
  /\ pipeFaults = 0 => Queue /\ Knows /\ Ended /\ tally = {}

(* The invariant holds when the test starts its threads.                   *)
LEMMA InitIInv == nb_Init => nb_IInv
<1> SUFFICES ASSUME nb_Init PROVE nb_IInv
  OBVIOUS
<1>1. <<>> \in Seq(Int) /\ Len(<<>>) = 0
  OBVIOUS
<1>2. /\ written = 0 /\ readn = 0 /\ pipe = <<>> /\ stop = FALSE /\ pipeFaults = 0
      /\ tally = {} /\ nbVerdict = "none"
      /\ writer = [at |-> "top", w |-> 0] /\ reader = [at |-> "top", n |-> 0]
  BY DEF nb_Init
<1>3. nb_TypeOK /\ Local
  BY <1>1, <1>2, Zenon DEF nb_TypeOK, Local, WriterPlaces, ReaderPlaces
<1>4. Queue
  BY <1>1, <1>2 DEF Queue, Put, Got
<1>5. Knows /\ Ended
  BY <1>2 DEF Knows, Ended
<1> QED BY <1>2, <1>3, <1>4, <1>5 DEF nb_IInv

(* Every fault of the pipe is counted, so the claims about a faultless one *)
(* end with it.                                                            *)
LEMMA FaultStep ==
  ASSUME nb_IInv, WriterFails \/ ReaderFails \/ PollFails \/ PipeSpoils
  PROVE  nb_IInv'
<1>1. pipeFaults' # 0 /\ pipeFaults' \in Nat
  BY DEF nb_IInv, nb_TypeOK, WriterFails, ReaderFails, PollFails, PipeSpoils, PipeFault
<1>2. nb_TypeOK' /\ Local'
  <2>1. CASE WriterFails
    BY <2>1, <1>1 DEF nb_IInv, nb_TypeOK, Local, WriterFails, WriterPlaces, ReaderPlaces
  <2>2. CASE ReaderFails
    BY <2>2, <1>1 DEF nb_IInv, nb_TypeOK, Local, ReaderFails, WriterPlaces, ReaderPlaces
  <2>3. CASE PollFails
    BY <2>3, <1>1 DEF nb_IInv, nb_TypeOK, Local, PollFails
  <2>4. CASE PipeSpoils
    <3>1. pipe # <<>> /\ pipe \in Seq(Int) BY <2>4 DEF nb_IInv, nb_TypeOK, PipeSpoils
    <3>2. Len(pipe) \in Nat /\ Len(pipe) >= 1 BY <3>1
    <3>3. Tail(pipe) \in Seq(Int) BY <3>1
    <3>4. Append(pipe, pipe[Len(pipe)]) \in Seq(Int) BY <3>1, <3>2
    <3>5. [pipe EXCEPT ![1] = (@ + 1) % 256] \in Seq(Int)
      <4>1. pipe[1] \in Int /\ (pipe[1] + 1) % 256 \in Int BY <3>1, <3>2
      <4> QED BY <3>1, <3>2, <4>1
    <3> QED BY <1>1, <2>4, <3>3, <3>4, <3>5, Zenon DEF nb_IInv, nb_TypeOK, Local, PipeSpoils
  <2> QED BY <2>1, <2>2, <2>3, <2>4
<1> QED BY <1>1, <1>2 DEF nb_IInv

(* The writer: what it knows from its look at readn stays true until it    *)
(* writes, for readn only grows, so that there is room for its byte.       *)
LEMMA WriterStep ==
  ASSUME nb_IInv, upw_nbWriter
  PROVE  nb_IInv'
<1> USE DEF nb_IInv, nb_TypeOK, Local, WriterPlaces, ReaderPlaces
<1>1. CASE WriterTop
  BY <1>1 DEF WriterTop, Queue, Knows, Ended, Put, Got, nb_ok
<1>2. CASE WriterLoads
  BY <1>2, PipeAssumption DEF WriterLoads, Queue, Knows, Ended, Put, Got, nb_ok
<1>3. CASE WriterStores
  <2>1. Put' = Put /\ Got' = Got /\ pipe' = pipe /\ pipeFaults' = pipeFaults /\ tally' = tally
    BY <1>3 DEF WriterStores, Put, Got
  <2>2. pipeFaults = 0 => Queue' BY <2>1 DEF Queue
  <2>3. nb_TypeOK' /\ Local' BY <1>3 DEF WriterStores
  <2>4. pipeFaults = 0 => Knows' /\ Ended' BY <1>3 DEF WriterStores, Knows, Ended, nb_ok
  <2> QED BY <2>1, <2>2, <2>3, <2>4
<1>4. CASE WriterWrites
  <2>1. writer.w % 256 \in Int BY <1>4
  <2>2. nb_TypeOK' /\ Local'
    <3>1. Append(pipe, writer.w % 256) \in Seq(Int) BY <2>1
    <3> QED BY <1>4, <3>1, Zenon DEF WriterWrites
  <2>3. ASSUME pipeFaults = 0 PROVE Queue' /\ Knows' /\ Ended' /\ tally' = {}
    <3>1. Len(pipe) < UPW_NB_INFLIGHT
      BY <1>4, <2>3, PipeAssumption DEF WriterWrites, Queue, Knows, Put, Got
    <3>2. /\ pipe' = Append(pipe, writer.w % 256) /\ tally' = {}
          /\ writer' = [writer EXCEPT !.at = "store"] /\ reader' = reader
          /\ written' = written /\ readn' = readn /\ nbVerdict' = nbVerdict
      BY <1>4, <2>3, <3>1 DEF WriterWrites
    <3>3. Put = written /\ Put' = written + 1 /\ Got' = Got /\ Got \in Nat
      BY <1>4, <3>2 DEF WriterWrites, Put, Got
    <3>4. Len(pipe') = Len(pipe) + 1 /\ Len(pipe) \in Nat BY <3>2, <2>1
    <3>5. Len(pipe') = Put' - Got'
      <4>1. Len(pipe) = Put - Got BY <2>3 DEF Queue
      <4> QED BY <4>1, <3>3, <3>4
    <3>6. ASSUME NEW k \in 1..Len(pipe') PROVE pipe'[k] = (Got' + k - 1) % 256
      <4>1. CASE k = Len(pipe')
        <5>1. pipe'[k] = writer.w % 256 BY <4>1, <3>2, <3>4, <2>1
        <5>2. Got' + k - 1 = writer.w
          BY <4>1, <1>4, <2>3, <3>3, <3>4 DEF Queue, WriterWrites
        <5> QED BY <5>1, <5>2
      <4>2. CASE k # Len(pipe')
        BY <4>2, <2>3, <3>2, <3>3, <3>4, <2>1 DEF Queue
      <4> QED BY <4>1, <4>2
    <3>7. Queue' BY <3>5, <3>6 DEF Queue
    <3> QED BY <3>2, <3>7, <2>3, <1>4 DEF Knows, Ended, nb_ok, WriterWrites
  <2> QED BY <1>4, <2>2, <2>3 DEF WriterWrites
<1> QED BY <1>1, <1>2, <1>3, <1>4 DEF upw_nbWriter

(* The reader: a byte that written vouches for is in the pipe until the    *)
(* reader takes it, and it is the next one in turn.                        *)
LEMMA ReaderStep ==
  ASSUME nb_IInv, upw_nbReader
  PROVE  nb_IInv'
<1> USE DEF nb_IInv, nb_TypeOK, Local, WriterPlaces, ReaderPlaces
<1>1. CASE ReaderTop
  <2>1. pipeFaults = 0 => readn <= written
    BY <1>1 DEF Knows
  <2> QED BY <1>1, <2>1 DEF ReaderTop, Queue, Knows, Ended, Put, Got, nb_ok
<1>2. CASE ReaderIdles
  BY <1>2 DEF ReaderIdles, Queue, Knows, Ended, Put, Got, nb_ok
<1>3. CASE ReaderStores
  <2>1. Put' = Put /\ Got' = Got /\ pipe' = pipe /\ pipeFaults' = pipeFaults /\ tally' = tally
    BY <1>3 DEF ReaderStores, Put, Got
  <2>2. pipeFaults = 0 => Queue' BY <2>1 DEF Queue
  <2>3. nb_TypeOK' /\ Local' BY <1>3 DEF ReaderStores
  <2>4. pipeFaults = 0 => Knows' /\ Ended'
    BY <1>3, PipeAssumption DEF ReaderStores, Knows, Ended, nb_ok
  <2> QED BY <2>1, <2>2, <2>3, <2>4
<1>4. CASE ReaderReads
  <2>1. nb_TypeOK' /\ Local'
    <3>1. pipe # <<>> => Tail(pipe) \in Seq(Int) OBVIOUS
    <3> QED BY <1>4, <3>1, Zenon DEF ReaderReads
  <2>2. ASSUME pipeFaults = 0 PROVE Queue' /\ Knows' /\ Ended' /\ tally' = {}
    <3>1. Got = readn /\ Put >= written /\ Put \in Nat BY <1>4 DEF ReaderReads, Put, Got
    <3>2. Len(pipe) >= 1 /\ Len(pipe) \in Nat
      BY <1>4, <2>2, <3>1 DEF ReaderReads, Queue, Knows
    <3>3. pipe # <<>> /\ Head(pipe) = pipe[1] BY <3>2
    <3>4. Head(pipe) = reader.n % 256
      <4>1. pipe[1] = (Got + 1 - 1) % 256 BY <2>2, <3>2 DEF Queue
      <4>2. Got + 1 - 1 = reader.n BY <1>4, <3>1 DEF ReaderReads
      <4> QED BY <3>3, <4>1, <4>2
    <3>5. /\ pipe' = Tail(pipe) /\ tally' = {}
          /\ reader' = [reader EXCEPT !.at = "store"] /\ writer' = writer
          /\ written' = written /\ readn' = readn /\ nbVerdict' = nbVerdict
      BY <1>4, <2>2, <3>3, <3>4 DEF ReaderReads
    <3>6. Put' = Put /\ Got' = readn + 1 BY <3>5 DEF Put, Got
    <3>7. Len(pipe') = Len(pipe) - 1 /\ \A k \in 1..Len(pipe') : pipe'[k] = pipe[k + 1]
      BY <3>2, <3>3, <3>5
    <3>8. Queue' BY <2>2, <3>1, <3>2, <3>6, <3>7 DEF Queue
    <3> QED BY <3>5, <3>8, <2>2, <1>4 DEF Knows, Ended, nb_ok, ReaderReads
  <2> QED BY <1>4, <2>1, <2>2 DEF ReaderReads
<1> QED BY <1>1, <1>2, <1>3, <1>4 DEF upw_nbReader

(* The poller, the end of the two seconds and the verdict.                 *)
LEMMA TestStep ==
  ASSUME nb_IInv, upw_nbPoller \/ Stop \/ Verdict \/ UNCHANGED nb_vars
  PROVE  nb_IInv'
<1> USE DEF nb_IInv, nb_TypeOK, Local, Queue, Knows, Ended, Put, Got, nb_ok
<1>1. CASE upw_nbPoller BY <1>1 DEF upw_nbPoller
<1>2. CASE Stop BY <1>2 DEF Stop
<1>3. CASE Verdict BY <1>3, Zenon DEF Verdict
<1>4. CASE UNCHANGED nb_vars BY <1>4 DEF nb_vars
<1> QED BY <1>1, <1>2, <1>3, <1>4

(* The invariant implies the property: at the verdict both threads are     *)
(* over, and the pipe holds written - readn bytes.                         *)
LEMMA nb_IInvProves == nb_IInv => CountersProve
  BY DEF nb_IInv, nb_TypeOK, Queue, Ended, Put, Got, nb_ok, CountersProve

(* On a pipe without faults neither thread of pipe_nonblock_contention     *)
(* ever counts an EAGAIN, an error or a wrong byte, and the only ways to   *)
(* fail are those that CountersProve names.                                *)
THEOREM CountersTheorem == nb_Spec => []CountersProve
<1>1. nb_IInv /\ [nb_Next]_nb_vars => nb_IInv'
  BY FaultStep, WriterStep, ReaderStep, TestStep DEF nb_Next, nb_Finished
<1> QED BY <1>1, InitIInv, nb_IInvProves, PTL DEF nb_Spec

--------------------------------------------------------------------------------
(* PipePassIsEarned for a pipe with any number of faults.  A fault that    *)
(* nothing was counted for has left one of three traces in the pipe, which *)
(* stay until the reader meets them: a byte is lost at its front, the byte *)
(* at its front is wrong, or from place d on it is one byte late.          *)
Lost ==
  /\ Len(pipe) = Put - Got - 1
  /\ \A k \in 1..Len(pipe) : pipe[k] = (Got + k) % 256

Changed ==
  /\ Len(pipe) = Put - Got
  /\ Len(pipe) >= 1 /\ pipe[1] # Got % 256

Repeated(d) ==
  /\ Len(pipe) = Put - Got + 1
  /\ \A k \in 1..Len(pipe) : pipe[k] = (Got + k - (IF k < d THEN 1 ELSE 2)) % 256

Spoilt == Lost \/ Changed \/ \E d \in 1..Len(pipe) : Repeated(d)

OneFault ==
  /\ nbVerdict # "none" => writer.at = "over" /\ reader.at = "over" /\ poller = "over"
  /\ nbVerdict = "PASS" => nb_ok
  /\ pipeFaults = 1 /\ tally = {} => Spoilt

(* A byte that is one out of turn is not the one the reader expects.       *)
LEMMA NextByteDiffers ==
  ASSUME NEW n \in Int
  PROVE  (n + 1) % 256 # n % 256 /\ ((n % 256) + 1) % 256 # n % 256 /\ (n - 1) % 256 # n % 256
  OBVIOUS

(* The three ways in which the pipe spoils a byte are the three traces.    *)
LEMMA SpoilLeavesTrace ==
  ASSUME nb_IInv, pipeFaults = 0, PipeSpoils
  PROVE  Spoilt'
<1> USE DEF nb_IInv, nb_TypeOK, WriterPlaces, ReaderPlaces
<1>1. /\ pipe \in Seq(Int) /\ pipe # <<>> /\ Put \in Nat /\ Got \in Nat
      /\ Len(pipe) = Put - Got /\ \A k \in 1..Len(pipe) : pipe[k] = (Got + k - 1) % 256
  BY DEF PipeSpoils, Queue, Put, Got
<1>2. Put' = Put /\ Got' = Got
  BY DEF PipeSpoils, Put, Got
<1>3. Len(pipe) \in Nat /\ Len(pipe) >= 1
  BY <1>1
<1>4. CASE pipe' = Tail(pipe)
  <2>1. Len(pipe') = Len(pipe) - 1 /\ \A k \in 1..Len(pipe') : pipe'[k] = pipe[k + 1]
    BY <1>1, <1>3, <1>4
  <2>2. Lost' BY <1>1, <1>2, <1>3, <2>1 DEF Lost
  <2> QED BY <2>2 DEF Spoilt
<1>5. CASE pipe' = Append(pipe, pipe[Len(pipe)])
  <2>1. /\ Len(pipe') = Len(pipe) + 1 /\ pipe'[Len(pipe) + 1] = pipe[Len(pipe)]
        /\ \A k \in 1..Len(pipe) : pipe'[k] = pipe[k]
    BY <1>1, <1>3, <1>5
  <2>2. PICK d \in Nat : d = Len(pipe) + 1 BY <1>3
  <2>3. ASSUME NEW k \in 1..Len(pipe')
        PROVE  pipe'[k] = (Got' + k - (IF k < d THEN 1 ELSE 2)) % 256
    <3>1. CASE k < d BY <1>1, <1>2, <1>3, <2>1, <2>2, <3>1
    <3>2. CASE k = d
      <4>1. pipe'[k] = (Got + Len(pipe) - 1) % 256 BY <1>1, <1>3, <2>1, <2>2, <3>2
      <4>2. Got + Len(pipe) - 1 = Got' + k - 2 BY <1>1, <1>2, <1>3, <2>2, <3>2
      <4> QED BY <2>2, <3>2, <4>1, <4>2
    <3> QED BY <1>3, <2>1, <2>2, <3>1, <3>2
  <2>4. Len(pipe') = Put' - Got' + 1 /\ d \in 1..Len(pipe') BY <1>1, <1>2, <1>3, <2>1, <2>2
  <2> QED BY <2>3, <2>4 DEF Spoilt, Repeated
<1>6. CASE pipe' = [pipe EXCEPT ![1] = (@ + 1) % 256]
  <2>1. Len(pipe') = Len(pipe) /\ pipe'[1] = (pipe[1] + 1) % 256
    BY <1>1, <1>3, <1>6
  <2>2. pipe[1] = Got % 256
    <3>1. pipe[1] = (Got + 1 - 1) % 256 BY <1>1, <1>3
    <3>2. Got + 1 - 1 = Got BY <1>1
    <3> QED BY <3>1, <3>2
  <2>3. ((Got % 256) + 1) % 256 # Got % 256 BY <1>1, NextByteDiffers
  <2> QED BY <1>1, <1>2, <1>3, <2>1, <2>2, <2>3 DEF Changed, Spoilt
<1> QED BY <1>4, <1>5, <1>6 DEF PipeSpoils

(* A byte that the writer adds behind a trace leaves the trace in place.   *)
LEMMA WriteKeepsTrace ==
  ASSUME nb_IInv, Spoilt, WriterWrites, tally' = {}
  PROVE  Spoilt'
<1> USE DEF nb_IInv, nb_TypeOK, Local, WriterPlaces, ReaderPlaces
<1>1. CASE Len(pipe) >= UPW_NB_INFLIGHT
  BY <1>1, PipeAssumption DEF WriterWrites, Counted
<1>2. CASE Len(pipe) < UPW_NB_INFLIGHT
  <2>1. /\ pipe' = Append(pipe, writer.w % 256) /\ writer.w = written /\ writer.w % 256 \in Int
        /\ Put = written /\ Put' = written + 1 /\ Got' = Got /\ Got \in Nat /\ written \in Nat
    BY <1>2 DEF WriterWrites, Put, Got
  <2>2. /\ Len(pipe) \in Nat /\ Len(pipe') = Len(pipe) + 1
        /\ pipe'[Len(pipe) + 1] = written % 256
        /\ \A k \in 1..Len(pipe) : pipe'[k] = pipe[k]
    BY <2>1
  <2>3. CASE Lost
    <3> HIDE DEF nb_IInv, nb_TypeOK, Local
    <3>1. Len(pipe') = Put' - Got' - 1
      <4>1. Len(pipe) = Put - Got - 1 BY <2>3 DEF Lost
      <4> QED BY <2>1, <2>2, <4>1
    <3>2. ASSUME NEW k \in 1..Len(pipe') PROVE pipe'[k] = (Got' + k) % 256
      <4>1. CASE k = Len(pipe) + 1
        <5>1. Got + k = written BY <2>1, <2>2, <2>3, <4>1 DEF Lost
        <5> QED BY <2>1, <2>2, <4>1, <5>1
      <4>2. CASE k # Len(pipe) + 1
        <5>1. k \in 1..Len(pipe) BY <2>2, <4>2
        <5> QED BY <2>1, <2>2, <2>3, <5>1 DEF Lost
      <4> QED BY <4>1, <4>2
    <3> QED BY <3>1, <3>2 DEF Lost, Spoilt
  <2>4. CASE Changed
    BY <2>1, <2>2, <2>4 DEF Changed, Spoilt
  <2>5. ASSUME NEW d \in 1..Len(pipe), Repeated(d) PROVE Spoilt'
    <3>1. Len(pipe') = Put' - Got' + 1 BY <2>1, <2>2, <2>5 DEF Repeated
    <3>2. ASSUME NEW k \in 1..Len(pipe')
          PROVE  pipe'[k] = (Got' + k - (IF k < d THEN 1 ELSE 2)) % 256
      <4>1. CASE k = Len(pipe) + 1
        <5>1. Got + k - 2 = written /\ ~(k < d) BY <2>1, <2>2, <2>5, <4>1 DEF Repeated
        <5> QED BY <2>1, <2>2, <4>1, <5>1, Zenon
      <4>2. CASE k # Len(pipe) + 1 BY <2>1, <2>2, <2>5, <4>2 DEF Repeated
      <4> QED BY <4>1, <4>2
    <3>3. d \in 1..Len(pipe') BY <2>2
    <3> QED BY <3>1, <3>2, <3>3 DEF Repeated, Spoilt
  <2> QED BY <2>3, <2>4, <2>5 DEF Spoilt
<1> QED BY <1>1, <1>2, PipeAssumption

(* The reader counts the trace when it meets it, and moves towards it      *)
(* until then.                                                             *)
LEMMA ReadMeetsTrace ==
  ASSUME nb_IInv, Spoilt, ReaderReads, tally' = {}
  PROVE  Spoilt'
<1> USE DEF nb_IInv, nb_TypeOK, Local, WriterPlaces, ReaderPlaces
<1>1. /\ pipe # <<>> /\ pipe' = Tail(pipe) /\ Head(pipe) = reader.n % 256
  BY DEF ReaderReads, Counted
<1>2. /\ Got = readn /\ Got' = readn + 1 /\ Put' = Put /\ reader.n = readn /\ Got \in Nat
      /\ Put \in Nat
  BY <1>1 DEF ReaderReads, Put, Got
<1>3. /\ Len(pipe) \in Nat /\ Len(pipe) >= 1 /\ Len(pipe') = Len(pipe) - 1
      /\ pipe[1] = Got % 256 /\ \A k \in 1..Len(pipe') : pipe'[k] = pipe[k + 1]
  BY <1>1, <1>2
<1>4. ~Lost
  <2> SUFFICES ASSUME Lost PROVE FALSE OBVIOUS
  <2>1. 1 \in 1..Len(pipe) BY <1>3
  <2>2. pipe[1] = (Got + 1) % 256 BY <2>1 DEF Lost
  <2> QED BY <1>2, <1>3, <2>2, NextByteDiffers
<1>5. ~Changed
  BY <1>3 DEF Changed
<1>6. PICK d \in 1..Len(pipe) : Repeated(d)
  BY <1>4, <1>5 DEF Spoilt
<1>7. d # 1
  <2> SUFFICES ASSUME d = 1 PROVE FALSE OBVIOUS
  <2>1. pipe[1] = (Got + 1 - 2) % 256 BY <1>3, <1>6 DEF Repeated
  <2>2. Got + 1 - 2 = Got - 1 BY <1>2
  <2> QED BY <1>2, <1>3, <2>1, <2>2, NextByteDiffers
<1>8. Repeated(d - 1)'
  <2>1. Len(pipe') = Put' - Got' + 1 BY <1>2, <1>3, <1>6 DEF Repeated
  <2>2. ASSUME NEW k \in 1..Len(pipe')
        PROVE  pipe'[k] = (Got' + k - (IF k < d - 1 THEN 1 ELSE 2)) % 256
    <3>1. pipe'[k] = (Got + (k + 1) - (IF k + 1 < d THEN 1 ELSE 2)) % 256
      BY <1>3, <1>6, SMTT(40) DEF Repeated
    <3>2. Got + (k + 1) - (IF k + 1 < d THEN 1 ELSE 2) = Got' + k - (IF k < d - 1 THEN 1 ELSE 2)
      BY <1>2, <1>3
    <3> QED BY <3>1, <3>2
  <2> QED BY <2>1, <2>2 DEF Repeated
<1>9. d - 1 \in 1..Len(pipe') BY <1>3, <1>7
<1> QED BY <1>8, <1>9 DEF Repeated, Spoilt

(* Every other step leaves the pipe and what was put and got alone, but    *)
(* for the faults that are counted.                                        *)
LEMMA OneFaultStep ==
  ASSUME nb_IInv, OneFault, nb_Next \/ UNCHANGED nb_vars
  PROVE  OneFault'
<1> USE DEF nb_IInv, nb_TypeOK, Local, WriterPlaces, ReaderPlaces
<1>1. /\ nbVerdict' # "none" => writer'.at = "over" /\ reader'.at = "over" /\ poller' = "over"
      /\ nbVerdict' = "PASS" => nb_ok'
  BY DEF OneFault, nb_ok, nb_Next, upw_nbWriter, WriterTop, WriterLoads, WriterWrites, WriterStores,
         WriterFails, upw_nbReader, ReaderTop, ReaderIdles, ReaderReads, ReaderStores, ReaderFails,
         upw_nbPoller, PollFails, PipeSpoils, Stop, Verdict, nb_Finished, nb_vars
<1>2. ASSUME pipeFaults' = 1, tally' = {} PROVE Spoilt'
  <2>1. CASE WriterFails \/ ReaderFails \/ PollFails
    BY <1>2, <2>1 DEF WriterFails, ReaderFails, PollFails, Counted
  <2>2. CASE PipeSpoils
    BY <1>2, <2>2, SpoilLeavesTrace DEF PipeSpoils, PipeFault
  <2>3. CASE WriterWrites
    <3>1. pipeFaults = 1 /\ tally = {} BY <1>2, <2>3 DEF WriterWrites, Counted
    <3> QED BY <1>2, <2>3, <3>1, WriteKeepsTrace DEF OneFault
  <2>4. CASE ReaderReads
    <3>1. pipeFaults = 1 /\ tally = {} BY <1>2, <2>4 DEF ReaderReads, Counted
    <3> QED BY <1>2, <2>4, <3>1, ReadMeetsTrace DEF OneFault
  <2>5. CASE \/ WriterTop \/ WriterLoads \/ WriterStores \/ ReaderTop \/ ReaderIdles
             \/ ReaderStores \/ upw_nbPoller \/ Stop \/ Verdict \/ UNCHANGED nb_vars
    <3>1. pipeFaults = 1 /\ tally = {} /\ pipe' = pipe /\ Put' = Put /\ Got' = Got
      BY <1>2, <2>5 DEF WriterTop, WriterLoads, WriterStores, ReaderTop, ReaderIdles, ReaderStores,
                        upw_nbPoller, Stop, Verdict, nb_vars, Put, Got
    <3>2. Spoilt BY <3>1 DEF OneFault
    <3> QED BY <3>1, <3>2 DEF Spoilt, Lost, Changed, Repeated
  <2> QED BY <2>1, <2>2, <2>3, <2>4, <2>5 DEF nb_Next, upw_nbWriter, upw_nbReader, nb_Finished
<1> QED BY <1>1, <1>2 DEF OneFault

(* At a PASS the counters agree, so a trace that is still there is a byte  *)
(* too many, the last one once more.                                       *)
LEMMA OneFaultProves == nb_IInv /\ OneFault => PipePassIsEarned
<1> SUFFICES ASSUME nb_IInv, OneFault, nbVerdict = "PASS", pipeFaults = 1
             PROVE  pipe = <<(written - 1) % 256>>
  BY DEF PipePassIsEarned
<1>1. Put = written /\ Got = written /\ written \in Nat /\ Spoilt /\ pipe \in Seq(Int)
  BY DEF nb_IInv, nb_TypeOK, OneFault, Put, Got, nb_ok
<1>2. Len(pipe) \in Nat BY <1>1
<1>3. PICK d \in 1..Len(pipe) : Repeated(d)
  BY <1>1, <1>2 DEF Spoilt, Lost, Changed
<1>4. Len(pipe) = 1 /\ d = 1 BY <1>1, <1>2, <1>3 DEF Repeated
<1>5. pipe[1] = (written + 1 - 2) % 256 BY <1>1, <1>3, <1>4 DEF Repeated
<1>6. written + 1 - 2 = written - 1 BY <1>1
<1> QED BY <1>1, <1>4, <1>5, <1>6

(* However many bytes are written and however large the pipe: if           *)
(* pipe_nonblock_contention passes although the pipe failed once, then all *)
(* that the fault did is to leave the last byte in the pipe a second time. *)
THEOREM PipePassTheorem == nb_Spec => []PipePassIsEarned
<1>1. nb_IInv /\ [nb_Next]_nb_vars => nb_IInv'
  BY FaultStep, WriterStep, ReaderStep, TestStep DEF nb_Next, nb_Finished
<1>2. nb_Init => OneFault
  BY DEF nb_Init, OneFault
<1>3. nb_IInv /\ OneFault /\ [nb_Next]_nb_vars => OneFault'
  BY OneFaultStep
<1> QED BY <1>1, <1>2, <1>3, InitIInv, OneFaultProves, PTL DEF nb_Spec
=============================================================================
