--------------------------- MODULE SyspageLoader ---------------------------
(***************************************************************************)
(* Loading programs and files through a debugger: PloRamSyspageLoader      *)
(* (trunner/harness/plo.py), its subclasses for armv7r5f-zynqmp-qemu,      *)
(* stm32l4x6 and mcxn94x, and STM32N6PloAppLoader.  Two passes over the    *)
(* items compute the same addresses independently: the debugger writes     *)
(* item after item to RAM, then plo is told, by aliases, where they are.   *)
(* Any step of the debugger or of plo may raise.                           *)
(***************************************************************************)
EXTENDS Integers, Sequences

CONSTANTS
    Page,       \* page_sz
    Base,       \* load_offset
    Sizes,      \* sizes a file on the host may have
    MaxItems    \* bound on the number of applications and files

ASSUME LayoutAssumption ==
    Page \in Nat \ {0} /\ Base \in Nat /\ Sizes \subseteq Nat /\ MaxItems \in Nat

VARIABLES
    blobs,          \* the loader handles files too (all do but the one of stm32n6)
    sizes,          \* sizes of the applications, then of the files
    napps,          \* number of applications
    pc,
    offset,
    files_offset,
    loads,          \* what the debugger wrote, in order
    aliases         \* what plo was told, in order

ramVars == <<blobs, sizes, napps, pc, offset, files_offset, loads, aliases>>
input == <<blobs, sizes, napps>>

\* Mutant: rounds down.
AlignedDown(sz) == sz - (sz % Page)

\* _aligned_size
Aligned(sz) == sz + ((Page - sz) % Page)

\* Number of items that the loader goes through.
Handled == IF blobs THEN Len(sizes) ELSE napps

RamInit ==
    /\ blobs \in BOOLEAN
    /\ \E n \in 0 .. MaxItems : sizes \in [1 .. n -> Sizes]
    /\ napps \in 0 .. Len(sizes)
    /\ pc = "apps"
    /\ offset = Base
    /\ files_offset = Base
    /\ loads = <<>>
    /\ aliases = <<>>

\* gdb.load or pyocd load of the next item.
Load(last) ==
    LET k == Len(loads) + 1 IN
    /\ k <= last
    /\ loads' = Append(loads, [off |-> offset, size |-> sizes[k]])
    /\ offset' = offset + Aligned(sizes[k])
    /\ UNCHANGED <<input, pc, files_offset, aliases>>

LoadApp == pc = "apps" /\ Load(napps)

AppsLoaded ==
    /\ pc = "apps"
    /\ Len(loads) = napps
    /\ pc' = "files"
    /\ files_offset' = offset
    /\ UNCHANGED <<input, offset, loads, aliases>>

LoadFile == pc = "files" /\ Load(Handled)

\* The second pass begins at load_offset again.
FilesLoaded ==
    /\ pc = "files"
    /\ Len(loads) = Handled
    /\ pc' = "reg_apps"
    /\ offset' = Base
    /\ UNCHANGED <<input, files_offset, loads, aliases>>

\* alias, then app or blob, of the next item.
Register(last) ==
    LET k == Len(aliases) + 1 IN
    /\ k <= last
    /\ aliases' = Append(aliases, [off |-> offset, size |-> sizes[k]])
    /\ offset' = offset + Aligned(sizes[k])
    /\ UNCHANGED <<input, pc, files_offset, loads>>

RegisterApp == pc = "reg_apps" /\ Register(napps)

AppsRegistered ==
    /\ pc = "reg_apps"
    /\ Len(aliases) = napps
    /\ pc' = "reg_files"
    /\ offset' = files_offset
    /\ UNCHANGED <<input, files_offset, loads, aliases>>

RegisterFile == pc = "reg_files" /\ Register(Handled)

FilesRegistered ==
    /\ pc = "reg_files"
    /\ Len(aliases) = Handled
    /\ pc' = "done"
    /\ UNCHANGED <<input, offset, files_offset, loads, aliases>>

\* A GdbError, PyocdError or PloError.
Fail ==
    /\ pc \notin {"done", "failed"}
    /\ pc' = "failed"
    /\ UNCHANGED <<input, offset, files_offset, loads, aliases>>

RamOver == pc \in {"done", "failed"} /\ UNCHANGED ramVars

RamNext ==
    \/ LoadApp \/ AppsLoaded \/ LoadFile \/ FilesLoaded
    \/ RegisterApp \/ AppsRegistered \/ RegisterFile \/ FilesRegistered
    \/ Fail \/ RamOver

RamSpec == RamInit /\ [][RamNext]_ramVars

-----------------------------------------------------------------------------
(***************************************************************************)
(* Properties.                                                             *)
(***************************************************************************)
Region == [off : Nat, size : Nat]

\* Every variable keeps its type.
RamTypeOK ==
    /\ blobs \in BOOLEAN
    /\ sizes \in Seq(Sizes)
    /\ napps \in 0 .. Len(sizes)
    /\ pc \in {"apps", "files", "reg_apps", "reg_files", "done", "failed"}
    /\ offset \in Nat
    /\ files_offset \in Nat
    /\ loads \in Seq(Region)
    /\ aliases \in Seq(Region)

\* What plo starts as item k is item k: the alias names exactly the bytes that
\* the debugger wrote for it, and nothing loaded later has overwritten them,
\* although the two passes of __call__ compute the addresses separately.
AliasIsIntact ==
    \A k \in 1 .. Len(aliases) :
        /\ k <= Len(loads)
        /\ aliases[k] = loads[k]
        /\ \A m \in k + 1 .. Len(loads) : loads[k].off + loads[k].size <= loads[m].off

\* Every item begins at a page boundary, counted from load_offset.
OnPageBoundary == \A k \in 1 .. Len(aliases) : (aliases[k].off - Base) % Page = 0

-----------------------------------------------------------------------------
(***************************************************************************)
(* The inductive invariant.                                                *)
(***************************************************************************)
\* Where the item after item k begins.
After(k) == IF k = 0 THEN Base ELSE loads[k].off + Aligned(loads[k].size)

\* The debugger has put item after item.
LoadsInv ==
    /\ Len(loads) <= Handled
    /\ pc = "apps" => Len(loads) <= napps
    /\ \A k \in 1 .. Len(loads) : loads[k].size = sizes[k] /\ loads[k].off = After(k - 1)
    /\ \A k, m \in 1 .. Len(loads) : k < m => After(k) <= loads[m].off

\* The second pass is where the first one was.
PassInv ==
    /\ pc \in {"apps", "files"} => offset = After(Len(loads)) /\ aliases = <<>>
    /\ pc # "apps" /\ pc # "failed" => Len(loads) >= napps /\ files_offset = After(napps)
    /\ pc \in {"reg_apps", "reg_files"} =>
          Len(loads) = Handled /\ offset = After(Len(aliases))
    /\ pc = "reg_apps" => Len(aliases) <= napps
    /\ pc = "reg_files" => Len(aliases) >= napps
    /\ Len(aliases) <= Len(loads)
    /\ \A k \in 1 .. Len(aliases) : aliases[k] = loads[k]

\* All of it together: both passes follow the same chain of addresses.
RamInductive == RamTypeOK /\ LoadsInv /\ PassInv

=============================================================================
