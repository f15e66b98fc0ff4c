----------------------------- MODULE MCCampaign -----------------------------
(* The instances of module Campaign that TLC checks.                        *)
EXTENDS Campaign, TargetClasses

AllTargets ==
    {QemuTarget, SPARCV8LeonGenericQemuTarget, ARMV7R5FZynqmpQemuTarget, ARMv7A7Target,
     ARMv7A9Target, ARMv7M7Target, MCXN94xTarget, STM32L4x6Target, STM32N6Target,
     HostPCGenericTarget}

\* An ignored test, and the tests that run: with or without "reboot: true", with
\* or without something to load, with or without a command.
Ignored == [ignore |-> TRUE, reboot |-> FALSE, bootloader |-> FALSE, cmd |-> FALSE]

AllOptions ==
    {Ignored} \cup {o \in TestOption : ~o.ignore}

\* Options that tell the reboot decisions apart.
RebootOptions == {o \in AllOptions : o.ignore \/ (o.cmd /\ ~(o.reboot /\ o.bootloader))}

\* Without a command, which only matters on the host, the others do not matter.
ReportOptions == {o \in AllOptions : o.ignore \/ o.cmd \/ ~(o.reboot \/ o.bootloader)}

NoSubs == {{}}

SomeSubs == {{}, {"OK", "FAIL"}, {"SKIP"}}

=============================================================================
