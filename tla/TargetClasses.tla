--------------------------- MODULE TargetClasses ---------------------------
(***************************************************************************)
(* The target classes that runner.py can be asked for (trunner/target/),   *)
(* as the records module Campaign understands: each says how its dut is    *)
(* reached, what its build_test chains together, how its rebooter works    *)
(* and whether its flash_dut has waits without a timeout.                  *)
(***************************************************************************)

QemuTarget ==
    [dut |-> "process", rootfs |-> TRUE, plo |-> FALSE, server |-> "none", dmesg |-> TRUE,
     rebooter |-> "respawn", boot_pin |-> FALSE, slow_flash |-> FALSE]

SPARCV8LeonGenericQemuTarget == [QemuTarget EXCEPT !.rootfs = FALSE]

ARMV7R5FZynqmpQemuTarget ==
    [QemuTarget EXCEPT !.rootfs = FALSE, !.plo = TRUE, !.dmesg = FALSE]

ARMv7A7Target ==
    [dut |-> "serial", rootfs |-> TRUE, plo |-> FALSE, server |-> "none", dmesg |-> TRUE,
     rebooter |-> "reset_pin", boot_pin |-> TRUE, slow_flash |-> TRUE]

ARMv7A9Target == [ARMv7A7Target EXCEPT !.rebooter = "debugger"]

ARMv7M7Target ==
    [ARMv7A7Target EXCEPT !.rootfs = FALSE, !.plo = TRUE, !.slow_flash = FALSE]

MCXN94xTarget ==
    [dut |-> "serial", rootfs |-> FALSE, plo |-> TRUE, server |-> "none", dmesg |-> FALSE,
     rebooter |-> "debugger", boot_pin |-> FALSE, slow_flash |-> FALSE]

STM32L4x6Target == [MCXN94xTarget EXCEPT !.server = "reset"]

STM32N6Target ==
    [MCXN94xTarget EXCEPT !.server = "plain", !.boot_pin = TRUE, !.slow_flash = TRUE]

HostPCGenericTarget ==
    [dut |-> "exec", rootfs |-> TRUE, plo |-> FALSE, server |-> "none", dmesg |-> FALSE,
     rebooter |-> "none", boot_pin |-> FALSE, slow_flash |-> FALSE]

=============================================================================
