----------------------------- MODULE MCHarnesses -----------------------------
(***************************************************************************)
(* The two harnesses that report sub-results, unity_harness and            *)
(* pytest_harness, on small instances.  One of them runs; the variables of *)
(* the other keep one initial value.                                       *)
(***************************************************************************)
EXTENDS UnityLink, MCPytestBridge

VARIABLE running

harnessesVars == <<running, vars, bridgeVars>>

HarnessesInit ==
    /\ running \in {"unity", "pytest"}
    /\ Init /\ BridgeInit
    /\ running = "unity" => cases = <<>>

HarnessesNext ==
    /\ UNCHANGED running
    /\ \/ running = "unity" /\ Next /\ UNCHANGED bridgeVars
       \/ running = "pytest" /\ BridgeNext /\ UNCHANGED vars

\* The fairness of the unity harness; pytest's session needs none.
HarnessesSpec ==
    HarnessesInit /\ [][HarnessesNext]_harnessesVars /\ WF_vars(running = "unity" /\ Harness)

=============================================================================
