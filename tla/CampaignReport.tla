--------------------------- MODULE CampaignReport ---------------------------
(***************************************************************************)
(* What a campaign promises to whoever started it: verdicts are reported   *)
(* one at a time and never withdrawn, and the exit code 0 is given only    *)
(* when everything planned was reported and nothing failed.  A campaign    *)
(* may be cut short (an exception nobody catches, a missing port), but     *)
(* then the exit code is not 0.                                            *)
(***************************************************************************)
EXTENDS Integers, Sequences

VARIABLES planned,      \* number of verdicts the campaign is to report
          reported,     \* the verdicts reported so far
          exit          \* exit code of the process, RUNNING before it exits

RUNNING == -1

rvars == <<planned, reported, exit>>

Verdict == {"OK", "FAIL", "SKIP"}

Failed == \E k \in 1 .. Len(reported) : reported[k] = "FAIL"

Init ==
    /\ planned \in Nat
    /\ reported = <<>>
    /\ exit = RUNNING

Report ==
    /\ exit = RUNNING
    /\ Len(reported) < planned
    /\ \E v \in Verdict : reported' = Append(reported, v)
    /\ UNCHANGED <<planned, exit>>

Finish ==
    /\ exit = RUNNING
    /\ Len(reported) = planned \/ Failed
    /\ exit' = IF Failed THEN 1 ELSE 0
    /\ UNCHANGED <<planned, reported>>

CutShort ==
    /\ exit = RUNNING
    /\ exit' \in {1, 2}
    /\ UNCHANGED <<planned, reported>>

Next == Report \/ Finish \/ CutShort

Spec == Init /\ [][Next]_rvars

=============================================================================
