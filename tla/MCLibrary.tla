------------------------------ MODULE MCLibrary ------------------------------
(***************************************************************************)
(* TLC instance of the protocol library: fees, vesting and the proofs of a *)
(* payment.  They share only the clock, so each behaviour follows one of   *)
(* them, the others standing still.                                        *)
(***************************************************************************)
EXTENDS FeeSimulator, Vesting, ProofOfPayment, TLC

VARIABLE focus

vars == <<now, feesVars, claimed, proofVars, focus>>

\* tokenomics.ts with half a year for a unit, reserves' cliff of 180 days as one.
Schedule(bps100, cliff, duration, unlock) ==
    [bps |-> bps100 * 100, cliff |-> cliff, duration |-> duration, unlock |-> unlock]
MCSchedules ==
    "protocol" :> Schedule(30, 0, 0, 10000) @@ "ecosystem" :> Schedule(25, 0, 2, 2000)
    @@ "community" :> Schedule(20, 0, 4, 1000) @@ "team" :> Schedule(15, 2, 6, 0)
    @@ "reserves" :> Schedule(10, 1, 4, 0)
MCMinAmount == "a" :> 0 @@ "b" :> 2
MCSkews == -1..1

Init ==
    /\ now = 0 /\ FeesInit /\ VestingInit /\ ProofsInit
    /\ focus \in {"fees", "vesting", "receipts", "readers"}
    /\ focus # "receipts" => skew = 0
    /\ focus # "readers" => ~dev

Next ==
    /\ UNCHANGED focus
    /\ \/ focus = "fees" /\ UNCHANGED <<now, claimed, proofVars>> /\ FeesNext
       \/ focus = "vesting" /\ UNCHANGED <<feesVars, proofVars>> /\ VestingNext
       \/ /\ focus = "receipts" /\ UNCHANGED <<feesVars, claimed, query>>
          /\ ProofsNext /\ now' < 4
          /\ nonces' # nonces => ledger' # ledger
          /\ verdict.answer = "none" \/ verdict'.answer = "none" \/ verdict'.again
       \/ /\ focus = "readers" /\ UNCHANGED <<feesVars, claimed, now, verdict>>
          /\ ProofsNext

Spec == Init /\ [][Next]_vars

=============================================================================
