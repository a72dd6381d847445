-------------------------- MODULE MCAeeronProtocol --------------------------
(***************************************************************************)
(* TLC instance of AeeronProtocol.  One wallet both opens channels and can  *)
(* be paid, so that lamports come back and a channel's cumulative balance   *)
(* can reach u64::MAX although the supply cannot.                           *)
(***************************************************************************)
EXTENDS AeeronProtocol

CONSTANTS alice, bob

MCPayers == {alice}
MCPayees == {alice, bob}
\* The whole supply is alice's, and fits in a u64.
MCInitialFunds == [u \in {alice, bob} |-> IF u = alice THEN 3 ELSE 0]

=============================================================================
