----------------------------- MODULE MCX402Flow -----------------------------
(***************************************************************************)
(* TLC instance of X402Flow: two calls on one wallet that can pay for      *)
(* one of them when one is dear; a cheap and a dear resource behind the    *)
(* middleware and a trial one whose middleware skips the verification; in  *)
(* AcceptGate the gateway checks all proofs.                                *)
(***************************************************************************)
EXTENDS X402Flow, TLC

CONSTANTS call1, call2, payer, seller, cheap, dear, trial

MCCalls == {call1, call2}
MCWalletOf == [c \in MCCalls |-> payer]
MCMaxAmount == [c \in MCCalls |-> IF c = call1 THEN 2 ELSE 1]
MCResources == {cheap, dear, trial}
MCPayeeOf == [r \in MCResources |-> seller]
MCPrice == [r \in MCResources |-> IF r = dear THEN 2 ELSE 1]
MCGate == [r \in MCResources |-> IF r = trial THEN "dev" ELSE "middleware"]
MCInitialFunds == (payer :> 2) @@ (seller :> 0)

\* Nonces are random and only compared: which one is issued first is all one.
NonceSymmetry == Permutations(Nonces)

\* The gateway's /v1/accept checks the proofs.
AcceptGate == [r \in MCResources |-> "accept"]

=============================================================================
