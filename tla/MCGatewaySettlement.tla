------------------------ MODULE MCGatewaySettlement -------------------------
(***************************************************************************)
(* TLC instance of GatewaySettlement.  Each intent exercises one branch:   *)
(* plain is paid by the gateway wallet; again is the same signed fields    *)
(* under another intent id; sdk is signed by IntentBuilder; agentPays is   *)
(* paid by a wallet the service holds no key of; token is on the spl rail  *)
(* and reuses the first id; uuid has an id of 36 bytes, as every id of the *)
(* code has; a batch has two legs under one signature.                     *)
(***************************************************************************)
EXTENDS GatewaySettlement, TLC

CONSTANTS gateway, agent, idA, idB, idC, idL, nonce1, nonce2, ataG, ataA

Intent(id, nonce, payer, rail, signedAs, expiresAt) ==
  [id |-> id, nonce |-> nonce, payer |-> payer, recipient |-> agent,
   amount |-> 1, rail |-> rail, signedAs |-> signedAs, expiresAt |-> expiresAt]

plain == Intent(idA, nonce1, gateway, "sol", "none", 2)
again == Intent(idB, nonce1, gateway, "sol", "none", 2)
sdk == Intent(idC, nonce2, gateway, "sol", "sdk", 2)
agentPays == Intent(idC, nonce2, agent, "sol", "none", 2)
token == Intent(idA, nonce2, gateway, "spl", "none", 2)
uuid == Intent(idL, nonce2, gateway, "sol", "none", 2)
batchLeg(id) == Intent(id, nonce2, gateway, "sol", "batch", 2)

MCWallets == {gateway, agent}
MCDerivable == {idA, idB, idC}
MCIntentIds == MCDerivable \cup {idL}
MCPayIntents == {plain, again, sdk, agentPays, token, uuid}
MCBatches == {<<batchLeg(idB), batchLeg(idC)>>}
MCTokenOwner == [a \in {ataG, ataA} |-> IF a = ataG THEN gateway ELSE agent]
MCInitialSol == [w \in MCWallets |-> IF w = gateway THEN 2 ELSE 1]
MCInitialTokens == [a \in {ataG, ataA} |-> IF a = ataG THEN 1 ELSE 0]
\* Requests are interchangeable handlers.
RequestSymmetry == Permutations(Requests)

=============================================================================
