--------------------------- MODULE MCGatewayState ---------------------------
(***************************************************************************)
(* TLC instance of the gateway's in-memory state: the admission of requests,*)
(* the session and agent stores with their copies in the library, and the  *)
(* intent store.  They share only the clock, so each behaviour follows one *)
(* of them, the others standing still.                                     *)
(***************************************************************************)
EXTENDS GatewayAdmission, AgentStores, IntentStore, TLC

CONSTANTS pieceA, hash1, hash2

VARIABLE focus

vars == <<now, admissionVars, storesVars, intentVars, focus>>

Init ==
    /\ now = 0 /\ AdmissionInit /\ StoresInit /\ IntentsInit
    /\ focus \in {"admission", "sessions", "library", "agents", "intents"}
    /\ focus # "admission" => balance = 0

Next ==
    \/ focus = "admission" /\ AdmissionNext /\ UNCHANGED <<storesVars, intentVars, focus>>
    \/ /\ \/ focus = "sessions" /\ (StoresTick \/ RouteNext)
          \/ focus = "library" /\ (StoresTick \/ ManagerNext)
          \/ focus = "agents" /\ (StoresTick \/ AgentsNext \/ RegistryNext)
       /\ UNCHANGED <<admissionVars, intentVars, focus>>
    \/ focus = "intents" /\ IntentsNext /\ UNCHANGED <<admissionVars, storesVars, focus>>

Spec == Init /\ [][Next]_vars

Symmetry ==
    UNION {Permutations(s) : s \in {Requests, Ids, Nonces, Tokens}}

\* Texts with and without a '|', and the drafts made of them.
MCPieces == {Blank, Version, pieceA}
MCTexts == {<<Blank>>, <<pieceA>>, <<pieceA, pieceA>>}
MCDraft(agent, capability, amount, rail, ttl) ==
    [payer |-> <<pieceA>>, recipient |-> <<pieceA>>, agentId |-> agent,
     capability |-> capability, payloadHash |-> hash1, amount |-> amount, rail |-> rail,
     option |-> <<pieceA>>, ttl |-> ttl]
MCDrafts ==
    {MCDraft(<<pieceA>>, <<pieceA>>, 1, Sol, Unset), MCDraft(<<pieceA>>, <<pieceA>>, 2, Spl, 1),
     MCDraft(<<pieceA>>, <<pieceA, pieceA>>, 1, Channel, 1)}

\* Any one field changed, and any two strings that stand side by side.
MCValues ==
    [id |-> Ids, version |-> MCTexts, payer |-> MCTexts, recipient |-> MCTexts,
     agentId |-> MCTexts, capability |-> MCTexts, amount |-> Amounts,
     rail |-> Rails, mint |-> MCTexts, channelId |-> MCTexts,
     expiresAt |-> 0..MaxTime, nonce |-> Nonces, payloadHash |-> Hashes]
MCNeighbours ==
    {<<"version", "payer">>, <<"payer", "recipient">>, <<"recipient", "agentId">>,
     <<"agentId", "capability">>, <<"mint", "channelId">>}
MCSendable(i) ==
    UNION {{[i EXCEPT ![f] = v] : v \in MCValues[f]} : f \in DOMAIN MCValues}
        \cup {[i EXCEPT ![fs[1]] = v, ![fs[2]] = w] :
                 fs \in MCNeighbours, v \in MCTexts, w \in MCTexts}
=============================================================================
