----------------------------- MODULE AgentStores -----------------------------
(***************************************************************************)
(* Sessions and agents are each kept twice, by parties that do not talk to *)
(* each other: by the gateway's routes, for whoever calls them over HTTP,  *)
(* and by the agent-connect library (AgentSessionManager, AgentRegistry)   *)
(* in an agent's own process.  A session is known by a random id and an    *)
(* agent by its own, so one of each stands for all of a store.  budgetGuard*)
(* sits before a route and looks at nothing but a header of the request.   *)
(***************************************************************************)
EXTENDS GatewayClock

CONSTANTS Budget,    \* budgetGuard: maxLamports
          Declared,  \* lamports that a caller may declare as spent
          Prices,    \* lamports that may be recorded for a call
          TTL,       \* ttlSeconds of the session
          MaxCalls   \* bound: calls recorded in a store, requests let through

ASSUME StoresAssumption ==
    /\ {Budget, TTL, MaxCalls} \subseteq Nat \ {0}
    /\ Declared \subseteq Nat /\ Prices \subseteq Nat

VARIABLES
    route, manager,    \* the session record of the gateway and of the library
    charged,           \* when the gateway last added a call to its record
    ended,             \* some answer of the gateway showed the session as over
    through,           \* requests that budgetGuard let through
    agents, registry   \* the agent's entry at the gateway and in the library

sessionVars == <<route, manager, charged, ended, through>>
agentVars == <<agents, registry>>
storesVars == <<sessionVars, agentVars>>

NoSession == [status |-> "none", calls |-> 0, spent |-> 0, expiresAt |-> 0]
NoAgent == [present |-> FALSE, since |-> 0, seen |-> 0, online |-> FALSE]

StoresInit ==
    /\ route = NoSession /\ manager = NoSession
    /\ charged = 0 /\ ended = FALSE /\ through = 0
    /\ agents = NoAgent /\ registry = NoAgent

-----------------------------------------------------------------------------
(* Sessions *)

NewSession == [status |-> "active", calls |-> 0, spent |-> 0, expiresAt |-> now + TTL]

Create ==
    /\ route = NoSession /\ route' = NewSession
    /\ UNCHANGED <<now, manager, charged, ended, through, agentVars>>

ManagerCreate ==
    /\ manager = NoSession /\ manager' = NewSession
    /\ UNCHANGED <<now, route, charged, ended, through, agentVars>>

\* Expiry is lazy: a record becomes expired when it is looked at.
maybeExpire(s) ==
    IF s.status = "active" /\ now > s.expiresAt THEN [s EXCEPT !.status = "expired"] ELSE s

Get ==
    /\ route # NoSession /\ route' = maybeExpire(route)
    /\ ended' = (ended \/ route'.status # "active")
    /\ UNCHANGED <<now, manager, charged, through, agentVars>>

\* The library's list() and stats() show the record as it is; get() expires it.
ManagerGet ==
    /\ manager # NoSession /\ manager' = maybeExpire(manager)
    /\ UNCHANGED <<now, route, charged, ended, through, agentVars>>

Closed(s) == [s EXCEPT !.status = "closed"]

\* DELETE /:id, whatever the status.
Close ==
    /\ route # NoSession /\ route' = Closed(route) /\ ended' = TRUE
    /\ UNCHANGED <<now, manager, charged, through, agentVars>>

ManagerClose ==
    /\ manager # NoSession /\ manager' = Closed(manager)
    /\ UNCHANGED <<now, route, charged, ended, through, agentVars>>

Charged(s, lamports) ==
    [s EXCEPT !.calls = s.calls + 1, !.spent = s.spent + lamports]

FaultyLateRecord(s, lamports) == IF s.status = "active" THEN Charged(s, lamports) ELSE s

FaultyOpenRecord(s, lamports) == Charged(maybeExpire(s), lamports)

\* POST /:id/record: 409 unless the session is active after all.
Recorded(s, lamports) ==
    LET e == maybeExpire(s) IN IF e.status = "active" THEN Charged(e, lamports) ELSE e

\* recordCall: neither the status nor the expiry is looked at.
ManagerRecorded(s, lamports) == Charged(s, lamports)

\* The client's record request, sent whenever its call was done.
Record(lamports) ==
    /\ route # NoSession /\ route.calls < MaxCalls
    /\ route' = Recorded(route, lamports)
    /\ charged' = IF route'.calls > route.calls THEN now ELSE charged
    /\ ended' = (ended \/ route'.status # "active")
    /\ UNCHANGED <<now, manager, through, agentVars>>

ManagerRecord(lamports) ==
    /\ manager # NoSession /\ manager.calls < MaxCalls
    /\ manager' = ManagerRecorded(manager, lamports)
    /\ UNCHANGED <<now, route, charged, ended, through, agentVars>>

\* x-session-spent-lamports: not sent, not a number, or what the caller says.
Headers == [given : {"absent", "malformed"}] \cup [given : {"number"}, spent : Declared]

\* budgetGuard: 402 for a number that reaches the budget, and next() otherwise.
Refuses(h) == h.given = "number" /\ h.spent >= Budget

Guard(h) ==
    /\ through < MaxCalls
    /\ through' = IF Refuses(h) THEN through ELSE through + 1
    /\ UNCHANGED <<now, route, manager, charged, ended, agentVars>>

-----------------------------------------------------------------------------
(* Agents *)

Alive(e) == [e EXCEPT !.seen = now, !.online = TRUE]

\* Re-registration keeps registeredAt at the gateway.
Registered(e) == [present |-> TRUE, seen |-> now, online |-> TRUE,
                  since |-> IF e.present THEN e.since ELSE now]

Register ==
    /\ agents' = Registered(agents)
    /\ UNCHANGED <<now, sessionVars, registry>>

RegistryRegister ==
    /\ registry' = [present |-> TRUE, seen |-> now, online |-> TRUE, since |-> now]
    /\ UNCHANGED <<now, sessionVars, agents>>

\* Without an entry: 404 at the gateway, nothing in the library.
Heartbeat ==
    /\ agents.present /\ agents' = Alive(agents)
    /\ UNCHANGED <<now, sessionVars, registry>>

RegistryHeartbeat ==
    /\ registry.present /\ registry' = Alive(registry)
    /\ UNCHANGED <<now, sessionVars, agents>>

\* Only the library can take an agent offline.
MarkOffline ==
    /\ registry.present /\ registry' = [registry EXCEPT !.online = FALSE]
    /\ UNCHANGED <<now, sessionVars, agents>>

Unregister ==
    /\ agents.present /\ agents' = NoAgent
    /\ UNCHANGED <<now, sessionVars, registry>>

RegistryUnregister ==
    /\ registry.present /\ registry' = NoAgent
    /\ UNCHANGED <<now, sessionVars, agents>>

StoresTick == Tick /\ UNCHANGED storesVars

RouteNext == Create \/ Get \/ Close \/ \E p \in Prices : Record(p)

ManagerNext ==
    \/ ManagerCreate \/ ManagerGet \/ ManagerClose \/ \E p \in Prices : ManagerRecord(p)
    \/ \E h \in Headers : Guard(h)

AgentsNext == Register \/ Heartbeat \/ Unregister

RegistryNext == RegistryRegister \/ RegistryHeartbeat \/ MarkOffline \/ RegistryUnregister

StoresNext == StoresTick \/ RouteNext \/ ManagerNext \/ AgentsNext \/ RegistryNext

StoresSpec == now = 0 /\ StoresInit /\ [][StoresNext]_<<now, storesVars>>

-----------------------------------------------------------------------------
(* Properties *)

SessionType == [status : {"none", "active", "expired", "closed"}, calls : Nat,
                spent : Nat, expiresAt : Nat]
AgentType == [present : BOOLEAN, since : Nat, seen : Nat, online : BOOLEAN]

\* Every variable keeps its type.
StoresTypeOK ==
    /\ {route, manager} \subseteq SessionType
    /\ charged \in Nat /\ ended \in BOOLEAN /\ through \in Nat
    /\ {agents, registry} \subseteq AgentType

\* The gateway bills a session no call after its expiry, although expiry is
\* lazy: nobody need have looked at the session between its end and a record
\* that comes late.  Only a session past its expiry is shown as expired.
ChargedInTime ==
    /\ charged <= route.expiresAt
    /\ route.status = "expired" => now > route.expiresAt

\* Once the gateway has answered that the session is over, its totals are
\* final and it is never active again, however late a record arrives.
EndedIsFinal ==
    [][ended => /\ route'.spent = route.spent /\ route'.calls = route.calls
                /\ maybeExpire(route').status # "active"]_<<now, storesVars>>

\* The gateway's totals are those of the session's life.
StoresSafe == StoresTypeOK /\ ChargedInTime

\* Statements of the sources that do not hold; TLC refutes each.

\* sessions.ts:7: the route's store "mirrors AgentSessionManager logic": from
\* the same record, the same call leads to the same record.
RouteMirrorsManager ==
    \A p \in Prices :
        route.status # "none" => Recorded(route, p) = ManagerRecorded(route, p)

\* budgetGuard.ts:6: "rejects requests if a session's spend exceeds the caller's
\* configured budget": nothing is let through once more than that is spent.
BudgetHeld == [][through' > through => manager.spent <= Budget]_<<now, storesVars>>

=============================================================================
