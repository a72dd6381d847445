----------------------------- MODULE AgentLinks -----------------------------
(***************************************************************************)
(* One agent called over AgentConnections of @aeeron/agent-connect: by an  *)
(* MCP host through createMcpHandler, which caches a connection, through   *)
(* the fetch of createAgentFetch, which keeps the one it was made with,    *)
(* and by an application that holds a connection of its own.               *)
(*                                                                         *)
(* A name is a sequence of pieces: what "__" separates in the name of a    *)
(* tool, behind the agent's id (which is taken to hold no "__"), and what  *)
(* grows a URL.  A step runs between two awaits; connect() awaits nothing  *)
(* but its own promise, which still lets another call in.                  *)
(***************************************************************************)
EXTENDS Integers, FiniteSets, SequencesExt

CONSTANTS Tasks,      \* concurrent calls
          Names,      \* names asked for
          Offered,    \* agent.capabilities: a sequence of names
          ListPrice,  \* priceLamports by capability
          MaxPrice,   \* maxPriceLamports
          Asked,      \* lamports the agent may ask in its 402
          MaxCalls    \* bound: calls begun

ASSUME LinksAssumption ==
    /\ Names \subseteq Seq(STRING) \ {<<>>} /\ Offered \in Seq(Names)
    /\ ListPrice \in [Range(Offered) -> Nat]
    /\ Asked \subseteq Nat /\ {MaxPrice, MaxCalls} \subseteq Nat

VARIABLES status,  \* of each connection made so far
          cached,  \* connectionCache: a position in status, or None
          task,    \* each call
          begun,   \* calls begun, for the bound
          rejected \* requests that rejected so far

linksVars == <<status, cached, task, begun, rejected>>

None == 0
Adapter == 1  \* the connection createAgentFetch made
Own == 2      \* the application's
Unknown == <<>>
Rest == [pc |-> "idle", via |-> "own", wanted |-> Unknown, cap |-> Unknown, on |-> None,
         paid |-> 0, result |-> "none"]

Ended(result) == [Rest EXCEPT !.result = result]

LinksInit ==
    /\ status = <<"connected", "connected">>
    /\ cached = None
    /\ task = [t \in Tasks |-> Rest]
    /\ begun = 0 /\ rejected = 0

-----------------------------------------------------------------------------

\* find(): the first of the offered among those that pass the test.
First(found) == IF found = {} THEN Unknown ELSE Offered[Min(found)]

\* The capability that is called: toolName.split('__') leaves the piece after
\* the agent's id, the adapter takes the first endpoint the URL starts with.
Chosen(via, name) ==
    First({i \in DOMAIN Offered :
             CASE via = "mcp" -> Offered[i] = <<name[1]>>
               [] via = "fetch" -> IsPrefix(Offered[i], name)
               [] OTHER -> Offered[i] = name})

\* AgentConnection.call up to its await, on connection k among those of st.
Start(t, via, name, k, st) ==
    LET cap == Chosen(via, name)
        next == [Rest EXCEPT !.via = via, !.wanted = name, !.cap = cap, !.on = k] IN
    IF cap = Unknown \/ ListPrice[cap] > MaxPrice
    THEN /\ task' = [task EXCEPT ![t] = Ended("refused")]
         /\ status' = st
    ELSE /\ task' = [task EXCEPT ![t] = [next EXCEPT !.pc = "fetching"]]
         /\ status' = [st EXCEPT ![k] = "paying"]

FaultyUsable == cached # None /\ status[cached] = "connected"

Usable == cached # None /\ status[cached] \notin {"error", "closed"}

\* The handler looks for a connection first.
McpCall(t, name) ==
    IF Usable THEN Start(t, "mcp", name, cached, status) /\ UNCHANGED cached
    ELSE /\ task' = [task EXCEPT ![t] = [Rest EXCEPT !.pc = "connecting", !.via = "mcp",
                                                     !.wanted = name]]
         /\ UNCHANGED <<status, cached>>

\* The adapter leaves a URL that is no capability's to the real fetch.
AdapterCall(t, name) ==
    /\ Chosen("fetch", name) # Unknown
    /\ Start(t, "fetch", name, Adapter, status) /\ UNCHANGED cached

\* A payload that is not JSON ends an MCP call with an error and the adapter's
\* with a rejection, before anything is sent.
BadPayload(t) ==
    /\ task' = [task EXCEPT ![t] = Ended("refused")]
    /\ UNCHANGED <<status, cached>>

Call(t, name) ==
    /\ task[t].pc = "idle" /\ begun < MaxCalls
    /\ begun' = begun + 1 /\ UNCHANGED rejected
    /\ \/ McpCall(t, name)
       \/ AdapterCall(t, name)
       \/ Start(t, "own", name, Own, status) /\ UNCHANGED cached
       \/ BadPayload(t)

\* connect() is back: its connection replaces the one another call may have
\* cached meanwhile.
Connected(t) ==
    /\ task[t].pc = "connecting"
    /\ LET st == Append(status, "connected") IN
          /\ cached' = Len(st)
          /\ \/ Start(t, "mcp", task[t].wanted, Len(st), st)
             \/ /\ status' = st
                /\ task' = [task EXCEPT ![t] = Ended("refused")]
    /\ UNCHANGED <<begun, rejected>>

\* fetchWithPayment gets no maxAmount: it pays what the 402 asks, if it asks.
Fetched(t, lamports, ok) ==
    /\ task[t].pc = "fetching"
    /\ status' = [status EXCEPT ![task[t].on] = "connected"]
    /\ task' = [task EXCEPT ![t] = IF ok THEN [@ EXCEPT !.pc = "body", !.paid = lamports]
                                   ELSE Ended("failed")]
    /\ UNCHANGED <<cached, begun, rejected>>

FaultyFails(t) ==
    /\ task[t].pc \in {"fetching", "body"}
    /\ task' = [task EXCEPT ![t] = Ended("failed")]
    /\ rejected' = rejected + 1
    /\ UNCHANGED <<status, cached, begun>>

\* The request or the reading of its answer rejects, the payment made or not.
Fails(t) ==
    /\ task[t].pc \in {"fetching", "body"}
    /\ status' = [status EXCEPT ![task[t].on] = "error"]
    /\ task' = [task EXCEPT ![t] = Ended("failed")]
    /\ rejected' = rejected + 1
    /\ UNCHANGED <<cached, begun>>

BodyRead(t) ==
    /\ task[t].pc = "body"
    /\ task' = [task EXCEPT ![t] = Ended("ok")]
    /\ UNCHANGED <<status, cached, begun, rejected>>

\* The application closes its connection, whatever is in flight.
Close ==
    /\ status[Own] # "closed"
    /\ status' = [status EXCEPT ![Own] = "closed"]
    /\ UNCHANGED <<cached, task, begun, rejected>>

Progress(t) ==
    \/ Connected(t) \/ BodyRead(t) \/ Fails(t)
    \/ \E lamports \in Asked \cup {0}, ok \in BOOLEAN : Fetched(t, lamports, ok)

LinksNext ==
    \/ Close
    \/ \E t \in Tasks : Progress(t) \/ \E name \in Names : Call(t, name)

LinksSpec == LinksInit /\ [][LinksNext]_linksVars

\* Promises settle: every request carries a timeout.
LinksFairness == \A t \in Tasks : WF_linksVars(Progress(t))

-----------------------------------------------------------------------------
(* Properties *)

InFlight(k) == {t \in Tasks : task[t].on = k /\ task[t].pc \in {"fetching", "body"}}

\* Every variable keeps its type.
LinksTypeOK ==
    /\ status \in Seq({"connected", "paying", "error", "closed"})
    /\ cached \in {None} \cup 3..Len(status)
    /\ \A t \in Tasks : /\ task[t].on \in 0..Len(status)
                        /\ task[t].cap \in Range(Offered) \cup {Unknown}
                        /\ task[t].paid \in Nat

\* However calls overlap on a connection and overwrite its status, it does not
\* keep showing a payment that nobody is making.
PayingHasPayer ==
    \A k \in DOMAIN status : status[k] = "paying" => InFlight(k) # {}

\* Whether a name may reach a capability: only the URL need not be the whole name.
\* Of the tools the claim leaves out those whose capability's name holds "__".
Reaches(via, name, cap) ==
    IF via = "fetch" THEN IsPrefix(cap, name)
    ELSE cap = name \/ (via = "mcp" /\ Len(name) > 1)

\* An application and a tool with a name of one piece reach the capability they
\* name, and no other, a URL one that it starts with; over handlers that remember
\* the name while they connect.
ReachesNamed ==
    \A t \in Tasks : task[t].cap # Unknown => Reaches(task[t].via, task[t].wanted, task[t].cap)

\* Connections and calls stay in step although calls share a status.
LinksSafe == LinksTypeOK /\ PayingHasPayer /\ ReachesNamed

\* Handlers that share the cache make connections side by side and anew after a
\* failure, but not without end: each concurrent call makes at most one, and one
\* more for each request that rejected, on whichever connection.
ReconnectsBounded ==
    LET made == Len(status) - Own IN made <= Cardinality(Tasks) * (rejected + 1)

\* Every call ends, whatever fails on the way.
EveryCallAnswered == \A t \in Tasks : task[t].pc # "idle" ~> task[t].pc = "idle"

\* types.ts:46: "Max lamports willing to pay for a single call; rejects if
\* agent asks more".  Not so: the list price is compared, and the 402 paid.
PaysWithinMaxPrice == \A t \in Tasks : task[t].paid <= MaxPrice

\* mcp.ts:63: "toolName format: "<agentId>__<capabilityName>"", the names that
\* toMcpTools advertises.  split('__') keeps only the first piece of the name: the
\* tool of the capability "sum__up" calls the capability "sum".
ToolReachesNamed ==
    \A t \in Tasks : task[t].via = "mcp" /\ task[t].cap # Unknown => task[t].cap = task[t].wanted

=============================================================================
