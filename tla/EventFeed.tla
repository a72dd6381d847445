------------------------------ MODULE EventFeed ------------------------------
(***************************************************************************)
(* The live event stream: EventBus.emit calls the WebSocket hub of the     *)
(* gateway, which sends the event to the connected sockets; one SDK        *)
(* WsClient opens sockets to the hub, reconnects after a drop and calls    *)
(* the handlers of the application.                                        *)
(*                                                                         *)
(* A socket has two ends that learn of a drop independently: link is the   *)
(* connection itself, sock the readyState the client sees, hub the sockets *)
(* the gateway still sends to.  Frames of one socket arrive in order.  A   *)
(* socket both ends have forgotten is taken again for the next connection. *)
(***************************************************************************)
EXTENDS Naturals, Sequences, FiniteSets

CONSTANTS Agents,        \* agents events are about
          NoAgent,       \* an event or a filter without an agent
          Topics,        \* the agents, and perhaps NoAgent, events are emitted for
          Subscription,  \* the agentId option of the WsClient, or NoAgent
          MaxSockets,    \* bound: sockets at a time
          MaxAttempt,    \* bound: failed attempts counted (the delay saturates)
          MaxEvents,     \* bound: events emitted
          MaxConnects,   \* bound: connect() calls of the application
          MaxDrops       \* bound: connections lost and SIGTERM

ASSUME FeedAssumption ==
    /\ NoAgent \notin Agents /\ Topics \subseteq Agents \cup {NoAgent}
    /\ Subscription \in Agents \cup {NoAgent}
    /\ {MaxSockets, MaxAttempt, MaxEvents, MaxConnects, MaxDrops} \subseteq Nat \ {0}

Sockets == 1..MaxSockets

VARIABLES
    serving,   \* server.ts: no SIGTERM received yet
    hub,       \* WsHub.clients
    filter,    \* WsHub: agentId of each client record
    bus,       \* events emitted so far, each the agent it is about
    link,      \* the connection of each socket
    up,        \* frames on their way to the hub: an agent, or NoAgent = unsubscribe
    down,      \* frames on their way to the client: indices into bus
    sock,      \* readyState of each socket in the client
    promise,   \* what became of the promise connect() returned for it
    ws,        \* WsClient.ws, 0 = null
    attempt,   \* WsClient.attempt
    closed,    \* WsClient.closed
    timers,    \* pending reconnect timers
    log,       \* events passed to the handlers, in order
    connects,  \* connect() calls of the application
    hung,      \* a promise the application awaits was left unsettled
    drops      \* faults so far

hubVars == <<serving, hub, filter, bus>>
netVars == <<link, up, down, drops>>
wsVars == <<sock, promise, ws, attempt, closed, timers>>
appVars == <<log, connects, hung>>
feedVars == <<hubVars, netVars, wsVars, appVars>>

States(f, S) == {s \in Sockets : f[s] \in S}
\* A connection that ends takes with it what was on its way to the hub.
Cut(s) ==
    /\ link' = [link EXCEPT ![s] = "down"]
    /\ up' = [up EXCEPT ![s] = <<>>]
Live == States(sock, {"connecting", "open"})

FeedInit ==
    /\ serving = TRUE /\ hub = {} /\ bus = <<>> /\ drops = 0
    /\ filter = [s \in Sockets |-> NoAgent]
    /\ link = [s \in Sockets |-> "down"]
    /\ up = [s \in Sockets |-> <<>>]
    /\ down = [s \in Sockets |-> <<>>]
    /\ sock = [s \in Sockets |-> "none"]
    /\ promise = [s \in Sockets |-> "settled"]
    /\ ws = 0 /\ attempt = 0 /\ closed = FALSE /\ timers = 0
    /\ log = <<>> /\ connects = 0 /\ hung = FALSE

-----------------------------------------------------------------------------
(* WsClient *)

Forgotten == States(sock, {"none"}) \ hub

\* connect(): a new socket becomes the current one, whatever the old one does.
OpenSocket(caller) ==
    /\ \E s \in Forgotten :
          /\ \A t \in Forgotten : s <= t
          /\ link' = [link EXCEPT ![s] = "syn"]
          /\ sock' = [sock EXCEPT ![s] = "connecting"]
          /\ promise' = [promise EXCEPT ![s] = caller]
          /\ ws' = s
    /\ closed' = FALSE
    /\ UNCHANGED <<hubVars, up, down, drops, attempt, log, hung>>

Connect ==
    /\ connects < MaxConnects
    /\ connects' = connects + 1
    /\ OpenSocket("awaited")
    /\ UNCHANGED timers

TimerFires(due) ==
    /\ due
    /\ timers' = timers - 1
    /\ OpenSocket("ignored")
    /\ UNCHANGED connects

\* The timer calls connect() whether or not close() was called meanwhile.
ReconnectTimer == TimerFires(timers > 0)

OnOpen(s) ==
    /\ sock[s] = "connecting" /\ link[s] = "up"
    /\ sock' = [sock EXCEPT ![s] = "open"]
    /\ promise' = [promise EXCEPT ![s] = "settled"]
    /\ attempt' = 0
    /\ up' = IF Subscription = NoAgent THEN up
             ELSE [up EXCEPT ![s] = Append(@, Subscription)]
    /\ UNCHANGED <<hubVars, link, down, drops, ws, closed, timers, appVars>>

OnMessage(s) ==
    /\ sock[s] = "open" /\ down[s] # <<>>
    /\ log' = Append(log, Head(down[s]))
    /\ down' = [down EXCEPT ![s] = Tail(@)]
    /\ UNCHANGED <<hubVars, link, up, drops, wsVars, connects, hung>>

\* A socket that ends: onerror first when it never opened, then onclose.
SocketEnds(s, first, plans) ==
    /\ link[s] = "down" /\ sock[s] \in {"connecting", "open", "closing"}
    /\ sock' = [sock EXCEPT ![s] = "none"]
    /\ down' = [down EXCEPT ![s] = <<>>]
    /\ hung' = (hung \/ (promise[s] = "awaited" /\ ~first))
    /\ promise' = [promise EXCEPT ![s] = "settled"]
    /\ IF closed THEN UNCHANGED <<attempt, timers>>
       ELSE /\ attempt' = IF attempt < MaxAttempt THEN attempt + 1 ELSE attempt
            /\ timers' = timers + plans
    /\ UNCHANGED <<hubVars, link, up, drops, ws, closed, log, connects>>

FaultyOnCloseTwice(s) == SocketEnds(s, attempt = 0, IF sock[s] = "open" THEN 1 ELSE 2)
FaultyOnCloseOpened(s) == SocketEnds(s, attempt = 0, IF sock[s] = "open" THEN 1 ELSE 0)

\* onerror rejects the promise of a first attempt only; onclose plans a
\* reconnect unless the client is closed.
OnClose(s) == SocketEnds(s, attempt = 0, 1)

FaultyWsClose ==
    /\ connects > 0 /\ ~closed
    /\ closed' = TRUE /\ ws' = 0
    /\ UNCHANGED <<hubVars, netVars, sock, promise, attempt, timers, appVars>>

\* close() reaches the current socket only, and no timer.
WsClose ==
    /\ connects > 0 /\ ~closed
    /\ closed' = TRUE /\ ws' = 0
    /\ IF ws \in Live
       THEN /\ sock' = [sock EXCEPT ![ws] = "closing"]
            /\ Cut(ws)
       ELSE UNCHANGED <<sock, link, up>>
    /\ UNCHANGED <<hubVars, down, drops, promise, attempt, timers, appVars>>

-----------------------------------------------------------------------------
(* WsHub, EventBus and server.ts *)

OnConnect(s) ==
    /\ link[s] = "syn" /\ serving
    /\ link' = [link EXCEPT ![s] = "up"]
    /\ hub' = hub \cup {s}
    /\ UNCHANGED <<serving, filter, bus, up, down, drops, wsVars, appVars>>

HubMessage(s) ==
    /\ up[s] # <<>> /\ link[s] = "up"
    /\ filter' = [filter EXCEPT ![s] = Head(up[s])]
    /\ up' = [up EXCEPT ![s] = Tail(@)]
    /\ UNCHANGED <<serving, hub, bus, link, down, drops, wsVars, appVars>>

\* The hub's 'close' handler.
HubClose(s) ==
    /\ link[s] = "down" /\ s \in hub
    /\ hub' = hub \ {s}
    /\ filter' = [filter EXCEPT ![s] = NoAgent]
    /\ UNCHANGED <<serving, bus, netVars, wsVars, appVars>>

\* The hub's 'error' handler and the callback of a failed send forget the
\* client before its connection reports the close.
HubError(s) ==
    /\ s \in hub /\ link[s] = "up" /\ drops < MaxDrops
    /\ hub' = hub \ {s}
    /\ filter' = [filter EXCEPT ![s] = NoAgent]
    /\ Cut(s)
    /\ drops' = drops + 1
    /\ UNCHANGED <<serving, bus, down, wsVars, appVars>>

Matches(s, a) == filter[s] = NoAgent \/ a = NoAgent \/ filter[s] = a

\* emit() runs its listeners at once; broadcast skips sockets that are not open.
Emit(a) ==
    /\ Len(bus) < MaxEvents /\ serving
    /\ bus' = Append(bus, a)
    /\ down' = [s \in Sockets |->
                  IF s \in hub /\ link[s] = "up" /\ Matches(s, a)
                  THEN Append(down[s], Len(bus) + 1) ELSE down[s]]
    /\ UNCHANGED <<serving, hub, filter, link, up, drops, wsVars, appVars>>

\* SIGTERM: the hub leaves the bus, the server accepts nobody new and the
\* process stays until the last connection is gone.  What is still emitted
\* then reaches no socket and is left out.
Sigterm ==
    /\ serving /\ drops < MaxDrops
    /\ serving' = FALSE
    /\ drops' = drops + 1
    /\ UNCHANGED <<hub, filter, bus, link, up, down, wsVars, appVars>>

-----------------------------------------------------------------------------
(* The environment: connections fail, and another kind of client sends the   *)
(* unsubscribe frame that WsClient never sends.                              *)

Drop(s) ==
    /\ link[s] \in {"syn", "up"} /\ drops < MaxDrops
    /\ Cut(s)
    /\ drops' = drops + 1
    /\ UNCHANGED <<hubVars, down, wsVars, appVars>>

Refuse(s) ==
    /\ link[s] = "syn" /\ ~serving
    /\ Cut(s)
    /\ UNCHANGED <<hubVars, down, drops, wsVars, appVars>>

Unsubscribe(s) ==
    /\ sock[s] = "open" /\ link[s] = "up" /\ filter[s] # NoAgent /\ up[s] = <<>>
    /\ up' = [up EXCEPT ![s] = Append(@, NoAgent)]
    /\ UNCHANGED <<hubVars, link, down, drops, wsVars, appVars>>

ClientStep == \E s \in Sockets : OnOpen(s) \/ OnMessage(s) \/ OnClose(s)
HubStep == \E s \in Sockets : OnConnect(s) \/ HubMessage(s) \/ HubClose(s) \/ Refuse(s)

FeedNext ==
    \/ Connect \/ ReconnectTimer \/ WsClose \/ Sigterm
    \/ ClientStep \/ HubStep
    \/ \E s \in Sockets : HubError(s) \/ Drop(s) \/ Unsubscribe(s)
    \/ \E a \in Topics : Emit(a)

\* Event loops run their callbacks and timers; the application, the signal and
\* the faults are under no obligation.
FeedFairness ==
    /\ WF_feedVars(ReconnectTimer)
    /\ \A s \in Sockets : /\ WF_feedVars(OnOpen(s)) /\ WF_feedVars(OnMessage(s))
                          /\ WF_feedVars(OnClose(s)) /\ WF_feedVars(OnConnect(s))
                          /\ WF_feedVars(HubMessage(s)) /\ WF_feedVars(HubClose(s))
                          /\ WF_feedVars(Refuse(s))

FeedSpec == FeedInit /\ [][FeedNext]_feedVars /\ FeedFairness
-----------------------------------------------------------------------------
(* Properties *)

\* Every variable of the hub, the network and the client keeps its type.
FeedTypeOK ==
    /\ serving \in BOOLEAN
    /\ hub \subseteq Sockets
    /\ filter \in [Sockets -> Agents \cup {NoAgent}]
    /\ bus \in Seq(Topics) /\ Len(bus) <= MaxEvents
    /\ link \in [Sockets -> {"syn", "up", "down"}]
    /\ up \in [Sockets -> Seq(Agents \cup {NoAgent})]
    /\ down \in [Sockets -> Seq(1..MaxEvents)]
    /\ sock \in [Sockets -> {"none", "connecting", "open", "closing"}]
    /\ promise \in [Sockets -> {"settled", "awaited", "ignored"}]
    /\ ws \in 0..MaxSockets
    /\ attempt \in 0..MaxAttempt /\ timers \in Nat /\ {closed, hung} \subseteq BOOLEAN
    /\ log \in Seq(1..MaxEvents)
    /\ connects \in 0..MaxConnects /\ drops \in 0..MaxDrops

\* However drops, timers, close() and connect() interleave, one connect() call
\* is never worth more than one live socket or pending timer: WsClient does
\* not multiply its own reconnects.
OneChainPerConnect == Cardinality(Live) + timers <= connects

\* An application that calls connect() once sees no event twice and none out
\* of order, across all reconnects: the handlers of an old socket never run
\* after those of a new one.
InOrderOnce ==
    connects = 1 => \A i, j \in 1..Len(log) : i < j => log[i] < log[j]

\* While the closed flag of a client connected once is set, no socket of it is
\* open or opening (a pending timer may still clear the flag: see README).
ClosedIsQuiet == connects = 1 /\ closed => Live = {}

\* The promise of the only connect() call is settled when its socket ends: the
\* caller that awaits it is not left hanging.
AwaitedConnectSettles == connects = 1 => ~hung

\* The client's flags mean what they say, whatever callbacks are still to come:
\* a closed client is quiet and an awaited promise is not left hanging.
FeedSafe == FeedTypeOK /\ ClosedIsQuiet /\ AwaitedConnectSettles

\* While the gateway is up and the client not closed, a lost or refused
\* connection is eventually replaced by an open one the hub sends to.
Reconnects ==
    connects > 0 ~> \/ closed \/ ~serving
                    \/ \E s \in hub : sock[s] = "open" /\ link[s] = "up"

\* close() ends the stream until the application connects again.  Not so: a
\* reconnect timer pending at close() opens a socket and clears the flag.
ClosedStaysClosed == [][closed /\ ~closed' => connects' > connects]_feedVars

\* WsClient.ts:8: "Subscribe to events for a specific agent only."
OnlySubscribedAgent ==
    Subscription # NoAgent =>
        \A i \in 1..Len(log) : bus[log[i]] \in {Subscription, NoAgent}

=============================================================================
