------------------------------ MODULE AgentPool ------------------------------
(***************************************************************************)
(* AgentPool of @aeeron/agent-connect over AgentChannelConnections (option *)
(* useChannels): concurrent call()s dispatched round-robin, the lazy fill  *)
(* of an empty pool, the replacement of a failed connection by the call    *)
(* that saw it fail and by the health check, and drain.                    *)
(*                                                                         *)
(* A step is what the JavaScript runs between two awaits that leave the    *)
(* process (HTTP, RPC); promise continuations that follow one another      *)
(* without such an await belong to the same step.  Prices and balances are *)
(* small integers; latencies, payloads and error texts are left out.       *)
(***************************************************************************)
EXTENDS Integers, Sequences, FiniteSets

CONSTANTS
  Callers,          \* the tasks that use the pool, one call() at a time each
  Size,             \* opts.size
  Price,            \* cap.priceLamports of the capability within the maximum
  ChannelFund,      \* channelFundLamports
  RefundThreshold,  \* autoRefundThreshold
  RefundAmount,     \* autoRefundAmount
  MaxCalls,         \* bound: calls begun
  MaxChecks,        \* bound: health checks that find a dead connection
  MaxDrains         \* bound: drains begun

ASSUME PoolAssumption ==
  /\ Size \in Nat \ {0}
  /\ {Price, ChannelFund, RefundThreshold, RefundAmount} \subseteq Nat
  /\ {MaxCalls, MaxChecks, MaxDrains} \subseteq Nat

VARIABLES
  conns,    \* this.conns: a sequence of positions in links
  array,    \* identity of the array this.conns denotes: drain makes a new one
  cursor,   \* this.cursor
  stats,    \* this.stats
  timer,    \* healthTimer is running
  links,    \* every AgentChannelConnection opened so far
  call,     \* each caller's call() in progress
  repairs,  \* replacements a health check waits for
  closing,  \* connections whose closeChannel() the drain waits for
  draining, \* a drain() waits
  begun,    \* counts calls, health checks and drains, for the bounds
  buried,   \* history: connections a call that returned had found dead
  direct    \* history: some call has sent a direct payment

shutdown == <<timer, closing, draining>>
vars == <<conns, array, cursor, stats, links, call, repairs, shutdown, begun,
          buried, direct>>
\* what a call in progress leaves to health checks and drains
others == <<array, repairs, shutdown, begun, direct>>

------------------------------------------------------------------------------
Statuses == {"connected", "paying", "error", "closed"}

\* AgentChannelConnection.open: the channel is funded and on the books.
\* deposited is history: what was put into the channel.
Fresh == [status |-> "connected", open |-> TRUE, balance |-> ChannelFund,
          settled |-> 0, deposited |-> ChannelFund]

Idle == [pc |-> "idle", on |-> 0, got |-> 0, slot |-> 0, array |-> 0]

Members(pool) == {pool[i] : i \in DOMAIN pool}

IndexOf(pool, k) == CHOOSE i \in DOMAIN pool : pool[i] = k

\* AgentPool.create: the first fill has succeeded.
Init ==
  /\ conns = [i \in 1..Size |-> i]
  /\ array = 0
  /\ cursor = 0
  /\ stats = [totalCalls |-> 0, errors |-> 0]
  /\ timer = TRUE
  /\ links = [i \in 1..Size |-> Fresh]
  /\ call = [c \in Callers |-> Idle]
  /\ repairs = {}
  /\ closing = {}
  /\ draining = FALSE
  /\ begun = [calls |-> 0, checks |-> 0, drains |-> 0]
  /\ buried = {}
  /\ direct = FALSE

------------------------------------------------------------------------------
(* AgentPool.call after conn.call has answered: the statistics, and the     *)
(* replacement of a dead connection, whose array and index are fixed before *)
(* openOne() is awaited.  ls are the connections as conn.call left them.    *)
Answered(c, k, ok, ls) ==
  LET dead == ls[k].status = "error"
  IN  /\ links' = ls
      /\ stats' = [totalCalls |-> stats.totalCalls + 1,
                   errors |-> stats.errors + (IF ok THEN 0 ELSE 1)]
      /\ IF dead /\ k \in Members(conns')
         THEN /\ call' = [call EXCEPT ![c] =
                    [Idle EXCEPT !.pc = "replacing", !.on = k, !.array = array,
                       !.slot = IndexOf(conns', k)]]
              /\ UNCHANGED buried
         ELSE /\ call' = [call EXCEPT ![c] = Idle]
              /\ buried' = IF dead THEN buried \cup {k} ELSE buried

(* The round-robin choice and conn.call up to its first await, on the pool  *)
(* conns' and the connections ls: a capability that is unknown or too dear  *)
(* is refused at once, a low balance is refilled first.                     *)
Dispatch(c, ls) ==
  LET n == Len(conns')
      k == conns'[(cursor % n) + 1]
      low == ls[k].open /\ ls[k].balance < RefundThreshold
      wait(pc) == call' = [call EXCEPT ![c] = [Idle EXCEPT !.pc = pc, !.on = k]]
  IN  /\ cursor' = (cursor + 1) % n
      /\ \/ Answered(c, k, FALSE, ls)
         \/ /\ low
            /\ wait("funding")
            /\ links' = ls
            /\ UNCHANGED <<stats, buried>>
         \/ /\ ~low
            /\ wait("fetching")
            /\ links' = [ls EXCEPT ![k].status = "paying"]
            /\ UNCHANGED <<stats, buried>>

\* call() on a pool with connections, or on an empty one, which it fills.
Call(c) ==
  /\ call[c].pc = "idle" /\ begun.calls < MaxCalls
  /\ begun' = [begun EXCEPT !.calls = @ + 1]
  /\ UNCHANGED <<conns, array, repairs, shutdown, direct>>
  /\ IF conns = <<>>
     THEN /\ call' = [call EXCEPT ![c] = [Idle EXCEPT !.pc = "filling"]]
          /\ UNCHANGED <<cursor, stats, links, buried>>
     ELSE Dispatch(c, links)

\* One of fill's openOne()s has succeeded; the last one ends the fill: the
\* new connections are pushed and the call goes on.
FillOpened(c) ==
  /\ call[c].pc = "filling"
  /\ IF call[c].got + 1 < Size
     THEN /\ call' = [call EXCEPT ![c].got = @ + 1]
          /\ UNCHANGED <<conns, cursor, stats, links, buried>>
     ELSE /\ conns' = conns \o [i \in 1..Size |-> Len(links) + i]
          /\ Dispatch(c, links \o [i \in 1..Size |-> Fresh])
  /\ UNCHANGED others

(* An openOne() of a fill or of a replacement, or a refund, fails: the call  *)
(* rejects.  Promise.all drops the connections a fill has opened, a dead     *)
(* connection keeps its slot, the books and the statistics stay as they are. *)
Awaited == {"filling", "funding", "replacing"}

FaultyRejectKeepsOpened(c) ==
  /\ call[c].pc \in Awaited /\ call' = [call EXCEPT ![c] = Idle]
  /\ conns' = conns \o [i \in 1..call[c].got |-> Len(links) + i]
  /\ links' = links \o [i \in 1..call[c].got |-> Fresh]
  /\ UNCHANGED <<cursor, stats, buried, others>>

FaultyRejectCredits(c) ==
  /\ call[c].pc = "funding" /\ call' = [call EXCEPT ![c] = Idle]
  /\ links' = [links EXCEPT ![call[c].on].balance = @ + RefundAmount]
  /\ UNCHANGED <<conns, cursor, stats, buried, others>>

Rejects(c) ==
  /\ call[c].pc \in Awaited /\ call' = [call EXCEPT ![c] = Idle]
  /\ UNCHANGED <<conns, cursor, stats, links, buried, others>>

------------------------------------------------------------------------------
(* AgentChannelConnection.call, from the refund of a low channel on.        *)

\* refundChannel has been confirmed.  The channel may have been closed
\* meanwhile: crediting it then throws, and the call rejects.
Funded(c) ==
  LET k == call[c].on
  IN  /\ call[c].pc = "funding"
      /\ IF links[k].open
         THEN /\ links' = [links EXCEPT ![k].balance = @ + RefundAmount,
                                        ![k].deposited = @ + RefundAmount,
                                        ![k].status = "paying"]
              /\ call' = [call EXCEPT ![c].pc = "fetching"]
         ELSE /\ call' = [call EXCEPT ![c] = Idle]
              /\ UNCHANGED links
      /\ UNCHANGED <<conns, cursor, stats, buried, others>>

\* fetchWithPayment has sent a direct payment, or found the resource free.
DirectPay ==
  /\ direct' \in {direct, TRUE}
  /\ UNCHANGED <<array, repairs, shutdown, begun>>

\* fetchWithPayment resolves, with whatever HTTP status, and leaves connection
\* k in the given state: the price is moved from balance to settled if the
\* channel is still there.
Response(c, st) ==
  LET k == call[c].on
      debit == IF links[k].open THEN Price ELSE 0
  IN  /\ call[c].pc = "fetching"
      /\ links' = [links EXCEPT ![k].status = st, ![k].settled = @ + debit,
                                ![k].balance = @ - debit]
      /\ call' = [call EXCEPT ![c].pc = "reading"]
      /\ DirectPay
      /\ UNCHANGED <<conns, cursor, stats, buried>>

Fetched(c) == Response(c, "connected")

Broken(k) == [links EXCEPT ![k].status = "error"]

\* fetchWithPayment throws (network, timeout, a payment that failed).
FetchThrows(c) ==
  /\ call[c].pc = "fetching"
  /\ UNCHANGED <<conns, cursor>> /\ DirectPay
  /\ Answered(c, call[c].on, FALSE, Broken(call[c].on))

\* The body is read, of a result or of an HTTP error, or response.json()
\* throws: the connection is then marked although the agent answered.
BodyRead(c) ==
  /\ call[c].pc = "reading"
  /\ UNCHANGED <<conns, cursor, others>>
  /\ \/ \E ok \in BOOLEAN : Answered(c, call[c].on, ok, links)
     \/ Answered(c, call[c].on, FALSE, Broken(call[c].on))

------------------------------------------------------------------------------
\* openOne() has succeeded and is assigned to this.conns[idx].  The array and
\* the index were evaluated before the await: after a drain the connection goes
\* into an array nobody reads.
FaultyPut(site) ==
  /\ links' = Append(links, Fresh)
  /\ conns' = IF site.array = array THEN Append(conns, Len(links) + 1) ELSE conns

Put(site) ==
  /\ links' = Append(links, Fresh)
  /\ conns' = IF site.array = array
              THEN [conns EXCEPT ![site.slot] = Len(links) + 1] ELSE conns

\* The replacement a call waited for.
Replaced(c) ==
  /\ call[c].pc = "replacing" /\ call' = [call EXCEPT ![c] = Idle]
  /\ buried' = buried \cup {call[c].on}
  /\ Put(call[c])
  /\ UNCHANGED <<cursor, stats, others>>

\* The health timer fires and finds dead connections.
HealthCheck ==
  LET dead == {i \in DOMAIN conns : links[conns[i]].status \in {"error", "closed"}}
  IN  /\ timer /\ dead # {} /\ begun.checks < MaxChecks
      /\ begun' = [begun EXCEPT !.checks = @ + 1]
      /\ repairs' = repairs \cup
           {[check |-> begun.checks, array |-> array, slot |-> i] : i \in dead}
      /\ UNCHANGED <<conns, array, cursor, stats, links, call, shutdown, buried,
                     direct>>

\* One of the health check's openOne()s succeeds, or fails and is ignored.
Repaired ==
  /\ \E r \in repairs : /\ repairs' = repairs \ {r}
                        /\ Put(r) \/ UNCHANGED <<conns, links>>
  /\ UNCHANGED <<array, cursor, stats, call, shutdown, begun, buried, direct>>

------------------------------------------------------------------------------
\* drain(): the timer stops and every connection with a channel closes it.
Drain ==
  /\ ~draining /\ begun.drains < MaxDrains
  /\ begun' = [begun EXCEPT !.drains = @ + 1]
  /\ timer' = FALSE
  /\ draining' = TRUE
  /\ closing' = {k \in Members(conns) : links[k].open}
  /\ UNCHANGED <<conns, array, cursor, stats, links, call, repairs, buried, direct>>

\* ChannelManager.close for one of them succeeds, or fails and changes nothing.
Closed ==
  /\ \E k \in closing :
       /\ closing' = closing \ {k}
       /\ \/ links' = [links EXCEPT ![k].open = FALSE, ![k].status = "closed"]
          \/ UNCHANGED links
  /\ UNCHANGED <<conns, array, cursor, stats, timer, call, repairs, draining,
                 begun, buried, direct>>

\* All of them have settled: this.conns becomes an empty array, old or new.
Empty(id) ==
  /\ draining /\ closing = {} /\ draining' = FALSE
  /\ conns' = <<>> /\ array' = id
  /\ UNCHANGED <<cursor, stats, timer, links, call, repairs, closing, begun,
                 buried, direct>>

Drained == Empty(array + 1)

Next ==
  \/ \E c \in Callers : \/ Call(c) \/ FillOpened(c) \/ Rejects(c) \/ Funded(c)
                        \/ Fetched(c) \/ FetchThrows(c) \/ BodyRead(c)
                        \/ Replaced(c)
  \/ HealthCheck \/ Repaired \/ Drain \/ Closed \/ Drained

Spec == Init /\ [][Next]_vars

------------------------------------------------------------------------------
\* Type invariant of AgentPool, its connections and the calls in progress: the
\* cursor, every slot and every waiting call denote a connection that exists.
TypeOK ==
  /\ \A i \in DOMAIN conns : conns[i] \in DOMAIN links
  /\ array \in 0..MaxDrains /\ cursor \in Nat
  /\ stats \in [totalCalls : Nat, errors : Nat]
  /\ timer \in BOOLEAN /\ draining \in BOOLEAN
  /\ \A k \in DOMAIN links :
       links[k] \in [status : Statuses, open : BOOLEAN, balance : Int,
                     settled : Nat, deposited : Nat]
  /\ \A c \in Callers :
       /\ call[c].pc \in {"idle", "filling", "funding", "fetching", "reading",
                          "replacing"}
       /\ call[c].pc \notin {"idle", "filling"} => call[c].on \in DOMAIN links
       /\ call[c].got < Size
  /\ \A r \in repairs : r.array = array => r.slot \in DOMAIN conns
  /\ closing \subseteq DOMAIN links /\ buried \subseteq DOMAIN links
  /\ direct \in BOOLEAN

\* A connection that a call found dead is out of the pool once that call has
\* returned a result, and stays out, although its slot was looked up before an
\* await during which other calls, health checks, fills and drains ran
\* (AgentPool.call, "Replace dead connections").
DeadIsGone == buried \cap Members(conns) = {}

\* The pool is never left partly filled: between a failed openOne(), a drain
\* and a concurrent fill it has no connections, or at least opts.size.
NeverPartlyFilled == conns # <<>> => Len(conns) >= Size

\* A connection is "paying" only while some call waits for its answer: calls
\* that share a connection and overwrite each other's status never leave it
\* "paying" for good (getStats would count it unhealthy, nothing replaces it).
PayingMeansInFlight ==
  \A k \in DOMAIN links :
    links[k].status = "paying" =>
      \E c \in Callers : call[c].pc = "fetching" /\ call[c].on = k

\* What an open channel's books say it holds and has spent is what was put in,
\* through refunds that interleave, fail or land after a close.
BooksBalance ==
  \A k \in DOMAIN links :
    links[k].open => links[k].balance + links[k].settled = links[k].deposited

\* getStats counts a call at most once, and only after its agent answered.
CountedOnce ==
  /\ stats.errors <= stats.totalCalls
  /\ stats.totalCalls + Cardinality({c \in Callers :
         call[c].pc \in {"filling", "funding", "fetching", "reading"}})
       <= begun.calls

\* Slots, statuses and statistics stay right around every await: each slot holds
\* a connection nobody has found dead, none shows a payment that is over, and no
\* call is counted twice.
PoolSafe == TypeOK /\ DeadIsGone /\ PayingMeansInFlight /\ CountedOnce

\* AgentPool.ts: "Maintains a fixed-size pool of connections to the same agent."
FixedSize == Len(conns) <= Size

\* AgentChannelConnection.ts: "Subsequent calls settle off-chain -- no per-call
\* Solana transaction."
SettlesOffChain == ~direct
==============================================================================
