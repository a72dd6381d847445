-------------------------- MODULE GatewayAdmission --------------------------
(***************************************************************************)
(* What a request passes before a handler runs: one limiter of             *)
(* middleware/rateLimiter.ts, counting the requests of one key, then the   *)
(* tokenGate for the wallet it names.  The gate asks the ledger for the    *)
(* balance unless it has a cached one, so requests overlap there.          *)
(*                                                                         *)
(* One tick stands for a third of the minute that is both the window of    *)
(* the limiter and the lifetime of a cached balance; the ledger's answer   *)
(* is at most Latency ticks old when it arrives.                           *)
(***************************************************************************)
EXTENDS GatewayClock, Integers, FiniteSets

CONSTANTS Requests,   \* requests of one key, all naming one wallet
          Max,        \* limiter: max
          Window,     \* limiter: windowMs, and the gate's CACHE_TTL_MS
          MinBalance, \* gate: minBalance
          Balances,   \* balances the wallet may hold
          Latency     \* bound: ticks an answer of the ledger takes

ASSUME AdmissionAssumption ==
    /\ {Max, Window} \subseteq Nat \ {0}
    /\ Latency \in Nat /\ MinBalance \in Nat
    /\ Balances \subseteq Nat /\ 0 \in Balances
    /\ IsFiniteSet(Requests)

VARIABLES
    bucket,   \* the limiter's entry for the key: count and resetAt, or NoBucket
    pc,       \* of each request
    asked,    \* when each request reached the limiter
    balance,  \* the wallet's balance on the ledger
    richAt,   \* the last time it was at least MinBalance
    poorAt,   \* the last time it was below, or the ledger failed to answer
    cache,    \* balanceCache of the wallet: balance and expiresAt, or NoEntry
    read      \* what the ledger answers to each request that asks it

limiterVars == <<bucket, asked>>
gateVars == <<balance, richAt, poorAt, cache, read>>
admissionVars == <<limiterVars, gateVars, pc>>

NoBucket == [count |-> 0, resetAt |-> 0]
NoEntry == [balance |-> 0, expiresAt |-> 0]
Never == -100
NoRead == [balance |-> 0, at |-> Never]

AdmissionInit ==
    /\ bucket = NoBucket /\ cache = NoEntry
    /\ pc = [r \in Requests |-> "new"]
    /\ asked = [r \in Requests |-> Never]
    /\ balance \in Balances
    /\ richAt = (IF balance >= MinBalance THEN 0 ELSE Never)
    /\ poorAt = (IF balance < MinBalance THEN 0 ELSE Never)
    /\ read = [r \in Requests |-> NoRead]

-----------------------------------------------------------------------------
(* rateLimiter *)

Expired(b) == b = NoBucket \/ now >= b.resetAt

Counted == IF Expired(bucket) THEN [count |-> 1, resetAt |-> now + Window]
           ELSE [bucket EXCEPT !.count = @ + 1]

\* A request is counted whether or not it is let through.
Limit(r) ==
    /\ pc[r] = "new"
    /\ bucket' = Counted
    /\ asked' = [asked EXCEPT ![r] = now]
    /\ pc' = [pc EXCEPT ![r] = IF Counted.count > Max THEN "429" ELSE "passed"]
    /\ UNCHANGED <<gateVars, now>>

FaultyPrune ==
    /\ bucket # NoBucket
    /\ bucket' = NoBucket
    /\ UNCHANGED <<asked, pc, gateVars, now>>

\* setInterval: expired entries are dropped.
Prune ==
    /\ bucket # NoBucket /\ now >= bucket.resetAt
    /\ bucket' = NoBucket
    /\ UNCHANGED <<asked, pc, gateVars, now>>

-----------------------------------------------------------------------------
(* tokenGate *)

Verdict(b) == IF b < MinBalance THEN "403" ELSE "served"

Fresh == now < cache.expiresAt

\* getAeeronBalance answers from the cache, or asks; a request without a valid
\* wallet header is refused (401, 400) before it.
Gate(r) ==
    /\ pc[r] = "passed"
    /\ \/ pc' = [pc EXCEPT ![r] = "refused"]
       \/ Fresh /\ pc' = [pc EXCEPT ![r] = Verdict(cache.balance)]
       \/ ~Fresh /\ pc' = [pc EXCEPT ![r] = "asking"]
    /\ UNCHANGED <<limiterVars, gateVars, now>>

\* The ledger looks the balance up, or fails (no account, an RPC error).
Lookup(r, fails) ==
    /\ pc[r] = "asking"
    /\ pc' = [pc EXCEPT ![r] = "answered"]
    /\ read' = [read EXCEPT ![r] = IF fails THEN [balance |-> 0, at |-> now]
                                   ELSE [balance |-> balance, at |-> now]]
    /\ poorAt' = IF fails THEN now ELSE poorAt
    /\ UNCHANGED <<limiterVars, balance, richAt, cache, now>>

FaultyStored(b) == [balance |-> b, expiresAt |-> now + 2 * Window]

Stored(b) == [balance |-> b, expiresAt |-> now + Window]

\* The answer arrives: both it and the failure, as zero, enter the cache over
\* whatever a faster request stored meanwhile.
Answer(r) ==
    /\ pc[r] = "answered"
    /\ cache' = Stored(read[r].balance)
    /\ pc' = [pc EXCEPT ![r] = Verdict(read[r].balance)]
    /\ read' = [read EXCEPT ![r] = NoRead]
    /\ UNCHANGED <<limiterVars, balance, richAt, poorAt, now>>

\* The wallet's owner trades.
Trade(b) ==
    /\ b # balance
    /\ balance' = b
    /\ richAt' = IF b >= MinBalance THEN now ELSE richAt
    /\ poorAt' = IF b < MinBalance THEN now ELSE poorAt
    /\ UNCHANGED <<limiterVars, pc, cache, read, now>>

\* Time passes while the wallet keeps what it holds and no answer gets older
\* than Latency.
AdmissionTick ==
    /\ Tick
    /\ \A r \in Requests : pc[r] = "answered" => now < read[r].at + Latency
    /\ richAt' = IF balance >= MinBalance THEN now + 1 ELSE richAt
    /\ poorAt' = IF balance < MinBalance THEN now + 1 ELSE poorAt
    /\ UNCHANGED <<limiterVars, pc, balance, cache, read>>

AdmissionNext ==
    \/ AdmissionTick \/ Prune
    \/ \E r \in Requests : Limit(r) \/ Gate(r) \/ Answer(r)
    \/ \E r \in Requests, fails \in BOOLEAN : Lookup(r, fails)
    \/ \E b \in Balances : Trade(b)

AdmissionSpec ==
    now = 0 /\ AdmissionInit /\ [][AdmissionNext]_<<admissionVars, now>>

-----------------------------------------------------------------------------
(* Properties *)

Asked(from, to) == {r \in Requests : asked[r] \in from..to}
Through == {r \in Requests : pc[r] \notin {"new", "429"}}

\* Every variable keeps its type.
AdmissionTypeOK ==
    /\ bucket \in [count : 0..Cardinality(Requests), resetAt : 0..(MaxTime + Window)]
    /\ cache \in [balance : Balances, expiresAt : 0..(MaxTime + Window)]
    /\ pc \in [Requests -> {"new", "429", "passed", "refused", "asking", "answered",
                            "403", "served"}]
    /\ asked \in [Requests -> Never..MaxTime] /\ balance \in Balances
    /\ {richAt, poorAt} \subseteq Never..MaxTime
    /\ read \in [Requests -> [balance : Balances, at : Never..MaxTime]]

\* The limiter's windows are fixed, so the requests it lets through in any
\* interval of one window stay within twice the limit, pruning included.
TwiceTheLimit ==
    \A t \in 0..MaxTime : Cardinality(Through \cap Asked(t, t + Window - 1)) <= 2 * Max

\* A 429 has a cause: the key asked more than Max times within one window that
\* ends at the rejected request.  (The request is found by its time.)
RejectionHasCause ==
    \A r \in Requests : pc[r] = "429" =>
        \E t \in 0..asked[r] :
            t + Window > asked[r] /\ Cardinality(Asked(t, asked[r])) > Max

\* The limiter lets through at most twice the limit and refuses nobody without
\* cause, wherever windows end and entries are pruned.
AdmissionSafe == AdmissionTypeOK /\ TwiceTheLimit /\ RejectionHasCause

\* Whoever gets through the gate held the minimum within the cache's lifetime
\* plus the time one answer takes, whatever requests overlapped and however
\* their answers were reordered.
ServedWasRich ==
    [][\A r \in Requests : pc[r] # "served" /\ pc'[r] = "served" =>
          now <= richAt + Window + Latency]_<<admissionVars, now>>

\* Whoever is refused for a low balance was below the minimum, or the ledger
\* failed, within the same time.
PoorWasPoor ==
    [][\A r \in Requests : pc[r] # "403" /\ pc'[r] = "403" =>
          now <= poorAt + Window + Latency]_<<admissionVars, now>>

\* Both: a verdict of the gate is about a balance of the recent past.
VerdictIsRecent == ServedWasRich /\ PoorWasPoor

\* rateLimiter.ts:22: "Sliding-window rate limiter", limiting to max requests
\* per window: no interval of one window lets more than max through.
SlidingWindow ==
    \A t \in 0..MaxTime : Cardinality(Through \cap Asked(t, t + Window - 1)) <= Max

=============================================================================
