# Aeeron: formal models and proofs

This directory holds TLA+ modules for the Aeeron payment layer, the TLC
configurations that check them on small instances, and TLAPS proofs of their safety
properties for every instance. All source references are relative to the repository root.

Contents

1. The system: inventory of its parts
2. The plan: modules, order, runs, theorems
3. The modules, and how they correspond to the code
4. The runs: what each checks, its bounds, its fairness
5. Where the code and its documents disagree
6. The proofs
7. What is not modelled, and notes on reading the source

## 1. The system

Aeeron lets an agent pay for an HTTP resource in SOL. A payer meets `402 Payment
Required`, pays on Solana, and repeats the request with a proof. Around that
core there is a gateway (an Express server) that settles signed payment intents
with its own wallet, a client library for pools of connections to agents, and a
monitor that watches the registered agents.

| Part | State it keeps | Operations | What is hard about it |
|---|---|---|---|
| **aeeron-protocol** (Anchor program, `programs/aeeron-protocol`) | per (payer, payee) a `PaymentChannel` account and a vault PDA; per nonce a `NonceRecord`; per receipt a `PaymentReceipt` | `open_channel`, `fund_channel`, `settle_payment`, `close_channel`, `direct_pay`, `register_nonce`, `emit_receipt` | any order of calls, reuse of a channel address after a close, one nonce registry for three instructions, fixed-width arithmetic, lamports that reach a vault from outside |
| **aeeron-verifier** (Anchor program) | per intent id a `NonceRecord` and a `PaymentRecord` | `settle_sol`, `settle_spl` | two records that must agree; the same id on two rails |
| **Gateway settlement** (`apps/api/src/settlement`, `routes/gatewayRouter.ts`, `routes/batchRouter.ts`) | handlers in progress, transactions on their way | `/pay`, `/batch`, `/status` | concurrent requests for one intent, transactions that land after the service gave up, batches that fail halfway |
| **On-chain indexer** (`apps/api/src/indexer`) | a log subscription | `start`, `processLogs`, `stop` | announces the same settlements as the service does |
| **SDK client** (`packages/sdk/src/client`) | a call of `fetchWithPayment` in progress | 402, validate, pay, confirm, retry with proof | calls that race for one wallet, awaits that reject after money moved |
| **SDK server** (`packages/sdk/src/server`) | none but the chain | 402 with details; proof verification | a proof is judged against a clock and a chain read at different times; repeated delivery |
| **/v1/accept** (`routes/accept.ts`) | none | proof verification for other servers | calls the same verifier |
| **AgentPool, AgentChannelConnection** (`packages/agent-connect`) | connections, cursor, statistics, a health timer; per connection a status and the books of its channel | `create`, `call`, `fill`, `healthCheck`, `drain`; `open`, `call`, `closeChannel` | everything around an `await`: shared statuses, slots looked up before and used after, drains in the middle |
| **AgentHealthMonitor** (`apps/api/src/monitor`) | failure counts in memory, `agents.status` in the database, an interval | `start`, `stop`, `runCycle` | cycles that overlap, failing queries, counts lost at a restart |
| **EventBus, WsHub, SDK WsClient** (`events`, `ws`, `packages/sdk/src/WsClient.ts`) | listeners, connected clients and filters; a socket, an attempt counter, a closed flag | `on`, `emit`; subscribe, broadcast; connect, reconnect, close | reconnect timers that outlive `close()`, two ends of a socket that learn of a drop at different times |
| **WebhookDispatcher, lib/webhook** | none; a map of endpoints | `dispatch`, `deliver` with retries; `register`, `remove`, `dispatch`, test | an endpoint that acts and then times out, or answers with an error, is asked again |
| **Rate limiter, budget guard, token gate** | buckets per key; cached balances | one per request | windows, caches that outlive the fact they cache |
| **Sessions, intents, agent registry** | maps (and one more copy of the sessions in the client library) | create, record, close, lazy expiry; submit, cancel; register | status machines kept in two places, events emitted early |
| **Gateway SDK client** (`packages/sdk/src/AeeronClient.ts`, `utils`, `aeeron intent status --watch`) | none | `pay`, `status`, `waitForSettlement`, `withRetry` | polls against a deadline while each answer takes its time; retry of a payment that may have happened |
| **AgentConnection, MCP bridge, fetch adapter** (`packages/agent-connect`) | a status per connection, a cache of connections | `connect`, `call`, `close`; `createMcpHandler`, `createAgentFetch` | calls that overlap on one status, which decides whether the connection is used again |
| **Protocol library** (`packages/protocol`) and the gateway's payment, proof and fee routes | none; `claimed` of a vesting account | intent building and verification, receipts, `ProofVerifier`, fees, tokenomics | order of checks, rounding, a ledger that moves while it is asked, two clocks |
| ChannelManager, CLI, dashboard, contracts, deployment script, wiring | none of their own, or a user interface | | |

Interactions. The SDK client and server talk HTTP and both talk to
aeeron-protocol; the gateway's service sends transactions to aeeron-verifier and
emits on the EventBus, as does the indexer, which hears the program's logs;
WsHub relays the bus to WsClients. AgentPool calls agents through
AgentChannelConnection, which calls `fetchWithPayment`. The monitor probes agents
over HTTP, writes the agents table and emits on the bus.

What makes each part correct:

- *aeeron-protocol*: a vault holds to the lamport what its channel owes; no
  channel pays out more than was put in; a nonce pays once; lamports leave a
  vault only by a legitimate settlement or close; records are for ever.
- *gateway*: an intent moves money at most once; an `OK` is the truth about one
  payment; events are true; every request is answered.
- *x402*: a call of `fetchWithPayment` that a verifying gate serves has paid for
  it; it costs at most its limit, once, before the expiry; when a paid proof is
  refused, it is for its age or because a node failed or lagged.
- *pool*: dead connections leave; the pool is not left partly filled; statuses
  do not stick; books balance; statistics do not double-count.
- *monitor*: an alarm means two failed probes in a row and comes at most once per
  outage; the table shows the latest probe; a dead agent ends up offline.
- *feed*: one connect is worth one live socket or timer; events come once and in
  order; a lost connection is replaced; an awaited promise settles.
- *webhooks*: a duplicate has an attempt behind it that was abandoned or that the
  endpoint processed and answered with an error; what is logged is true; every
  delivery ends.
- *gateway state*: a window and its neighbour admit at most twice the limit; whoever
  is served or refused for a balance had that balance within the cache's life;
  a session is billed no call after its expiry, and one that is over stays over;
  what is authorized was signed, and in time.
- *clients*: a wait ends, on time, with the truth; a call over a shared
  connection is answered; connections are not made without end.
- *library*: a receipt or a lookup that says "paid" is right, and so is a refusal
  other than "not found"; claims follow vesting; the library's break-even count is
  where its costs cross.

`PROJECT.json` lists every component with its status and, under `hazards`, each
of these difficulties at the line where it bites, with the properties that
watch it.

## 2. The plan

Order: money first (program, then the two ways of paying), then the concurrent
client and server parts, then the gateway's state machines, then the library.

| # | Modules | Composes | State |
|---|---|---|---|
| 1 | `AeeronProtocol`, `EscrowLedger` (its abstract specification) | | checked and proved |
| 2 | `AeeronVerifier`, `GatewaySettlement` | verifier + service + routes + indexer | checked and proved |
| 3 | `X402Flow` | `AeeronProtocol` + client + server | checked and proved |
| 4 | `AgentPool` | pool + channel connections | checked and proved |
| 5 | `AgentHealthMonitor` | | checked and proved |
| 6 | `EventFeed` | EventBus + WsHub + WsClient + network | checked and proved |
| 7 | `WebhookDelivery` | dispatcher + registry + endpoints | checked and proved |
| 8 | `GatewayClock`, `GatewayAdmission`, `AgentStores`, `IntentStore`, together in `MCGatewayState` | routes and library copies of each store | checked and proved |
| 9 | `GatewayClient`, `AgentLinks`, together in `MCClients` | client + what the gateway may answer | checked and proved |
| 10 | `FeeSimulator`, `Vesting`, `ProofOfPayment`, together in `MCLibrary` | library + routes + CLI + a moving ledger | checked and proved |

What is left: two abstract specifications, an *at-least-once delivery* that
`WebhookDelivery` implements and a *one payment per intent* that `GatewaySettlement`
implements, each checked by TLC and proved like `EscrowLedger`. Liveness stays with
TLC.

All modules are written to be proved about: constants carry named assumptions,
each operation is one action, and there is no RECURSIVE operator.

## 3. The modules

Conventions. A definition whose name begins with `Faulty` belongs to no
behaviour of any specification: it is a mistake that the definition after it
could plausibly contain, kept to show that some property notices the
difference. Variables called *history* in the declarations do not exist in the
code; they record the past for the properties and no guard reads them. Amounts,
times and widths are small integers; ids, wallets and nonces are model values.

### AeeronProtocol

One action is one committed transaction. The runtime serialises transactions on
the accounts they write and reverts those that fail, so a refused call is a
stuttering step and a guard is the conjunction of a handler's account
constraints and `require!` lines.

| Code | Model |
|---|---|
| `PaymentChannel` account, `seeds = [b"channel", payer, payee]` | `channel`, a function on the pairs whose account exists |
| vault PDA | `vault[pair]` |
| `NonceRecord` with `init` | `nonceRecord`, `Fresh`, `Record` |
| `available_balance` (saturating), `is_expired` | `Available`, `IsExpired` |
| `proof_expiry + 86_400`, `sequence += 1` (unchecked) | `RetainUntil`, `NextSequence`, which wrap at `MaxI64`, `MaxU64`, or trap if `OverflowChecks` |
| `checked_add` on `balance`, `settled` | guards `... <= MaxU64` |
| `close = payer` | the pair leaves `DOMAIN channel` |
| `ChannelManager.fundChannel`'s plain transfer | `FundVaultDirectly`, counted in `stray` |

`OverflowChecks` is a constant because the repository holds no workspace
`Cargo.toml`, so whether a release build traps on overflow is not known; the
theorems hold for both values. `verify_payment_proof` in `utils/mod.rs` is a stub
that accepts every signature, and the model has none: what is shown here does
not rest on the proof's signature. Rent and fees are left out.

`EscrowLedger` is the promise: per pair one amount in escrow, only the payer adds
to it, a payment takes a positive part of it against an unspent nonce, a refund
returns all of it. There are no accounts, clocks, expiries or sequence numbers.
`Escrow` in `AeeronProtocol` instantiates it with `escrow <- balance - settled` (0
when the account is gone), `lost <- stray`, `spent <- DOMAIN nonceRecord`.

### AeeronVerifier and GatewaySettlement

`SettleAnswer` gives the verifier's answer in the order in which Anchor evaluates
it: signer, `init` of the payment record, then the `require!` lines, then the
transfer. `SettleSol` and `SettleSpl` are the effects of an `Ok`. The program uses the
whole `[u8; 36]` id as one seed, and a Solana seed has at most 32 bytes: as it stands
it settles no id at all. The model lets the ids that fit settle, as they would with a
shorter array. It has every behaviour of the program and more, so what is shown
never to happen does not happen in the program either.

`GatewaySettlement` has one action per stretch between awaits of
`SettlementService.settle`:

| Code | Model |
|---|---|
| `/pay` with a header, without one or with a malformed one | `SubmitPay` |
| `/batch`, `verifyBatchIntent` | `SubmitBatch`, `BatchAccepted` |
| `verifyIntent` | `Accepted`; `signedAs` says what the signature covers |
| up to `.rpc()` | `SendLeg`, `RejectLeg`, `RefuseSpl` |
| `findProgramAddressSync` with an id of more than 32 bytes | `SeedTooLong` |
| `.rpc()`, `getLatestBlockhash`, `confirmTransaction`, `getSignatureStatus` | `Confirmed`, `Refused`, `GiveUp` |
| catch block: event and error code | `Fail` |
| the loop over a batch's legs | `Answer` goes on to the next leg |
| the cluster | `Land` (runs a pending transaction on the state it meets), `Lose` |
| `OnChainIndexer` | `StartIndexer`, `StopIndexer`, `ProcessLogs` |
| a wallet that calls `settle_spl` itself | `SettleSplElsewhere` |

`GiveUp` is possible whenever an await is pending, and does not disturb the
transaction. `Date.now()` and the cluster clock have different grain: `now` ticks
`TicksPerSecond` times per `clock` second, and the deadline is rounded down as in
the code. 
The service derives two PDAs from the intent id before its `try` block. Solana seeds
are at most 32 bytes long and an id made by `randomUUID` has 36, so the derivation
throws, the rejection reaches no handler and Node ends the process: `SeedTooLong`
drops every request in progress and the indexer's subscription. `Derivable` is the
set of ids that fit; the instance has both kinds, so that what comes after the
derivation is explored too.

The settled events of `AnswersTruthful` are those of the service and the indexer.
`routes/intents.ts:45` emits `payment.settled` as well, when an intent is merely
authorized; that event is `announced` in `IntentStore`.

`verifyBatchIntent` signs the legs through a hash that nobody computes again; the
legs of the model's batches are the ones that were signed.

### X402Flow

`Chain == INSTANCE AeeronProtocol`: the client's `direct_pay` is the action of the
program module, with its guards. A call goes through the states `idle`, `first`
(request sent), `details` (402 read), `approved` (validated, `onBeforePayment`
awaited), `sent`, `proof` (confirmed), `retried`, and ends as `ok`, `refused` or
`threw`. At the server, `check` is where the verification of the call's request
stands: `received`, `tx` and `nonce` before each of the two reads, `served`, or the
reason of a refusal.

| Code | Model |
|---|---|
| `fetchWithPayment` first fetch; middleware without a proof | `Fetch`; `Challenge` with `BuildDetails` |
| `validatePaymentDetails` | `Agreeable`, `Validate` |
| `sendRawTransaction` with preflight | `Send`: simulated on the present state (`WouldPay`) |
| `confirmTransaction`, whose `value.err` is not read | `Confirm`, after success or failure |
| the proof of `settle()`, second fetch | `ProofOf`, `Retry` |
| any await that rejects | `Throw`, in every waiting state |
| `PaymentVerifier.verify`: decoding, age, `skipVerification` | `Verify` with `Verdict`, `Stale` |
| `getTransaction`, then the nonce's account | `ReadTx` with `TxVerdicts`, `ReadNonce` with `NonceVerdicts` |
| `next()` or the 402 "Invalid Payment" with its reason | `Conclude` |
| network repeats a request | `Redeliver` |
| cluster | `Land`, `Drop` |

`gate` says who checks a resource's proofs: `middleware`, `dev` (a middleware that
skips the verification), or `accept`, the gateway's `/v1/accept`, which hands the
verifier a decoded object instead of the header.

The verifier looks at two things: that some transaction succeeded and that some
nonce's account exists. `TxVerdicts` and `NonceVerdicts` take a transaction and a
nonce that need have nothing to do with each other or with the request, and do not look
at payee, amount, payer or signature, as the code does not. That a proof of
`fetchWithPayment` nevertheless stands for the call's own payment (`ServedWasPaid`)
follows from what the client puts in it; that the verifier does not ensure it is
`VerifierMatchesPayment`, section 5. A node that fails or lags behind the ledger answers
either read with nothing (`NodeReasons`), whatever has landed, and all refusals are one 402.

### AgentPool

A step is what the JavaScript runs between two awaits that leave the process
(HTTP or RPC); continuations that follow one another without such an await are
one step. `links` are the AgentChannelConnections opened so far, `conns` the
pool's array of them, and `array` its identity, since `drain` assigns a new array
and a replacement that was awaited meanwhile writes into the old one.

| Code | Model |
|---|---|
| `call`: lazy `fill`, round robin | `Call`, `FillOpened`, `Dispatch` |
| `AgentChannelConnection.call`: refusal, refund, `fetchWithPayment`, debit, body | `Dispatch`, `Funded`, `Fetched`, `FetchThrows`, `BodyRead` |
| statistics and "Replace dead connections" | `Answered`, `Replaced` (with `Put`: `this.conns[idx] = await ...`) |
| an `openOne` or a refund that rejects | `Rejects` |
| `healthCheck` and its fire-and-forget replacements | `HealthCheck`, `Repaired` |
| `drain`, `closeChannel` | `Drain`, `Closed`, `Drained` |

The model covers the option `useChannels`. `ChannelManager` methods `open`, `fund`
and `close`, which the connection calls, do not exist under those names in the
SDK, so they are external: they succeed or fail.

### AgentHealthMonitor

Each `runCycle` in progress is a record in `cycle`; `Cycles` bounds how many
overlap. `Selected` reads the table, `Answers` and `NoAnswer` settle one probe, and
`ReadPrevious`, `Update`, `Emit` are the three steps of `persist` for one agent, in
any order of agents. `PersistFails` is a query that rejects; an update may then
have been applied or not. `Turn` (an agent goes or comes), `Stop` and `Restart` are
the environment: a restart clears the counts and keeps the table.

### EventFeed

One `WsClient`, the hub and the bus. A socket has two ends: `sock` is the readyState
the client sees, `link` the connection, `hub` the sockets the hub still sends to.

| Code | Model |
|---|---|
| `connect()`, from the application or from the timer | `Connect`, `ReconnectTimer`, both `OpenSocket` |
| `onopen` with the subscribe frame | `OnOpen` |
| `onmessage` | `OnMessage` |
| `onerror` then `onclose` of a socket that ends | `OnClose`, by `SocketEnds` |
| `close()` | `WsClose`: reaches the current socket and no timer |
| `WsHub`: connection, message, close, error and failed send | `OnConnect`, `HubMessage`, `HubClose`, `HubError` |
| `EventBus.emit` and `broadcast`, one synchronous step | `Emit` |
| SIGTERM in `server.ts` | `Sigterm`; `Refuse` for those who try later |
| the network | `Drop`; frames of one socket stay in order |

The delay of a reconnect only decides when the timer fires, so the model keeps the
attempt count, which decides whether `onerror` rejects, and drops the delay.

### WebhookDelivery

| Code | Model |
|---|---|
| `dispatch`, `loadEndpoints` | `Dispatch`, with a database that may fail |
| `deliver(..., attempt)` | `Send`; `Respond` and `Timeout` with `Outcome`, `Unsuccessful`, `GivesUp` |
| `setTimeout` of the next attempt | `Retry` |
| the endpoint and the network | `Endpoint`: processed or not; answered with 2xx (only if processed), with an error (`denied`, if processed) or not at all; in time or after the abort |
| restart of the gateway | `Crash`: deliveries and registered endpoints are in memory |
| the agent's webhook columns | `Configure` |
| `lib/webhook.ts`, `routes/webhooks.ts` | `RegisterHook`, `Remove`, `Publish`, `Test`, `Fetched` |

### GatewayAdmission, AgentStores, IntentStore

Three parts of the gateway's memory over one clock, `GatewayClock`. The library's
copies of two stores run in an agent's process and are driven by calls of their own;
nothing keeps them in step with the gateway's.

| Code | Model |
|---|---|
| `rateLimiter`: count, reset, 429, pruning interval | `Limit`, `Expired`, `Counted`, `Prune` |
| `tokenGate`: cache, RPC, failure as zero, verdict | `Gate`, `Lookup`, `Answer`, `Stored`, `Verdict` |
| `routes/sessions.ts` | `route`; `Create`, `Get`, `Close`, `Record` with `Recorded` |
| `AgentSessionManager` | `manager`; `ManagerCreate`, `ManagerGet`, `ManagerClose`, `ManagerRecord` with `ManagerRecorded` |
| lazy expiry | `maybeExpire` |
| `budgetGuard` | `Guard`, for each of `Headers`: absent, malformed or a number; `Refuses` |
| `routes/agents.ts` | `agents`; `Register`, `Heartbeat`, `Unregister` |
| `AgentRegistry` | `registry`; `RegistryRegister`, `RegistryHeartbeat`, `MarkOffline`, `RegistryUnregister` |
| `IntentBuilder`, `signIntent`, `verifyIntent` | `Drafts`, `Build`, `canonicalIntent`, `signIntent`, `verifyIntent` |
| `routes/intents.ts` | `IntentBody` (the schema), `Submit`, `Cancel`; `SendIntent`, what a client posts |

The ledger's answer to the gate is computed in one step and stored in a later one, so
that overlapping requests can overwrite a newer balance with an older one.

`budgetGuard` compares a header with a budget and nothing else: a request without the
header, or with one that is not a number, goes through, and no client in the repository
sends it. No bound on what a session spends follows from the code, and none is
stated; the comment's is `BudgetHeld`, section 5.

An intent has all twelve fields that are signed. A string is told apart by its pieces
between two '|', so `canonicalIntent` is their concatenation, which like the code's
join is not injective: agent `a` with capability `b|c` has the text of agent `a|b` with
capability `c`. A signature is the key with the text it covers. What a client posts of an
intent that was built is the constant operator `Sendable`, with the signature it
has: the theorems put nothing on it, TLC's instance takes every intent with one
field changed, the id among them, or two neighbouring strings changed, at any time.
What holds of every such intent (`AuthorizedWasSigned`) is that its deadline, nonce
and payload are those signed, and every field but the id when no signed string has a
'|'; the rest is `SignatureCoversFields`, section 5.

### GatewayClient

`WaitForSettlement`, `StatusRead`, `StatusReturns` and `PollAgain` are
`waitForSettlement` with its poll split in the request, the gateway's reading of the
row and the answer's arrival; `Watch`, `Interval` and `Check` are the command's
`setInterval`, whose checks may overlap; `Retry` and `CallEnds` are `withRetry`. What
the gateway does with a payment is not repeated here: `Answers` lists the pairs of
answer and fate that `GatewaySettlement` shows to be possible. The row of a settled
intent appears by `WriteRow`, an environment step without fairness, since nothing in
the repository writes it.

### AgentLinks

One agent, connections numbered in the order they are made. `McpCall` reuses the
cached connection or connects, `Connected` caches what it got, whoever was
faster; `AdapterCall` and the application's own calls use theirs; `Fetched`, `Fails`
and `BodyRead` are the awaits of `AgentConnection.call`, whose writes to the shared
`status` overlap; `rejected` counts requests that rejected. Names are sequences of
pieces: what `__` separates behind the agent's id in a tool's name, or what grows a
URL. `Chosen` is what the code calls: the capability that is the *first* piece of a
tool's name, or the first offered with which the URL begins (not the longest). So
`ReachesNamed` claims the capability named for the application and for tools with a
name of one piece, and a prefix for a URL; that `toMcpTools` also advertises names
with more pieces is `ToolReachesNamed`, section 5.

### FeeSimulator, Vesting, ProofOfPayment

`FeeSimulator` has the library's three functions, the route, the command and the
dashboard's page, which computes with constants of its own. `FeesRight` compares the
page's costs, savings and advice with the library's; its break-even is another number,
see `PageBreakEvenIsLibrarys` in section 5. `Vesting` translates `calculateVested` and
`claimableNow` and lets each beneficiary claim at any time. Nothing in the
repository makes such a claim: what is shown is what the two functions promise
whoever will call them.

`ProofOfPayment` has a ledger on which settlements, failing transactions and
transactions that pay nobody land, and agents that are shown a receipt or one that was
changed (`Show`, `verifyPaymentProof` in its order). Questions to `ProofVerifier` and to
the payment and proof routes are split into the question and what a node answers
(`Ask`, `Read`, `NodeFails`). `Sight` is what the node knows: it may lag however far, so
what is on the ledger may be missing from its answer, at each of the two reads of
`/v1/payments/verify` anew (`CheckTx`, `CheckNonce`). The proof of such a request names
a transaction and a nonce independently, and its payee and amount are compared
with nothing.

## 4. The runs

Each passing run explores its whole state space.

| Run | Instance | States | Properties |
|---|---|---|---|
| `protocol` | `MCAeeronProtocol.cfg` | 140 184 | `ChannelsSafe`, `LamportsConserved`; action: `VaultOutflow`; refinement: `ImplementsEscrow` |
| `gateway` | `MCGatewaySettlement.cfg` | 103 424 | `TypeOK`, `RecordsAgree`, `AnswersTruthful`; liveness: `EveryRequestAnswered` |
| `x402` | `MCX402Flow.cfg` | 982 274 | `CallsSafe`, `ServedWasPaid`, `PaidProofRefusals`; action: `PaidBeforeExpiry` |
| `agent_pool` | `MCAgentPool.cfg` | 1 254 890 | `PoolSafe`, `NeverPartlyFilled`, `BooksBalance` |
| `health` | `MCAgentHealth.cfg` | 313 290 | `AlarmsSafe`; action: `TableFollowsProbe` |
| `health_overlap` | `MCAgentHealthOverlap.cfg` | 33 174 | action: `OfflineMeansTwoInARow`; liveness: `DeadIsMarked` |
| `feed` | `MCEventFeed.cfg` | 480 433 | `FeedSafe`, `OneChainPerConnect`, `InOrderOnce`; liveness: `Reconnects` |
| `webhooks` | `MCWebhooks.cfg` | 462 848 | `WebhooksSafe`, `DuplicatesExplained`; liveness: `DispatchEnds` |
| `gateway_state` | `MCGatewayState.cfg` | 146 517 | `AdmissionSafe`, `StoresSafe`, `IntentsSafe`; actions: `VerdictIsRecent`, `EndedIsFinal`, `NothingAfterDeadline` |
| `clients` | `MCClients.cfg` | 180 837 | `ClientSafe`, `LinksSafe`, `ReconnectsBounded`; liveness: `CallsEnd` |
| `library` | `MCLibrary.cfg` | 236 572 | `FeesRight`, `VestingRight`, `ReceiptsRight`, `LookupsRight` |

A property whose name ends in `Safe` or `Right`, and `AnswersTruthful`,
`VerdictIsRecent` and `CallsEnd`, is a conjunction of properties that are stated one by
one above it, each with its own comment. They are:

| Property | Its parts |
|---|---|
| `ChannelsSafe` | `TypeOK`, `SettledWithinBalance`, `VaultExact`, `SequenceWithinSettled`, `NonceUsedOnce` |
| `AnswersTruthful` | `OkIsExactlyOnePayment`, `SettledEventsTruthful` |
| `CallsSafe` | `TypeOK`, `WithinMax`, `OnePaymentPerCall` |
| `PoolSafe` | `TypeOK`, `DeadIsGone`, `PayingMeansInFlight`, `CountedOnce` |
| `AlarmsSafe` | `TypeOK`, `OncePerOutage` |
| `FeedSafe` | `TypeOK`, `ClosedIsQuiet`, `AwaitedConnectSettles` |
| `WebhooksSafe` | `TypeOK`, `OutcomeTruthful`, `RegistryAtMostOnce` |
| `AdmissionSafe`, `VerdictIsRecent` | `AdmissionTypeOK`, `TwiceTheLimit`, `RejectionHasCause`; `ServedWasRich`, `PoorWasPoor` |
| `StoresSafe` | `StoresTypeOK`, `ChargedInTime` |
| `IntentsSafe` | `IntentsTypeOK`, `AuthorizedWasSigned` |
| `ClientSafe`, `LinksSafe`, `CallsEnd` | `ClientTypeOK`, `SettledIsTrue`, `TimeoutMeansLate`; `LinksTypeOK`, `PayingHasPayer`, `ReachesNamed`; `ClientEnds`, `EveryCallAnswered` |
| `FeesRight`, `VestingRight` | `SavesFromBreakEven`, `PageAgreesWithLibrary`; `ClaimsFollowVesting`, `AllocationMet` |
| `ReceiptsRight`, `LookupsRight` | `ReceiptIsSettlement`, `HonestReceiptAccepted`; `ProofsTypeOK`, `PaidIsPaid`, `RefusalHasGround` |

Two more properties are proved and not in a run, because one that is implies them:
`PaidOncePerIntent` follows from `RecordsAgree`, and `NonceRecordsPermanent` from the
refinement.

Each property has a `Faulty...` definition beside the one it is a slip of, a dropped
guard, a missing reset or a swapped order, which TLC shows the property to catch.

One more run, `no_request_dropped`, expects a violation; see section 5.

The last three instances hold several modules that share nothing but the clock. A
variable `focus` says which of them a behaviour follows while the others stand
still: their product would multiply the states and show nothing more.

### Bounds, and why they are enough

- **protocol**: one payer who is also a payee, so that lamports come back and a
  channel's cumulative balance reaches `MaxU64 = 3` although the supply is 3;
  two pairs, one of them to oneself; two nonces, so that a settlement and a
  direct payment race for one while another is free; amounts 0, 1, 2 (zero,
  exact, too much); proof expiries 1 and 3 with `MaxI64 = 3` and `Retention = 1`, so
  that one retention sum fits and one wraps; the clock passes every expiry
  (`MaxTime = 2`). Closing and opening the same pair again happens within these
  bounds. No symmetry: the two wallets differ.
- **gateway**: two requests, each any of six intents and a batch of two legs:
  a plain intent, one with the same nonce under another id, one signed as
  `IntentBuilder` signs, one whose payer is not the gateway, one on the SPL rail
  that reuses an id, one whose id is a UUID. The wallet holds 2 and every leg
  costs 1, so that two intents and a late transaction run out of funds.
  `MaxTime = 3` passes the expiry at 2, and two ticks make a cluster second, so that
  the two clocks disagree about it. No symmetry, as the run checks liveness.
- **x402**: two calls on one wallet with 2 lamports, prices 1 and 2, limits 2
  and 1, so that one call may find a price above its limit, both may pay, or the
  second payment fails on chain after its simulation passed; two resources behind the
  middleware and one behind a middleware in dev mode. Ttl and proof age are 1 with
  time to 3: proofs go stale, details expire, in each waiting state and between the
  verifier's reads. A request is served at most twice. The two nonces are
  interchangeable.
- **agent_pool**: two callers, a pool of two, three calls, one health check, one
  drain; every amount is 1, so that a connection can run out and be refilled
  once it has paid. Three calls are enough for a dead connection's replacement
  to be under way while another call fills, or uses, the pool. Callers are
  interchangeable.
- **health**: two agents and one cycle at a time with failing queries;
  **health_overlap**: one agent and two cycles that overlap, queries that do not
  fail. Counters stop at `Many = 3`: the code only asks whether a count equals 2.
  The split is deliberate: with overlapping cycles the table can take an older
  outcome and an outage can be announced twice, so `OncePerOutage` and
  `TableFollowsProbe` are stated, as their comments say, for cycles that do not
  overlap, and the properties that survive overlap have a run of their own.
- **feed**: two sockets at a time, so that an old one and its replacement
  overlap (a socket both ends have forgotten is taken again, so their number
  over time is not bounded); two connects, one fault, two events for one or the
  other agent; the attempt count saturates at 1, as the code only asks whether it
  is 0.
- **webhooks**: one event with its three attempts, each of which may be lost, answered
  or answered too late in any order with the others; two registered endpoints
  and two kinds, so that a payload may go to one, both or none; one restart at
  any time. There is one delivery: that deliveries do not disturb each other is not
  shown by this run. The theorems about safety are for any number of them.
- **gateway_state**: admission: three requests against a limit of one, windows of
  three ticks and time to 5, so that a window ends, is pruned and begins again,
  and a balance outlives its cache entry; answers take a tick. Stores: two recorded
  calls and two requests through the guard, prices 0 and 2 around a budget of 1, a session that
  expires at 1 with records as late as 5. Intents: two ids, nonces, tokens and payload
  hashes, an amount at the ceiling and one above it, strings with and without a '|', a
  default lifetime that ends before `MaxTime` and a chosen one that ends earlier.
  Requests, ids, nonces and tokens are interchangeable.
- **clients**: a timeout of three polls, answers as slow as a poll's pause, checks
  that overlap, three attempts whose delay reaches its maximum; two tasks over
  three calls, one name that begins with another, one above the price, one not
  offered. That an answer takes at most `Latency` is an assumption: `status()` sets no
  timeout, and `TimeoutMeansLate` says how late a wait may be in terms of it. A
  behaviour of the links begins at `MaxTime`, as they read no clock.
- **library**: fees with the source's constants and prices and counts around every
  rounding and around the break-even; vesting with the source's five schedules in
  half years (a cliff, none, both zero) and a supply that divides by none of them;
  three payments, one with an id that cannot be looked up, so that a proof may name a
  transaction and another payment's nonce; two agents of which one asks a minimum;
  clocks one tick apart either way; every answer of a node with and without a lag.

### Deadlock

`CHECK_DEADLOCK FALSE` stands in every configuration but the monitor's: users may
stop calling, every request may be done, every call finished, the clock at its
bound. The monitor never stops being able to move, and its runs check deadlock.

### Fairness

- `gateway`: weak fairness of each `Handler(r)`, since Express and the
  event loop run a continuation when its promise settles and the RPC calls
  settle (`confirmTransaction` gives up at the blockhash's last valid height);
  weak fairness of `ProcessLogs` for logs already delivered. Landing of a
  transaction, the clock and the indexer's start are not assumed fair. An answer
  may not come because the process went down: `EveryRequestAnswered` says so, and
  `NoRequestDropped` is the disagreement.
- `health_overlap`: weak fairness of the interval (`Tick`) and of each cycle's
  steps: probes carry an `AbortController` timeout and queries return. Agents,
  `Start`, `Stop` and `Restart` are not fair. `DeadIsMarked` itself assumes that
  the monitor stays started and the agent stays down.
- `feed`: weak fairness of the reconnect timer and of the callbacks of each socket
  at both ends, which event loops run. `connect()`, `close()`, events, SIGTERM and
  faults are not fair.
- `webhooks`: weak fairness of the end of an attempt (the abort after 8 seconds
  makes the fetch settle) and of the retry's timer. Endpoints are not fair.
- `clients`: weak fairness of the clock and of the steps of a wait, a watch and a
  retry that has begun, whose answers come within `Latency` (assumed, see the
  bounds); of each call over a connection, whose requests carry a timeout. Payments, the row and new calls are not fair.

## 5. Where the code and its documents disagree

Each of these is a property that states what a comment or document says and
that TLC refutes. The first is a run of the project.

| Configuration | Statement | What happens |
|---|---|---|
| `MCGatewayNoRequestDropped.cfg` | "returns 200 with txSignature or 402/400/500 on failure" (`gatewayRouter.ts:34`) | an accepted intent whose id has 36 bytes makes the PDA derivation throw outside the `try`, and the process ends |

Further configurations, kept beside the runs:

| Configuration | Statement | What happens |
|---|---|---|
| `MCReceipts.cfg` | "On-chain receipt for a completed payment." (`state.rs:69`) | `emit_receipt` creates a receipt for a nonce no payment used |
| `MCGatewayErrorMeansUnpaid.cfg` | "returns 200 with txSignature or 402/400/500 on failure" (`gatewayRouter.ts:34`) | an await fails after the transaction was sent; the answer is a failure and the payment lands |
| `MCX402AcceptTakesPaidProof.cfg` | "Verify an inbound x402 proof and return a signed receipt." (`accept.ts:13`) | the decoded proof is passed where the header is expected: every proof is invalid |
| `MCAgentHealthOutageAnnounced.cfg` | "agent.offline : when a previously-online agent stops responding (after 2 consecutive failures)" (`AgentHealthMonitor.ts:29`) | the first failure already wrote `offline`, so at the second the previous status is not online and no event is emitted |

`MCX402AcceptTakesPaidProof.cfg` guards the resources with the accept route
(`gate <- AcceptGate`) instead of the middleware.

Properties of the same kind without a configuration; add them to the one named to see
the behaviour:

| Property, configuration | Statement | What happens |
|---|---|---|
| `SdkIntentAccepted`, `MCGatewaySettlement.cfg` | "Builds a signed intent and submits it to the Gateway for on-chain settlement." (`sdk/src/AeeronClient.ts:65`) | the header schema drops `protocolVersion`, which was signed: `INTENT_INVALID` |
| `BatchLegAccepted`, `MCGatewaySettlement.cfg` | "settles each leg sequentially" (`batchRouter.ts:36`) | a leg is verified with the batch's signature and refused |
| `ReplayReportsNonceUsed`, `MCGatewaySettlement.cfg` | "should have thrown NonceAlreadyUsed" (`tests/settle.ts:84`) | the `init` constraint of the payment record refuses the replay first |
| `NoncePreventsDuplicates`, `MCGatewaySettlement.cfg` | "Idempotency key set by the payer to prevent duplicate execution" (`protocol/src/intent.ts:42`) | two intents with one nonce and two ids are both paid |
| `StatusFollowsIndexer`, `MCGatewaySettlement.cfg` | "populated by on-chain indexer" (`gatewayRouter.ts:84`) | the indexer writes no rows |
| `SettledCallbackMeansPaid`, `MCX402Flow.cfg` | "Called after payment is confirmed" (`sdk/src/types/index.ts:75`) | `confirmTransaction` also resolves for a failed transaction |
| `ServedBeforeExpiry`, `MCX402Flow.cfg` | "enforced both by the server (timestamp check) and on-chain" (`docs/x402-specification.md:198`) | the server looks at the proof's age only |
| `ServedOncePerPayment`, `MCX402Flow.cfg` | "Nonce has not been used before (on-chain nonce registry)" (`PaymentVerifier.ts:12`) | the registry shows that the payment happened, not that it was served |
| `VerifierMatchesPayment`, `MCX402Flow.cfg` | "Payment amount matches what the server requested", "Proof signature is valid (Ed25519 over canonical message)" (`PaymentVerifier.ts:14`, `11`) | any transaction that succeeded, with any nonce account that exists, makes a proof valid for any resource |
| `FixedSize`, `MCAgentPool.cfg` | "Maintains a fixed-size pool of connections" (`AgentPool.ts`) | two calls that find the pool empty both fill it |
| `SettlesOffChain`, `MCAgentPool.cfg` | "Subsequent calls settle off-chain" (`AgentChannelConnection.ts`) | each call goes through `fetchWithPayment`, which pays directly |
| `ClosedStaysClosed`, `MCEventFeed.cfg` | `close()` ends the stream until the application connects again | a reconnect timer that is pending at `close()` opens a socket and clears the flag |
| `OnlySubscribedAgent`, `MCEventFeed.cfg` | "Subscribe to events for a specific agent only." (`WsClient.ts:8`) | events emitted before the subscribe frame arrives are delivered unfiltered |
| `ThreeRetries`, `MCWebhooks.cfg` | "Up to 3 retry attempts with exponential back-off (1s, 4s, 9s)" (`WebhookDispatcher.ts:20`) | three attempts, two retries |
| `SlidingWindow`, `MCGatewayState.cfg` | "Sliding-window rate limiter" (`rateLimiter.ts:22`) | fixed windows: twice the limit around a boundary |
| `RouteMirrorsManager`, `MCGatewayState.cfg` | the route's store "mirrors AgentSessionManager logic" (`sessions.ts:7`) | from the same record, the same call leads to another one: the library counts calls after the session is over |
| `BudgetHeld`, `MCGatewayState.cfg` | "rejects requests if a session's spend exceeds the caller's configured budget" (`budgetGuard.ts:6`) | a request without the header, or with another number in it, goes through |
| `SignatureCoversFields`, `MCGatewayState.cfg` | "HMAC-SHA256 over canonical fields" (`protocol/src/intent.ts:46`) | where a string contains the separator, the joined text can be cut otherwise: another agent and capability have the same signature |
| `CancelledIsFinal`, `MCGatewayState.cfg` | "pending -> authorized -> settled, expired or cancelled" (`intent.ts:12`) | posted again before its deadline, a cancelled intent is authorized and announced again |
| `PaidOncePerPurchase`, `MCClients.cfg` | "Returns txSignature + slot on success" (`sdk/src/AeeronClient.ts:66`) | a payment reported as failed lands after the application paid again under a new id |
| `PaysWithinMaxPrice`, `MCClients.cfg` | "Max lamports willing to pay for a single call; rejects if agent asks more" (`agent-connect/src/types.ts:46`) | the list price is compared, the 402 is paid |
| `ToolReachesNamed`, `MCClients.cfg` | "toolName format: `<agentId>__<capabilityName>`" (`agent-connect/src/mcp.ts:63`) | the tool of capability `sum__up` calls the capability `sum` |
| `PageBreakEvenIsLibrarys`, `MCLibrary.cfg` | "Break-even at ${breakEven} calls." (`FeeSimulatorPage.tsx:192`) | the page, and what it exports, says 2 where the library says 3 |
| `FeeIsATenthPercent`, `MCLibrary.cfg` | "Aeeron charges a 0.1% fee on all settled payments" (`docs/tokenomics.md:50`) | both simulators charge 50 basis points, 0.5% |
| `RecommendsFromBreakEven`, `MCLibrary.cfg` | one `breakEvenCalls` beside the recommendation (`feeSimulator.ts:137`) | at one call less the costs are equal and the channel is recommended |
| `EveryModeAnswered`, `MCLibrary.cfg` | "Returns a cost breakdown for the given price-per-call and call count." (`routes/fees.ts:17`) | modes `direct` and `channel` hand bigints to `res.json`, which throws |
| `ReceiptIsMine`, `MCLibrary.cfg` | "Agents call this before fulfilling a paid request." (`verify.ts:51`) | the recipient is not compared |
| `ReceiptSpentOnce`, `MCLibrary.cfg` | "Aeeron Gateway nonce - prevents proof replay" (`protocol/src/verify.ts:22`) | the nonce is signed and never looked up: the same receipt is accepted again |
| `NotFoundWasTrue`, `MCLibrary.cfg` | "No PaymentRecord found for intentId" (`ProofVerifier.ts:59`), "Transaction not found" (`payments.ts:112`) | a node that lags answers so of a payment that has settled |
| `ValidMeansPaidAsAsked`, `MCLibrary.cfg` | "Verify an x402 payment proof submitted by an agent" (`payments.ts:60`) | payee and amount of the request are compared with nothing |
| `BadNonceMeansMalformed`, `MCLibrary.cfg` | 400 "Invalid nonce format" (`routes/proof.ts:39`) | an RPC failure is answered with it |

## 6. The proofs

Eight modules hold theorems. Each proves an inductive invariant and takes the
properties from it; TLC checked each invariant on the instances of section 4 before it
was proved. Every invariant and action property of a passing run, and the refinement, is
stated by a theorem for all values of the constants, but for `PageAgreesWithLibrary` in
`FeesRight`: it is about numbers that two files happen to share, which is a question to
the instance. TLC's instances show that the
interesting cases occur in what the theorems are about.

### AeeronProtocolProofs

`AeeronProtocolProofs` proves about `AeeronProtocol`, for all payers, payees,
nonces, amounts, expiries and widths:

| Theorem | Statement |
|---|---|
| `Invariance` | `Spec => []ChannelsSafe` |
| `TypeCorrect`, `SettledNeverExceedsBalance`, `VaultCoversChannel`, `SequenceNeverWraps`, `NonceSpentOnce` | the conjuncts of `ChannelsSafe`, each one an invariant |
| `RegistryPermanent` | nonce records are never removed or rewritten |
| `VaultOutflowTheorem` | lamports leave a vault only by a settlement or a close, with all that goes with them |
| `Refinement` | `Spec => Escrow!Spec` |
| `LamportsConservedTheorem` | the lamports of all wallets and vaults together never change |

The inductive invariant is

    ChannelsSafe == TypeOK /\ SettledWithinBalance /\ VaultExact
            /\ SequenceWithinSettled /\ NonceUsedOnce

`TypeOK` and `SettledWithinBalance` hold from one step to the next by the guards;
the other conjuncts need them. `VaultExact` needs `SettledWithinBalance`:
`available_balance` saturates, so a close would refund 0 where `balance - settled`
is negative, and the vault would no longer match what is owed.
`SequenceWithinSettled` is the fact that makes the unchecked `sequence += 1`
harmless: `settled + amount` is checked and `amount >= 1`, so `sequence <= settled`
survives a settlement and the counter cannot reach its maximum first.
`NonceUsedOnce` ties the count of uses to the existence of the record that `init`
refuses to create twice.

The proof has one lemma per instruction for the invariant (`OpenIInv`,
`SettleIInv`, ...), with one step per conjunct the instruction can disturb; all
instructions that consume a nonce share `RecordSound`. The action properties use
the invariant where the code alone does not say enough: in `VaultOutflowTheorem`
that the counter does not wrap and that a close pays `balance - settled`. The
refinement has one lemma per instruction as well (`OpenMapped`, ...): its key
facts are that a settlement takes an amount in `1..escrow` and that a close
returns exactly the escrow. Receipts and the clock are stuttering steps.

Assumptions, all named in `AeeronProtocol`: `AmountsAssumption` (amounts fit a
u64), `WidthAssumption` (widths and retention are naturals, `OverflowChecks` a
Boolean), `TimeAssumption` (expiries are integers, proof expiries fit an i64),
`FundsAssumption` (wallets start with natural amounts), `WalletsAssumption` (payers
and payees are finite sets, as accounts are; only the sum below uses it). Nothing is
assumed of how the widths relate to the funds.

`LamportsConserved` adds up accounts with the library's `SumFunction`, a recursion that
takes them out one at a time in an order it chooses. What is proved of it: that the
function it recurs through exists on a finite set (`SumsExist`), that another order
gives the same sum (`AnyOrder`), and hence that changing one account changes the sum
by that much (`OneChanges`). Each is an induction on the number of accounts. The library's
induction theorems take an operator as a parameter, which cannot be instantiated
here, so `AllNumbers` states induction for a set of numbers and gets it from the least
number outside that set. An instruction then touches one or two accounts
(`DepositConserves`, `WithdrawConserves`, `MoveConserves`).

### GatewaySettlementProofs

For all wallets, intents, batches, numbers of requests and ratios of the two clocks,
`Spec => []GInv` and from it:

| Theorem | Statement |
|---|---|
| `RecordsAlwaysAgree` | `Spec => []RecordsAgree` |
| `PaidAtMostOnce` | `Spec => []PaidOncePerIntent` |
| `OkIsTruth` | `Spec => []OkIsExactlyOnePayment` |
| `EventsTruthful` | `Spec => []SettledEventsTruthful` |
| `AnswersTrue` | `Spec => []AnswersTruthful`, the two together |
| `TypeCorrect` | `Spec => []TypeOK`: in particular no account is overdrawn on either rail |

    GInv == Shape /\ RecordsAgree /\ SentInOrder /\ OkWasSent
            /\ OneTxPerRecord /\ Announced

`RecordsAgree` is inductive with the types alone, because `settle_sol` and `settle_spl`
create both records in one transaction and refuse an id that has either;
`PaidOncePerIntent` is a consequence. `OkIsExactlyOnePayment` needs to know where an OK
comes from: that its leg's transaction was executed with success (`OkWasSent`), that
such a transaction left the record of exactly its leg and is the only one with that
id (`OneTxPerRecord`), and, for a leg that is sent to have no earlier transaction
under the same key, that a handler has sent nothing for the legs ahead of it
(`SentInOrder`). `Announced` adds that a log waiting for the indexer is of a payment on
chain. A late landing, the case a test hardly reaches, is the action `Land`: it
touches `tx` and the chain only, and the proof shows that it can turn at most one
transaction per id to `Ok`.

`TypeCorrect` is not free: a transaction that lands indexes the request it was sent for,
so that leg has to exist still. `InLegs` says that every handler and every transaction
is within the legs that were handed in, and `ChainTypeOK` that both ledgers are natural
numbers, which the verifier's balance checks preserve.

Assumptions: `GatewayAssumption`, `IntentAssumption` (the fields of an intent have their
types and a batch has one to eight legs, as the routes' schemas enforce) and the
verifier's. Whether ids fit a seed is left open.

### X402FlowProofs

For any calls, wallets, prices, limits, gates and clocks, `Spec => []FlowInv`, and

| Theorem | Statement |
|---|---|
| `CallsSafeTheorem` | a call costs at most its `maxAmount`, and at most once |
| `ServedWasPaidTheorem` | a call of `fetchWithPayment` that a verifying gate serves has paid for it, in full, to the payee |
| `PaidProofRefusalsTheorem` | a refusal of a paid proof gives its age, truly, or that a node failed or knows nothing of it |
| `PaidBeforeExpiryTheorem` | no payment takes effect after the expiry it carries |
| `ChainIsAeeronProtocol` | `Spec => Chain!Spec`: every behaviour of the flow is one of the program's |

`CallsSafe` rests on two facts about nonces. A nonce is issued to one call only, so two
calls never share a transaction (`DetailsOf`); and the program has a record of a nonce
exactly when its transaction landed, with the wallet of the call that sent it
(`RecordsAreLandings`). `PhaseOf` gives what each waiting state has behind it: details are
within the limit once approved, nothing was sent before `sent`, and from `proof` on the
transaction has been executed, with success or not. `CheckOf` is what a verification
that stands between its reads may rely on: the first read let only a landed transaction
pass, a transaction that failed never lands later, and a proof that was too old stays
so. With `PhaseOf` this makes what was served landed, which stays true when a request
is delivered twice or a proof is judged long after. Both theorems are about the proofs
this client makes: the verifier compares neither price nor wallet. `ChainIsAeeronProtocol` shows that a landing is a
`direct_pay` with arguments the program's model has (for which it needs `FlowInv`) and
that every other step but the clock's leaves the program's variables alone. Assumption: `FlowAssumption`, of which
`MaxTime + Ttl + Retention <= MaxI64` says that the clock is far from the end of an i64.

### AgentPoolProofs

For any callers, sizes, funds, prices and numbers of calls, checks and drains, `Spec =>
[]PoolInv`, and from it `PoolSafeTheorem`, `NeverPartlyFilledTheorem` and
`BooksBalanceTheorem`.

    PoolInv == Typed /\ Slots /\ PayingMeansInFlight /\ BooksBalance
               /\ Counted /\ DrainsCounted

The hazard of the pool is a slot that is looked up before an `await` and written after
it. `Slots` says what survives: a connection has one slot at most (`OneSlotEach`), and
while a call replaces a connection it found dead, that connection is in the slot
remembered, in the array the pool still has, or nowhere in the pool (`SiteTracked`). A
`drain` that assigns a new array during the wait makes the second case, and the
replacement then writes where nobody looks. `Counted` counts, over all callers at once,
that calls answered plus callers still waiting do not exceed the calls begun, which is why no
call is counted twice; `DrainsCounted` bounds the arrays. `NeverPartlyFilled` and
`BooksBalance` are inductive with the types. Assumption: `PoolAssumption`.

### AgentHealthMonitorProofs

| Theorem | Statement |
|---|---|
| `OfflineMeansTwoInARowTheorem` | an alarm follows two failed probes in a row |
| `AlarmsSafeTheorem` | `OneCycle => (Spec => []AlarmsSafe)`: an outage is announced once at most |
| `TableFollowsProbeTheorem` | `OneCycle => (Spec => TableFollowsProbe)` |

The first holds for any agents and any number of cycles that overlap. Its invariant
`MonitorInv` adds `CountsTrail` to the types: the counter in memory never exceeds
the real run of failures, since a restart clears the one and not the other and an answer
clears both. The other two are for cycles that do not overlap, `OneCycle`, as the
properties' comments say; with overlap both can fail (section 4). `OutageInv` then holds that what the cycle has
found is what the latest probe found and that what it wrote is in the table
(`CycleFresh`), and that an announced outage is still offline in both, so that the previous
status it reads is not online and it stays silent. Failing queries and restarts at any
point are included. Assumption: `MonitorAssumption`.

### GatewayStateProofs

*Stores.* For any budget, prices, headers and lifetime, `StoresInvariance` (`StoresSpec =>
[]StoresInv`), `StoresAreSafe` for `StoresSafe` and `OverIsFinal` for `EndedIsFinal`. Expiry
is lazy, so neither is a fact about the status alone: a record that is still shown as
active may be past its end. `ChargedInTime` follows because `Recorded` expires the
session before it looks at the status; `SessionPhases` ties the answers given to the
session's status, so that one shown as over is not billed or active again. Assumptions:
`StoresAssumption`, `ClockAssumption`.

*Admission.* `AdmissionIsSafe` and `VerdictsAreRecent` for `AdmissionSafe` and
`VerdictIsRecent`, from `AdmissionInv`. That an interval of one window's length admits at
most twice the limit is a statement about all requests there ever were, so
`WindowInv` counts: the bucket counts the requests since its window opened, those it let
through are at most the limit, and so are those let through in the window's length
before it opened. An interval of that length meets two such stretches. Pruning
removes only a bucket whose window is over, and then the second part is kept.
`GateInv` gives every balance the gate has cached, or is about to store, a moment at which
the ledger showed it, whichever of two overlapping lookups stores last; a verdict is
then as old as the cache's life and one answer at most. Assumptions: `AdmissionAssumption`
(positive limit and window, finitely many requests), `ClockAssumption`.

*Intents.* `IntentsAreSafe` and `NothingLate` for `IntentsSafe` and `NothingAfterDeadline`, for
whatever clients send: `Sendable` is any operator. The invariant says that what `build`
returned is signed as it stands and that every record carries the signature of such an
intent (`SignedAs` in `RecordOK`). What an equal signature determines is the lemma
`SignatureCovers`, about equal joins of texts of unknown length: deadline, nonce
and payload stand last and are one piece each, so they are equal (`EndsAgree`); when no
string of the intent that was signed has a '|', its join has twelve pieces, hence so
has the other, whose twelve fields have one at least and so exactly one. Nothing is
assumed of how pieces of strings differ from numbers and rails. Assumptions:
`IntentAssumption`, `ClockAssumption`.

*Webhooks.* `WebhooksAreSafe` and `DuplicatesHaveCause` for `WebhooksSafe` and
`DuplicatesExplained`, for any number of deliveries. `JobOK` counts: the attempts an
endpoint processed and those that may still reach it are at most the attempts given up,
those processed and answered with an error, and one more while the latest may have
succeeded (`Excused`). A second reception thus needs an attempt of the first two kinds. `HookOK` counts the
same for the registry's endpoints, where `owed` is what was published and a post in
flight is still owed. Assumption: `WebhookAssumption`.

### ClientsProofs

*GatewayClient.* `ClientIsSafe` for `ClientSafe`, from `ClientInv`: a poll in flight and the pause
before the next are within their durations of the deadline (`PollInTime`, `PauseInTime`), so that
a wait that timed out found no row until one of each before it (`TimeoutInTime`); and an
answer that says settled was read from the row. Assumption: `ClientAssumption`.

*AgentLinks.* `LinksAreSafe` and `ReconnectsAreBounded` for `LinksSafe` and `ReconnectsBounded`. The
calls over one connection share its status and overwrite each other's; `PayingIsAwaited` says
what they cannot do to it: a connection that shows a payment has a call that waits for
it. `ReachesNamed` follows the loop of `find()` over the names offered, in their order.
The bound on reconnects counts, over all calls at once, the connections made and the
calls that are connecting (`ReconnectsInv`): while the cached connection is good no
handler begins to connect, and for a new round, of one connection per call at most, a
request has to reject. It assumes finitely many tasks. Assumption:
`LinksAssumption`.

*EventFeed.* `FeedIsSafe`, `ReconnectsDoNotMultiply` and `HandledOnceInOrder` for `FeedSafe`,
`OneChainPerConnect` and `InOrderOnce`. That one connect is worth one live socket or timer is
not inductive: the socket that is closing will start a timer when its close arrives. The
invariant therefore counts it as well (`ChainsCounted`), and opening, dropping and
reconnecting each move one unit from one place to another. `EventsOrdered` says that the frames on
one connection are events of the bus in its order, `HandledInOrder` that with one
`connect()` they are all newer than what the application has handled, and `ForgottenIsEmpty` that a socket taken
again brings nothing of its former use. `FlagsOK` ties `closed`, the current socket and the promise of
`connect()`: with one call a promise is
awaited only while the attempt counter is 0, so `onerror` rejects it. Assumption:
`FeedAssumption`; nothing bounds the number of sockets over time.

### LibraryProofs

*FeeSimulator, Vesting.* `SavesCorrect`: for every fee, price and count, a channel saves from the reported
break-even count on and not before; the fee on the payment is the same on both
sides, so what decides is the division in `breakEvenCalls`. It is the first part of `FeesRight`; the
second, the page, is only model-checked.

`ClaimsCorrect`: for every supply, distribution and schedule, claimed and claimable
make up what has vested. It needs that nobody has claimed more than has vested now,
hence that vesting never goes down as time passes: `calculateVested` is shown
monotone over its four cases, rounding included. `AllocationsMet` adds that no bucket
is overdrawn and that once cliff and duration are over all of it is due: what vests
linearly is then a whole share, and a whole share loses nothing to rounding.
`VestingIsRight` is both.

Assumptions: `FeesAssumption`, `VestingAssumption`, `ClockAssumption`.

*ProofOfPayment.* For all payments, agents, amounts, windows and skews, `ProofsSpec => []ProofsInv`, and
from it `ReceiptsAreRight` for `ReceiptsRight` and `LookupsAreRight` for `LookupsRight`
(`ReceiptsTrue`, `PaidTrue` and `RefusalsGrounded` state their main parts), whatever nodes
show or do not show. A settlement never changes once on the ledger, so what a receipt or a
half-finished check has read stays true until it is used; that a receipt which was
changed is refused is the lemma that a signature determines every field it covers.
`ReceiptIsSettlement` takes the HMAC as unforgeable. Assumption: `ProofAssumption`.

### Model-checked and not proved

Liveness: `EveryRequestAnswered`, `DeadIsMarked`, `Reconnects`, `DispatchEnds` and `CallsEnd`
(with its parts). ENABLED and fairness are out of the prover's reach, so these are
shown on the instances of section 4 only. The disagreements of section 5 are
counterexamples and need no proof.

## 7. What is not modelled

Formatting, wording, logging, layout, latencies, HTTP parsing and schema
validation, except where a field that is dropped or a value that is not decoded
changes an outcome. Cryptography: a signature either covers what is verified or
does not. By component:

- *Gateway assembly* (`app.ts`, `server.ts`, logging, request ids), *contract
  bindings* and the *deployment script* have no state of their own or no behaviour. SIGTERM
  is in `EventFeed`.
- *ChannelManager*: `openChannel` and `closeChannel` send transactions that carry no
  program instruction and `getChannel` returns nothing; there is no state change to
  model. Its transfer is `FundVaultDirectly`.
- *Dashboard*: all pages but the fee simulator show mock or fetched data.
- *CLI*: the commands `agent` and `channel` only print. The others are modelled with the
  libraries they call.
- *Accept, payment, proof and channel routes*: quotes, receipts in text, encode and
  decode, the channel lookup and the health report transform or read and
  keep nothing. The header codec is an encoding.
- `verifyBatchIntent` does not recompute the hash over the legs; the model's batches
  carry the legs that were signed, as the clients send them.

Things in the source that a reader of the models will meet:

- `apps/api/src/index.ts` imports `createApp`, `app.ts` exports `app`; several
  modules import `../db` and `../logger`, `middleware/validateQuery` is imported, and the
  service imports `aeeron_verifier_idl.json`; none of them is in the repository. The
  database is modelled from its uses.
- `@aeeron/sdk` exports the gateway's `AeeronClient`, which has no
  `fetchWithPayment`, while `AgentConnection` calls that method; the model takes the
  x402 client, which has it. The index of the protocol package does not export
  `ProofVerifier`, which the CLI imports.
- `ProofVerifier.verify` throws for an id of 36 bytes where its test expects
  `NOT_FOUND`; `OnAsking` does what the code does.
- The branch of `tokenGate` that answers 503 is not reached: a failure of the RPC node
  is turned into a balance of zero before it.
- `agent.offline` is emitted by the monitor and is missing from `EventType` in
  `EventBus.ts`.
- `AgentPool.drain` does not wait for calls in progress, and a connection opened
  into the array it replaced, or overwritten by a second replacement of the same
  slot, keeps its channel open with nobody to close it. `DeadIsGone` and
  `BooksBalance` hold nevertheless; no document promises more.

Running the checks:

    tlc -workers 2 -config MCAeeronProtocol.cfg MCAeeronProtocol.tla
    tlapm AeeronProtocolProofs.tla

and likewise for the other configurations and proof modules. A configuration belongs
to the module of its name, with these exceptions: `MCReceipts.cfg` to
`MCAeeronProtocol`; `MCGatewayNoRequestDropped.cfg` and
`MCGatewayErrorMeansUnpaid.cfg` to `MCGatewaySettlement`;
`MCX402AcceptTakesPaidProof.cfg` to `MCX402Flow`; `MCAgentHealthOverlap.cfg` and
`MCAgentHealthOutageAnnounced.cfg` to `MCAgentHealth`.
