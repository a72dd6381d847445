------------------------- MODULE GatewaySettlement --------------------------
(***************************************************************************)
(* The gateway's settlement path: POST /api/gateway/pay and /batch, the    *)
(* SettlementService that verifies an intent and sends the transaction,    *)
(* the verifier program (AeeronVerifier) that runs it, and the indexer     *)
(* that hears the program's logs.                                          *)
(*                                                                         *)
(* Every `await` of SettlementService.settle is an interleaving point:     *)
(* other requests run, time passes, and the transaction lands, is refused  *)
(* or is lost whether or not the service still waits for it.               *)
(***************************************************************************)
EXTENDS AeeronVerifier, Sequences, FiniteSets

CONSTANTS
  Gateway,        \* the wallet whose keypair the service signs with
  Requests,       \* HTTP requests, as concurrent handlers
  PayIntents,     \* intents that arrive on /pay
  Batches,        \* sequences of intents that arrive on /batch as legs
  Derivable,      \* ids that fit a PDA seed of 32 bytes (a UUID has 36)
  TicksPerSecond, \* Date.now() ticks per second of the cluster's clock
  MaxTime         \* bound on Date.now(), for model checking

ASSUME GatewayAssumption ==
  /\ Gateway \in Wallets /\ Derivable \subseteq IntentIds
  /\ TicksPerSecond \in Nat \ {0}
  /\ MaxTime \in Nat

VARIABLES
  now,        \* Date.now()
  request,    \* state of every request's handler
  tx,         \* transactions sent, by <<request, leg>>: their fate so far
  bus,        \* events emitted on the EventBus
  subscribed, \* whether the indexer's onLogs subscription is in place
  logs,       \* PaymentSettled logs delivered to the indexer, not processed
  db          \* intent ids with a row in the paymentRecords table

gatewayVars == <<now, request, tx, bus, subscribed, logs, db>>
vars == <<chainVars, gatewayVars>>

Intents == PayIntents \cup UNION {{b[k] : k \in DOMAIN b} : b \in Batches}
\* What the schemas of the two routes let through: a batch has one to eight legs.
ASSUME IntentAssumption ==
  /\ \A i \in Intents : /\ i.id \in IntentIds /\ i.rail \in {"sol", "spl"}
                        /\ i.payer \in Wallets /\ i.recipient \in Wallets
                        /\ i.amount \in Nat /\ i.expiresAt \in Nat
  /\ \A b \in Batches : \E n \in 1..8 : b \in [1..n -> Intents]

Codes == {"OK", "INTENT_INVALID", "NONCE_USED", "INTENT_EXPIRED",
          "ON_CHAIN_FAILED"}
Refusals == {"MissingSignature", "AccountInUse", "ZeroAmount",
             "NonceAlreadyUsed", "IntentExpired", "InsufficientFunds"}
Legs == {<<i>> : i \in PayIntents} \cup Batches

TypeOK ==
  /\ ChainTypeOK
  /\ now \in Nat
  /\ request \in [Requests ->
       [pc: {"idle", "leg", "sent", "done", "dropped"}, route: {"pay", "batch"},
        legs: Legs \cup {<<>>}, answers: Seq(Codes)]]
  /\ \A t \in DOMAIN tx : /\ t \in Requests \X Nat
                          /\ tx[t] \in {"pending", "lost", "Ok"} \cup Refusals
  /\ bus \subseteq [source: {"gateway", "on-chain"},
                    type: {"payment.settled", "payment.failed"},
                    id: IntentIds, request: Requests \cup {"none"}]
  /\ subscribed \in BOOLEAN
  /\ logs \subseteq IntentIds
  /\ db \subseteq IntentIds

Init ==
  /\ ChainInit
  /\ now = 0
  /\ request = [r \in Requests |->
                  [pc |-> "idle", route |-> "pay", legs |-> <<>>,
                   answers |-> <<>>]]
  /\ tx = [t \in {} |-> "lost"]
  /\ bus = {}
  /\ subscribed = FALSE
  /\ logs = {}
  /\ db = {}

-----------------------------------------------------------------------------
(* verifyIntent recomputes the HMAC over the fields it is handed.  /pay's    *)
(* header schema drops protocolVersion and /batch hands every leg the       *)
(* batch's own signature; signedAs says what was signed: "none" the fields  *)
(* without a version, "sdk" the fields with it, "batch" the batch.          *)
SignatureMatches(intent) == intent.signedAs = "none"
Accepted(intent) ==
  /\ now <= intent.expiresAt
  /\ SignatureMatches(intent)

\* The leg a request is working on.
LegOf(r) == Len(request[r].answers) + 1
IntentOf(r) == request[r].legs[LegOf(r)]

\* The handler notes the leg's answer and goes on to the next leg, if any.
Answer(r, code) ==
  request' = [request EXCEPT
    ![r].answers = Append(@, code),
    ![r].pc = IF LegOf(r) = Len(request[r].legs) THEN "done" ELSE "leg"]

Emit(source, type, id, r) ==
  bus' = bus \cup {[source |-> source, type |-> type, id |-> id, request |-> r]}

\* The catch block: a payment.failed event, and a code from the error's text.
Fail(r, error) ==
  /\ Emit("gateway", "payment.failed", IntentOf(r).id, r)
  /\ Answer(r, CASE error = "NonceAlreadyUsed" -> "NONCE_USED"
                 [] error = "IntentExpired"    -> "INTENT_EXPIRED"
                 [] OTHER                      -> "ON_CHAIN_FAILED")

-----------------------------------------------------------------------------
Arrive(r, route, legs, pc) ==
  /\ request[r].pc = "idle"
  /\ request' = [request EXCEPT
       ![r] = [pc |-> pc, route |-> route, legs |-> legs, answers |-> <<>>]]
  /\ UNCHANGED <<chainVars, now, tx, bus, subscribed, logs, db>>

\* /pay hands the parsed header to settle, or answers 402 or 400 at once.
SubmitPay(r) ==
  \/ \E i \in PayIntents : Arrive(r, "pay", <<i>>, "leg")
  \/ Arrive(r, "pay", <<>>, "done")

\* verifyBatchIntent: the expiry and the signature over the batch, which names
\* its legs by a hash that is not computed again.
BatchAccepted(b) == now <= b[1].expiresAt /\ b[1].signedAs = "batch"

SubmitBatch(r) ==
  \E b \in Batches : Arrive(r, "batch", b, IF BatchAccepted(b) THEN "leg" ELSE "done")

\* settle, up to the call of rpc().
RejectLeg(r) ==
  /\ request[r].pc = "leg"
  /\ ~Accepted(IntentOf(r))
  /\ Answer(r, "INTENT_INVALID")
  /\ UNCHANGED <<chainVars, now, tx, bus, subscribed, logs, db>>

\* findProgramAddressSync throws outside the try block: the rejection is
\* nobody's, and ends the process with the requests it was working on.
SeedTooLong(r) ==
  /\ request[r].pc = "leg"
  /\ Accepted(IntentOf(r)) /\ IntentOf(r).id \notin Derivable
  /\ request' = [q \in Requests |->
        IF request[q].pc \in {"leg", "sent"}
          THEN [request[q] EXCEPT !.pc = "dropped"] ELSE request[q]]
  /\ subscribed' = FALSE /\ logs' = {}
  /\ UNCHANGED <<chainVars, now, tx, bus, db>>

SendLeg(r) ==
  /\ request[r].pc = "leg"
  /\ Accepted(IntentOf(r)) /\ IntentOf(r).id \in Derivable
  /\ IntentOf(r).rail = "sol"
  /\ request' = [request EXCEPT ![r].pc = "sent"]
  /\ tx' = [t \in DOMAIN tx \cup {<<r, LegOf(r)>>} |->
              IF t = <<r, LegOf(r)>> THEN "pending" ELSE tx[t]]
  /\ UNCHANGED <<chainVars, now, bus, subscribed, logs, db>>

\* The spl rail throws inside the try block.
FaultyRefuseSpl(r) == FALSE /\ UNCHANGED vars
RefuseSpl(r) ==
  /\ request[r].pc = "leg"
  /\ Accepted(IntentOf(r)) /\ IntentOf(r).id \in Derivable
  /\ IntentOf(r).rail # "sol"
  /\ Fail(r, "spl rail not yet supported")
  /\ UNCHANGED <<chainVars, now, tx, subscribed, logs, db>>

\* rpc() resolves and confirmTransaction finds the transaction confirmed.
FaultyConfirmed(r) ==
  /\ request[r].pc = "sent"
  /\ tx[<<r, LegOf(r)>>] \notin {"pending", "lost"}
  /\ Emit("gateway", "payment.settled", IntentOf(r).id, r)
  /\ Answer(r, "OK")
  /\ UNCHANGED <<chainVars, now, tx, subscribed, logs, db>>
Confirmed(r) ==
  /\ request[r].pc = "sent"
  /\ tx[<<r, LegOf(r)>>] = "Ok"
  /\ Emit("gateway", "payment.settled", IntentOf(r).id, r)
  /\ Answer(r, "OK")
  /\ UNCHANGED <<chainVars, now, tx, subscribed, logs, db>>

\* rpc() rejects with the program's error.
Refused(r) ==
  /\ request[r].pc = "sent"
  /\ tx[<<r, LegOf(r)>>] \in Refusals
  /\ Fail(r, tx[<<r, LegOf(r)>>])
  /\ UNCHANGED <<chainVars, now, tx, subscribed, logs, db>>

\* rpc(), getLatestBlockhash, confirmTransaction or getSignatureStatus throws
\* for a reason of its own (timeout, lost connection), at any moment.
GiveUp(r) ==
  /\ request[r].pc = "sent"
  /\ Fail(r, "timeout")
  /\ UNCHANGED <<chainVars, now, tx, subscribed, logs, db>>

-----------------------------------------------------------------------------
\* The cluster runs a pending transaction.  The service signs as the gateway.
Land(t) ==
  /\ t \in DOMAIN tx
  /\ tx[t] = "pending"
  /\ LET i == request[t[1]].legs[t[2]]
         signed == i.payer = Gateway
         deadline == i.expiresAt \div TicksPerSecond
     IN /\ tx' = [tx EXCEPT ![t] =
                    SolAnswer(i.id, signed, i.payer, i.amount, deadline)]
        /\ \/ /\ SettleSol(i.id, signed, i.payer, i.recipient, i.amount,
                           deadline)
              /\ logs' = IF subscribed THEN logs \cup {i.id} ELSE logs
           \/ /\ tx'[t] # "Ok"
              /\ UNCHANGED <<chainVars, logs>>
  /\ UNCHANGED <<now, request, bus, subscribed, db>>

\* A transaction whose blockhash expires before it lands never will.
Lose(t) ==
  /\ t \in DOMAIN tx
  /\ tx[t] = "pending"
  /\ tx' = [tx EXCEPT ![t] = "lost"]
  /\ UNCHANGED <<chainVars, now, request, bus, subscribed, logs, db>>

\* OnChainIndexer.start, stop and processLogs.  processLogs only emits: no row
\* of paymentRecords is written here or anywhere else.
StartIndexer ==
  /\ ~subscribed
  /\ subscribed' = TRUE
  /\ UNCHANGED <<chainVars, now, request, tx, bus, logs, db>>
StopIndexer ==
  /\ subscribed
  /\ subscribed' = FALSE
  /\ UNCHANGED <<chainVars, now, request, tx, bus, logs, db>>
ProcessLogs(id) ==
  /\ id \in logs
  /\ logs' = logs \ {id}
  /\ Emit("on-chain", "payment.settled", id, "none")
  /\ UNCHANGED <<chainVars, now, request, tx, subscribed, db>>

Tick ==
  /\ now < MaxTime
  /\ now' = now + 1
  /\ clock' = now' \div TicksPerSecond
  /\ UNCHANGED <<sol, tokens, nonceUsed, payment, transfers,
                 request, tx, bus, subscribed, logs, db>>

\* The service cannot settle on the spl rail; a wallet that owns the tokens can
\* call the program itself, with the same intent id.
SettleSplElsewhere(id, payer, recipient, amount, deadline, from, to) ==
  /\ SettleSpl(id, TRUE, payer, recipient, amount, deadline, from, to)
  /\ logs' = IF subscribed THEN logs \cup {id} ELSE logs
  /\ UNCHANGED <<now, request, tx, bus, subscribed, db>>

Handler(r) ==
  RejectLeg(r) \/ SeedTooLong(r) \/ SendLeg(r) \/ RefuseSpl(r)
  \/ Confirmed(r) \/ Refused(r) \/ GiveUp(r)

Next ==
  \/ \E r \in Requests :
       SubmitPay(r) \/ SubmitBatch(r) \/ Handler(r)
  \/ \E t \in DOMAIN tx : Land(t) \/ Lose(t)
  \/ StartIndexer \/ StopIndexer
  \/ \E id \in logs : ProcessLogs(id)
  \/ \E i \in {j \in Intents : j.rail = "spl"}, from, to \in TokenAccounts :
       SettleSplElsewhere(i.id, TokenOwner[from], i.recipient, i.amount,
                          i.expiresAt \div TicksPerSecond, from, to)
  \/ Tick

Spec == Init /\ [][Next]_vars

\* Express runs a handler's continuation when its promise settles, and rpc()
\* always settles: a sent transaction is confirmed, refused or given up on.
\* The subscription, once in place, delivers the logs it was sent.
FairSpec ==
  /\ Spec
  /\ \A r \in Requests : WF_vars(Handler(r))
  /\ \A id \in IntentIds : WF_vars(ProcessLogs(id))

-----------------------------------------------------------------------------
(* Properties.                                                             *)

\* An intent id moves money at most once, whichever rail, request or retry it
\* comes by, and however late its transactions land.
PaidOncePerIntent == \A id \in IntentIds : transfers[id] <= 1

\* The nonce record and the payment record of an id never disagree, so the
\* handler's NonceAlreadyUsed check never decides anything, and an id that has
\* them has moved money exactly once.
RecordsAgree ==
  /\ nonceUsed = DOMAIN payment
  /\ \A id \in IntentIds : transfers[id] = IF id \in nonceUsed THEN 1 ELSE 0

\* The legs a client was told are settled.
OkLegs == {t \in Requests \X (1..8) :
             /\ t[2] <= Len(request[t[1]].answers)
             /\ request[t[1]].answers[t[2]] = "OK"}

\* An OK answer is the truth about that very intent, and no two answers claim
\* the same payment, also when requests for one intent race.
OkIsExactlyOnePayment ==
  /\ \A t \in OkLegs :
       LET i == request[t[1]].legs[t[2]]
       IN /\ i.id \in DOMAIN payment
          /\ payment[i.id].payer = i.payer
          /\ payment[i.id].recipient = i.recipient
          /\ payment[i.id].amount = i.amount
          /\ payment[i.id].rail = i.rail
  /\ \A t, u \in OkLegs :
       request[t[1]].legs[t[2]].id = request[u[1]].legs[u[2]].id => t = u

\* A payment.settled event, from either source, is about a payment on chain.
SettledEventsTruthful ==
  \A e \in bus : e.type = "payment.settled" => e.id \in DOMAIN payment

\* What clients and listeners are told is the truth: an OK, and an event of
\* the service or of the indexer, however late the transaction landed.
AnswersTruthful == OkIsExactlyOnePayment /\ SettledEventsTruthful

\* Every request is answered, whatever becomes of its transactions, unless the
\* process goes down with it.
EveryRequestAnswered ==
  \A r \in Requests : request[r].pc = "leg" ~> request[r].pc \in {"done", "dropped"}

-----------------------------------------------------------------------------
(* What comments and tests say, and the code does not do.                  *)

\* "returns 200 with txSignature or 402/400/500 on failure" (gatewayRouter.ts
\* :34): no request goes unanswered.
NoRequestDropped == \A r \in Requests : request[r].pc # "dropped"

\* The legs answered with an error.
FailedLegs == {t \in Requests \X (1..8) :
                 /\ t[2] <= Len(request[t[1]].answers)
                 /\ request[t[1]].answers[t[2]] # "OK"}

\* "returns 200 with txSignature or 402/400/500 on failure" (gatewayRouter.ts
\* :34): the transaction of a leg answered with an error did not pay, and
\* will not.
ErrorMeansUnpaid ==
  \A t \in FailedLegs \cap DOMAIN tx : tx[t] # "Ok"

\* "Builds a signed intent and submits it to the Gateway for on-chain
\* settlement" (sdk/src/AeeronClient.ts:65): an intent signed by IntentBuilder,
\* which signs its protocolVersion, is refused only once it has expired.
SdkIntentAccepted ==
  \A t \in FailedLegs :
    LET i == request[t[1]].legs[t[2]]
    IN request[t[1]].answers[t[2]] = "INTENT_INVALID" /\ i.signedAs = "sdk"
         => now > i.expiresAt

\* "Accepts a BatchIntent (up to 8 legs) and settles each leg sequentially"
\* (batchRouter.ts:36): no leg of an unexpired batch is called invalid.
BatchLegAccepted ==
  \A t \in FailedLegs :
    /\ request[t[1]].route = "batch"
    /\ request[t[1]].answers[t[2]] = "INTENT_INVALID"
    => now > request[t[1]].legs[t[2]].expiresAt

\* "should have thrown NonceAlreadyUsed" (tests/settle.ts:84): a settlement of
\* an id already paid is refused with that error.
ReplayReportsNonceUsed ==
  \A t \in DOMAIN tx : tx[t] # "AccountInUse"

\* "Idempotency key set by the payer to prevent duplicate execution"
\* (protocol/src/intent.ts:42): two payments never carry the same nonce.
NoncePreventsDuplicates ==
  \A i, j \in PayIntents :
    /\ i.id \in DOMAIN payment /\ j.id \in DOMAIN payment
    /\ i.nonce = j.nonce
    => i.id = j.id

\* "Fetch PaymentRecord from DB (populated by on-chain indexer)"
\* (gatewayRouter.ts:84): a payment the indexer hears of is reported as settled
\* by /status sooner or later.
StatusFollowsIndexer == \A id \in IntentIds : id \in logs ~> id \in db

=============================================================================
