------------------------------ MODULE X402Flow ------------------------------
(***************************************************************************)
(* The x402 payment flow of the SDK, end to end: a payer's                 *)
(* AeeronClient.fetchWithPayment meets a 402, pays with direct_pay and asks *)
(* again with a proof; the resource server issues the details and checks   *)
(* the proof, with AeeronMiddleware or by posting it to the gateway's      *)
(* /v1/accept; the program is AeeronProtocol.                              *)
(*                                                                         *)
(* Every `await` of the client and of the verifier is an interleaving      *)
(* point, and so is every message.  Calls that share a wallet compete for  *)
(* its funds.  The proofs are those fetchWithPayment builds.  The verifier *)
(* itself compares no amount, payee, payer or signature: what that leaves  *)
(* open is stated by VerifierMatchesPayment, at the end.                    *)
(***************************************************************************)
EXTENDS Integers, FiniteSets

CONSTANTS
  Calls,        \* calls of fetchWithPayment
  walletOf,     \* call -> the wallet whose keypair the client holds
  maxAmount,    \* call -> the maxAmount option
  Resources,    \* gated routes
  payeeOf,      \* resource -> config.payee
  price,        \* resource -> config.amount
  gate,         \* resource -> who checks proofs: "middleware", a middleware
                \* with skipVerification ("dev"), or the gateway ("accept")
  Nonces,       \* 32-byte random nonces
  InitialFunds, \* lamports of every wallet at the start
  Ttl,          \* config.ttlSeconds
  ProofMaxAge,  \* 600 s, PaymentVerifier's window
  MaxI64, Retention, OverflowChecks, \* see AeeronProtocol
  MaxTime,      \* bound on the clock, for model checking
  MaxDeliveries \* bound on the deliveries of one request, for model checking

Payers == {walletOf[c] : c \in Calls}
Payees == {payeeOf[r] : r \in Resources}
Wallets == Payers \cup Payees

ASSUME FlowAssumption ==
  /\ maxAmount \in [Calls -> Nat]
  /\ price \in [Resources -> Nat \ {0}]
  /\ gate \in [Resources -> {"middleware", "dev", "accept"}]
  /\ InitialFunds \in [Wallets -> Nat]
  /\ {Ttl, ProofMaxAge, MaxI64, Retention, MaxTime, MaxDeliveries} \subseteq Nat
  /\ MaxTime + Ttl + Retention <= MaxI64

VARIABLES
  wallet, vault, channel, nonceRecord, receipts, now, stray, uses, \* the chain
  call,     \* the state of every call
  issued,   \* nonces put into payment details so far
  tx,       \* transactions sent, by nonce: their fate so far
  check,    \* where the verification of every call's proof stands
  served    \* history: the times at which each nonce's proof was let through

Chain == INSTANCE AeeronProtocol WITH
           Amounts <- {price[r] : r \in Resources},
           ChannelExpiries <- {},
           ProofExpiries <- 0..(MaxTime + Ttl),
           MaxU64 <- MaxI64

chainVars == <<wallet, vault, channel, nonceRecord, receipts, now, stray, uses>>
vars == <<chainVars, call, issued, tx, check, served>>

Details == [payee: Payees, amount: Nat, nonce: Nonces, expiry: Nat]
NoDetails == [payee |-> "none"]
Waiting == {"idle", "first", "details", "approved", "sent", "proof", "retried"}
Outcomes == {"ok", "refused", "threw"}
Fates == {"pending", "lost", "failed", "Ok"}

\* The reasons in a 402 "Invalid Payment", and those that may be the RPC node's:
\* it fails, or has not seen what the ledger holds.
Reasons == {"too old", "failed", "not found", "no nonce", "error"}
NodeReasons == {"not found", "no nonce", "error"}
Checks == {"none", "received", "tx", "nonce", "served"} \cup Reasons

TypeOK ==
  /\ Chain!TypeOK
  /\ call \in [Calls -> [pc: Waiting \cup Outcomes, resource: Resources,
                         details: Details \cup {NoDetails}, stamp: Nat]]
  /\ issued \subseteq Nonces
  /\ \E ns \in SUBSET issued : tx \in [ns -> Fates]
  /\ check \in [Calls -> Checks]
  /\ served \in [Nonces -> Nat]

Init ==
  /\ Chain!Init
  /\ call \in [Calls -> [pc: {"idle"}, resource: Resources,
                         details: {NoDetails}, stamp: {0}]]
  /\ issued = {}
  /\ tx = [n \in {} |-> "lost"]
  /\ check = [c \in Calls |-> "none"]
  /\ served = [n \in Nonces |-> 0]

NonceOf(c) == call[c].details.nonce
Go(c, pc) == call' = [call EXCEPT ![c].pc = pc]
SetFate(n, fate) ==
  tx' = [m \in DOMAIN tx \cup {n} |-> IF m = n THEN fate ELSE tx[m]]

-----------------------------------------------------------------------------
(* The client, up to the payment.                                          *)

\* fetch(url): the first request, without a proof.
Fetch(c) ==
  /\ call[c].pc = "idle"
  /\ Go(c, "first")
  /\ UNCHANGED <<chainVars, issued, tx, check, served>>

\* X402Codec.buildPaymentDetails: a nonce never used before, and an expiry.
BuildDetails(r, n) == [payee |-> payeeOf[r], amount |-> price[r],
                       nonce |-> n, expiry |-> now + Ttl]

\* The middleware answers a request without a proof with 402 and details.
Challenge(c) ==
  /\ call[c].pc = "first"
  /\ \E n \in Nonces \ issued :
       /\ issued' = issued \cup {n}
       /\ call' = [call EXCEPT ![c].pc = "details",
                               ![c].details = BuildDetails(call[c].resource, n)]
  /\ UNCHANGED <<chainVars, tx, check, served>>

\* validatePaymentDetails; then onBeforePayment is awaited, for any time.
Agreeable(c) ==
  /\ call[c].details.expiry >= now
  /\ call[c].details.amount <= maxAmount[c]
Validate(c) ==
  /\ call[c].pc = "details"
  /\ Go(c, IF Agreeable(c) THEN "approved" ELSE "threw")
  /\ UNCHANGED <<chainVars, issued, tx, check, served>>

\* What buildDirectPayTransaction builds, run on the chain as it is.
Pays(c) ==
  LET d == call[c].details
  IN Chain!DirectPay(walletOf[c], d.payee, d.amount, d.nonce, d.expiry)
WouldPay(c) ==
  LET d == call[c].details
  IN /\ d.nonce \notin DOMAIN nonceRecord
     /\ now <= d.expiry
     /\ wallet[walletOf[c]] >= d.amount

\* sendRawTransaction simulates the transaction first (skipPreflight: false).
Send(c) ==
  /\ call[c].pc = "approved"
  /\ IF WouldPay(c) THEN SetFate(NonceOf(c), "pending") /\ Go(c, "sent")
                    ELSE UNCHANGED tx /\ Go(c, "threw")
  /\ UNCHANGED <<chainVars, issued, check, served>>

\* confirmTransaction resolves once the transaction has landed; its value.err
\* is not looked at.  The proof is stamped with the time of this moment.
Confirm(c) ==
  /\ call[c].pc = "sent"
  /\ tx[NonceOf(c)] \in {"Ok", "failed"}
  /\ call' = [call EXCEPT ![c].pc = "proof", ![c].stamp = now]
  /\ UNCHANGED <<chainVars, issued, tx, check, served>>

\* onPaymentSettled is awaited, then the request is sent again with the proof.
Retry(c) ==
  /\ call[c].pc = "proof"
  /\ Go(c, "retried")
  /\ check' = [check EXCEPT ![c] = "received"]
  /\ UNCHANGED <<chainVars, issued, tx, served>>

\* An await of fetchWithPayment rejects: a callback throws, the server or the
\* RPC node cannot be reached, the blockhash expired, the signal timed out.
FaultyThrow(c) ==
  /\ call[c].pc \in Waiting \ {"idle"}
  /\ Go(c, IF call[c].pc = "sent" THEN "first" ELSE "threw")
  /\ UNCHANGED <<chainVars, issued, tx, check, served>>
Throw(c) ==
  /\ call[c].pc \in Waiting \ {"idle"}
  /\ Go(c, "threw")
  /\ UNCHANGED <<chainVars, issued, tx, check, served>>

-----------------------------------------------------------------------------
(* The chain and the clock.                                                *)

\* A pending transaction lands, and succeeds or fails on the state it meets.
Land(c) ==
  /\ NonceOf(c) \in DOMAIN tx
  /\ tx[NonceOf(c)] = "pending"
  /\ \/ /\ Pays(c)
        /\ SetFate(NonceOf(c), "Ok")
     \/ /\ ~WouldPay(c)
        /\ SetFate(NonceOf(c), "failed")
        /\ UNCHANGED chainVars
  /\ UNCHANGED <<call, issued, check, served>>
Drop(n) ==
  /\ n \in DOMAIN tx
  /\ tx[n] = "pending"
  /\ SetFate(n, "lost")
  /\ UNCHANGED <<chainVars, call, issued, check, served>>
Tick ==
  /\ Chain!Tick
  /\ UNCHANGED <<call, issued, tx, check, served>>

-----------------------------------------------------------------------------
(* The server.  One delivery of a call's request is verified at a time.    *)

\* The proof of a call: settle() puts in the transaction it sent and the nonce
\* of the details.  A transaction is named by the nonce it registers.
ProofOf(c) == [txHash |-> NonceOf(c), nonce |-> NonceOf(c), timestamp |-> call[c].stamp]

FaultyStale(p) == p.timestamp <= now - ProofMaxAge
Stale(p) == p.timestamp < now - ProofMaxAge

\* PaymentVerifier.verify before it reads the chain.  /v1/accept hands it the
\* decoded proof where it expects the header, and its decoder throws.
FaultyVerdict(r, p) ==
  CASE gate[r] = "accept" -> "error"
    [] gate[r] # "accept" /\ Stale(p) -> "too old"
    [] OTHER -> "served"
Verdict(r, p) ==
  CASE gate[r] = "accept" -> "error"
    [] gate[r] # "accept" /\ Stale(p) -> "too old"
    [] gate[r] = "dev" /\ ~Stale(p) -> "served"
    [] OTHER -> "tx"

\* What getTransaction may lead to: a node that fails or is behind knows no
\* transaction.  The amount, the payee and the payer are not looked at.
TxVerdicts(hash) ==
  {"not found", "error"} \cup
  {IF tx[h] = "Ok" THEN "nonce" ELSE "failed" :
     h \in {h \in DOMAIN tx \cap {hash} : tx[h] \in {"Ok", "failed"}}}

\* What getAccountInfo of the nonce's account may lead to, likewise.
NonceVerdicts(n) ==
  {"no nonce", "error"} \cup {"served" : m \in DOMAIN nonceRecord \cap {n}}

\* The verification goes on to its next read, or ends: next() runs the route or
\* a 402 gives the reason, and a client that still waits has its answer.
Conclude(c, verdict) ==
  /\ check' = [check EXCEPT ![c] = verdict]
  /\ served' = IF verdict = "served" THEN [served EXCEPT ![NonceOf(c)] = @ + 1]
                                     ELSE served
  /\ IF call[c].pc # "retried" \/ verdict \in {"tx", "nonce"}
       THEN UNCHANGED call
       ELSE Go(c, IF verdict = "served" THEN "ok" ELSE "refused")
  /\ UNCHANGED <<chainVars, issued, tx>>

Verify(c) ==
  /\ check[c] = "received"
  /\ Conclude(c, Verdict(call[c].resource, ProofOf(c)))
ReadTx(c) ==
  /\ check[c] = "tx"
  /\ \E verdict \in TxVerdicts(ProofOf(c).txHash) : Conclude(c, verdict)
ReadNonce(c) ==
  /\ check[c] = "nonce"
  /\ \E verdict \in NonceVerdicts(ProofOf(c).nonce) : Conclude(c, verdict)

\* The network delivers a request once more, after its answer.
Redeliver(c) ==
  /\ check[c] \in Reasons \cup {"served"}
  /\ served[NonceOf(c)] < MaxDeliveries
  /\ check' = [check EXCEPT ![c] = "received"]
  /\ UNCHANGED <<chainVars, call, issued, tx, served>>

ClientStep(c) == Validate(c) \/ Send(c) \/ Confirm(c) \/ Retry(c) \/ Throw(c)
ServerStep(c) == Challenge(c) \/ Verify(c) \/ ReadTx(c) \/ ReadNonce(c)

Next ==
  \/ \E c \in Calls : \/ Fetch(c)
                      \/ ClientStep(c)
                      \/ ServerStep(c)
                      \/ Redeliver(c)
                      \/ call[c].details # NoDetails /\ Land(c)
  \/ \E n \in Nonces : Drop(n)
  \/ Tick

Spec == Init /\ [][Next]_vars

-----------------------------------------------------------------------------
(* Properties.                                                             *)

\* The calls that have reached a 402, and the payments that have landed.
Challenged == {c \in Calls : call[c].details # NoDetails}
Landed(n) == n \in DOMAIN tx /\ tx[n] = "Ok"

\* A request of fetchWithPayment that a verifying gate lets through has been
\* paid for by that call, in full and to the payee: its proof carries its own
\* transaction and nonce, and the two reads let neither a payment that failed,
\* one still pending nor one never made pass, however calls race for a wallet's
\* funds, transactions land late, nodes lag and requests are repeated.  It is
\* about these proofs only: the verifier does not compare what was paid.
ServedWasPaid ==
  \A c \in Challenged :
    served[NonceOf(c)] > 0 /\ gate[call[c].resource] # "dev" =>
    /\ Landed(NonceOf(c))
    /\ nonceRecord[NonceOf(c)].payer = walletOf[c]
    /\ call[c].details.amount = price[call[c].resource]
    /\ call[c].details.payee = payeeOf[call[c].resource]

\* The lamports of a call's wallet that may have left for it.
Charge(c) == IF c \in Challenged /\ Landed(NonceOf(c))
               THEN call[c].details.amount ELSE 0

\* A call never costs more than its maxAmount.
WithinMax == \A c \in Calls : Charge(c) <= maxAmount[c]

\* Every payment on chain is the one payment of one call: nothing is paid
\* twice for a call, not even when it throws while its transaction is pending.
OnePaymentPerCall ==
  \A n \in DOMAIN nonceRecord : \E c \in Challenged : n = NonceOf(c)

\* A call costs at most its maxAmount, once, whatever it throws or times out on.
CallsSafe == TypeOK /\ WithinMax /\ OnePaymentPerCall

\* The 402 "Invalid Payment" that a caller who has paid may get is one of the
\* node's reasons, which say that it failed or knows nothing of the payment, or
\* the proof has gone stale: the answers that would be false of a payment on the
\* ledger ("failed on-chain", "too old") are never given, whichever node reads
\* first and whatever lands between the verifier's reads.
PaidProofRefusals ==
  \A c \in Challenged :
    /\ gate[call[c].resource] # "accept"
    /\ check[c] \in Reasons \ NodeReasons
    /\ Landed(NonceOf(c))
    => check[c] = "too old" /\ now > call[c].stamp + ProofMaxAge

\* No lamport leaves a wallet for a call after the details' expiry, however
\* long onBeforePayment or the transaction took.
PaidBeforeExpiry ==
  [][\A c \in Calls : Charge(c) # Charge(c)' => now <= call[c].details.expiry]_vars

-----------------------------------------------------------------------------
(* What comments and documents say, and the code does not do.              *)

\* "Called after payment is confirmed" (sdk/src/types/index.ts:75): when
\* onPaymentSettled runs, the payment has been made.
SettledCallbackMeansPaid ==
  \A c \in Calls : call[c].pc = "proof" => Landed(NonceOf(c))

\* "The `expiry` field is enforced both by the server (timestamp check) and
\* on-chain" (docs/x402-specification.md:198): a proof whose details have
\* expired is not let through.
ServedBeforeExpiry ==
  [][\A c \in Calls : call[c].pc = "retried" /\ call'[c].pc = "ok"
       => now <= call[c].details.expiry]_vars

\* "Nonce has not been used before (on-chain nonce registry)"
\* (sdk/src/server/PaymentVerifier.ts:12): one payment is let through once.
ServedOncePerPayment == \A n \in Nonces : served[n] <= 1

\* "Verify an inbound x402 proof and return a signed receipt"
\* (apps/api/src/routes/accept.ts:13): /v1/accept does not refuse a fresh
\* proof of a payment that landed.
AcceptTakesPaidProof ==
  \A c \in Calls :
    gate[call[c].resource] = "accept" /\ call[c].pc = "refused" =>
      ~Landed(NonceOf(c)) \/ now > call[c].stamp + ProofMaxAge

\* "Payment amount matches what the server requested" and "Proof signature is
\* valid (Ed25519 over canonical message)" (sdk/src/server/PaymentVerifier.ts:14
\* and 11), where the message holds payer, payee, amount and nonce: what the
\* verifier reads of a proof for a resource makes it valid only if its
\* transaction registered its nonce and paid the price to the payee.
VerifierMatchesPayment ==
  \A r \in Resources : \A hash, n \in Nonces :
    /\ gate[r] = "middleware"
    /\ "nonce" \in TxVerdicts(hash) /\ "served" \in NonceVerdicts(n)
    => /\ hash = n
       /\ \E c \in Challenged : /\ NonceOf(c) = n
                               /\ call[c].details.payee = payeeOf[r]
                               /\ call[c].details.amount = price[r]

=============================================================================
