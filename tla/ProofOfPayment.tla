--------------------------- MODULE ProofOfPayment ---------------------------
(***************************************************************************)
(* How an agent convinces itself that it was paid: the HMAC receipt of     *)
(* packages/protocol/src/verify.ts, ProofVerifier with `aeeron proof       *)
(* verify`, and the gateway's /v1/payments and /v1/proof routes, over a    *)
(* ledger on which payments land while questions are on their way, and     *)
(* nodes that may lag behind it, however far.                              *)
(***************************************************************************)
EXTENDS GatewayClock, Integers, FiniteSets

CONSTANTS Payments,  \* payments, each with its intent id, nonce and transaction
          LongIds,   \* those whose intent id has more than 32 bytes
          Agents,    \* recipients, who verify
          Amounts,
          MinAmount, \* what each agent asks for, 0 where it states no minimum
          MaxAge,    \* maxAgeMs
          Skews      \* an agent's clock minus the gateway's

ASSUME ProofAssumption ==
    /\ LongIds \subseteq Payments /\ Amounts \subseteq Nat \ {0}
    /\ MinAmount \in [Agents -> Nat] /\ MaxAge \in Nat /\ Skews \subseteq Int

VARIABLES ledger,   \* the transaction of every payment
          nonces,   \* payments whose nonce account exists or has existed
          skew,     \* of the agents' clocks
          dev,      \* the gateway runs with NODE_ENV=development
          verdict,  \* the latest result of verifyPaymentProof
          query     \* the question under way, or the latest answer

proofVars == <<ledger, nonces, skew, dev, verdict, query>>

Settlements == [fate : {"ok"}, to : Agents, amount : Amounts, settledAt : Nat]
Unsaid == [answer |-> "none"]
Silent == [kind |-> "none", answer |-> "none"]
Kinds == {"record", "assert", "tx", "verify", "nonce"}
Answers == {"ok", "NOT_FOUND", "DECODE_FAILED", "RPC_ERROR", "mismatch", "insufficient",
            "threw", "confirmed", "failed", "404", "500", "valid", "invalid",
            "used", "unused", "400"}

ProofsTypeOK ==
    /\ ledger \in [Payments -> [fate : {"none", "failed", "other"}] \cup Settlements]
    /\ nonces \subseteq Payments /\ skew \in Skews /\ dev \in BOOLEAN
    /\ verdict.answer \in {"none", "ok", "future", "expired", "insufficient", "invalid"}
    /\ query.kind \in Kinds \cup {"none"}
    /\ query.answer \in Answers \cup {"none", "asked", "half"}

ProofsInit ==
    /\ ledger = [p \in Payments |-> [fate |-> "none"]] /\ nonces = {}
    /\ skew \in Skews /\ dev \in BOOLEAN
    /\ verdict = Unsaid /\ query = Silent

Settled(p) == ledger[p].fate = "ok"
Succeeded(p) == ledger[p].fate \in {"ok", "other"}

\* A settlement lands, or a transaction that fails on chain or that succeeds and
\* pays nobody.
Land(p) ==
    /\ ledger[p].fate = "none" /\ p \notin LongIds
    /\ \/ \E a \in Agents, amount \in Amounts :
             /\ ledger' = [ledger EXCEPT ![p] =
                   [fate |-> "ok", to |-> a, amount |-> amount, settledAt |-> now]]
             /\ nonces' = nonces \cup {p}
       \/ /\ \E fate \in {"failed", "other"} : ledger' = [ledger EXCEPT ![p] = [fate |-> fate]]
          /\ UNCHANGED nonces
    /\ verdict' = Unsaid
    /\ UNCHANGED <<now, skew, dev, query>>

\* register_nonce for a payment that does not land.  A nonce account that was
\* closed stays: a node that lags still shows it.
RegisterNonce(p) ==
    /\ p \notin nonces /\ nonces' = nonces \cup {p}
    /\ verdict' = Unsaid
    /\ UNCHANGED <<now, ledger, skew, dev, query>>

-----------------------------------------------------------------------------
(* The receipt                                                             *)

FaultyCanonical(r) == <<r.tx, r.to, r.mint, r.settledAt, r.nonce>>

\* No field of the gateway's receipts holds the '|' of the join, so equal joins
\* have equal fields.  The payer, which nobody reads, is left out.
canonicalPayload(r) ==
    <<r.tx, r.to, r.amount, IF r.mint = "null" THEN "SOL" ELSE r.mint, r.settledAt, r.nonce>>

Hmac(secret, r) == <<secret, canonicalPayload(r)>>

Fields(p) == [tx |-> p, to |-> ledger[p].to, amount |-> ledger[p].amount, mint |-> "null",
              settledAt |-> ledger[p].settledAt, nonce |-> p]

Signed(r, signature) == [r |-> r, signature |-> signature]

buildPaymentProof(r) == Signed(r, Hmac("gateway", r))

\* What an agent may be shown: a receipt of the gateway, one of which a field
\* or the signature changed on its way, one made with another secret.
Shown(p) ==
    LET good == Fields(p) sig == Hmac("gateway", Fields(p)) IN
    {buildPaymentProof(good), Signed(good, Hmac("other", good)), Signed(good, <<>>)}
        \cup {Signed([good EXCEPT !.amount = x], sig) : x \in Amounts}
        \cup {Signed([good EXCEPT !.to = a], sig) : a \in Agents}
        \cup {Signed([good EXCEPT !.mint = x], sig) : x \in {"SOL", "token"}}
        \cup {Signed([good EXCEPT !.settledAt = t], sig) : t \in 0..MaxTime}
        \cup {Signed([good EXCEPT !.nonce = q], sig) : q \in Payments}

\* verifyPaymentProof, in its order: freshness, amount, HMAC.
verifyPaymentProof(s, a) ==
    LET age == now + skew - s.r.settledAt IN
    IF age < 0 THEN "future"
    ELSE IF age > MaxAge THEN "expired"
    ELSE IF s.r.amount < MinAmount[a] THEN "insufficient"
    ELSE IF s.signature # Hmac("gateway", s.r) THEN "invalid" ELSE "ok"

\* Whether the agent has just accepted this very receipt.
Again(s, a) == verdict.answer = "ok" /\ verdict.shown = s /\ verdict.by = a

Show(p, a) ==
    /\ Settled(p)
    /\ \E s \in Shown(p) :
          verdict' = [answer |-> verifyPaymentProof(s, a), shown |-> s, of |-> p, by |-> a,
                      again |-> Again(s, a)]
    /\ UNCHANGED <<now, ledger, nonces, skew, dev, query>>

-----------------------------------------------------------------------------
(* Questions to the chain, and through the gateway's routes                *)

Say(answer) == query' = [query EXCEPT !.answer = answer]

\* An intent id of more than 32 bytes makes findProgramAddressSync throw,
\* outside the try of ProofVerifier.verify.
OnAsking(kind, p, stale) ==
    IF kind \in {"record", "assert"} /\ p \in LongIds THEN "threw"
    ELSE IF kind # "verify" THEN "asked"
    ELSE IF stale THEN "invalid" ELSE IF dev THEN "valid" ELSE "asked"

\* A proof for /v1/payments/verify names a transaction and a nonce, each any.
Ask(kind, p, a) ==
    /\ query.answer \notin {"asked", "half"}
    /\ \E stale \in BOOLEAN, q \in IF kind = "verify" THEN Payments ELSE {p} :
          query' = [kind |-> kind, of |-> p, nonce |-> q, by |-> a, fate |-> ledger[p].fate,
                    answer |-> OnAsking(kind, p, stale)]
    /\ verdict' = Unsaid
    /\ UNCHANGED <<now, ledger, nonces, skew, dev>>

Failures(kind) ==
    CASE kind \in {"record", "assert"} -> {"RPC_ERROR", "DECODE_FAILED", "NOT_FOUND"}
      [] kind = "tx" -> {"500"}
      [] kind = "verify" -> {"invalid"}
      [] kind = "nonce" -> {"400"}

\* What a node may show: an account or a transaction that exists, or, as it lags
\* behind, none yet.
Sight(exists) == IF exists THEN BOOLEAN ELSE {FALSE}

\* verifyAndAssert, once there is a record.
FaultyAsserted(record, a) == IF record.to # a THEN "mismatch" ELSE "ok"

Asserted(record, a) ==
    IF record.to # a THEN "mismatch"
    ELSE IF record.amount < MinAmount[a] THEN "insufficient" ELSE "ok"

\* ProofVerifier.verify: getAccountInfo, decode.
ReadRecord ==
    \E seen \in Sight(Settled(query.of)) :
        Say(IF ~seen THEN "NOT_FOUND"
            ELSE IF query.kind = "record" THEN "ok" ELSE Asserted(ledger[query.of], query.by))

ReadTx ==
    \E seen \in Sight(ledger[query.of].fate # "none") :
        Say(IF ~seen THEN "404" ELSE IF Succeeded(query.of) THEN "confirmed" ELSE "failed")

\* PaymentVerifier.verify behind /v1/payments/verify: the transaction, whosever
\* it is, then the nonce account, whatever it was for.  The payee and the amount
\* of the request are compared with nothing.
CheckTx == \E seen \in Sight(Succeeded(query.of)) : Say(IF seen THEN "half" ELSE "invalid")

CheckNonce ==
    \E seen \in Sight(query.nonce \in nonces) : Say(IF seen THEN "valid" ELSE "invalid")

ReadNonce == \E seen \in Sight(query.of \in nonces) : Say(IF seen THEN "used" ELSE "unused")

Read ==
    /\ \/ query.answer = "asked" /\ query.kind \in {"record", "assert"} /\ ReadRecord
       \/ query.answer = "asked" /\ query.kind = "tx" /\ ReadTx
       \/ query.answer = "asked" /\ query.kind = "verify" /\ CheckTx
       \/ query.answer = "asked" /\ query.kind = "nonce" /\ ReadNonce
       \/ query.answer = "half" /\ CheckNonce
    /\ UNCHANGED <<now, ledger, nonces, skew, dev, verdict>>

NodeFails ==
    /\ query.answer \in {"asked", "half"}
    /\ \E failure \in Failures(query.kind) : Say(failure)
    /\ UNCHANGED <<now, ledger, nonces, skew, dev, verdict>>

ProofsNext ==
    \/ Tick /\ verdict' = Unsaid /\ UNCHANGED <<ledger, nonces, skew, dev, query>>
    \/ \E p \in Payments :
          \/ Land(p) \/ RegisterNonce(p)
          \/ \E a \in Agents : Show(p, a) \/ \E kind \in Kinds : Ask(kind, p, a)
    \/ Read \/ NodeFails

ProofsSpec == now = 0 /\ ProofsInit /\ [][ProofsNext]_<<now, proofVars>>

-----------------------------------------------------------------------------
(* Properties *)

\* A receipt that verifyPaymentProof accepts tells of a settlement that took
\* place as it says, of the amount asked for, and no longer ago than the window
\* and the difference of the clocks.
ReceiptIsSettlement ==
    verdict.answer = "ok" =>
        LET r == verdict.shown.r settlement == ledger[r.tx] IN
        /\ settlement.fate = "ok" /\ r.nonce = r.tx
        /\ <<settlement.to, settlement.amount, settlement.settledAt>>
              = <<r.to, r.amount, r.settledAt>>
        /\ r.amount >= MinAmount[verdict.by]
        /\ now - settlement.settledAt <= MaxAge - skew

\* The gateway's own receipt for a sufficient payment is refused only where the
\* clocks differ or it is too old.
HonestReceiptAccepted ==
    /\ verdict.answer \notin {"none", "ok"}
    /\ verdict.shown = buildPaymentProof(Fields(verdict.of))
    /\ ledger[verdict.of].amount >= MinAmount[verdict.by]
    => \/ now + skew < ledger[verdict.of].settledAt
       \/ now + skew > ledger[verdict.of].settledAt + MaxAge

\* However far nodes lag: a record is only told of a payment that settled, and by
\* verifyAndAssert only to the recipient, of enough; the routes say "confirmed" and
\* "valid" only of a transaction that succeeded, though not of a payment.
PaidIsPaid ==
    /\ query.answer = "ok" =>
          /\ Settled(query.of)
          /\ query.kind = "assert" => /\ ledger[query.of].to = query.by
                                      /\ ledger[query.of].amount >= MinAmount[query.by]
    /\ query.answer = "confirmed" \/ (query.answer = "valid" /\ ~dev) => Succeeded(query.of)

\* "failed", "mismatch" and "insufficient" are facts of the ledger: a node that
\* lags or fails never makes them up of a payment that is in order.
RefusalHasGround ==
    /\ query.answer = "failed" => ledger[query.of].fate = "failed"
    /\ query.answer = "mismatch" => Settled(query.of) /\ ledger[query.of].to # query.by
    /\ query.answer = "insufficient" =>
          Settled(query.of) /\ ledger[query.of].amount < MinAmount[query.by]

\* verifyPaymentProof accepts true receipts and, of the gateway's own, refuses
\* none without cause.
ReceiptsRight == ReceiptIsSettlement /\ HonestReceiptAccepted

\* What a lookup says of a payment it has seen is true, over a ledger that moves
\* and nodes that lag; "not found" says nothing, see NotFoundWasTrue.
LookupsRight == ProofsTypeOK /\ PaidIsPaid /\ RefusalHasGround

\* ProofVerifier.ts:59: "No PaymentRecord found for intentId", payments.ts:112:
\* "Transaction not found".  Both are also answered of a payment that had settled
\* when the question was asked, by a node that lags.
NotFoundWasTrue == query.answer \in {"NOT_FOUND", "404"} => query.fate # "ok"

\* payments.ts:60: "Verify an x402 payment proof submitted by an agent", and
\* PaymentVerifier.ts:14: "Payment amount matches what the server requested".
\* Nothing of payee, amount and nonce is compared.
ValidMeansPaidAsAsked ==
    query.answer = "valid" /\ ~dev =>
        /\ Settled(query.of) /\ query.nonce = query.of
        /\ ledger[query.of].to = query.by /\ ledger[query.of].amount >= MinAmount[query.by]

\* verify.ts:22: "Aeeron Gateway nonce - prevents proof replay."  The nonce is
\* signed and never looked up: the same receipt is accepted again.
ReceiptSpentOnce == verdict.answer = "ok" => ~verdict.again

\* verify.ts:51: "Agents call this before fulfilling a paid request."  The
\* recipient is not compared: an agent accepts what was paid to another one.
ReceiptIsMine == verdict.answer = "ok" => verdict.shown.r.to = verdict.by

\* routes/proof.ts:39: 400 "Invalid nonce format" answers an RPC failure.
BadNonceMeansMalformed == query.answer # "400"

=============================================================================
