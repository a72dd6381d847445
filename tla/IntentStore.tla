----------------------------- MODULE IntentStore -----------------------------
(***************************************************************************)
(* Payment intents: IntentBuilder (packages/protocol/src/intent.ts) builds *)
(* and signs them, a client posts them to routes/intents.ts as they are or *)
(* changed, once or again, and the store keeps what verifyIntent accepts.  *)
(*                                                                         *)
(* A signature is the key and the text it covers: equal signatures are     *)
(* equal HMACs, and nobody makes one up without the key.  The text is the  *)
(* fields joined by '|', so it is told apart by its pieces between two '|':*)
(* a field that contains none is one piece, and one that does is several.  *)
(***************************************************************************)
EXTENDS GatewayClock, Sequences, FiniteSets

CONSTANTS Ids, Nonces,        \* ids and nonces handed out by randomUUID
          Pieces, Blank,      \* pieces of a text without '|', the empty one
          Version,            \* X402_PROTOCOL_VERSION
          Hashes,             \* SHA-256 of a payload, 64 characters
          Amounts,            \* lamports a client may authorize
          Sol, Spl, Channel,  \* the rails
          Ceiling,            \* the gateway's maxAmountLamports
          Drafts,             \* what clients set before build()
          Tokens, NoToken,    \* session tokens, and a request without the header
          Unset, DefaultTTL,  \* ttl() not called, and its ms = 30_000
          Sendable(_)         \* what a client makes of an intent it was given

VARIABLES built,     \* intents that build() returned
          store,     \* routes/intents.ts: id -> record, NoRecord = absent
          announced  \* payment.settled events emitted, by id

intentVars == <<built, store, announced>>

Rails == {Sol, Spl, Channel}

\* A string field, and the whole of what is signed.
Text == Seq(Pieces) \ {<<>>}
Signed == Seq(Pieces \cup Rails \cup Nat \cup Nonces \cup Hashes)

\* The setters; rail() takes a mint or a channel id as its option.
DraftType == [payer : Text, recipient : Text, agentId : Text, capability : Text,
              payloadHash : Hashes, amount : Amounts, rail : Rails, option : Text,
              ttl : Nat \cup {Unset}]

ASSUME IntentAssumption ==
    /\ NoToken \notin Tokens /\ {Blank, Version} \subseteq Pieces
    /\ Cardinality(Rails) = 3
    /\ Amounts \subseteq Nat /\ {Ceiling, DefaultTTL} \subseteq Nat
    /\ Drafts \subseteq DraftType /\ Unset \notin Nat

NoRecord == [status |-> "none"]

IntentsInit ==
    /\ built = {}
    /\ store = [id \in Ids |-> NoRecord]
    /\ announced = [id \in Ids |-> 0]

-----------------------------------------------------------------------------
(* intent.ts *)

FaultyCanonical(i) ==
    i.version \o i.payer \o i.recipient \o i.agentId \o i.capability
        \o <<i.rail>> \o i.mint \o i.channelId \o <<i.expiresAt, i.nonce, i.payloadHash>>

\* What the HMAC covers: every field but the id, the status and itself.
canonicalIntent(i) ==
    i.version \o i.payer \o i.recipient \o i.agentId \o i.capability
        \o <<i.amount, i.rail>> \o i.mint \o i.channelId
        \o <<i.expiresAt, i.nonce, i.payloadHash>>

signIntent(i, token) == [key |-> token, over |-> canonicalIntent(i)]

\* build(): the mint goes with the spl rail, the channel id with the channel rail,
\* and the deadline with the default.
Fields(d, id, nonce) ==
    [id |-> id, version |-> <<Version>>, payer |-> d.payer, recipient |-> d.recipient,
     agentId |-> d.agentId, capability |-> d.capability, amount |-> d.amount,
     rail |-> d.rail,
     mint |-> IF d.rail = Spl THEN d.option ELSE <<Blank>>,
     channelId |-> IF d.rail = Channel THEN d.option ELSE <<Blank>>,
     expiresAt |-> now + (IF d.ttl = Unset THEN DefaultTTL ELSE d.ttl),
     nonce |-> nonce, payloadHash |-> d.payloadHash]

With(i, signature) ==
    [id |-> i.id, version |-> i.version, payer |-> i.payer, recipient |-> i.recipient,
     agentId |-> i.agentId, capability |-> i.capability, amount |-> i.amount,
     rail |-> i.rail, mint |-> i.mint, channelId |-> i.channelId,
     expiresAt |-> i.expiresAt, nonce |-> i.nonce, payloadHash |-> i.payloadHash,
     signature |-> signature]

\* Ids and nonces are fresh.  A draft with a field missing throws, builds nothing.
Build(d, token) ==
    /\ \E id \in Ids \ {i.id : i \in built}, nonce \in Nonces \ {i.nonce : i \in built} :
          LET i == Fields(d, id, nonce) IN built' = built \cup {With(i, signIntent(i, token))}
    /\ UNCHANGED <<now, store, announced>>

\* verifyIntent, in its order.
verifyIntent(i, token) ==
    IF now > i.expiresAt THEN "intent expired"
    ELSE IF i.amount > Ceiling THEN "intent exceeds allowed maxAmountLamports"
    ELSE IF i.signature # signIntent(i, token) THEN "invalid intent signature"
    ELSE "ok"

-----------------------------------------------------------------------------
(* routes/intents.ts *)

\* The schema of a request.  The lengths it asks of wallets are not modelled;
\* that of payloadHash, the last to be signed, keeps it one piece.
IntentBody ==
    [id : Ids, version : Text, payer : Text, recipient : Text, agentId : Text,
     capability : Text, amount : Nat, rail : Rails, mint : Text, channelId : Text,
     expiresAt : Nat, nonce : Nonces, payloadHash : Hashes,
     signature : [key : Tokens, over : Signed]]

FaultySubmit(i, token) ==
    /\ i \in IntentBody /\ token # NoToken
    /\ announced' = [announced EXCEPT ![i.id] = 1]
    /\ store' = IF verifyIntent(i, token) = "ok"
                THEN [store EXCEPT ![i.id] = [status |-> "authorized", intent |-> i]]
                ELSE store
    /\ UNCHANGED <<now, built>>

\* POST /: the record replaces whatever the id had, and is announced.  The
\* count of announcements is kept to what the properties tell apart.
Submit(i, token) ==
    /\ i \in IntentBody
    /\ token # NoToken
    /\ verifyIntent(i, token) = "ok"
    /\ store' = [store EXCEPT ![i.id] = [status |-> "authorized", intent |-> i]]
    /\ announced' = [announced EXCEPT ![i.id] = IF @ < 2 THEN @ + 1 ELSE @]
    /\ UNCHANGED <<now, built>>

\* DELETE /:id: only a settled record would be kept, and none ever is.
Cancel(id) ==
    /\ store[id] # NoRecord /\ store[id].status # "settled"
    /\ store' = [store EXCEPT ![id].status = "cancelled"]
    /\ UNCHANGED <<now, built, announced>>

\* Whoever has no token has no signature but those of intents built.
SendIntent(i, token) ==
    \E sent \in Sendable(i) : sent.signature = i.signature /\ Submit(sent, token)

IntentsNext ==
    \/ Tick /\ UNCHANGED intentVars
    \/ \E d \in Drafts, token \in Tokens : Build(d, token)
    \/ \E i \in built, token \in Tokens \cup {NoToken} : SendIntent(i, token)
    \/ \E id \in Ids : Cancel(id)

IntentsSpec == now = 0 /\ IntentsInit /\ [][IntentsNext]_<<now, intentVars>>

-----------------------------------------------------------------------------
(* Properties *)

\* Every variable keeps its type; no record exceeds the gateway's ceiling.
IntentsTypeOK ==
    /\ built \subseteq IntentBody
    /\ \A id \in Ids : store[id] # NoRecord =>
          /\ store[id].status \in {"authorized", "cancelled"}
          /\ store[id].intent \in IntentBody
          /\ store[id].intent.id = id /\ store[id].intent.amount <= Ceiling
    /\ announced \in [Ids -> 0..2]

\* No string of the intent contains a '|'.
Plain(i) ==
    \A text \in {i.version, i.payer, i.recipient, i.agentId, i.capability, i.mint,
                  i.channelId} : Len(text) = 1

SameBut(i, b, some) == \A f \in DOMAIN b \ some : i[f] = b[f]

\* Whatever fields a client changes and to whatever, keeps back or sends again:
\* what the store holds carries the signature of an intent that was built, with
\* its deadline, nonce and payload, and is that intent, field by field, when none
\* of its strings contained a '|'; under whatever id it was sent.
AuthorizedWasSigned ==
    \A id \in Ids : store[id] # NoRecord =>
        \E b \in built :
            LET i == store[id].intent IN
            /\ i.signature = b.signature
            /\ i.expiresAt = b.expiresAt /\ i.nonce = b.nonce /\ i.payloadHash = b.payloadHash
            /\ Plain(b) => SameBut(i, b, {"id"})

\* No record is beyond the ceiling or without its signer's consent.
IntentsSafe == IntentsTypeOK /\ AuthorizedWasSigned

\* Nothing is authorized, and no settlement announced, once the deadline its
\* signer set has passed, also when the request gives a later deadline.
NothingAfterDeadline ==
    [][\A id \in Ids :
          (store'[id] # store[id] /\ store'[id].status = "authorized")
              \/ announced'[id] # announced[id] =>
                \E b \in built : /\ store'[id] # NoRecord /\ now <= b.expiresAt
                                 /\ b.signature = store'[id].intent.signature]_<<now, intentVars>>

\* Statements of the sources that do not hold; TLC refutes each.

\* intent.ts:46: "HMAC-SHA256 over canonical fields", so what is authorized has
\* the fields that were signed.  Not so with a '|' in a string: agent "a" with
\* capability "b|c" has the signature of agent "a|b" with capability "c".
SignatureCoversFields ==
    \A id \in Ids : store[id] # NoRecord =>
        \E b \in built : SameBut(store[id].intent, b, {"id"})

\* intent.ts:12: "pending -> authorized -> settled | expired | cancelled", so a
\* cancelled intent stays cancelled.  Not so: the same intent, posted again
\* before its deadline, is authorized and announced again.
CancelledIsFinal ==
    [][\A id \in Ids : store[id].status = "cancelled" => store'[id].status = "cancelled"
      ]_<<now, intentVars>>

=============================================================================
