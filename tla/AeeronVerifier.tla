--------------------------- MODULE AeeronVerifier ---------------------------
(***************************************************************************)
(* The on-chain program programs/aeeron-verifier, which the gateway calls  *)
(* to settle an intent in SOL or in an SPL token.  Each settlement writes  *)
(* two accounts derived from the intent id: a NonceRecord created with     *)
(* init_if_needed and a PaymentRecord created with init.                   *)
(*                                                                         *)
(* A call is one transaction: it either has all its effects or reports an  *)
(* error and changes nothing.                                              *)
(***************************************************************************)
EXTENDS Integers

CONSTANTS
  Wallets,     \* system accounts
  TokenOwner,  \* token account -> the wallet that owns it
  IntentIds,   \* 36-byte intent ids
  InitialSol,  \* lamports of every wallet at the start
  InitialTokens\* tokens of every token account at the start

TokenAccounts == DOMAIN TokenOwner

ASSUME VerifierAssumption ==
  /\ TokenOwner \in [DOMAIN TokenOwner -> Wallets]
  /\ InitialSol \in [Wallets -> Nat]
  /\ InitialTokens \in [DOMAIN TokenOwner -> Nat]

VARIABLES
  sol,        \* lamports by wallet
  tokens,     \* token units by token account
  nonceUsed,  \* ids whose NonceRecord exists with used = true
  payment,    \* the existing PaymentRecord accounts, by intent id
  clock,      \* Clock::get()?.unix_timestamp
  transfers   \* history: how many transfers each intent id has caused

chainVars == <<sol, tokens, nonceUsed, payment, clock, transfers>>

PaymentRecord == [payer: Wallets, recipient: Wallets, amount: Nat,
                  rail: {"sol", "spl"}, settledAt: Nat]

ChainTypeOK ==
  /\ sol \in [Wallets -> Nat]
  /\ tokens \in [TokenAccounts -> Nat]
  /\ nonceUsed \subseteq IntentIds
  /\ \E ids \in SUBSET IntentIds : payment \in [ids -> PaymentRecord]
  /\ clock \in Nat
  /\ transfers \in [IntentIds -> Nat]

ChainInit ==
  /\ sol = InitialSol
  /\ tokens = InitialTokens
  /\ nonceUsed = {}
  /\ payment = [id \in {} |-> 0]
  /\ clock = 0
  /\ transfers = [id \in IntentIds |-> 0]

-----------------------------------------------------------------------------
\* What the two handlers and their account constraints answer, in the order
\* in which they are evaluated: the accounts first (the signer, then `init` of
\* the payment record), then the require! lines, then the transfer.  "Ok" is
\* the only answer with an effect.
SettleAnswer(id, signed, amount, deadline, funds) ==
  IF ~signed                   THEN "MissingSignature"
  ELSE IF id \in DOMAIN payment THEN "AccountInUse"
  ELSE IF amount = 0           THEN "ZeroAmount"
  ELSE IF id \in nonceUsed     THEN "NonceAlreadyUsed"
  ELSE IF clock >= deadline    THEN "IntentExpired"
  ELSE IF funds < amount       THEN "InsufficientFunds"
  ELSE "Ok"

SolAnswer(id, signed, payer, amount, deadline) ==
  SettleAnswer(id, signed, amount, deadline, sol[payer])
FaultySplAnswer(id, signed, amount, deadline, from) ==
  SettleAnswer(id, signed, amount, deadline, amount)
SplAnswer(id, signed, amount, deadline, from) ==
  SettleAnswer(id, signed, amount, deadline, tokens[from])

\* The nonce is marked, the record written and the transfer counted together.
FaultyWriteRecords(id, payer, recipient, amount, rail) ==
  /\ UNCHANGED nonceUsed
  /\ payment' = [i \in DOMAIN payment \cup {id} |->
                   IF i = id THEN [payer |-> payer, recipient |-> recipient,
                                   amount |-> amount, rail |-> rail,
                                   settledAt |-> clock]
                             ELSE payment[i]]
  /\ transfers' = [transfers EXCEPT ![id] = @ + 1]
WriteRecords(id, payer, recipient, amount, rail) ==
  /\ nonceUsed' = nonceUsed \cup {id}
  /\ payment' = [i \in DOMAIN payment \cup {id} |->
                   IF i = id THEN [payer |-> payer, recipient |-> recipient,
                                   amount |-> amount, rail |-> rail,
                                   settledAt |-> clock]
                             ELSE payment[i]]
  /\ transfers' = [transfers EXCEPT ![id] = @ + 1]

\* A transfer between two accounts of one kind, possibly the same account.
Moved(funds, from, to, amount) ==
  [x \in DOMAIN funds |-> funds[x] - (IF x = from THEN amount ELSE 0)
                                   + (IF x = to THEN amount ELSE 0)]

SettleSol(id, signed, payer, recipient, amount, deadline) ==
  /\ SolAnswer(id, signed, payer, amount, deadline) = "Ok"
  /\ sol' = Moved(sol, payer, recipient, amount)
  /\ WriteRecords(id, payer, recipient, amount, "sol")
  /\ UNCHANGED <<tokens, clock>>

\* The token program requires that the payer owns the account debited.
SettleSpl(id, signed, payer, recipient, amount, deadline, from, to) ==
  /\ TokenOwner[from] = payer
  /\ SplAnswer(id, signed, amount, deadline, from) = "Ok"
  /\ tokens' = Moved(tokens, from, to, amount)
  /\ WriteRecords(id, payer, recipient, amount, "spl")
  /\ UNCHANGED <<sol, clock>>

=============================================================================
