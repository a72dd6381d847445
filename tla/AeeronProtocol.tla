--------------------------- MODULE AeeronProtocol ---------------------------
(***************************************************************************)
(* The on-chain program programs/aeeron-protocol: SOL payment channels     *)
(* between a payer and a payee, the vaults that hold their collateral, the *)
(* nonce registry shared by channel settlements and direct payments, and   *)
(* payment receipts.                                                       *)
(*                                                                         *)
(* One action is one committed transaction.  The Solana runtime serialises *)
(* transactions on the accounts they write and reverts a transaction that  *)
(* fails, so a rejected call is a stuttering step and a guard below is the *)
(* conjunction of the account constraints and the require! lines of a      *)
(* handler.  Rent and transaction fees are left out; a transaction refused *)
(* for want of them is a stuttering step as well.                          *)
(***************************************************************************)
EXTENDS Integers, FiniteSets, Functions

CONSTANTS
  Payers,         \* wallets that open channels and pay directly
  Payees,         \* wallets that are paid; may overlap Payers
  Nonces,         \* the 32-byte payment nonces in use
  Amounts,        \* lamport amounts a caller may ask for, 0 included
  ChannelExpiries,\* expiry arguments of open_channel; 0 is "no expiry"
  ProofExpiries,  \* expiry arguments of payment proofs and register_nonce
  InitialFunds,   \* lamports each wallet starts with
  MaxU64,         \* u64::MAX
  MaxI64,         \* i64::MAX
  Retention,      \* 86_400: how long a nonce record outlives its proof
  OverflowChecks, \* whether the build traps on unchecked overflow
  MaxTime         \* bound on the cluster clock, for model checking

Users == Payers \cup Payees
Pairs == Payers \X Payees

ASSUME AmountsAssumption == Amounts \subseteq 0..MaxU64
ASSUME WidthAssumption == /\ MaxU64 \in Nat
                          /\ MaxI64 \in Nat
                          /\ Retention \in Nat
                          /\ OverflowChecks \in BOOLEAN
ASSUME TimeAssumption == /\ MaxTime \in Nat
                         /\ ChannelExpiries \subseteq Int
                         /\ ProofExpiries \subseteq Int
                         /\ \A e \in ProofExpiries : e <= MaxI64
ASSUME FundsAssumption == InitialFunds \in [Users -> Nat]
ASSUME WalletsAssumption == IsFiniteSet(Payers) /\ IsFiniteSet(Payees)

VARIABLES
  wallet,      \* lamports of every user's account
  vault,       \* lamports of every pair's vault PDA
  channel,     \* the existing PaymentChannel accounts, by (payer, payee)
  nonceRecord, \* the existing NonceRecord accounts, by nonce
  receipts,    \* the nonces whose PaymentReceipt account exists
  now,         \* Clock.unix_timestamp
  stray,       \* history: lamports sent to a vault outside the program
  uses         \* history: how often each nonce paid or was registered

vars == <<wallet, vault, channel, nonceRecord, receipts, now, stray, uses>>

Channel == [balance: 0..MaxU64, settled: 0..MaxU64, sequence: 0..MaxU64,
            expiry: Int, isOpen: BOOLEAN]
NonceRecord == [payer: Users, expiry: Int]

TypeOK ==
  /\ wallet \in [Users -> Nat]
  /\ vault \in [Pairs -> Nat]
  /\ \E live \in SUBSET Pairs : channel \in [live -> Channel]
  /\ \E used \in SUBSET Nonces : nonceRecord \in [used -> NonceRecord]
  /\ receipts \subseteq Nonces
  /\ now \in Nat
  /\ stray \in [Pairs -> Nat]
  /\ uses \in [Nonces -> Nat]

-----------------------------------------------------------------------------
(* Operators of state.rs and of the handlers.  A definition whose name      *)
(* starts with Faulty belongs to no behaviour of Spec: it is a mistake the  *)
(* definition after it could contain, kept to show that a property below    *)
(* notices the difference.                                                  *)

\* available_balance: a saturating subtraction.
Available(ch) == IF ch.settled <= ch.balance THEN ch.balance - ch.settled
                                             ELSE 0

FaultyIsExpired(ch) == ch.expiry > 0 /\ now > ch.expiry + 1

\* is_expired: an expiry of zero or less never expires.
IsExpired(ch) == ch.expiry > 0 /\ now > ch.expiry

\* proof_expiry + 86_400 on i64: the sum wraps, or the build traps.
RetainUntil(proofExpiry) ==
  IF proofExpiry + Retention <= MaxI64
    THEN proofExpiry + Retention
    ELSE proofExpiry + Retention - 2 * (MaxI64 + 1)
RetentionFits(proofExpiry) ==
  OverflowChecks => proofExpiry + Retention <= MaxI64

\* sequence += 1 on u64, likewise.
NextSequence(s) == IF s < MaxU64 THEN s + 1 ELSE 0
SequenceFits(s) == OverflowChecks => s < MaxU64

FaultyFresh(n) == n \in DOMAIN nonceRecord => nonceRecord[n].expiry < now

\* An `init` constraint creates the nonce's record, or the call is refused.
Fresh(n) == n \notin DOMAIN nonceRecord
Record(n, payer, expiry) ==
  /\ nonceRecord' = [m \in DOMAIN nonceRecord \cup {n} |->
                       IF m = n THEN [payer |-> payer, expiry |-> expiry]
                                ELSE nonceRecord[m]]
  /\ uses' = [uses EXCEPT ![n] = @ + 1]

\* system_program::transfer, from a wallet or from a vault the program signs for.
Deposit(c, amount) ==
  /\ wallet[c[1]] >= amount
  /\ wallet' = [wallet EXCEPT ![c[1]] = @ - amount]
  /\ vault' = [vault EXCEPT ![c] = @ + amount]
Withdraw(c, user, amount) ==
  /\ vault[c] >= amount
  /\ vault' = [vault EXCEPT ![c] = @ - amount]
  /\ wallet' = [wallet EXCEPT ![user] = @ + amount]
FaultyMove(from, to, amount) ==
  /\ wallet[from] >= amount
  /\ wallet' = [wallet EXCEPT ![from] = wallet[from] - amount,
                             ![to] = wallet[to] + amount]
Move(from, to, amount) ==
  /\ wallet[from] >= amount
  /\ wallet' = [u \in Users |->
                  wallet[u] - (IF u = from THEN amount ELSE 0)
                            + (IF u = to THEN amount ELSE 0)]

-----------------------------------------------------------------------------
Init ==
  /\ wallet = InitialFunds
  /\ vault = [c \in Pairs |-> 0]
  /\ channel = [c \in {} |-> 0]
  /\ nonceRecord = [n \in {} |-> 0]
  /\ receipts = {}
  /\ now = 0
  /\ stray = [c \in Pairs |-> 0]
  /\ uses = [n \in Nonces |-> 0]

FaultyOpenChannel(c, amount, expiry) ==
  /\ amount > 0
  /\ Deposit(c, amount)
  /\ channel' = [d \in DOMAIN channel \cup {c} |->
                   IF d = c THEN [balance |-> amount, settled |-> 0,
                                  sequence |-> 0, expiry |-> expiry,
                                  isOpen |-> TRUE]
                            ELSE channel[d]]
  /\ UNCHANGED <<nonceRecord, receipts, now, stray, uses>>
OpenChannel(c, amount, expiry) ==
  /\ c \notin DOMAIN channel
  /\ amount > 0
  /\ Deposit(c, amount)
  /\ channel' = [d \in DOMAIN channel \cup {c} |->
                   IF d = c THEN [balance |-> amount, settled |-> 0,
                                  sequence |-> 0, expiry |-> expiry,
                                  isOpen |-> TRUE]
                            ELSE channel[d]]
  /\ UNCHANGED <<nonceRecord, receipts, now, stray, uses>>

FundChannel(c, amount) ==
  /\ c \in DOMAIN channel
  /\ channel[c].isOpen
  /\ amount > 0
  /\ channel[c].balance + amount <= MaxU64
  /\ Deposit(c, amount)
  /\ channel' = [channel EXCEPT ![c].balance = @ + amount]
  /\ UNCHANGED <<nonceRecord, receipts, now, stray, uses>>

SettlePayment(c, amount, n, proofExpiry) ==
  /\ c \in DOMAIN channel
  /\ channel[c].isOpen
  /\ Fresh(n)
  /\ now <= proofExpiry
  /\ ~IsExpired(channel[c])
  /\ Available(channel[c]) >= amount
  /\ amount > 0
  /\ RetentionFits(proofExpiry)
  /\ Record(n, c[1], RetainUntil(proofExpiry))
  /\ channel[c].settled + amount <= MaxU64
  /\ SequenceFits(channel[c].sequence)
  /\ channel' = [channel EXCEPT ![c].settled = @ + amount,
                                ![c].sequence = NextSequence(@)]
  /\ Withdraw(c, c[2], amount)
  /\ UNCHANGED <<receipts, now, stray>>

CloseChannel(c) ==
  /\ c \in DOMAIN channel
  /\ channel[c].isOpen
  /\ Withdraw(c, c[1], Available(channel[c]))
  /\ channel' = [d \in DOMAIN channel \ {c} |-> channel[d]]
  /\ UNCHANGED <<nonceRecord, receipts, now, stray, uses>>

FaultyDirectPay(payer, payee, amount, n, proofExpiry) ==
  /\ Fresh(n)
  /\ amount > 0
  /\ RetentionFits(proofExpiry)
  /\ Record(n, payer, RetainUntil(proofExpiry))
  /\ Move(payer, payee, amount)
  /\ UNCHANGED <<vault, channel, receipts, now, stray>>
DirectPay(payer, payee, amount, n, proofExpiry) ==
  /\ Fresh(n)
  /\ now <= proofExpiry
  /\ amount > 0
  /\ RetentionFits(proofExpiry)
  /\ Record(n, payer, RetainUntil(proofExpiry))
  /\ Move(payer, payee, amount)
  /\ UNCHANGED <<vault, channel, receipts, now, stray>>

RegisterNonce(authority, n, expiry) ==
  /\ Fresh(n)
  /\ expiry > now
  /\ Record(n, authority, expiry)
  /\ UNCHANGED <<wallet, vault, channel, receipts, now, stray>>

\* emit_receipt reads no other account: only its own nonce must be new.
EmitReceipt(n) ==
  /\ n \notin receipts
  /\ receipts' = receipts \cup {n}
  /\ UNCHANGED <<wallet, vault, channel, nonceRecord, now, stray, uses>>

\* A plain system transfer to the vault PDA, which is what the SDK's
\* ChannelManager.fundChannel sends.
FundVaultDirectly(c, amount) ==
  /\ amount > 0
  /\ Deposit(c, amount)
  /\ stray' = [stray EXCEPT ![c] = @ + amount]
  /\ UNCHANGED <<channel, nonceRecord, receipts, now, uses>>

Tick ==
  /\ now < MaxTime
  /\ now' = now + 1
  /\ UNCHANGED <<wallet, vault, channel, nonceRecord, receipts, stray, uses>>

Next ==
  \/ \E c \in Pairs, a \in Amounts, e \in ChannelExpiries : OpenChannel(c, a, e)
  \/ \E c \in Pairs, a \in Amounts : FundChannel(c, a)
  \/ \E c \in Pairs, a \in Amounts, n \in Nonces, e \in ProofExpiries :
       SettlePayment(c, a, n, e)
  \/ \E c \in Pairs : CloseChannel(c)
  \/ \E p \in Payers, q \in Payees, a \in Amounts, n \in Nonces,
        e \in ProofExpiries : DirectPay(p, q, a, n, e)
  \/ \E u \in Users, n \in Nonces, e \in ProofExpiries : RegisterNonce(u, n, e)
  \/ \E n \in Nonces : EmitReceipt(n)
  \/ \E c \in Pairs, a \in Amounts : FundVaultDirectly(c, a)
  \/ Tick

Spec == Init /\ [][Next]_vars

-----------------------------------------------------------------------------
(* Properties.                                                             *)

\* What a pair's vault owes the channel: nothing once the account is deleted.
Owed(c) == IF c \in DOMAIN channel
             THEN channel[c].balance - channel[c].settled ELSE 0

\* `settled + available == balance` (x402-specification.md, section 7): no
\* sequence of opens, top-ups, settlements and closes pays a channel out
\* beyond what was deposited, so available_balance never has to saturate.
SettledWithinBalance ==
  \A c \in DOMAIN channel : channel[c].settled <= channel[c].balance

\* A vault holds to the lamport what its channel still owes plus what was sent
\* to it outside the program, through any number of closes and reopenings of
\* the same PDA: a settlement or refund is never short of funds, and never
\* reaches lamports that are not the channel's.
VaultExact == \A c \in Pairs : vault[c] = Owed(c) + stray[c]

\* The unchecked `sequence += 1` cannot wrap: a settlement moves at least one
\* lamport, so the counter never passes the checked `settled`.
SequenceWithinSettled ==
  \A c \in DOMAIN channel : channel[c].sequence <= channel[c].settled

\* settle_payment, direct_pay and register_nonce share one registry: a nonce
\* is consumed at most once by all three together, across expiries, closed
\* channels and channels opened again for the same pair.
NonceUsedOnce ==
  \A n \in Nonces : uses[n] = IF n \in DOMAIN nonceRecord THEN 1 ELSE 0

\* All of these together, through any order of instructions, failed ones and
\* reopened channels included: no account is overdrawn, no counter wraps, every
\* vault is exact and every nonce single-use.
ChannelsSafe ==
  /\ TypeOK
  /\ SettledWithinBalance
  /\ VaultExact
  /\ SequenceWithinSettled
  /\ NonceUsedOnce

\* No instruction creates or destroys a lamport, transfers to oneself included.
LamportsConserved ==
  SumFunction(wallet) + SumFunction(vault) = SumFunction(InitialFunds)

\* A nonce record is for ever, past its own expiry and its channel's life.
NonceRecordsPermanent ==
  [][\A n \in DOMAIN nonceRecord :
       /\ n \in DOMAIN nonceRecord'
       /\ nonceRecord'[n] = nonceRecord[n]]_vars

\* Lamports leave a vault in two ways only: a settlement of an unexpired
\* channel, which credits the payee, burns one fresh nonce and counts in
\* settled and sequence; or a close, which returns exactly what is unspent to
\* the payer and deletes the channel.
VaultOutflow ==
  [][\A c \in Pairs : vault'[c] < vault[c] =>
       /\ c \in DOMAIN channel
       /\ LET paid == vault[c] - vault'[c]
              ch == channel[c]
          IN \/ /\ c \in DOMAIN channel'
                /\ ch.expiry > 0 => now <= ch.expiry
                /\ channel'[c].settled = ch.settled + paid
                /\ channel'[c].sequence = ch.sequence + 1
                /\ wallet'[c[2]] = wallet[c[2]] + paid
                /\ \E n \in Nonces :
                     DOMAIN nonceRecord' \ DOMAIN nonceRecord = {n}
             \/ /\ c \notin DOMAIN channel'
                /\ paid = ch.balance - ch.settled
                /\ wallet'[c[1]] = wallet[c[1]] + paid
                /\ UNCHANGED nonceRecord]_vars

\* The program keeps the promise of EscrowLedger: a channel account is an
\* escrow of balance - settled, a nonce record is a spent nonce, and the rest
\* of a vault is lost to everybody.
Escrow == INSTANCE EscrowLedger WITH
            escrow <- [c \in Pairs |-> Owed(c)],
            lost <- stray,
            spent <- DOMAIN nonceRecord
ImplementsEscrow == Escrow!Spec

\* "On-chain receipt for a completed payment" (state.rs:69): a receipt's nonce
\* has been consumed.  emit_receipt does not look, so this does not hold.
ReceiptForCompletedPayment == \A n \in receipts : uses[n] > 0

=============================================================================
