------------------------ MODULE AeeronProtocolProofs ------------------------
(***************************************************************************)
(* Proofs about AeeronProtocol for all payers, payees, nonces, amounts,    *)
(* expiries and integer widths.  ChannelsSafe is the inductive invariant. *)
(***************************************************************************)
EXTENDS AeeronProtocol, FiniteSetTheorems, WellFoundedInduction, TLAPS

\* Both ends of a channel are users.
LEMMA PairUsers == \A c \in Pairs : c[1] \in Users /\ c[2] \in Users
BY DEF Pairs, Users

\* What TypeOK says of the accounts, in the form the steps use.
LEMMA Typing ==
  ASSUME TypeOK
  PROVE  /\ DOMAIN channel \subseteq Pairs
         /\ \A c \in DOMAIN channel : channel[c] \in Channel
         /\ channel \in [DOMAIN channel -> Channel]
         /\ DOMAIN nonceRecord \subseteq Nonces
         /\ nonceRecord \in [DOMAIN nonceRecord -> NonceRecord]
BY DEF TypeOK

\* Giving a fresh nonce its record keeps the registry well formed and counts
\* the use.
LEMMA RecordSound ==
  ASSUME TypeOK, NonceUsedOnce,
         NEW n \in Nonces, NEW payer \in Users, NEW expiry \in Int,
         Fresh(n), Record(n, payer, expiry)
  PROVE  /\ \E used \in SUBSET Nonces : nonceRecord' \in [used -> NonceRecord]
         /\ uses' \in [Nonces -> Nat]
         /\ NonceUsedOnce'
         /\ DOMAIN nonceRecord' = DOMAIN nonceRecord \cup {n}
<1> USE DEF Record, Fresh
<1>1. DOMAIN nonceRecord' = DOMAIN nonceRecord \cup {n}
  OBVIOUS
<1>2. nonceRecord' \in [DOMAIN nonceRecord \cup {n} -> NonceRecord]
  BY Typing DEF NonceRecord
<1>3. DOMAIN nonceRecord \cup {n} \in SUBSET Nonces
  BY Typing
<1>4. uses' \in [Nonces -> Nat]
  BY DEF TypeOK
<1>5. NonceUsedOnce'
  BY <1>1 DEF TypeOK, NonceUsedOnce
<1>6. QED
  BY <1>1, <1>2, <1>3, <1>4, <1>5

\* The record's expiry is an integer whether or not the sum wraps.
LEMMA RetainTyped == ASSUME NEW e \in ProofExpiries PROVE RetainUntil(e) \in Int
BY TimeAssumption, WidthAssumption DEF RetainUntil

-----------------------------------------------------------------------------
LEMMA InitIInv == Init => ChannelsSafe
<1> SUFFICES ASSUME Init PROVE ChannelsSafe
  OBVIOUS
<1>1. TypeOK
  <2>1. channel \in [{} -> Channel]
    BY DEF Init
  <2>2. nonceRecord \in [{} -> NonceRecord]
    BY DEF Init
  <2>3. QED
    BY <2>1, <2>2, FundsAssumption DEF Init, TypeOK
<1>2. SettledWithinBalance /\ SequenceWithinSettled
  BY DEF Init, SettledWithinBalance, SequenceWithinSettled
<1>3. VaultExact
  BY DEF Init, VaultExact, Owed
<1>4. NonceUsedOnce
  BY DEF Init, NonceUsedOnce
<1>5. QED
  BY <1>1, <1>2, <1>3, <1>4 DEF ChannelsSafe

LEMMA OpenIInv ==
  ASSUME ChannelsSafe, NEW c \in Pairs, NEW a \in Amounts, NEW e \in ChannelExpiries,
         OpenChannel(c, a, e)
  PROVE  ChannelsSafe'
<1> USE DEF OpenChannel, Deposit, ChannelsSafe
<1> DEFINE new == [balance |-> a, settled |-> 0, sequence |-> 0,
                   expiry |-> e, isOpen |-> TRUE]
<1>1. a \in Nat /\ a \in 0..MaxU64 /\ e \in Int
  BY AmountsAssumption, TimeAssumption, WidthAssumption
<1>2. new \in Channel
  BY <1>1, WidthAssumption DEF Channel
<1>3. /\ DOMAIN channel' = DOMAIN channel \cup {c}
      /\ channel'[c] = new
      /\ \A d \in DOMAIN channel : channel'[d] = channel[d]
  OBVIOUS
<1>4. channel' \in [DOMAIN channel \cup {c} -> Channel]
  BY <1>2, Typing
<1>5. wallet' \in [Users -> Nat] /\ vault' \in [Pairs -> Nat]
  BY <1>1, PairUsers DEF TypeOK
<1>6. TypeOK'
  BY <1>4, <1>5, Typing DEF TypeOK
<1>7. SettledWithinBalance' /\ SequenceWithinSettled'
  BY <1>1, <1>3 DEF SettledWithinBalance, SequenceWithinSettled
<1>8. VaultExact'
  BY <1>1, <1>3 DEF VaultExact, Owed, TypeOK
<1>9. NonceUsedOnce'
  BY DEF NonceUsedOnce
<1>10. QED
  BY <1>6, <1>7, <1>8, <1>9

LEMMA FundIInv ==
  ASSUME ChannelsSafe, NEW c \in Pairs, NEW a \in Amounts, FundChannel(c, a)
  PROVE  ChannelsSafe'
<1> USE DEF FundChannel, Deposit, ChannelsSafe
<1>1. a \in Nat
  BY AmountsAssumption
<1>2. channel[c] \in Channel
  BY Typing
<1>3. /\ DOMAIN channel' = DOMAIN channel
      /\ channel'[c] = [channel[c] EXCEPT !.balance = @ + a]
      /\ \A d \in DOMAIN channel : d # c => channel'[d] = channel[d]
  OBVIOUS
<1>4. channel'[c] \in Channel
  BY <1>1, <1>2, <1>3, WidthAssumption DEF Channel
<1>5. channel' \in [DOMAIN channel -> Channel]
  BY <1>3, <1>4, Typing
<1>6. wallet' \in [Users -> Nat] /\ vault' \in [Pairs -> Nat]
  BY <1>1, PairUsers DEF TypeOK
<1>7. TypeOK'
  BY <1>5, <1>6, Typing DEF TypeOK
<1>8. /\ channel'[c].balance = channel[c].balance + a
      /\ channel'[c].settled = channel[c].settled
      /\ channel'[c].sequence = channel[c].sequence
      /\ channel[c].balance \in Nat
      /\ channel[c].settled \in Nat
  BY <1>2, <1>3 DEF Channel
<1>9. SettledWithinBalance' /\ SequenceWithinSettled'
  BY <1>1, <1>3, <1>8 DEF SettledWithinBalance, SequenceWithinSettled
<1>10. VaultExact'
  BY <1>1, <1>3, <1>8 DEF VaultExact, Owed, TypeOK
<1>11. NonceUsedOnce'
  BY DEF NonceUsedOnce
<1>12. QED
  BY <1>7, <1>9, <1>10, <1>11

LEMMA SettleIInv ==
  ASSUME ChannelsSafe, NEW c \in Pairs, NEW a \in Amounts, NEW n \in Nonces,
         NEW e \in ProofExpiries, SettlePayment(c, a, n, e)
  PROVE  ChannelsSafe'
<1> USE DEF SettlePayment, Withdraw, ChannelsSafe
<1>1. a \in Nat /\ a > 0
  BY AmountsAssumption
<1>2. channel[c] \in Channel
  BY Typing
<1>3. /\ channel[c].balance \in 0..MaxU64
      /\ channel[c].settled \in 0..MaxU64
      /\ channel[c].sequence \in 0..MaxU64
      /\ channel[c].settled <= channel[c].balance
      /\ channel[c].sequence <= channel[c].settled
  BY <1>2 DEF Channel, SettledWithinBalance, SequenceWithinSettled
<1>4. channel[c].settled + a <= channel[c].balance
  BY <1>1, <1>3, WidthAssumption DEF Available
<1>5. /\ NextSequence(channel[c].sequence) = channel[c].sequence + 1
      /\ channel[c].sequence + 1 <= channel[c].settled + a
      /\ channel[c].sequence + 1 <= MaxU64
  BY <1>1, <1>3, <1>4, WidthAssumption DEF NextSequence
<1>6. /\ DOMAIN channel' = DOMAIN channel
      /\ channel'[c] = [channel[c] EXCEPT !.settled = @ + a,
                                          !.sequence = NextSequence(@)]
      /\ \A d \in DOMAIN channel : d # c => channel'[d] = channel[d]
  OBVIOUS
<1>7. /\ channel'[c].balance = channel[c].balance
      /\ channel'[c].settled = channel[c].settled + a
      /\ channel'[c].sequence = channel[c].sequence + 1
  BY <1>2, <1>5, <1>6 DEF Channel
<1>8. channel'[c] \in Channel
  BY <1>1, <1>2, <1>3, <1>5, <1>6, WidthAssumption DEF Channel
<1>9. channel' \in [DOMAIN channel -> Channel]
  BY <1>6, <1>8, Typing
<1>10. wallet' \in [Users -> Nat] /\ vault' \in [Pairs -> Nat]
  BY <1>1, PairUsers DEF TypeOK
<1>11. /\ \E used \in SUBSET Nonces : nonceRecord' \in [used -> NonceRecord]
       /\ uses' \in [Nonces -> Nat]
       /\ NonceUsedOnce'
  BY RecordSound, RetainTyped, PairUsers
<1>12. TypeOK'
  BY <1>9, <1>10, <1>11, Typing DEF TypeOK
<1>13. SettledWithinBalance' /\ SequenceWithinSettled'
  BY <1>4, <1>5, <1>6, <1>7 DEF SettledWithinBalance, SequenceWithinSettled
<1>14. VaultExact'
  BY <1>1, <1>3, <1>4, <1>6, <1>7 DEF VaultExact, Owed, TypeOK
<1>15. QED
  BY <1>11, <1>12, <1>13, <1>14

LEMMA CloseIInv ==
  ASSUME ChannelsSafe, NEW c \in Pairs, CloseChannel(c)
  PROVE  ChannelsSafe'
<1> USE DEF CloseChannel, Withdraw, ChannelsSafe
<1>1. channel[c] \in Channel
  BY Typing
<1>2. /\ Available(channel[c]) = channel[c].balance - channel[c].settled
      /\ Available(channel[c]) \in Nat
      /\ channel[c].balance \in Nat
      /\ channel[c].settled \in Nat
  BY <1>1, WidthAssumption DEF Channel, SettledWithinBalance, Available
<1>3. /\ DOMAIN channel' = DOMAIN channel \ {c}
      /\ \A d \in DOMAIN channel : d # c => channel'[d] = channel[d]
  OBVIOUS
<1>4. channel' \in [DOMAIN channel \ {c} -> Channel]
  BY Typing
<1>5. wallet' \in [Users -> Nat] /\ vault' \in [Pairs -> Nat]
  BY <1>2, PairUsers DEF TypeOK
<1>6. TypeOK'
  BY <1>4, <1>5, Typing DEF TypeOK
<1>7. SettledWithinBalance' /\ SequenceWithinSettled'
  BY <1>3 DEF SettledWithinBalance, SequenceWithinSettled
<1>8. VaultExact'
  BY <1>2, <1>3 DEF VaultExact, Owed, TypeOK
<1>9. NonceUsedOnce'
  BY DEF NonceUsedOnce
<1>10. QED
  BY <1>6, <1>7, <1>8, <1>9

LEMMA DirectPayIInv ==
  ASSUME ChannelsSafe, NEW p \in Payers, NEW q \in Payees, NEW a \in Amounts,
         NEW n \in Nonces, NEW e \in ProofExpiries, DirectPay(p, q, a, n, e)
  PROVE  ChannelsSafe'
<1> USE DEF DirectPay, Move, ChannelsSafe
<1>1. a \in Nat /\ p \in Users /\ q \in Users
  BY AmountsAssumption DEF Users
<1>2. wallet' \in [Users -> Nat]
  BY <1>1 DEF TypeOK
<1>3. /\ \E used \in SUBSET Nonces : nonceRecord' \in [used -> NonceRecord]
      /\ uses' \in [Nonces -> Nat]
      /\ NonceUsedOnce'
  BY <1>1, RecordSound, RetainTyped
<1>4. TypeOK'
  BY <1>2, <1>3 DEF TypeOK
<1>5. SettledWithinBalance' /\ SequenceWithinSettled' /\ VaultExact'
  BY DEF SettledWithinBalance, SequenceWithinSettled, VaultExact, Owed
<1>6. QED
  BY <1>3, <1>4, <1>5

LEMMA RegisterIInv ==
  ASSUME ChannelsSafe, NEW u \in Users, NEW n \in Nonces, NEW e \in ProofExpiries,
         RegisterNonce(u, n, e)
  PROVE  ChannelsSafe'
<1> USE DEF RegisterNonce, ChannelsSafe
<1>1. e \in Int
  BY TimeAssumption
<1>2. /\ \E used \in SUBSET Nonces : nonceRecord' \in [used -> NonceRecord]
      /\ uses' \in [Nonces -> Nat]
      /\ NonceUsedOnce'
  BY <1>1, RecordSound
<1>3. TypeOK'
  BY <1>2 DEF TypeOK
<1>4. SettledWithinBalance' /\ SequenceWithinSettled' /\ VaultExact'
  BY DEF SettledWithinBalance, SequenceWithinSettled, VaultExact, Owed
<1>5. QED
  BY <1>2, <1>3, <1>4

LEMMA FundVaultIInv ==
  ASSUME ChannelsSafe, NEW c \in Pairs, NEW a \in Amounts, FundVaultDirectly(c, a)
  PROVE  ChannelsSafe'
<1> USE DEF FundVaultDirectly, Deposit, ChannelsSafe
<1>1. a \in Nat
  BY AmountsAssumption
<1>2. TypeOK'
  BY <1>1, PairUsers DEF TypeOK
<1>3. VaultExact'
  <2>1. \A d \in Pairs : Owed(d)' = Owed(d)
    BY DEF Owed
  <2>2. \A d \in Pairs : Owed(d) \in Int
    BY Typing DEF Owed, Channel
  <2>3. QED
    BY <1>1, <2>1, <2>2 DEF VaultExact, TypeOK
<1>4. SettledWithinBalance' /\ SequenceWithinSettled' /\ NonceUsedOnce'
  BY DEF SettledWithinBalance, SequenceWithinSettled, NonceUsedOnce
<1>5. QED
  BY <1>2, <1>3, <1>4

\* The steps that touch neither lamports, channels nor the registry.
LEMMA QuietIInv ==
  ASSUME ChannelsSafe,
         UNCHANGED <<wallet, vault, channel, nonceRecord, stray, uses>>,
         receipts' \subseteq Nonces, now' \in Nat
  PROVE  ChannelsSafe'
BY DEF ChannelsSafe, TypeOK, SettledWithinBalance, VaultExact, Owed,
       SequenceWithinSettled, NonceUsedOnce

LEMMA NextIInv == ChannelsSafe /\ [Next]_vars => ChannelsSafe'
<1> SUFFICES ASSUME ChannelsSafe, [Next]_vars PROVE ChannelsSafe'
  OBVIOUS
<1>1. ASSUME NEW n \in Nonces, EmitReceipt(n) PROVE ChannelsSafe'
  BY <1>1, QuietIInv DEF EmitReceipt, ChannelsSafe, TypeOK
<1>2. CASE Tick
  BY <1>2, QuietIInv DEF Tick, ChannelsSafe, TypeOK
<1>3. CASE UNCHANGED vars
  BY <1>3, QuietIInv DEF vars, ChannelsSafe, TypeOK
<1>4. QED
  BY <1>1, <1>2, <1>3, OpenIInv, FundIInv, SettleIInv, CloseIInv,
     DirectPayIInv, RegisterIInv, FundVaultIInv DEF Next

\* The inductive invariant holds throughout.
THEOREM Invariance == Spec => []ChannelsSafe
BY InitIInv, NextIInv, PTL DEF Spec

-----------------------------------------------------------------------------
\* Every account, wallet and counter keeps its type and its width.
THEOREM TypeCorrect == Spec => []TypeOK
BY Invariance, PTL DEF ChannelsSafe

\* settled + available = balance, always (x402-specification.md, section 7).
THEOREM SettledNeverExceedsBalance == Spec => []SettledWithinBalance
BY Invariance, PTL DEF ChannelsSafe

\* A vault always covers its channel exactly, whatever was sent to it besides.
THEOREM VaultCoversChannel == Spec => []VaultExact
BY Invariance, PTL DEF ChannelsSafe

\* The unchecked sequence counter never wraps, whether or not the build traps.
THEOREM SequenceNeverWraps == Spec => []SequenceWithinSettled
BY Invariance, PTL DEF ChannelsSafe

\* A nonce is consumed at most once by settlements, direct payments and
\* registrations together.
THEOREM NonceSpentOnce == Spec => []NonceUsedOnce
BY Invariance, PTL DEF ChannelsSafe

-----------------------------------------------------------------------------
\* No step removes or rewrites a nonce record.
THEOREM RegistryPermanent == Spec => NonceRecordsPermanent
<1> DEFINE Kept == \A n \in DOMAIN nonceRecord :
                     /\ n \in DOMAIN nonceRecord'
                     /\ nonceRecord'[n] = nonceRecord[n]
<1>1. ASSUME NEW n \in Nonces, NEW u, NEW e, Fresh(n), Record(n, u, e)
      PROVE  Kept
  BY <1>1 DEF Fresh, Record
<1>2. ASSUME UNCHANGED nonceRecord PROVE Kept
  BY <1>2
<1>3. ASSUME NEW c \in Pairs, NEW a \in Amounts, NEW n \in Nonces,
             NEW e \in ProofExpiries, SettlePayment(c, a, n, e)
      PROVE  Kept
  BY <1>1, <1>3 DEF SettlePayment
<1>4. ASSUME NEW p \in Payers, NEW q \in Payees, NEW a \in Amounts,
             NEW n \in Nonces, NEW e \in ProofExpiries,
             DirectPay(p, q, a, n, e)
      PROVE  Kept
  BY <1>1, <1>4 DEF DirectPay
<1>5. ASSUME NEW u \in Users, NEW n \in Nonces, NEW e \in ProofExpiries,
             RegisterNonce(u, n, e)
      PROVE  Kept
  BY <1>1, <1>5 DEF RegisterNonce
<1>6. [Next]_vars => Kept
  BY <1>2, <1>3, <1>4, <1>5 DEF Next, vars, OpenChannel, FundChannel,
     CloseChannel, EmitReceipt, FundVaultDirectly, Tick
<1>7. [Next]_vars => [Kept]_vars
  BY <1>6
<1>8. QED
  BY <1>7, PTL DEF Spec, NonceRecordsPermanent

-----------------------------------------------------------------------------
(* Lamports leave a vault only by a settlement or a close.                 *)

\* The body of VaultOutflow, for one pair.
Outflow(c) ==
  vault'[c] < vault[c] =>
    /\ c \in DOMAIN channel
    /\ LET paid == vault[c] - vault'[c]
           ch == channel[c]
       IN \/ /\ c \in DOMAIN channel'
             /\ ch.expiry > 0 => now <= ch.expiry
             /\ channel'[c].settled = ch.settled + paid
             /\ channel'[c].sequence = ch.sequence + 1
             /\ wallet'[c[2]] = wallet[c[2]] + paid
             /\ \E n \in Nonces :
                  DOMAIN nonceRecord' \ DOMAIN nonceRecord = {n}
          \/ /\ c \notin DOMAIN channel'
             /\ paid = ch.balance - ch.settled
             /\ wallet'[c[1]] = wallet[c[1]] + paid
             /\ UNCHANGED nonceRecord

LEMMA DepositNoOutflow ==
  ASSUME TypeOK, NEW d \in Pairs, NEW a \in Amounts, Deposit(d, a),
         NEW c \in Pairs
  PROVE  ~(vault'[c] < vault[c])
BY AmountsAssumption DEF TypeOK, Deposit

LEMMA SettleOutflow ==
  ASSUME ChannelsSafe, NEW d \in Pairs, NEW a \in Amounts, NEW n \in Nonces,
         NEW e \in ProofExpiries, SettlePayment(d, a, n, e), NEW c \in Pairs
  PROVE  Outflow(c)
<1> SUFFICES ASSUME vault'[c] < vault[c] PROVE Outflow(c)
  BY DEF Outflow
<1> USE DEF SettlePayment, Withdraw, ChannelsSafe
<1>1. a \in Nat
  BY AmountsAssumption
<1>2. c = d
  BY <1>1 DEF TypeOK
<1>3. vault[c] - vault'[c] = a
  BY <1>1, <1>2 DEF TypeOK
<1>4. /\ channel[c] \in Channel
      /\ channel[c].sequence <= channel[c].settled
      /\ channel[c].settled <= channel[c].balance
  BY <1>2, Typing DEF SequenceWithinSettled, SettledWithinBalance
<1>5. channel[c].sequence < MaxU64
  BY <1>1, <1>2, <1>4, WidthAssumption DEF Channel, Available
<1>6. /\ c \in DOMAIN channel /\ c \in DOMAIN channel'
      /\ channel'[c].settled = channel[c].settled + a
      /\ channel'[c].sequence = channel[c].sequence + 1
  BY <1>2, <1>4, <1>5 DEF Channel, NextSequence
<1>7. channel[c].expiry > 0 => now <= channel[c].expiry
  BY <1>2, <1>4 DEF IsExpired, Channel, TypeOK
<1>8. wallet'[c[2]] = wallet[c[2]] + a
  BY <1>2, PairUsers DEF TypeOK
<1>9. DOMAIN nonceRecord' \ DOMAIN nonceRecord = {n}
  BY DEF Record, Fresh
<1>10. QED
  BY <1>3, <1>6, <1>7, <1>8, <1>9 DEF Outflow

LEMMA CloseOutflow ==
  ASSUME ChannelsSafe, NEW d \in Pairs, CloseChannel(d), NEW c \in Pairs
  PROVE  Outflow(c)
<1> SUFFICES ASSUME vault'[c] < vault[c] PROVE Outflow(c)
  BY DEF Outflow
<1> USE DEF CloseChannel, Withdraw, ChannelsSafe
<1>1. c = d
  BY DEF TypeOK
<1>2. /\ Available(channel[c]) = channel[c].balance - channel[c].settled
      /\ Available(channel[c]) \in Nat
  BY <1>1, Typing, WidthAssumption
  DEF Channel, SettledWithinBalance, Available
<1>3. /\ vault[c] - vault'[c] = Available(channel[c])
      /\ wallet'[c[1]] = wallet[c[1]] + Available(channel[c])
  BY <1>1, <1>2, PairUsers DEF TypeOK
<1>4. c \in DOMAIN channel /\ c \notin DOMAIN channel'
  BY <1>1
<1>5. QED
  BY <1>2, <1>3, <1>4 DEF Outflow

\* Lamports leave a vault by a settlement of an unexpired channel or by a
\* close that returns the whole remainder, and in no other way.
THEOREM VaultOutflowTheorem == Spec => VaultOutflow
<1>1. ASSUME ChannelsSafe, [Next]_vars, NEW c \in Pairs PROVE Outflow(c)
  <2>1. ASSUME UNCHANGED vault PROVE Outflow(c)
    BY <1>1, <2>1 DEF Outflow, ChannelsSafe, TypeOK
  <2>2. ASSUME NEW d \in Pairs, NEW a \in Amounts, Deposit(d, a)
        PROVE  Outflow(c)
    BY <1>1, <2>2, DepositNoOutflow DEF Outflow, ChannelsSafe
  <2>3. QED
    BY <1>1, <2>1, <2>2, SettleOutflow, CloseOutflow
    DEF Next, vars, OpenChannel, FundChannel, DirectPay, RegisterNonce,
        EmitReceipt, FundVaultDirectly, Tick
<1>2. ChannelsSafe /\ [Next]_vars => [\A c \in Pairs : Outflow(c)]_vars
  BY <1>1
<1>3. QED
  BY <1>2, Invariance, PTL DEF Spec, VaultOutflow, Outflow

-----------------------------------------------------------------------------
(* AeeronProtocol implements EscrowLedger.                                 *)

\* Owed is a natural number, and is the available balance of a live channel.
LEMMA OwedTyped ==
  ASSUME ChannelsSafe
  PROVE  /\ \A c \in Pairs : Owed(c) \in Nat
         /\ \A c \in DOMAIN channel : Available(channel[c]) = Owed(c)
BY Typing, WidthAssumption
DEF ChannelsSafe, Channel, SettledWithinBalance, Available, Owed

\* A step that changes one pair's escrow changes the mapped function there.
LEMMA OwedUpdate ==
  ASSUME NEW c \in Pairs, NEW x,
         Owed(c)' = x, \A d \in Pairs : d # c => Owed(d)' = Owed(d)
  PROVE  [d \in Pairs |-> Owed(d)]' = [[d \in Pairs |-> Owed(d)] EXCEPT ![c] = x]
OBVIOUS

\* A step that leaves the channels alone leaves the mapped function alone.
LEMMA OwedSame ==
  ASSUME UNCHANGED channel
  PROVE  UNCHANGED [d \in Pairs |-> Owed(d)]
BY DEF Owed

LEMMA OpenMapped ==
  ASSUME ChannelsSafe, NEW c \in Pairs, NEW a \in Amounts, NEW e \in ChannelExpiries,
         OpenChannel(c, a, e)
  PROVE  Escrow!Next
<1> USE DEF OpenChannel, Deposit, ChannelsSafe
<1>1. a \in 1..wallet[c[1]]
  BY AmountsAssumption, PairUsers DEF TypeOK
<1>2. Owed(c) = 0 /\ Owed(c)' = a
  <2>1. /\ DOMAIN channel' = DOMAIN channel \cup {c}
        /\ channel'[c].balance = a /\ channel'[c].settled = 0
    OBVIOUS
  <2>2. a - 0 = a
    BY <1>1
  <2>3. QED
    BY <2>1, <2>2 DEF Owed
<1>3. \A d \in Pairs : d # c => Owed(d)' = Owed(d)
  BY DEF Owed
<1>4. [d \in Pairs |-> Owed(d)]' = [[d \in Pairs |-> Owed(d)] EXCEPT ![c] = @ + a]
  BY <1>1, <1>2, <1>3, OwedUpdate
<1>5. Escrow!Deposit(c, a)
  BY <1>1, <1>4 DEF Escrow!Deposit
<1>6. QED
  BY <1>1, <1>5 DEF Escrow!Next, Escrow!Pairs, Pairs

LEMMA FundMapped ==
  ASSUME ChannelsSafe, NEW c \in Pairs, NEW a \in Amounts, FundChannel(c, a)
  PROVE  Escrow!Next
<1> USE DEF FundChannel, Deposit, ChannelsSafe
<1>1. a \in 1..wallet[c[1]]
  BY AmountsAssumption, PairUsers DEF TypeOK
<1>2. Owed(c)' = Owed(c) + a
  BY <1>1, Typing DEF Owed, Channel
<1>3. \A d \in Pairs : d # c => Owed(d)' = Owed(d)
  BY DEF Owed
<1>4. [d \in Pairs |-> Owed(d)]' = [[d \in Pairs |-> Owed(d)] EXCEPT ![c] = @ + a]
  BY <1>2, <1>3, OwedUpdate
<1>5. Escrow!Deposit(c, a)
  BY <1>1, <1>4 DEF Escrow!Deposit
<1>6. QED
  BY <1>1, <1>5 DEF Escrow!Next, Escrow!Pairs, Pairs

LEMMA SettleMapped ==
  ASSUME ChannelsSafe, NEW c \in Pairs, NEW a \in Amounts, NEW n \in Nonces,
         NEW e \in ProofExpiries, SettlePayment(c, a, n, e)
  PROVE  Escrow!Next
<1> USE DEF SettlePayment, Withdraw, ChannelsSafe
<1>1. a \in 1..Owed(c)
  BY AmountsAssumption, OwedTyped
<1>2. Owed(c)' = Owed(c) - a
  BY <1>1, Typing DEF Owed, Channel
<1>3. \A d \in Pairs : d # c => Owed(d)' = Owed(d)
  BY DEF Owed
<1>4. [d \in Pairs |-> Owed(d)]' = [[d \in Pairs |-> Owed(d)] EXCEPT ![c] = @ - a]
  BY <1>2, <1>3, OwedUpdate
<1>5. n \notin DOMAIN nonceRecord
      /\ DOMAIN nonceRecord' = DOMAIN nonceRecord \cup {n}
  BY DEF Record, Fresh
<1>6. Escrow!Claim(c, a, n)
  BY <1>1, <1>4, <1>5 DEF Escrow!Claim
<1>7. QED
  <2>1. [d \in Pairs |-> Owed(d)][c] = Owed(c)
    OBVIOUS
  <2>2. QED
    BY <1>1, <1>6, <2>1 DEF Escrow!Next, Escrow!Pairs, Pairs

LEMMA CloseMapped ==
  ASSUME ChannelsSafe, NEW c \in Pairs, CloseChannel(c)
  PROVE  Escrow!Next
<1> USE DEF CloseChannel, Withdraw, ChannelsSafe
<1>1. Available(channel[c]) = Owed(c)
  BY OwedTyped
<1>2. Owed(c)' = 0 /\ \A d \in Pairs : d # c => Owed(d)' = Owed(d)
  BY DEF Owed
<1>3. [d \in Pairs |-> Owed(d)]' = [[d \in Pairs |-> Owed(d)] EXCEPT ![c] = 0]
  BY <1>2, OwedUpdate
<1>4. Escrow!Refund(c)
  BY <1>1, <1>3 DEF Escrow!Refund
<1>5. QED
  BY <1>4 DEF Escrow!Next, Escrow!Pairs, Pairs

LEMMA DirectPayMapped ==
  ASSUME ChannelsSafe, NEW p \in Payers, NEW q \in Payees, NEW a \in Amounts,
         NEW n \in Nonces, NEW e \in ProofExpiries, DirectPay(p, q, a, n, e)
  PROVE  Escrow!Next
<1> USE DEF DirectPay, Move, ChannelsSafe
<1>1. a \in 1..wallet[p]
  BY AmountsAssumption DEF TypeOK, Users
<1>2. n \notin DOMAIN nonceRecord
      /\ DOMAIN nonceRecord' = DOMAIN nonceRecord \cup {n}
  BY DEF Record, Fresh
<1>3. Escrow!Pay(p, q, a, n)
  BY <1>1, <1>2, OwedSame DEF Escrow!Pay, Escrow!Users, Users
<1>4. QED
  BY <1>1, <1>3 DEF Escrow!Next

LEMMA RegisterMapped ==
  ASSUME NEW u \in Users, NEW n \in Nonces, NEW e \in ProofExpiries,
         RegisterNonce(u, n, e)
  PROVE  Escrow!Next
<1>1. n \notin DOMAIN nonceRecord
      /\ DOMAIN nonceRecord' = DOMAIN nonceRecord \cup {n}
  BY DEF RegisterNonce, Record, Fresh
<1>2. Escrow!Burn(n)
  BY <1>1, OwedSame DEF Escrow!Burn, RegisterNonce
<1>3. QED
  BY <1>2 DEF Escrow!Next

LEMMA FundVaultMapped ==
  ASSUME ChannelsSafe, NEW c \in Pairs, NEW a \in Amounts, FundVaultDirectly(c, a)
  PROVE  Escrow!Next
<1> USE DEF FundVaultDirectly, Deposit, ChannelsSafe
<1>1. a \in 1..wallet[c[1]]
  BY AmountsAssumption, PairUsers DEF TypeOK
<1>2. Escrow!Lose(c, a)
  BY <1>1, OwedSame DEF Escrow!Lose
<1>3. QED
  BY <1>1, <1>2 DEF Escrow!Next, Escrow!Pairs, Pairs

\* Receipts, the clock and stuttering are invisible in the ledger.
LEMMA QuietMapped ==
  ASSUME UNCHANGED <<wallet, channel, nonceRecord, stray>>
  PROVE  UNCHANGED Escrow!vars
BY OwedSame DEF Escrow!vars

LEMMA InitMapped == Init => Escrow!Init
<1> SUFFICES ASSUME Init PROVE Escrow!Init
  OBVIOUS
<1>1. [c \in Pairs |-> Owed(c)] = [c \in Pairs |-> 0]
  BY DEF Init, Owed
<1>2. DOMAIN nonceRecord = {}
  BY DEF Init
<1>3. QED
  BY <1>1, <1>2 DEF Init, Escrow!Init, Escrow!Pairs, Pairs

\* Every behaviour of the program is a behaviour of the escrow ledger.
THEOREM Refinement == Spec => ImplementsEscrow
<1>1. ASSUME ChannelsSafe, [Next]_vars PROVE [Escrow!Next]_(Escrow!vars)
  <2>1. ASSUME NEW n \in Nonces, EmitReceipt(n) PROVE UNCHANGED Escrow!vars
    BY <2>1, QuietMapped DEF EmitReceipt
  <2>2. CASE Tick
    BY <2>2, QuietMapped DEF Tick
  <2>3. CASE UNCHANGED vars
    BY <2>3, QuietMapped DEF vars
  <2>4. QED
    BY <1>1, <2>1, <2>2, <2>3, OpenMapped, FundMapped, SettleMapped,
       CloseMapped, DirectPayMapped, RegisterMapped, FundVaultMapped DEF Next
<1>2. ChannelsSafe /\ [Next]_vars => [Escrow!Next]_(Escrow!vars)
  BY <1>1
<1>3. QED
  BY <1>2, InitMapped, Invariance, PTL DEF Spec, ImplementsEscrow, Escrow!Spec

-----------------------------------------------------------------------------
(* Sums over a finite set of accounts.  The library's sum takes the accounts  *)
(* out one by one, in an order it chooses; that the order does not matter is  *)
(* shown by induction on their number, as a set of numbers without a least    *)
(* counterexample.                                                            *)

\* A set of numbers with 0 and with the successors of its members has them all.
LEMMA AllNumbers ==
  ASSUME NEW P, 0 \in P, \A n \in Nat : n \in P => n + 1 \in P
  PROVE  \A n \in Nat : n \in P
<1> DEFINE Less == {p \in Nat \X Nat : p[1] < p[2]}
           T == {n \in Nat : n \notin P}
<1> SUFFICES ASSUME T # {} PROVE FALSE
  OBVIOUS
<1>1. IsWellFoundedOn(Less, Nat)
  BY NatLessThanWellFounded DEF OpToRel
<1>2. PICK x \in T : \A y \in T : ~(<<y, x>> \in Less)
  <2> HIDE DEF Less
  <2>1. T \subseteq Nat
    OBVIOUS
  <2> HIDE DEF T
  <2> QED
    BY <1>1, <2>1, WFMin
<1>3. x \in Nat /\ x # 0 /\ x - 1 \in Nat
  BY <1>2
<1>4. x - 1 \in T
  BY <1>2, <1>3
<1>5. <<x - 1, x>> \in Nat \X Nat /\ <<x - 1, x>>[1] < <<x - 1, x>>[2]
  BY <1>3
<1> QED
  BY <1>2, <1>4, <1>5

\* The account the library takes out of a set first, and the sums it forms.
Pick(s) == CHOOSE x \in s : TRUE
SumStep(f, g, s) == IF s = {} THEN 0 ELSE f[Pick(s)] + g[s \ {Pick(s)}]
Sums(f, D) == CHOOSE g : g = [s \in SUBSET D |-> SumStep(f, g, s)]

LEMMA SumIs == \A f : SumFunction(f) = Sums(f, DOMAIN f)[DOMAIN f]
BY DEF SumFunction, SumFunctionOnSet, FoldFunctionOnSet, MapThenFoldSet, Sums, SumStep, Pick

\* A set that is not empty loses one account.
LEMMA TakeOut ==
  ASSUME NEW D, IsFiniteSet(D), NEW s \in SUBSET D, NEW x \in s
  PROVE  /\ s \ {x} \in SUBSET D /\ Cardinality(s) \in Nat
         /\ Cardinality(s \ {x}) = Cardinality(s) - 1 /\ Cardinality(s \ {x}) \in Nat
<1>1. IsFiniteSet(s)
  BY FS_Subset
<1> QED
  BY <1>1, FS_RemoveElement, FS_CardinalityType

LEMMA PickIn == ASSUME NEW s, s # {} PROVE Pick(s) \in s
BY DEF Pick

\* The recursion of the sum defines a function.
LEMMA SumsExist ==
  ASSUME NEW D, IsFiniteSet(D), NEW f \in [D -> Int]
  PROVE  \E g : g = [s \in SUBSET D |-> SumStep(f, g, s)]
<1> DEFINE Right(g, n) == \A s \in SUBSET D :
                             Cardinality(s) <= n => g[s] = SumStep(f, g, s)
           P == {n \in Nat : \E g \in [SUBSET D -> Int] : Right(g, n)}
<1>1. 0 \in P
  <2> DEFINE g == [s \in SUBSET D |-> 0]
  <2>1. g \in [SUBSET D -> Int]
    OBVIOUS
  <2>2. ASSUME NEW s \in SUBSET D, Cardinality(s) <= 0 PROVE g[s] = SumStep(f, g, s)
    <3>1. IsFiniteSet(s)
      BY FS_Subset
    <3>2. s = {}
      BY <2>2, <3>1, FS_CardinalityType, FS_EmptySet
    <3> QED
      BY <3>2 DEF SumStep
  <2> HIDE DEF g
  <2> QED
    BY <2>1, <2>2
<1>2. ASSUME NEW n \in Nat, n \in P PROVE n + 1 \in P
  <2>1. PICK g \in [SUBSET D -> Int] : Right(g, n)
    BY <1>2
  <2> DEFINE h == [s \in SUBSET D |-> SumStep(f, g, s)]
  <2>2. ASSUME NEW s \in SUBSET D
        PROVE  SumStep(f, g, s) \in Int
    BY PickIn DEF SumStep
  <2>3. h \in [SUBSET D -> Int]
    BY <2>2
  <2>4. ASSUME NEW s \in SUBSET D, Cardinality(s) <= n + 1 PROVE h[s] = SumStep(f, h, s)
    <3>1. CASE s = {}
      BY <3>1 DEF SumStep
    <3>2. CASE s # {}
      <4> DEFINE r == s \ {Pick(s)}
      <4>1. /\ r \in SUBSET D /\ Cardinality(s) \in Nat /\ Cardinality(r) = Cardinality(s) - 1
            /\ Cardinality(r) \in Nat
        BY <3>2, PickIn, TakeOut
      <4>2. Cardinality(r) <= n
        BY <2>4, <4>1
      <4>3. g[r] = SumStep(f, g, r)
        BY <2>1, <4>1, <4>2
      <4>4. h[r] = g[r]
        BY <4>1, <4>3
      <4>5. h[s] = f[Pick(s)] + g[r] /\ SumStep(f, h, s) = f[Pick(s)] + h[r]
        BY <3>2 DEF SumStep
      <4> QED
        BY <4>4, <4>5
    <3> QED
      BY <3>1, <3>2
  <2> HIDE DEF h
  <2> QED
    BY <2>3, <2>4
<1> HIDE DEF P
<1>3. Cardinality(D) \in Nat /\ Cardinality(D) \in P
  BY <1>1, <1>2, AllNumbers, FS_CardinalityType
<1>4. PICK g \in [SUBSET D -> Int] : Right(g, Cardinality(D))
  BY <1>3 DEF P
<1>5. \A s \in SUBSET D : Cardinality(s) <= Cardinality(D)
  BY FS_Subset
<1>6. \A s \in SUBSET D : g[s] = SumStep(f, g, s)
  BY <1>4, <1>5
<1>7. g = [s \in SUBSET D |-> SumStep(f, g, s)]
  BY <1>6
<1> QED
  BY <1>7

LEMMA SumsStep ==
  ASSUME NEW D, IsFiniteSet(D), NEW f \in [D -> Int]
  PROVE  \A s \in SUBSET D : Sums(f, D)[s] = SumStep(f, Sums(f, D), s)
<1>1. Sums(f, D) = [s \in SUBSET D |-> SumStep(f, Sums(f, D), s)]
  BY SumsExist DEF Sums
<1> HIDE DEF Sums
<1> QED
  BY <1>1

\* Sums of lamports are numbers.
LEMMA SumsInt ==
  ASSUME NEW D, IsFiniteSet(D), NEW f \in [D -> Int]
  PROVE  \A s \in SUBSET D : Sums(f, D)[s] \in Int
<1> DEFINE g == Sums(f, D)
           P == {n \in Nat : \A t \in SUBSET D : Cardinality(t) = n => g[t] \in Int}
<1>1. \A t \in SUBSET D : g[t] = SumStep(f, g, t)
  BY SumsStep
<1>2. \A t \in SUBSET D : IsFiniteSet(t) /\ Cardinality(t) \in Nat
  BY FS_Subset, FS_CardinalityType
<1> HIDE DEF g
<1>3. 0 \in P
  <2>1. ASSUME NEW t \in SUBSET D, Cardinality(t) = 0 PROVE g[t] \in Int
    <3>1. t = {}
      BY <1>2, <2>1, FS_EmptySet
    <3>2. SumStep(f, g, t) = 0
      BY <3>1 DEF SumStep
    <3> QED
      BY <1>1, <3>2
  <2> QED
    BY <2>1
<1>4. ASSUME NEW n \in Nat, n \in P PROVE n + 1 \in P
  <2>1. ASSUME NEW t \in SUBSET D, Cardinality(t) = n + 1 PROVE g[t] \in Int
    <3>1. t # {} /\ Pick(t) \in t
      BY <2>1, PickIn, FS_EmptySet
    <3>2. t \ {Pick(t)} \in SUBSET D /\ Cardinality(t \ {Pick(t)}) = n
      BY <2>1, <3>1, TakeOut
    <3>3. g[t \ {Pick(t)}] \in Int /\ f[Pick(t)] \in Int
      BY <1>4, <3>1, <3>2
    <3>4. SumStep(f, g, t) = f[Pick(t)] + g[t \ {Pick(t)}]
      BY <3>1 DEF SumStep
    <3>5. SumStep(f, g, t) \in Int
      BY <3>3, <3>4
    <3> QED
      BY <1>1, <3>5
  <2> QED
    BY <2>1
<1> HIDE DEF P
<1>5. \A n \in Nat : n \in P
  BY <1>3, <1>4, AllNumbers
<1> QED
  BY <1>2, <1>5 DEF P, g

\* Any account may be taken out first.
LEMMA AnyOrder ==
  ASSUME NEW D, IsFiniteSet(D), NEW f \in [D -> Int]
  PROVE  \A s \in SUBSET D : \A x \in s : Sums(f, D)[s] = f[x] + Sums(f, D)[s \ {x}]
<1> DEFINE g == Sums(f, D)
           Good(t) == \A x \in t : g[t] = f[x] + g[t \ {x}]
           P == {n \in Nat : \A t \in SUBSET D : Cardinality(t) = n => Good(t)}
<1>1. \A t \in SUBSET D : g[t] = SumStep(f, g, t) /\ g[t] \in Int
  BY SumsStep, SumsInt
<1>2. \A t \in SUBSET D : IsFiniteSet(t) /\ Cardinality(t) \in Nat
  BY FS_Subset, FS_CardinalityType
<1> HIDE DEF g
<1>3. 0 \in P
  <2>1. \A t \in SUBSET D : Cardinality(t) = 0 => t = {}
    BY <1>2, FS_EmptySet
  <2> QED
    BY <2>1
<1>4. ASSUME NEW n \in Nat, n \in P PROVE n + 1 \in P
  <2>1. ASSUME NEW t \in SUBSET D, Cardinality(t) = n + 1, NEW x \in t
        PROVE  g[t] = f[x] + g[t \ {x}]
    <3> DEFINE p == Pick(t)
               r == t \ {p, x}
    <3>1. p \in t /\ g[t] = f[p] + g[t \ {p}]
      BY <1>1, <2>1, PickIn DEF SumStep
    <3>2. CASE x = p
      BY <3>1, <3>2
    <3>3. CASE x # p
      <4>1. /\ t \ {x} \in SUBSET D /\ Cardinality(t \ {x}) = n
            /\ t \ {p} \in SUBSET D /\ Cardinality(t \ {p}) = n
        BY <2>1, <3>1, TakeOut
      <4>2. Good(t \ {p}) /\ Good(t \ {x})
        BY <1>4, <4>1
      <4>3. /\ x \in t \ {p} /\ (t \ {p}) \ {x} = r
            /\ p \in t \ {x} /\ (t \ {x}) \ {p} = r
        BY <3>1, <3>3
      <4>4. g[t \ {p}] = f[x] + g[r] /\ g[t \ {x}] = f[p] + g[r]
        BY <4>2, <4>3
      <4>5. g[r] \in Int /\ f[x] \in Int /\ f[p] \in Int
        BY <1>1, <3>1
      <4> QED
        BY <3>1, <4>4, <4>5
    <3> QED
      BY <3>2, <3>3
  <2> QED
    BY <2>1
<1> HIDE DEF P
<1>5. \A n \in Nat : n \in P
  BY <1>3, <1>4, AllNumbers
<1> QED
  BY <1>2, <1>5 DEF P, g

\* Where two assignments of lamports agree, so do their sums.
LEMMA SameSums ==
  ASSUME NEW D, IsFiniteSet(D), NEW f \in [D -> Int], NEW h \in [D -> Int]
  PROVE  \A s \in SUBSET D : (\A x \in s : f[x] = h[x]) => Sums(f, D)[s] = Sums(h, D)[s]
<1> DEFINE g == Sums(f, D)
           k == Sums(h, D)
           Same(t) == \A x \in t : f[x] = h[x]
           P == {n \in Nat : \A t \in SUBSET D : Cardinality(t) = n /\ Same(t) => g[t] = k[t]}
<1>1. \A t \in SUBSET D : g[t] = SumStep(f, g, t) /\ k[t] = SumStep(h, k, t)
  BY SumsStep
<1>2. \A t \in SUBSET D : IsFiniteSet(t) /\ Cardinality(t) \in Nat
  BY FS_Subset, FS_CardinalityType
<1> HIDE DEF g, k
<1>3. 0 \in P
  <2>1. ASSUME NEW t \in SUBSET D, Cardinality(t) = 0 PROVE g[t] = k[t]
    <3>1. t = {}
      BY <1>2, <2>1, FS_EmptySet
    <3> QED
      BY <1>1, <3>1 DEF SumStep
  <2> QED
    BY <2>1
<1>4. ASSUME NEW n \in Nat, n \in P PROVE n + 1 \in P
  <2>1. ASSUME NEW t \in SUBSET D, Cardinality(t) = n + 1, Same(t) PROVE g[t] = k[t]
    <3>1. t # {} /\ Pick(t) \in t
      BY <2>1, PickIn, FS_EmptySet
    <3>2. t \ {Pick(t)} \in SUBSET D /\ Cardinality(t \ {Pick(t)}) = n
      BY <2>1, <3>1, TakeOut
    <3>3. g[t \ {Pick(t)}] = k[t \ {Pick(t)}] /\ f[Pick(t)] = h[Pick(t)]
      BY <1>4, <2>1, <3>1, <3>2
    <3> QED
      BY <1>1, <3>1, <3>3 DEF SumStep
  <2> QED
    BY <2>1
<1> HIDE DEF P
<1>5. \A n \in Nat : n \in P
  BY <1>3, <1>4, AllNumbers
<1> QED
  BY <1>2, <1>5 DEF P, g, k

\* Empty accounts hold nothing together.
LEMMA ZeroSum ==
  ASSUME NEW D, IsFiniteSet(D)
  PROVE  SumFunction([x \in D |-> 0]) = 0
<1> DEFINE f == [x \in D |-> 0]
           g == Sums(f, D)
           P == {n \in Nat : \A t \in SUBSET D : Cardinality(t) = n => g[t] = 0}
<1>0. f \in [D -> Int] /\ (\A x \in D : f[x] = 0) /\ DOMAIN f = D
  OBVIOUS
<1> HIDE DEF f
<1>1. \A t \in SUBSET D : g[t] = SumStep(f, g, t)
  BY <1>0, SumsStep
<1>2. \A t \in SUBSET D : IsFiniteSet(t) /\ Cardinality(t) \in Nat
  BY FS_Subset, FS_CardinalityType
<1> HIDE DEF g
<1>3. 0 \in P
  <2>1. ASSUME NEW t \in SUBSET D, Cardinality(t) = 0 PROVE g[t] = 0
    <3>1. t = {}
      BY <1>2, <2>1, FS_EmptySet
    <3>2. SumStep(f, g, t) = 0
      BY <3>1 DEF SumStep
    <3> QED
      BY <1>1, <3>2
  <2> QED
    BY <2>1
<1>4. ASSUME NEW n \in Nat, n \in P PROVE n + 1 \in P
  <2>1. ASSUME NEW t \in SUBSET D, Cardinality(t) = n + 1 PROVE g[t] = 0
    <3>1. t # {} /\ Pick(t) \in t
      BY <2>1, PickIn, FS_EmptySet
    <3>2. t \ {Pick(t)} \in SUBSET D /\ Cardinality(t \ {Pick(t)}) = n
      BY <2>1, <3>1, TakeOut
    <3>3. g[t \ {Pick(t)}] = 0 /\ f[Pick(t)] = 0
      BY <1>0, <1>4, <3>1, <3>2
    <3>4. SumStep(f, g, t) = 0 + 0
      BY <3>1, <3>3 DEF SumStep
    <3> QED
      BY <1>1, <3>4
  <2> QED
    BY <2>1
<1> HIDE DEF P
<1>5. Cardinality(D) \in Nat /\ Cardinality(D) \in P
  BY <1>2, <1>3, <1>4, AllNumbers
<1>6. g[D] = 0
  BY <1>5 DEF P
<1> QED
  BY <1>0, <1>6, SumIs DEF g, f

\* One account changes, and the sum with it.
LEMMA OneChanges ==
  ASSUME NEW D, IsFiniteSet(D), NEW f \in [D -> Int], NEW h \in [D -> Int],
         NEW a \in D, \A x \in D : x # a => h[x] = f[x]
  PROVE  /\ SumFunction(f) \in Int /\ SumFunction(h) \in Int
         /\ SumFunction(h) = SumFunction(f) + h[a] - f[a]
<1>1. SumFunction(f) = Sums(f, D)[D] /\ SumFunction(h) = Sums(h, D)[D]
  BY SumIs
<1>2. /\ Sums(f, D)[D] = f[a] + Sums(f, D)[D \ {a}]
      /\ Sums(h, D)[D] = h[a] + Sums(h, D)[D \ {a}]
  BY AnyOrder
<1>3. Sums(f, D)[D \ {a}] = Sums(h, D)[D \ {a}]
  BY SameSums
<1>4. Sums(f, D)[D \ {a}] \in Int /\ Sums(f, D)[D] \in Int /\ Sums(h, D)[D] \in Int
  BY SumsInt
<1> QED
  BY <1>1, <1>2, <1>3, <1>4

\* There are finitely many accounts.
LEMMA FiniteAccounts == IsFiniteSet(Users) /\ IsFiniteSet(Pairs)
BY WalletsAssumption, FS_Union, FS_Product DEF Users, Pairs

\* The lamports of all wallets and vaults.
Supply == SumFunction(wallet) + SumFunction(vault)

\* What leaves a wallet arrives in a vault.
LEMMA DepositConserves ==
  ASSUME TypeOK, NEW c \in Pairs, NEW amount \in Nat, Deposit(c, amount)
  PROVE  Supply' = Supply
<1>1. /\ wallet \in [Users -> Int] /\ vault \in [Pairs -> Int]
      /\ wallet' \in [Users -> Int] /\ vault' \in [Pairs -> Int]
      /\ c[1] \in Users
      /\ wallet'[c[1]] = wallet[c[1]] - amount /\ vault'[c] = vault[c] + amount
      /\ wallet[c[1]] \in Nat /\ vault[c] \in Nat
  BY PairUsers DEF TypeOK, Deposit
<1>2. /\ \A u \in Users : u # c[1] => wallet'[u] = wallet[u]
      /\ \A d \in Pairs : d # c => vault'[d] = vault[d]
  BY DEF TypeOK, Deposit
<1>3. /\ SumFunction(wallet) \in Int
      /\ SumFunction(wallet') = SumFunction(wallet) + wallet'[c[1]] - wallet[c[1]]
  BY <1>1, <1>2, FiniteAccounts, OneChanges
<1>4. /\ SumFunction(vault) \in Int
      /\ SumFunction(vault') = SumFunction(vault) + vault'[c] - vault[c]
  BY <1>1, <1>2, FiniteAccounts, OneChanges
<1> QED
  BY <1>1, <1>3, <1>4 DEF Supply

\* What leaves a vault arrives in a wallet.
LEMMA WithdrawConserves ==
  ASSUME TypeOK, NEW c \in Pairs, NEW user \in Users, NEW amount \in Nat,
         Withdraw(c, user, amount)
  PROVE  Supply' = Supply
<1>1. wallet \in [Users -> Int] /\ wallet' \in [Users -> Int]
  BY DEF TypeOK, Withdraw
<1>2. vault \in [Pairs -> Int] /\ vault' \in [Pairs -> Int]
  BY DEF TypeOK, Withdraw
<1>3. /\ wallet'[user] = wallet[user] + amount /\ wallet[user] \in Int
      /\ \A u \in Users : u # user => wallet'[u] = wallet[u]
  BY DEF TypeOK, Withdraw
<1>4. /\ vault'[c] = vault[c] - amount /\ vault[c] \in Int
      /\ \A d \in Pairs : d # c => vault'[d] = vault[d]
  BY DEF TypeOK, Withdraw
<1>5. /\ SumFunction(wallet) \in Int
      /\ SumFunction(wallet') = SumFunction(wallet) + wallet'[user] - wallet[user]
  BY <1>1, <1>3, FiniteAccounts, OneChanges
<1>6. /\ SumFunction(vault) \in Int
      /\ SumFunction(vault') = SumFunction(vault) + vault'[c] - vault[c]
  BY <1>2, <1>4, FiniteAccounts, OneChanges
<1> QED
  BY <1>3, <1>4, <1>5, <1>6 DEF Supply

\* What leaves a wallet arrives in a wallet, perhaps in the same one.
LEMMA MoveConserves ==
  ASSUME TypeOK, NEW from \in Users, NEW to \in Users, NEW amount \in Nat,
         Move(from, to, amount), UNCHANGED vault
  PROVE  Supply' = Supply
<1> DEFINE taken == [u \in Users |-> wallet[u] - (IF u = from THEN amount ELSE 0)]
<1>1. /\ wallet \in [Users -> Nat] /\ wallet[from] \in Nat
      /\ \A u \in Users : wallet'[u] = taken[u] + (IF u = to THEN amount ELSE 0)
      /\ \A u \in Users : wallet[u] - (IF u = from THEN amount ELSE 0) \in Int
  BY DEF TypeOK, Move
<1>2. /\ taken \in [Users -> Int] /\ taken[from] = wallet[from] - amount
      /\ \A u \in Users : u # from => taken[u] = wallet[u]
  BY <1>1
<1>3. /\ SumFunction(wallet) \in Int
      /\ SumFunction(taken) = SumFunction(wallet) + taken[from] - wallet[from]
  <2> HIDE DEF taken
  <2>1. wallet \in [Users -> Int]
    BY <1>1
  <2> QED
    BY <1>2, <2>1, FiniteAccounts, OneChanges
<1> HIDE DEF taken
<1>4. /\ wallet' \in [Users -> Int] /\ wallet'[to] = taken[to] + amount
      /\ \A u \in Users : u # to => wallet'[u] = taken[u]
  <2>1. DOMAIN wallet' = Users /\ wallet' = [u \in Users |-> wallet'[u]]
    BY DEF Move
  <2>2. \A u \in Users : wallet'[u] \in Int
    BY <1>1, <1>2
  <2>3. \A u \in Users : taken[u] \in Int
    BY <1>2
  <2> QED
    BY <1>1, <2>1, <2>2, <2>3
<1>5. /\ SumFunction(taken) \in Int
      /\ SumFunction(wallet') = SumFunction(taken) + wallet'[to] - taken[to]
  BY <1>2, <1>4, FiniteAccounts, OneChanges
<1>6. taken[to] \in Int /\ wallet[from] \in Int
  BY <1>1, <1>2
<1>7. SumFunction(wallet') = SumFunction(wallet)
  BY <1>2, <1>3, <1>4, <1>5, <1>6
<1> QED
  BY <1>7 DEF Supply

\* The lamports of all wallets and vaults together stay what they were, through
\* every instruction and every transfer outside the program.
THEOREM LamportsConservedTheorem == Spec => []LamportsConserved
<1>1. ASSUME Init PROVE LamportsConserved
  <2>1. SumFunction(vault) = 0
    BY <1>1, FiniteAccounts, ZeroSum DEF Init
  <2>2. SumFunction(wallet) \in Int
    <3>1. wallet \in [Users -> Int] /\ DOMAIN wallet = Users
      BY <1>1, FundsAssumption DEF Init
    <3> QED
      BY <3>1, SumIs, SumsInt, FiniteAccounts
  <2> QED
    BY <1>1, <2>1, <2>2 DEF Init, LamportsConserved
<1>2. ASSUME ChannelsSafe, [Next]_vars PROVE Supply' = Supply
  <2>1. TypeOK /\ \A a \in Amounts : a \in Nat
    BY <1>2, AmountsAssumption, WidthAssumption DEF ChannelsSafe
  <2>2. ASSUME NEW c \in Pairs, NEW a \in Amounts, NEW e \in ChannelExpiries,
               OpenChannel(c, a, e)
        PROVE  Supply' = Supply
    BY <2>1, <2>2, DepositConserves DEF OpenChannel
  <2>3. ASSUME NEW c \in Pairs, NEW a \in Amounts,
               FundChannel(c, a) \/ FundVaultDirectly(c, a)
        PROVE  Supply' = Supply
    BY <2>1, <2>3, DepositConserves DEF FundChannel, FundVaultDirectly
  <2>4. ASSUME NEW c \in Pairs, NEW a \in Amounts, NEW n \in Nonces, NEW e \in ProofExpiries,
               SettlePayment(c, a, n, e)
        PROVE  Supply' = Supply
    BY <2>1, <2>4, PairUsers, WithdrawConserves DEF SettlePayment
  <2>5. ASSUME NEW c \in Pairs, CloseChannel(c) PROVE Supply' = Supply
    <3>1. channel[c] \in Channel
      BY <2>1, <2>5, Typing DEF CloseChannel
    <3>2. Available(channel[c]) \in Nat
      BY <3>1, WidthAssumption DEF Channel, Available
    <3> QED
      BY <2>1, <2>5, <3>2, PairUsers, WithdrawConserves DEF CloseChannel
  <2>6. ASSUME NEW p \in Payers, NEW q \in Payees, NEW a \in Amounts, NEW n \in Nonces,
               NEW e \in ProofExpiries, DirectPay(p, q, a, n, e)
        PROVE  Supply' = Supply
    BY <2>1, <2>6, MoveConserves DEF DirectPay, Users
  <2>7. CASE \/ \E u \in Users, n \in Nonces, e \in ProofExpiries : RegisterNonce(u, n, e)
             \/ \E n \in Nonces : EmitReceipt(n)
             \/ Tick \/ UNCHANGED vars
    BY <2>7 DEF RegisterNonce, EmitReceipt, Tick, vars, Supply
  <2> QED
    BY <1>2, <2>2, <2>3, <2>4, <2>5, <2>6, <2>7 DEF Next
<1>3. Supply = SumFunction(InitialFunds) <=> LamportsConserved
  BY DEF Supply, LamportsConserved
<1>4. ASSUME LamportsConserved, ChannelsSafe, [Next]_vars PROVE LamportsConserved'
  <2>1. Supply = SumFunction(InitialFunds)
    BY <1>3, <1>4
  <2>2. Supply' = SumFunction(InitialFunds)
    BY <1>2, <1>4, <2>1
  <2> QED
    BY <2>2 DEF Supply, LamportsConserved
<1> QED
  BY <1>1, <1>4, Invariance, PTL DEF Spec

=============================================================================
