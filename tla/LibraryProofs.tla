--------------------------- MODULE LibraryProofs ---------------------------
(***************************************************************************)
(* The protocol library, for every price, schedule, payment and clock: the *)
(* break-even of the library's fee simulation; claims that follow vesting, *)
(* so that nobody has claimed more than has vested and at the end all of   *)
(* an allocation is due; what receipts and lookups say is true.            *)
(***************************************************************************)
EXTENDS FeeSimulator, Vesting, ProofOfPayment, TLAPS

-----------------------------------------------------------------------------
(* FeeSimulator *)

\* Integer division gives the quotient that brackets the dividend.
LEMMA Bracket ==
    ASSUME NEW n \in Nat, NEW d \in Nat \ {0}
    PROVE  /\ n \div d \in Nat
           /\ (n \div d) * d <= n /\ n < (n \div d + 1) * d
<1>1. n \div d \in Nat /\ n % d \in 0..(d - 1) /\ n = d * (n \div d) + (n % d)
  BY SMT
<1> DEFINE q == n \div d
<1>2. q * d = d * q /\ (q + 1) * d = d * q + d
  BY <1>1, SMT
<1> QED
  BY <1>1, <1>2, SMT

\* A product by a positive number grows with its other factor.
LEMMA Monotone ==
    ASSUME NEW a \in Nat, NEW b \in Nat, NEW d \in Nat, a <= b
    PROVE  a * d <= b * d
<1>1. b * d = a * d + (b - a) * d
  BY SMT
<1>2. (b - a) * d \in Nat
  <2>1. b - a \in Nat
    BY SMT
  <2> QED
    BY <2>1, SMT
<1>3. a * d \in Nat
  BY SMT
<1> QED
  BY <1>1, <1>2, <1>3, SMT

\* The transaction fees of that many calls exceed opening and closing a channel
\* from breakEvenCalls on, and not before.
LEMMA FeesExceed ==
    ASSUME NEW calls \in Nat
    PROVE  baseTxFee * calls > openCloseFee <=> calls >= breakEvenCalls
<1> DEFINE q == openCloseFee \div baseTxFee
<1>0. openCloseFee \in Nat /\ baseTxFee \in Nat \ {0}
  BY FeesAssumption DEF openCloseFee
<1>1. q \in Nat /\ q * baseTxFee <= openCloseFee /\ openCloseFee < (q + 1) * baseTxFee
  BY <1>0, Bracket
<1>2. breakEvenCalls = q + 1
  BY DEF breakEvenCalls
<1>3. baseTxFee * calls = calls * baseTxFee /\ calls * baseTxFee \in Nat
      /\ q * baseTxFee \in Nat /\ (q + 1) * baseTxFee \in Nat
  BY <1>0, <1>1, SMT
<1> HIDE DEF q
<1>4. CASE calls >= q + 1
  <2>1. (q + 1) * baseTxFee <= calls * baseTxFee
    BY <1>0, <1>1, <1>4, Monotone
  <2> QED
    BY <1>0, <1>1, <1>2, <1>3, <1>4, <2>1
<1>5. CASE ~(calls >= q + 1)
  <2>1. calls <= q
    BY <1>1, <1>5
  <2>2. calls * baseTxFee <= q * baseTxFee
    BY <1>0, <1>1, <2>1, Monotone
  <2> QED
    BY <1>0, <1>1, <1>2, <1>3, <1>5, <2>2
<1> QED
  BY <1>4, <1>5

\* bps of a natural number is one.
LEMMA BpsNat ==
    ASSUME NEW amount \in Nat, NEW points \in Nat
    PROVE  bps(amount, points) \in Nat
<1>1. amount * points \in Nat
  BY SMT
<1> QED
  BY <1>1, Bracket DEF bps

\* simulateChannel saves exactly from its own break-even on.
LEMMA ChannelSaves ==
    ASSUME NEW price \in Nat, NEW calls \in Nat
    PROVE  simulateChannel(price, calls).savings > 0
              <=> calls >= simulateChannel(price, calls).breakEven
<1> DEFINE paid == price * calls + bps(price * calls, protocolFeeBps)
           direct == paid + baseTxFee * calls
           total == paid + openCloseFee
<1>1. price * calls \in Nat /\ baseTxFee * calls \in Nat /\ openCloseFee \in Nat
  BY FeesAssumption, SMT DEF openCloseFee
<1>2. paid \in Nat
  <2>1. protocolFeeBps \in Nat
    BY FeesAssumption
  <2>2. bps(price * calls, protocolFeeBps) \in Nat
    BY <1>1, <2>1, BpsNat
  <2> QED
    BY <1>1, <2>2
<1>3. simulateDirectPay(price, calls).total = direct
  BY DEF simulateDirectPay
<1>4. /\ simulateChannel(price, calls).savings = IF direct > total THEN direct - total ELSE 0
      /\ simulateChannel(price, calls).breakEven = breakEvenCalls
  BY <1>3 DEF simulateChannel
<1>5. direct > total <=> baseTxFee * calls > openCloseFee
  <2> HIDE DEF paid
  <2> QED
    BY <1>1, <1>2
<1>6. direct \in Nat /\ total \in Nat
  <2> HIDE DEF paid
  <2> QED
    BY <1>1, <1>2
<1> HIDE DEF direct, total
<1> QED
  BY <1>4, <1>5, <1>6, FeesExceed

-----------------------------------------------------------------------------

\* What the library answers is what it computes for the question.
FeesInv ==
    question.by \in {"both", "cli"} =>
       /\ question.price \in Nat /\ question.calls \in Nat
       /\ answer = simulateComparison(question.price, question.calls)

\* The gateway and the command line answer with simulateComparison.
THEOREM AnswerComputed == FeesSpec => []FeesInv
<1>1. FeesInit => FeesInv
  BY DEF FeesInit, FeesInv, Unasked
<1>2. FeesInv /\ [FeesNext]_feesVars => FeesInv'
  <2> SUFFICES ASSUME FeesInv, [FeesNext]_feesVars PROVE FeesInv'
    OBVIOUS
  <2>1. CASE UNCHANGED feesVars
    BY <2>1 DEF feesVars, FeesInv
  <2>2. CASE FeesNext
    <3>1. PICK price \in Prices, calls \in Calls :
             \/ \E mode \in {"direct", "channel", "both"} : Simulate(price, calls, mode)
             \/ FeesCommand(price, calls) \/ ShowPage(price, calls)
      BY <2>2 DEF FeesNext
    <3>2. price \in Nat /\ calls \in Nat
      BY FeesAssumption
    <3>3. ASSUME NEW mode \in {"direct", "channel", "both"}, Simulate(price, calls, mode)
          PROVE  FeesInv'
      BY <3>2, <3>3 DEF Simulate, FeesInv
    <3>4. CASE FeesCommand(price, calls)
      BY <3>2, <3>4 DEF FeesCommand, FeesInv
    <3>5. CASE ShowPage(price, calls)
      BY <3>2, <3>5 DEF ShowPage, FeesInv
    <3> QED
      BY <3>1, <3>3, <3>4, <3>5
  <2> QED
    BY <2>1, <2>2
<1> QED
  BY <1>1, <1>2, PTL DEF FeesSpec

\* The library's channel saves money from the library's break-even on, and not
\* before, whatever is asked and whatever the fees are.
THEOREM SavesCorrect == FeesSpec => []SavesFromBreakEven
<1>1. FeesInv => SavesFromBreakEven
  <2> SUFFICES ASSUME FeesInv, question.by \in {"both", "cli"}
               PROVE  answer.channel.savings > 0 <=> question.calls >= answer.breakEven
    BY DEF SavesFromBreakEven
  <2>1. /\ question.price \in Nat /\ question.calls \in Nat
        /\ answer = simulateComparison(question.price, question.calls)
    BY DEF FeesInv
  <2>2. /\ answer.channel = simulateChannel(question.price, question.calls)
        /\ answer.breakEven = simulateChannel(question.price, question.calls).breakEven
    BY <2>1 DEF simulateComparison
  <2> QED
    BY <2>1, <2>2, ChannelSaves
<1> QED
  BY <1>1, AnswerComputed, PTL

-----------------------------------------------------------------------------
(* Vesting *)

\* A product grows with its factor.
LEMMA ProductGrows ==
    ASSUME NEW a \in Nat, NEW b \in Nat, NEW d \in Nat, a <= b
    PROVE  a * d \in Nat /\ b * d \in Nat /\ a * d <= b * d
<1>1. b * d = a * d + (b - a) * d
  BY SMT
<1>2. (b - a) * d \in Nat
  <2>1. b - a \in Nat
    BY SMT
  <2> QED
    BY <2>1, SMT
<1>3. a * d \in Nat
  BY SMT
<1> QED
  BY <1>1, <1>2, <1>3, SMT

\* A quotient grows with its dividend.
LEMMA QuotientGrows ==
    ASSUME NEW a \in Nat, NEW b \in Nat, NEW d \in Nat \ {0}, a <= b
    PROVE  a \div d <= b \div d
<1> DEFINE q == a \div d
           r == b \div d
<1>1. q \in Nat /\ q * d <= a /\ r \in Nat /\ b < (r + 1) * d
  BY Bracket
<1> HIDE DEF q, r
<1>2. SUFFICES ASSUME ~(q <= r) PROVE FALSE
  BY DEF q, r
<1>3. (r + 1) * d <= q * d
  BY <1>1, <1>2, ProductGrows
<1>4. q * d \in Nat /\ (r + 1) * d \in Nat
  BY <1>1, SMT
<1> QED
  BY <1>1, <1>3, <1>4

\* A share of at most the whole is at most the whole.
LEMMA ShareOf ==
    ASSUME NEW total \in Nat, NEW part \in Nat, NEW whole \in Nat \ {0}, part <= whole
    PROVE  (total * part) \div whole \in 0..total
<1> DEFINE q == (total * part) \div whole
<1>1. total * part = part * total /\ part * total \in Nat
  BY SMT
<1>2. part * total <= whole * total
  BY ProductGrows
<1>3. q \in Nat /\ q * whole <= total * part
  BY <1>1, Bracket
<1> HIDE DEF q
<1>4. SUFFICES ASSUME ~(q <= total) PROVE FALSE
  BY <1>3 DEF q
<1>5. (total + 1) * whole <= q * whole
  BY <1>3, <1>4, ProductGrows
<1>6. (total + 1) * whole = whole * total + whole /\ whole * total \in Nat /\ q * whole \in Nat
  BY <1>3, SMT
<1> QED
  BY <1>1, <1>2, <1>3, <1>5, <1>6

Schedule == [bps : 0..Base, cliff : Nat, duration : Nat, unlock : 0..Base]

\* What has vested is a part of the allocation.
LEMMA VestedPart ==
    ASSUME NEW total \in Nat, NEW s \in Schedule, NEW e \in Int
    PROVE  calculateVested(total, s, e) \in 0..total
<1> DEFINE iu == (total * s.unlock) \div Base
           m == Least(e - s.cliff, s.duration)
           linear == ((total - iu) * m) \div s.duration
<1>0. /\ s.cliff \in Nat /\ s.duration \in Nat /\ s.unlock \in Nat /\ s.unlock <= Base
      /\ Base \in Nat \ {0}
  BY VestingAssumption DEF Schedule
<1>1. iu \in 0..total
  BY <1>0, ShareOf
<1>2. ASSUME s.duration # 0, ~(e < s.cliff) PROVE linear \in 0..(total - iu)
  <2>1. m \in Nat /\ m <= s.duration
    BY <1>0, <1>2 DEF Least
  <2>2. total - iu \in Nat
    BY <1>1
  <2> HIDE DEF iu, m
  <2> QED
    BY <1>0, <1>2, <2>1, <2>2, ShareOf
<1>3. calculateVested(total, s, e) =
        IF e < 0 THEN 0 ELSE IF s.duration = 0 THEN total
        ELSE IF e < s.cliff THEN iu ELSE iu + linear
  BY DEF calculateVested
<1> HIDE DEF iu, linear
<1> QED
  BY <1>1, <1>2, <1>3

\* What has vested never decreases.
LEMMA VestedGrows ==
    ASSUME NEW total \in Nat, NEW s \in Schedule, NEW e \in Int
    PROVE  calculateVested(total, s, e) <= calculateVested(total, s, e + 1)
<1> DEFINE iu == (total * s.unlock) \div Base
           m(x) == Least(x - s.cliff, s.duration)
           linear(x) == ((total - iu) * m(x)) \div s.duration
<1>0. /\ s.cliff \in Nat /\ s.duration \in Nat /\ s.unlock \in Nat /\ s.unlock <= Base
      /\ Base \in Nat \ {0}
  BY VestingAssumption DEF Schedule
<1>1. iu \in 0..total /\ total - iu \in Nat
  <2>1. iu \in 0..total
    BY <1>0, ShareOf
  <2> HIDE DEF iu
  <2> QED
    BY <2>1
<1>2. ASSUME s.duration # 0, ~(e < s.cliff)
      PROVE  linear(e) \in Nat /\ linear(e + 1) \in Nat /\ linear(e) <= linear(e + 1)
  <2>1. m(e) \in Nat /\ m(e + 1) \in Nat /\ m(e) <= m(e + 1)
    BY <1>0, <1>2 DEF Least
  <2> HIDE DEF iu, m
  <2>2. /\ m(e) * (total - iu) \in Nat /\ m(e + 1) * (total - iu) \in Nat
        /\ m(e) * (total - iu) <= m(e + 1) * (total - iu)
    BY <1>1, <2>1, ProductGrows
  <2>3. /\ (total - iu) * m(e) = m(e) * (total - iu)
        /\ (total - iu) * m(e + 1) = m(e + 1) * (total - iu)
    BY <1>1, <2>1, SMT
  <2> QED
    BY <1>0, <1>2, <2>2, <2>3, QuotientGrows, Bracket
<1>3. ASSUME s.duration # 0, ~(e + 1 < s.cliff)
      PROVE  linear(e + 1) \in Nat
  <2>1. m(e + 1) \in Nat
    BY <1>0, <1>3 DEF Least
  <2> HIDE DEF iu, m
  <2>2. (total - iu) * m(e + 1) \in Nat
    BY <1>1, <2>1, SMT
  <2> QED
    BY <1>0, <1>3, <2>2, Bracket
<1>4. ASSUME NEW x \in Int
      PROVE  calculateVested(total, s, x) =
               IF x < 0 THEN 0 ELSE IF s.duration = 0 THEN total
               ELSE IF x < s.cliff THEN iu ELSE iu + linear(x)
  BY DEF calculateVested
<1>5. e + 1 \in Int
  OBVIOUS
<1> HIDE DEF iu, linear
<1> QED
  BY <1>0, <1>1, <1>2, <1>3, <1>4, <1>5

\* A whole share of an amount is the amount.
LEMMA WholeShare ==
    ASSUME NEW total \in Nat, NEW whole \in Nat \ {0}
    PROVE  (total * whole) \div whole = total
<1> DEFINE q == (total * whole) \div whole
<1>1. total * whole \in Nat
  BY SMT
<1>2. q \in Nat /\ q * whole <= total * whole /\ total * whole < (q + 1) * whole
  BY <1>1, Bracket
<1> HIDE DEF q
<1>3. q <= total
  <2> SUFFICES ASSUME ~(q <= total) PROVE FALSE
    BY <1>2
  <2>1. (total + 1) * whole <= q * whole
    BY <1>2, ProductGrows
  <2>2. (total + 1) * whole = total * whole + whole /\ q * whole \in Nat
    BY <1>2, SMT
  <2> QED
    BY <1>1, <1>2, <2>1, <2>2
<1>4. total <= q
  <2> SUFFICES ASSUME ~(total <= q) PROVE FALSE
    BY <1>2
  <2>1. (q + 1) * whole <= total * whole
    BY <1>2, ProductGrows
  <2>2. (q + 1) * whole \in Nat
    BY <1>2, SMT
  <2> QED
    BY <1>1, <1>2, <2>1, <2>2
<1> QED
  BY <1>2, <1>3, <1>4 DEF q

\* Once the cliff and the duration are over, everything has vested.
LEMMA FullyVested ==
    ASSUME NEW total \in Nat, NEW s \in Schedule, NEW e \in Int, e >= s.cliff + s.duration
    PROVE  calculateVested(total, s, e) = total
<1> DEFINE iu == (total * s.unlock) \div Base
<1>0. /\ s.cliff \in Nat /\ s.duration \in Nat /\ s.unlock \in Nat /\ s.unlock <= Base
      /\ Base \in Nat \ {0}
  BY VestingAssumption DEF Schedule
<1>1. iu \in 0..total
  BY <1>0, ShareOf
<1>2. ~(e < 0) /\ ~(e < s.cliff) /\ Least(e - s.cliff, s.duration) = s.duration
  BY <1>0 DEF Least
<1>3. calculateVested(total, s, e) =
        IF s.duration = 0 THEN total
        ELSE iu + ((total - iu) * s.duration) \div s.duration
  BY <1>2 DEF calculateVested
<1> HIDE DEF iu
<1>4. total - iu \in Nat
  BY <1>1
<1>5. CASE s.duration # 0
  <2>1. ((total - iu) * s.duration) \div s.duration = total - iu
    BY <1>0, <1>4, <1>5, WholeShare
  <2> QED
    BY <1>1, <1>3, <1>5, <2>1
<1> QED
  BY <1>3, <1>5

-----------------------------------------------------------------------------

\* Nobody has claimed more than has vested.
VestingInv ==
    /\ now \in Nat
    /\ claimed \in [Buckets -> Nat]
    /\ \A b \in Buckets : claimed[b] <= Vested(b)

\* Allocations and what has vested of them are natural numbers.
LEMMA VestedNat ==
    ASSUME NEW b \in Buckets, now \in Nat
    PROVE  bucketAllocation(b) \in Nat /\ Vested(b) \in Nat
<1>1. Schedules[b] \in Schedule /\ Supply \in Nat /\ Base \in Nat \ {0} /\ Start \in Nat
  BY VestingAssumption DEF Buckets, Schedule
<1>2. bucketAllocation(b) \in Nat
  <2>1. Schedules[b].bps \in Nat /\ Schedules[b].bps <= Base
    BY <1>1 DEF Schedule
  <2> QED
    BY <1>1, <2>1, ShareOf DEF bucketAllocation
<1>3. now - Start \in Int
  BY <1>1
<1> QED
  BY <1>1, <1>2, <1>3, VestedPart DEF Vested

\* The invariant holds in every reachable state.
THEOREM NeverOverclaimed == VestingSpec => []VestingInv
<1>1. now = 0 /\ VestingInit => VestingInv
  <2> SUFFICES ASSUME now = 0, VestingInit PROVE VestingInv
    OBVIOUS
  <2>1. \A b \in Buckets : Vested(b) \in Nat
    BY VestedNat
  <2> QED
    BY <2>1 DEF VestingInit, VestingInv
<1>2. VestingInv /\ [VestingNext]_<<now, claimed>> => VestingInv'
  <2> SUFFICES ASSUME VestingInv, [VestingNext]_<<now, claimed>> PROVE VestingInv'
    OBVIOUS
  <2>1. CASE UNCHANGED <<now, claimed>>
    BY <2>1 DEF VestingInv, Vested
  <2>2. CASE Tick /\ UNCHANGED claimed
    <3>1. now' \in Nat /\ now' = now + 1
      BY <2>2 DEF Tick, VestingInv
    <3>2. ASSUME NEW b \in Buckets PROVE claimed[b] <= Vested(b)'
      <4>1. Schedules[b] \in Schedule /\ Start \in Nat
        BY VestingAssumption DEF Buckets, Schedule
      <4>2. bucketAllocation(b) \in Nat /\ Vested(b) \in Nat
        BY VestedNat DEF VestingInv
      <4>3. now - Start \in Int /\ now' - Start = (now - Start) + 1 /\ now' - Start \in Int
        BY <3>1, <4>1 DEF VestingInv
      <4>4. Vested(b) <= Vested(b)'
        BY <4>1, <4>2, <4>3, VestedGrows DEF Vested
      <4>5. Vested(b)' \in Nat
        BY <4>1, <4>2, <4>3, VestedPart DEF Vested
      <4> QED
        BY <4>2, <4>4, <4>5 DEF VestingInv
    <3> QED
      BY <2>2, <3>1, <3>2 DEF VestingInv
  <2>3. ASSUME NEW b \in Buckets, Claim(b) PROVE VestingInv'
    <3>1. \A c \in Buckets : Vested(c)' = Vested(c)
      BY <2>3 DEF Claim, Vested
    <3>2. claimableNow(b) = Vested(b) - claimed[b] /\ Vested(b) \in Nat
      BY <2>3, VestedNat DEF Claim, claimableNow, VestingInv
    <3>3. claimed' = [claimed EXCEPT ![b] = Vested(b)]
      <4>1. claimed[b] \in Nat
        BY DEF VestingInv
      <4>2. claimed[b] + claimableNow(b) = Vested(b)
        BY <3>2, <4>1, SMT
      <4> QED
        BY <2>3, <4>2 DEF Claim
    <3> QED
      BY <2>3, <3>1, <3>2, <3>3 DEF Claim, VestingInv
  <2> QED
    BY <2>1, <2>2, <2>3 DEF VestingNext
<1> QED
  BY <1>1, <1>2, PTL DEF VestingSpec

\* Whatever the schedule and however claims are timed, what was claimed and what
\* is claimable make up what has vested.
THEOREM ClaimsCorrect == VestingSpec => []ClaimsFollowVesting
<1>1. VestingInv => ClaimsFollowVesting
  BY VestedNat DEF VestingInv, ClaimsFollowVesting, claimableNow
<1> QED
  BY <1>1, NeverOverclaimed, PTL

\* No bucket is overdrawn, and at the end of its schedule all of it is due.
THEOREM AllocationsMet == VestingSpec => []AllocationMet
<1>1. VestingInv => AllocationMet
  <2> SUFFICES ASSUME VestingInv, NEW b \in Buckets
               PROVE  /\ claimed[b] <= bucketAllocation(b)
                      /\ now >= Start + Schedules[b].cliff + Schedules[b].duration =>
                            claimed[b] + claimableNow(b) = bucketAllocation(b)
    BY DEF AllocationMet
  <2>1. /\ now \in Nat /\ claimed[b] \in Nat /\ claimed[b] <= Vested(b)
        /\ bucketAllocation(b) \in Nat /\ Vested(b) \in Nat
    BY VestedNat DEF VestingInv
  <2>2. /\ Schedules[b] \in Schedule /\ Start \in Nat /\ Schedules[b].cliff \in Nat
        /\ Schedules[b].duration \in Nat /\ now - Start \in Int
    BY <2>1, VestingAssumption DEF Buckets, Schedule
  <2>3. Vested(b) <= bucketAllocation(b)
    BY <2>1, <2>2, VestedPart DEF Vested
  <2>4. ASSUME now >= Start + Schedules[b].cliff + Schedules[b].duration
        PROVE  Vested(b) = bucketAllocation(b)
    <3>1. now - Start >= Schedules[b].cliff + Schedules[b].duration
      BY <2>1, <2>2, <2>4
    <3> QED
      BY <2>1, <2>2, <3>1, FullyVested DEF Vested
  <2>5. claimed[b] + claimableNow(b) = Vested(b)
    BY <2>1 DEF claimableNow
  <2> QED
    BY <2>1, <2>3, <2>4, <2>5
<1> QED
  BY <1>1, NeverOverclaimed, PTL

\* Vesting neither loses nor creates tokens, whatever the schedule.
THEOREM VestingIsRight == VestingSpec => []VestingRight
<1>1. ClaimsFollowVesting /\ AllocationMet => VestingRight
  BY DEF VestingRight
<1> QED
  BY <1>1, ClaimsCorrect, AllocationsMet, PTL

-----------------------------------------------------------------------------
(* ProofOfPayment *)

Entries == [fate : {"none", "failed", "other"}] \cup Settlements

Questions == [kind : Kinds, of : Payments, nonce : Payments, by : Agents,
              fate : {"none", "failed", "other", "ok"}, answer : Answers \cup {"asked", "half"}]

\* What is under way, and what it has found out so far.
LookupInv ==
    /\ now \in Nat /\ skew \in Skews /\ dev \in BOOLEAN
    /\ ledger \in [Payments -> Entries]
    /\ query = Silent \/ query \in Questions
    /\ query.answer = "half" => query.kind = "verify" /\ Succeeded(query.of)
    /\ PaidIsPaid /\ RefusalHasGround

Verdicts == {"none", "ok", "future", "expired", "insufficient", "invalid"}

ProofsInv ==
    /\ LookupInv /\ ReceiptIsSettlement /\ HonestReceiptAccepted
    /\ nonces \subseteq Payments /\ verdict.answer \in Verdicts

-----------------------------------------------------------------------------

\* A signature that fits the receipt vouches for the fields it covers.
LEMMA SignedFields ==
    ASSUME NEW p \in Payments, ledger[p] \in Settlements,
           NEW s \in Shown(p), s.signature = Hmac("gateway", s.r)
    PROVE  /\ s.r.tx = p /\ s.r.nonce = p /\ s.r.to = ledger[p].to
           /\ s.r.amount = ledger[p].amount /\ s.r.settledAt = ledger[p].settledAt
<1> DEFINE good == Fields(p)
           sig == Hmac("gateway", good)
<1>1. /\ good.tx = p /\ good.nonce = p /\ good.to = ledger[p].to
      /\ good.amount = ledger[p].amount /\ good.settledAt = ledger[p].settledAt
      /\ good.mint = "null"
  BY DEF Fields
<1>2. s.signature \in {sig, Hmac("other", good), <<>>} /\ s.r.tx = p
  BY DEF Shown, Signed, buildPaymentProof, Fields
<1>3. /\ Hmac("gateway", s.r) = <<"gateway", canonicalPayload(s.r)>>
      /\ Hmac("other", good) = <<"other", canonicalPayload(good)>>
      /\ sig = <<"gateway", canonicalPayload(good)>>
  BY DEF Hmac
<1> HIDE DEF sig, good
<1>4. canonicalPayload(s.r) = canonicalPayload(good)
  BY <1>2, <1>3
<1>5. /\ s.r.to = good.to /\ s.r.amount = good.amount
      /\ s.r.settledAt = good.settledAt /\ s.r.nonce = good.nonce
  BY <1>4 DEF canonicalPayload
<1> QED
  BY <1>1, <1>2, <1>5

\* A receipt that is accepted tells of the settlement it was made for.
LEMMA ShowSound ==
    ASSUME LookupInv, NEW p \in Payments, NEW a \in Agents, Show(p, a)
    PROVE  ReceiptIsSettlement'
<1>1. PICK s \in Shown(p) :
          verdict' = [answer |-> verifyPaymentProof(s, a), shown |-> s, of |-> p, by |-> a,
                      again |-> Again(s, a)]
  BY DEF Show
<1>2. UNCHANGED <<now, ledger, skew>> /\ ledger[p].fate = "ok"
  BY DEF Show, Settled
<1>3. ledger[p] \in Settlements
  BY <1>2 DEF LookupInv, Entries
<1>4. /\ ledger[p].settledAt \in Nat /\ ledger[p].amount \in Nat
      /\ now \in Nat /\ skew \in Int /\ MaxAge \in Nat /\ MinAmount[a] \in Nat
  BY <1>3, ProofAssumption DEF LookupInv, Settlements
<1>5. SUFFICES ASSUME verifyPaymentProof(s, a) = "ok" PROVE ReceiptIsSettlement'
  BY <1>1 DEF ReceiptIsSettlement
<1>6. /\ ~(now + skew - s.r.settledAt > MaxAge) /\ ~(s.r.amount < MinAmount[a])
      /\ s.signature = Hmac("gateway", s.r)
  BY <1>5 DEF verifyPaymentProof
<1>7. /\ s.r.tx = p /\ s.r.nonce = p /\ s.r.to = ledger[p].to
      /\ s.r.amount = ledger[p].amount /\ s.r.settledAt = ledger[p].settledAt
  BY <1>3, <1>6, SignedFields
<1>8. s.r.amount >= MinAmount[a] /\ now - ledger[p].settledAt <= MaxAge - skew
  BY <1>4, <1>6, <1>7
<1>9. verdict'.shown = s /\ verdict'.by = a
  BY <1>1
<1> QED
  BY <1>2, <1>7, <1>8, <1>9 DEF ReceiptIsSettlement

\* The gateway's own receipt for enough is only refused by the clocks.
LEMMA ShowFair ==
    ASSUME LookupInv, NEW p \in Payments, NEW a \in Agents, Show(p, a)
    PROVE  HonestReceiptAccepted' /\ verdict'.answer \in Verdicts
<1>1. PICK s \in Shown(p) :
          verdict' = [answer |-> verifyPaymentProof(s, a), shown |-> s, of |-> p, by |-> a,
                      again |-> Again(s, a)]
  BY DEF Show
<1>2. UNCHANGED <<now, ledger, skew>> /\ ledger[p] \in Settlements
  BY DEF Show, Settled, LookupInv, Entries
<1>3. /\ ledger[p].settledAt \in Nat /\ ledger[p].amount \in Nat
      /\ now \in Nat /\ skew \in Int /\ MaxAge \in Nat /\ MinAmount[a] \in Nat
  BY <1>2, ProofAssumption DEF LookupInv, Settlements
<1>4. verdict'.answer \in Verdicts
  BY <1>1 DEF verifyPaymentProof, Verdicts
<1>5. /\ verdict'.answer = verifyPaymentProof(s, a) /\ verdict'.shown = s
      /\ verdict'.of = p /\ verdict'.by = a
  BY <1>1
<1>6. ASSUME s = buildPaymentProof(Fields(p)), ledger[p].amount >= MinAmount[a],
             verifyPaymentProof(s, a) # "ok"
      PROVE  \/ now + skew < ledger[p].settledAt
             \/ now + skew > ledger[p].settledAt + MaxAge
  <2>1. s.r = Fields(p) /\ s.signature = Hmac("gateway", s.r)
    BY <1>6 DEF buildPaymentProof, Signed
  <2>2. s.r.settledAt = ledger[p].settledAt /\ s.r.amount = ledger[p].amount
    BY <2>1 DEF Fields
  <2>3. \/ now + skew - ledger[p].settledAt < 0
        \/ now + skew - ledger[p].settledAt > MaxAge
        \/ ledger[p].amount < MinAmount[a]
    BY <1>6, <2>1, <2>2 DEF verifyPaymentProof
  <2> QED
    BY <1>3, <1>6, <2>3
<1>7. buildPaymentProof(Fields(p))' = buildPaymentProof(Fields(p))
  BY <1>2 DEF buildPaymentProof, Signed, Hmac, canonicalPayload, Fields
<1> QED
  BY <1>2, <1>4, <1>5, <1>6, <1>7 DEF HonestReceiptAccepted

\* A payment lands or not: settlements stay.
LEMMA LandKeeps ==
    ASSUME LookupInv, NEW p \in Payments, Land(p)
    PROVE  LookupInv'
<1>1. UNCHANGED <<now, skew, dev, query>>
  BY DEF Land
<1>2. /\ ledger' \in [Payments -> Entries] /\ ledger[p].fate = "none"
      /\ \A q \in Payments : q # p => ledger'[q] = ledger[q]
  BY DEF Land, LookupInv, Entries, Settlements
<1>3. \A q \in Payments : ledger[q].fate # "none" =>
         ledger'[q] = ledger[q] /\ Settled(q)' = Settled(q) /\ Succeeded(q)' = Succeeded(q)
  BY <1>2 DEF Settled, Succeeded
<1>4. query # Silent => query.of \in Payments
  BY DEF LookupInv, Questions
<1>5. query = Silent => query.answer = "none"
  BY DEF Silent
<1>6. PaidIsPaid'
  BY <1>1, <1>3, <1>4, <1>5 DEF LookupInv, PaidIsPaid, Settled, Succeeded
<1>7. RefusalHasGround'
  BY <1>1, <1>3, <1>4, <1>5 DEF LookupInv, RefusalHasGround, Settled
<1> QED
  BY <1>1, <1>2, <1>3, <1>4, <1>5, <1>6, <1>7 DEF LookupInv, Succeeded

\* A question is asked; some are answered at once.
LEMMA AskKeeps ==
    ASSUME LookupInv, NEW kind \in Kinds, NEW p \in Payments, NEW a \in Agents, Ask(kind, p, a)
    PROVE  LookupInv'
<1>1. UNCHANGED <<now, ledger, skew, dev>>
  BY DEF Ask
<1>2. PICK stale \in BOOLEAN, q \in IF kind = "verify" THEN Payments ELSE {p} :
        query' = [kind |-> kind, of |-> p, nonce |-> q, by |-> a, fate |-> ledger[p].fate,
                  answer |-> OnAsking(kind, p, stale)]
  BY DEF Ask
<1>3. OnAsking(kind, p, stale) \in {"threw", "asked", "invalid", "valid"}
      /\ (OnAsking(kind, p, stale) = "valid" => dev)
  BY DEF OnAsking
<1>4. ledger[p].fate \in {"none", "failed", "other", "ok"} /\ q \in Payments
  BY DEF LookupInv, Entries, Settlements
<1>5. query' \in Questions
  BY <1>2, <1>3, <1>4 DEF Questions, Answers
<1>6. query'.answer \in {"threw", "asked", "invalid", "valid"} /\ (query'.answer = "valid" => dev)
  BY <1>2, <1>3
<1> QED
  BY <1>1, <1>5, <1>6 DEF LookupInv, PaidIsPaid, RefusalHasGround

\* An answer is found out, or the node fails.
LEMMA AnswerSound ==
    ASSUME LookupInv, Read \/ NodeFails
    PROVE  LookupInv'
<1>1. UNCHANGED <<now, ledger, skew, dev>> /\ query.answer \in {"asked", "half"}
  BY DEF Read, NodeFails
<1>2. query # Silent /\ query \in Questions
  BY <1>1 DEF LookupInv, Silent
<1>3. ASSUME NEW said \in Answers \cup {"half"}, Say(said)
      PROVE  /\ query' \in Questions /\ query'.kind = query.kind /\ query'.of = query.of
             /\ query'.by = query.by /\ query'.answer = said
  BY <1>2, <1>3 DEF Say, Questions
<1>4. ASSUME NEW said \in Answers \cup {"half"}, Say(said),
             said = "half" => query.kind = "verify" /\ Succeeded(query.of),
             said \in {"confirmed", "valid"} => Succeeded(query.of),
             said \in {"ok", "mismatch", "insufficient"} => Settled(query.of),
             said = "ok" /\ query.kind = "assert" =>
                /\ ledger[query.of].to = query.by
                /\ ledger[query.of].amount >= MinAmount[query.by],
             said = "mismatch" => ledger[query.of].to # query.by,
             said = "insufficient" => ledger[query.of].amount < MinAmount[query.by],
             said = "failed" => ledger[query.of].fate = "failed"
      PROVE  LookupInv'
  <2>1. /\ query' \in Questions /\ query'.kind = query.kind /\ query'.of = query.of
        /\ query'.by = query.by /\ query'.answer = said
    BY <1>3, <1>4
  <2>2. PaidIsPaid'
    BY <1>1, <1>4, <2>1 DEF PaidIsPaid, Settled, Succeeded
  <2>3. RefusalHasGround'
    BY <1>1, <1>4, <2>1 DEF RefusalHasGround, Settled
  <2> QED
    BY <1>1, <1>4, <2>1, <2>2, <2>3 DEF LookupInv, Succeeded
<1>5. ledger[query.of] \in Entries /\ query.kind \in Kinds
  BY <1>2 DEF LookupInv, Questions
<1>6. CASE NodeFails
  <2>1. PICK failure \in Failures(query.kind) : Say(failure)
    BY <1>6 DEF NodeFails
  <2>2. failure \in {"RPC_ERROR", "DECODE_FAILED", "NOT_FOUND", "500", "invalid", "400"}
    BY <1>5 DEF Failures, Kinds
  <2> QED
    BY <1>4, <2>1, <2>2 DEF Answers
<1>7. CASE query.answer = "half" /\ CheckNonce
  <2>1. Succeeded(query.of)
    BY <1>7 DEF LookupInv
  <2>2. Say("valid") \/ Say("invalid")
    BY <1>7 DEF CheckNonce, Sight
  <2> QED
    BY <1>4, <2>1, <2>2 DEF Answers
<1>8. CASE query.kind \in {"record", "assert"} /\ ReadRecord
  <2>1. \/ Say("NOT_FOUND")
        \/ Settled(query.of) /\ query.kind = "record" /\ Say("ok")
        \/ Settled(query.of) /\ query.kind = "assert" /\ Say(Asserted(ledger[query.of], query.by))
    BY <1>8 DEF ReadRecord, Sight
  <2>2. CASE Say("NOT_FOUND")
    BY <1>4, <2>2 DEF Answers
  <2>3. CASE Settled(query.of) /\ query.kind = "record" /\ Say("ok")
    BY <1>4, <2>3 DEF Answers
  <2>4. CASE Settled(query.of) /\ query.kind = "assert" /\ Say(Asserted(ledger[query.of], query.by))
    <3>1. Asserted(ledger[query.of], query.by) \in {"mismatch", "insufficient", "ok"}
      BY DEF Asserted
    <3>2. ledger[query.of].amount \in Nat /\ MinAmount[query.by] \in Nat
      BY <1>2, <1>5, <2>4, ProofAssumption DEF Entries, Settlements, Settled, Questions
    <3>3. /\ Asserted(ledger[query.of], query.by) = "ok" =>
                ledger[query.of].to = query.by /\ ledger[query.of].amount >= MinAmount[query.by]
          /\ Asserted(ledger[query.of], query.by) = "mismatch" => ledger[query.of].to # query.by
          /\ Asserted(ledger[query.of], query.by) = "insufficient" =>
                ledger[query.of].amount < MinAmount[query.by]
      BY <3>2 DEF Asserted
    <3> QED
      BY <1>4, <2>4, <3>1, <3>3 DEF Answers
  <2> QED
    BY <2>1, <2>2, <2>3, <2>4
<1>9. CASE query.kind = "tx" /\ ReadTx
  <2>1. ledger[query.of].fate \in {"none", "ok", "failed", "other"}
    BY <1>5 DEF Entries, Settlements
  <2>2. \/ Say("404")
        \/ Succeeded(query.of) /\ Say("confirmed")
        \/ ledger[query.of].fate = "failed" /\ Say("failed")
    BY <1>9, <2>1 DEF ReadTx, Sight, Succeeded
  <2> QED
    BY <1>4, <2>2 DEF Answers
<1>10. CASE query.kind = "verify" /\ CheckTx
  <2>1. Say("invalid") \/ (Succeeded(query.of) /\ Say("half"))
    BY <1>10 DEF CheckTx, Sight
  <2> QED
    BY <1>4, <1>10, <2>1 DEF Answers
<1>11. CASE query.kind = "nonce" /\ ReadNonce
  <2>1. Say("used") \/ Say("unused")
    BY <1>11 DEF ReadNonce, Sight
  <2> QED
    BY <1>4, <2>1 DEF Answers
<1> QED
  BY <1>6, <1>7, <1>8, <1>9, <1>10, <1>11 DEF Read

-----------------------------------------------------------------------------

\* The invariant holds in every reachable state.
THEOREM ProofsInvariance == ProofsSpec => []ProofsInv
<1>0. ASSUME verdict.answer = "none"
      PROVE  ReceiptIsSettlement /\ HonestReceiptAccepted /\ verdict.answer \in Verdicts
  BY <1>0 DEF ReceiptIsSettlement, HonestReceiptAccepted, Verdicts
<1>1. now = 0 /\ ProofsInit => ProofsInv
  <2> SUFFICES ASSUME now = 0, ProofsInit PROVE ProofsInv
    OBVIOUS
  <2>1. query = Silent /\ query.answer = "none" /\ verdict.answer = "none"
    BY DEF ProofsInit, Silent, Unsaid
  <2>2. ledger \in [Payments -> Entries]
    BY DEF ProofsInit, Entries
  <2> QED
    BY <1>0, <2>1, <2>2 DEF ProofsInit, ProofsInv, LookupInv, PaidIsPaid, RefusalHasGround
<1>2. ProofsInv /\ [ProofsNext]_<<now, proofVars>> => ProofsInv'
  <2> SUFFICES ASSUME ProofsInv, [ProofsNext]_<<now, proofVars>> PROVE ProofsInv'
    OBVIOUS
  <2>0. ASSUME verdict' = Unsaid
        PROVE  ReceiptIsSettlement' /\ HonestReceiptAccepted' /\ verdict'.answer \in Verdicts
    <3>1. verdict'.answer = "none"
      BY <2>0 DEF Unsaid
    <3> QED
      BY <3>1 DEF ReceiptIsSettlement, HonestReceiptAccepted, Verdicts
  <2>1. ASSUME UNCHANGED <<now, ledger, skew, verdict>>
        PROVE  ReceiptIsSettlement' /\ HonestReceiptAccepted' /\ verdict'.answer \in Verdicts
    <3>1. \A q : Fields(q)' = Fields(q)
      BY <2>1 DEF Fields
    <3>2. \A q : buildPaymentProof(Fields(q))' = buildPaymentProof(Fields(q))
      BY <2>1 DEF buildPaymentProof, Signed, Hmac, canonicalPayload, Fields
    <3> QED
      BY <2>1, <3>2 DEF ProofsInv, ReceiptIsSettlement, HonestReceiptAccepted
  <2>2. CASE UNCHANGED <<now, proofVars>>
    BY <2>1, <2>2 DEF proofVars, ProofsInv, LookupInv, PaidIsPaid, RefusalHasGround, Settled, Succeeded
  <2>3. CASE Tick /\ verdict' = Unsaid /\ UNCHANGED <<ledger, nonces, skew, dev, query>>
    <3>1. now' \in Nat
      BY <2>3 DEF Tick, ProofsInv, LookupInv
    <3> QED
      BY <2>0, <2>3, <3>1 DEF ProofsInv, LookupInv, PaidIsPaid, RefusalHasGround, Settled, Succeeded
  <2>4. ASSUME NEW p \in Payments, Land(p) PROVE ProofsInv'
    <3>1. LookupInv'
      BY <2>4, LandKeeps DEF ProofsInv
    <3>2. nonces' \subseteq Payments
      BY <2>4 DEF Land, ProofsInv
    <3> QED
      BY <2>0, <2>4, <3>1, <3>2 DEF Land, ProofsInv
  <2>5. ASSUME NEW p \in Payments, RegisterNonce(p) PROVE ProofsInv'
    BY <2>0, <2>5 DEF RegisterNonce, ProofsInv, LookupInv, PaidIsPaid, RefusalHasGround, Settled, Succeeded
  <2>6. ASSUME NEW p \in Payments, NEW a \in Agents, Show(p, a) PROVE ProofsInv'
    <3>1. LookupInv' /\ nonces' \subseteq Payments
      BY <2>6 DEF Show, ProofsInv, LookupInv, PaidIsPaid, RefusalHasGround, Settled, Succeeded
    <3> QED
      BY <2>6, <3>1, ShowSound, ShowFair DEF ProofsInv
  <2>7. ASSUME NEW p \in Payments, NEW a \in Agents, NEW kind \in Kinds, Ask(kind, p, a)
        PROVE  ProofsInv'
    <3>1. LookupInv'
      BY <2>7, AskKeeps DEF ProofsInv
    <3> QED
      BY <2>0, <2>7, <3>1 DEF Ask, ProofsInv
  <2>8. CASE Read \/ NodeFails
    <3>1. LookupInv'
      BY <2>8, AnswerSound DEF ProofsInv
    <3>2. UNCHANGED <<now, ledger, nonces, skew, verdict>>
      BY <2>8 DEF Read, NodeFails
    <3> QED
      BY <2>1, <3>1, <3>2 DEF ProofsInv
  <2> QED
    BY <2>2, <2>3, <2>4, <2>5, <2>6, <2>7, <2>8 DEF ProofsNext
<1> QED
  BY <1>1, <1>2, PTL DEF ProofsSpec

\* A receipt that verifyPaymentProof accepts tells of a settlement as it was.
THEOREM ReceiptsTrue == ProofsSpec => []ReceiptIsSettlement
<1>1. ProofsInv => ReceiptIsSettlement
  BY DEF ProofsInv
<1> QED
  BY <1>1, ProofsInvariance, PTL

\* A record is told of what settled, "confirmed" and "valid" said of what succeeded.
THEOREM PaidTrue == ProofsSpec => []PaidIsPaid
<1>1. ProofsInv => PaidIsPaid
  BY DEF ProofsInv, LookupInv
<1> QED
  BY <1>1, ProofsInvariance, PTL

\* "failed", "mismatch" and "insufficient" are facts of the ledger.
THEOREM RefusalsGrounded == ProofsSpec => []RefusalHasGround
<1>1. ProofsInv => RefusalHasGround
  BY DEF ProofsInv, LookupInv
<1> QED
  BY <1>1, ProofsInvariance, PTL

\* verifyPaymentProof accepts true receipts and refuses none of the gateway's own
\* without cause.
THEOREM ReceiptsAreRight == ProofsSpec => []ReceiptsRight
<1>1. ProofsInv => ReceiptsRight
  BY DEF ProofsInv, ReceiptsRight
<1> QED
  BY <1>1, ProofsInvariance, PTL

\* Lookups are well typed, and what they say of a payment they have seen is true,
\* over a ledger that moves and nodes that lag.
THEOREM LookupsAreRight == ProofsSpec => []LookupsRight
<1>1. ProofsInv => LookupsRight
  <2> SUFFICES ASSUME ProofsInv PROVE ProofsTypeOK
    BY DEF ProofsInv, LookupInv, LookupsRight
  <2>1. query.kind \in Kinds \cup {"none"} /\ query.answer \in Answers \cup {"none", "asked", "half"}
    BY DEF ProofsInv, LookupInv, Silent, Questions
  <2> QED
    BY <2>1 DEF ProofsInv, LookupInv, Entries, Verdicts, ProofsTypeOK
<1> QED
  BY <1>1, ProofsInvariance, PTL

=============================================================================
