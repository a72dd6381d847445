------------------------------- MODULE Vesting -------------------------------
(***************************************************************************)
(* The token distribution of packages/protocol/src/tokenomics.ts: buckets, *)
(* vesting schedules, and a beneficiary of each bucket who claims what     *)
(* claimableNow gives at times of its choice.                              *)
(***************************************************************************)
EXTENDS GatewayClock, Integers

CONSTANTS Supply,     \* AERN_TOTAL_SUPPLY
          Schedules,  \* DISTRIBUTION and VESTING_SCHEDULES, by bucket
          Base,       \* 10_000n
          Start       \* startTs

ASSUME VestingAssumption ==
    /\ Supply \in Nat /\ Base \in Nat \ {0} /\ Start \in Nat
    /\ Schedules \in [DOMAIN Schedules ->
          [bps : 0..Base, cliff : Nat, duration : Nat, unlock : 0..Base]]

VARIABLE claimed  \* VestingAccount.claimed, by bucket

Buckets == DOMAIN Schedules

VestingInit == claimed = [b \in Buckets |-> 0]

-----------------------------------------------------------------------------

bucketAllocation(b) == (Supply * Schedules[b].bps) \div Base

Least(x, y) == IF x < y THEN x ELSE y

\* calculateVested: nothing before the start, the initial unlock up to the
\* cliff, then the rest in proportion to the time since the cliff.
calculateVested(total, s, elapsed) ==
    LET initialUnlock == (total * s.unlock) \div Base IN
    IF elapsed < 0 THEN 0
    ELSE IF s.duration = 0 THEN total
    ELSE IF elapsed < s.cliff THEN initialUnlock
    ELSE initialUnlock + ((total - initialUnlock) * Least(elapsed - s.cliff, s.duration))
                              \div s.duration

Vested(b) == calculateVested(bucketAllocation(b), Schedules[b], now - Start)

FaultyClaimable(b) == Vested(b)

claimableNow(b) == IF Vested(b) > claimed[b] THEN Vested(b) - claimed[b] ELSE 0

Claim(b) ==
    /\ claimableNow(b) > 0
    /\ claimed' = [claimed EXCEPT ![b] = @ + claimableNow(b)]
    /\ UNCHANGED now

VestingNext == (Tick /\ UNCHANGED claimed) \/ \E b \in Buckets : Claim(b)

VestingSpec == now = 0 /\ VestingInit /\ [][VestingNext]_<<now, claimed>>

-----------------------------------------------------------------------------
(* Properties *)

\* Whenever and however often a beneficiary claims, what was claimed and what
\* is claimable make up what has vested: claiming early or often costs nothing.
ClaimsFollowVesting == \A b \in Buckets : claimed[b] + claimableNow(b) = Vested(b)

\* No bucket pays out more than its allocation, and once a schedule has run the
\* whole allocation is due, however claims and rounding fell before.
AllocationMet ==
    \A b \in Buckets :
        /\ claimed[b] <= bucketAllocation(b)
        /\ now >= Start + Schedules[b].cliff + Schedules[b].duration =>
              claimed[b] + claimableNow(b) = bucketAllocation(b)

\* Vesting neither loses nor creates tokens.
VestingRight == ClaimsFollowVesting /\ AllocationMet

=============================================================================
