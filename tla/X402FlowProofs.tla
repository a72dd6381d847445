--------------------------- MODULE X402FlowProofs ---------------------------
(***************************************************************************)
(* The x402 flow for any calls, wallets, prices, gates and clocks: a call  *)
(* pays at most once, within its limit and before the expiry, and what is  *)
(* served was paid.  Its chain is a behaviour of AeeronProtocol.            *)
(***************************************************************************)
EXTENDS X402Flow, TLAPS

\* What each phase of a call says of its details and of its transaction.
Before == {"idle", "first"}
Unsent == {"details", "approved"}
Confirmed == {"proof", "retried", "ok", "refused"}
Asked == {"retried", "ok", "refused", "threw"}

PhaseOf(c) ==
  /\ call[c].pc \in Before => c \notin Challenged
  /\ call[c].pc \notin Before \cup {"threw"} => c \in Challenged
  /\ call[c].pc \in Unsent => NonceOf(c) \notin DOMAIN tx
  /\ call[c].pc = "approved" => call[c].details.amount <= maxAmount[c]
  /\ call[c].pc \in Confirmed \cup {"sent"} => NonceOf(c) \in DOMAIN tx
  /\ call[c].pc \in Confirmed => tx[NonceOf(c)] \in {"Ok", "failed"}

\* Details are the resource's, and their nonce was issued for this call alone.
DetailsOf(c) ==
  /\ call[c].details \in Details
  /\ NonceOf(c) \in issued
  /\ call[c].details.amount = price[call[c].resource]
  /\ call[c].details.payee = payeeOf[call[c].resource]
  /\ call[c].details.expiry <= now + Ttl
  /\ NonceOf(c) \in DOMAIN tx => call[c].details.amount <= maxAmount[c]
  /\ \A d \in Challenged : NonceOf(d) = NonceOf(c) => d = c

\* The chain holds a nonce's record exactly when its transaction landed, and
\* that transaction was some call's, from its wallet.
RecordsAreLandings ==
  /\ DOMAIN tx \subseteq issued
  /\ \A n \in DOMAIN tx : \E c \in Challenged : n = NonceOf(c)
  /\ \A n \in Nonces : n \in DOMAIN nonceRecord <=> Landed(n)
  /\ \A c \in Challenged : Landed(NonceOf(c)) => nonceRecord[NonceOf(c)].payer = walletOf[c]

\* What the state of a verification says of its proof: which gates read the
\* chain, and what each read and each reason was true of.
CheckOf(c) ==
  /\ check[c] # "none" => /\ call[c].pc \in Asked /\ c \in Challenged
                          /\ NonceOf(c) \in DOMAIN tx
                          /\ tx[NonceOf(c)] \in {"Ok", "failed"}
  /\ check[c] \in {"tx", "nonce"} => gate[call[c].resource] = "middleware"
  /\ check[c] = "nonce" => Landed(NonceOf(c))
  /\ check[c] = "failed" => ~Landed(NonceOf(c))
  /\ check[c] = "too old" => now > call[c].stamp + ProofMaxAge
  /\ c \in Challenged /\ served[NonceOf(c)] > 0 =>
       gate[call[c].resource] = "dev" \/ Landed(NonceOf(c))

FlowInv ==
  /\ TypeOK /\ now <= MaxTime
  /\ \A c \in Calls : PhaseOf(c)
  /\ \A c \in Challenged : DetailsOf(c)
  /\ RecordsAreLandings
  /\ \A n \in Nonces : served[n] > 0 => n \in DOMAIN tx
  /\ \A c \in Calls : CheckOf(c)

CallType == [pc: Waiting \cup Outcomes, resource: Resources,
             details: Details \cup {NoDetails}, stamp: Nat]

-----------------------------------------------------------------------------

\* A call without details is told from one with details.
LEMMA DetailsDiffer == \A d \in Details : d # NoDetails
  BY DEF Details, NoDetails

\* The parts of TypeOK, and what they say of a call that met a 402.
LEMMA Types ==
  ASSUME TypeOK
  PROVE  /\ Chain!TypeOK /\ call \in [Calls -> CallType] /\ issued \subseteq Nonces
         /\ DOMAIN tx \subseteq issued /\ tx \in [DOMAIN tx -> Fates]
         /\ served \in [Nonces -> Nat] /\ now \in Nat
         /\ \A c \in Challenged : call[c].details \in Details /\ NonceOf(c) \in Nonces
  BY DEF TypeOK, CallType, Chain!TypeOK, Challenged, Details, NonceOf

\* A transaction's fate is set; the others keep theirs.
LEMMA FateSet ==
  ASSUME TypeOK, NEW n \in issued, NEW fate \in Fates, SetFate(n, fate)
  PROVE  /\ DOMAIN tx' = DOMAIN tx \cup {n} /\ tx'[n] = fate
         /\ \A m \in DOMAIN tx : m # n => tx'[m] = tx[m]
         /\ \E ns \in SUBSET issued : tx' \in [ns -> Fates]
<1>1. DOMAIN tx \subseteq issued /\ \A m \in DOMAIN tx : tx[m] \in Fates
  BY Types
<1>2. tx' \in [DOMAIN tx \cup {n} -> Fates]
  BY <1>1 DEF SetFate
<1> QED
  BY <1>1, <1>2 DEF SetFate

\* A call moves to another phase and keeps its details.
LEMMA GoMoves ==
  ASSUME TypeOK, NEW c \in Calls, NEW p \in Waiting \cup Outcomes, Go(c, p)
  PROVE  /\ call' \in [Calls -> CallType] /\ call'[c].pc = p
         /\ \A d \in Calls : /\ call'[d].details = call[d].details
                             /\ call'[d].resource = call[d].resource
                             /\ call'[d].stamp = call[d].stamp
                             /\ d # c => call'[d] = call[d]
<1>1. call \in [Calls -> CallType]
  BY Types
<1> QED
  BY <1>1 DEF Go, CallType

\* While details, the chain and the transactions stay, so does what relates them.
LEMMA SameDetails ==
  ASSUME FlowInv, UNCHANGED <<chainVars, issued, tx>>,
         \A d \in Calls : /\ call'[d].details = call[d].details
                          /\ call'[d].resource = call[d].resource
  PROVE  /\ Challenged' = Challenged /\ \A d \in Calls : NonceOf(d)' = NonceOf(d)
         /\ \A d \in Challenged : DetailsOf(d)'
         /\ RecordsAreLandings'
<1>1. Challenged' = Challenged /\ \A d \in Calls : NonceOf(d)' = NonceOf(d)
  BY DEF Challenged, NonceOf
<1>2. Challenged \subseteq Calls
  BY DEF Challenged
<1>3. \A d \in Challenged : DetailsOf(d)'
  BY <1>1, <1>2 DEF FlowInv, DetailsOf, chainVars
<1>4. RecordsAreLandings'
  BY <1>1, <1>2 DEF FlowInv, RecordsAreLandings, Landed, chainVars
<1> QED
  BY <1>1, <1>3, <1>4

\* A verification that stays where it is, of a call with the same details and of
\* transactions whose fate, once settled, stays, keeps what its state says.
LEMMA CheckStays ==
  ASSUME FlowInv, NEW d \in Calls, check'[d] = check[d],
         call'[d].details = call[d].details, call'[d].resource = call[d].resource,
         check[d] # "none" =>
           call'[d].pc \in Asked /\ call'[d].stamp = call[d].stamp,
         d \in Challenged => served'[NonceOf(d)] = served[NonceOf(d)],
         \A n \in DOMAIN tx : tx[n] \in {"Ok", "failed"} =>
                                n \in DOMAIN tx' /\ tx'[n] = tx[n],
         now' \in Nat, now <= now'
  PROVE  CheckOf(d)'
<1>1. NonceOf(d)' = NonceOf(d) /\ (d \in Challenged' <=> d \in Challenged)
  BY DEF NonceOf, Challenged
<1>2. CheckOf(d)
  BY DEF FlowInv
<1>3. Landed(NonceOf(d)) => Landed(NonceOf(d))'
  BY <1>1 DEF Landed
<1>4. check[d] = "failed" => ~Landed(NonceOf(d))'
  BY <1>1, <1>2 DEF CheckOf, Landed
<1>5. check[d] = "too old" => now' > call'[d].stamp + ProofMaxAge
  <2>1. call[d].stamp \in Nat /\ now \in Nat /\ ProofMaxAge \in Nat
    BY Types, FlowAssumption DEF CallType, FlowInv
  <2>2. \A t0, t1, s, a \in Nat : t0 > s + a /\ t0 <= t1 => t1 > s + a
    OBVIOUS
  <2>3. check[d] = "too old" =>
          now > call[d].stamp + ProofMaxAge /\ call'[d].stamp = call[d].stamp
    BY <1>2 DEF CheckOf
  <2> QED
    BY <2>1, <2>2, <2>3
<1> QED
  BY <1>1, <1>2, <1>3, <1>4, <1>5 DEF CheckOf

\* A step of one call and its verification that leaves the chain, the nonces and
\* the transactions alone.
LEMMA StepKeeps ==
  ASSUME FlowInv, NEW c \in Calls, UNCHANGED <<chainVars, issued, tx>>,
         call' \in [Calls -> CallType], check' \in [Calls -> Checks],
         served' \in [Nonces -> Nat],
         \A d \in Calls : /\ call'[d].details = call[d].details
                          /\ call'[d].resource = call[d].resource
                          /\ d # c => call'[d] = call[d] /\ check'[d] = check[d],
         PhaseOf(c)', CheckOf(c)',
         \A n \in Nonces : served'[n] # served[n] =>
                             c \in Challenged /\ n = NonceOf(c) /\ n \in DOMAIN tx
  PROVE  FlowInv'
<1>1. /\ Challenged' = Challenged /\ \A d \in Calls : NonceOf(d)' = NonceOf(d)
      /\ \A d \in Challenged : DetailsOf(d)'
      /\ RecordsAreLandings'
  BY SameDetails
<1>2. TypeOK' /\ now' <= MaxTime
  BY DEF FlowInv, TypeOK, CallType, chainVars, Chain!TypeOK
<1>3. \A d \in Calls : PhaseOf(d)'
  <2> TAKE d \in Calls
  <2>1. CASE d # c
    BY <1>1, <2>1 DEF FlowInv, PhaseOf
  <2> QED
    BY <2>1
<1>4. \A n \in Nonces : served'[n] > 0 => n \in DOMAIN tx'
  BY DEF FlowInv
<1>5. \A d \in Calls : CheckOf(d)'
  <2> TAKE d \in Calls
  <2>1. CASE d # c
    <3>1. d \in Challenged => served'[NonceOf(d)] = served[NonceOf(d)]
      BY <2>1, Types DEF FlowInv, DetailsOf
    <3>2. call'[d] = call[d] /\ check'[d] = check[d] /\ now' = now /\ now \in Nat
      BY <2>1, Types DEF FlowInv, chainVars
    <3>3. check[d] # "none" => call[d].pc \in Asked
      BY DEF FlowInv, CheckOf
    <3> QED
      BY <3>1, <3>2, <3>3, CheckStays
  <2> QED
    BY <2>1
<1> QED
  BY <1>1, <1>2, <1>3, <1>4, <1>5 DEF FlowInv

\* A step of one call that only changes its phase.
LEMMA GoKeeps ==
  ASSUME FlowInv, NEW c \in Calls, NEW p \in Waiting \cup Outcomes, Go(c, p),
         UNCHANGED <<chainVars, issued, tx, check, served>>, PhaseOf(c)',
         check[c] # "none" => p \in Asked
  PROVE  FlowInv'
<1>1. /\ call' \in [Calls -> CallType] /\ call'[c].pc = p
      /\ \A d \in Calls : /\ call'[d].details = call[d].details
                          /\ call'[d].resource = call[d].resource
                          /\ call'[d].stamp = call[d].stamp
                          /\ d # c => call'[d] = call[d]
  BY GoMoves DEF FlowInv
<1>2. now' = now /\ now \in Nat
  BY Types DEF FlowInv, chainVars
<1>3. CheckOf(c)'
  BY <1>1, <1>2, CheckStays
<1>4. check' \in [Calls -> Checks] /\ served' \in [Nonces -> Nat]
  BY DEF FlowInv, TypeOK
<1> QED
  BY <1>1, <1>3, <1>4, StepKeeps

\* A call whose phase and details stay keeps what its phase says.
LEMMA PhaseStays ==
  ASSUME NEW d \in Calls, PhaseOf(d), call'[d] = call[d],
         NonceOf(d) \in DOMAIN tx' <=> NonceOf(d) \in DOMAIN tx,
         \A n \in DOMAIN tx : tx[n] \in {"Ok", "failed"} => tx'[n] = tx[n]
  PROVE  PhaseOf(d)'
<1>1. NonceOf(d)' = NonceOf(d)
  BY DEF NonceOf
<1>2. d \in Challenged' <=> d \in Challenged
  BY DEF Challenged
<1> QED
  BY <1>1, <1>2 DEF PhaseOf, Unsent, Confirmed, Before

\* The 402 gives a call details of its own.
LEMMA ChallengeKeeps ==
  ASSUME FlowInv, NEW c \in Calls, Challenge(c)
  PROVE  FlowInv'
<1> PICK n \in Nonces \ issued :
      /\ issued' = issued \cup {n}
      /\ call' = [call EXCEPT ![c].pc = "details",
                              ![c].details = BuildDetails(call[c].resource, n)]
  BY DEF Challenge
<1> DEFINE D == BuildDetails(call[c].resource, n)
<1>1. /\ call \in [Calls -> CallType] /\ now \in Nat /\ issued \subseteq Nonces
      /\ DOMAIN tx \subseteq issued
      /\ \A d \in Challenged : call[d].details \in Details
  BY Types DEF FlowInv
<1>2. D \in Details /\ D # NoDetails
  <2>1. call[c].resource \in Resources
    BY <1>1 DEF CallType
  <2>2. D \in Details
    BY <1>1, <2>1, FlowAssumption DEF Details, BuildDetails, Payees
  <2> QED
    BY <2>2, DetailsDiffer
<1>3. /\ call'[c].pc = "details" /\ call'[c].details = D
      /\ call'[c].resource = call[c].resource /\ call'[c].stamp = call[c].stamp
      /\ \A d \in Calls : d # c => call'[d] = call[d]
  BY <1>1 DEF CallType
<1>4. call' \in [Calls -> CallType]
  BY <1>1, <1>2, <1>3 DEF CallType, Waiting, Outcomes
<1>5. Challenged' = Challenged \cup {c} /\ c \notin Challenged
  <2>1. c \notin Challenged
    BY DEF FlowInv, PhaseOf, Before, Challenge
  <2> QED
    BY <1>2, <1>3, <2>1 DEF Challenged
<1>6. NonceOf(c)' = n /\ \A d \in Calls : d # c => NonceOf(d)' = NonceOf(d)
  <2>1. D.nonce = n
    BY DEF BuildDetails
  <2>2. NonceOf(c)' = n
    BY <1>3, <2>1 DEF NonceOf
  <2> QED
    BY <1>3, <2>2 DEF NonceOf
<1>7. UNCHANGED <<chainVars, tx, check, served>>
  BY DEF Challenge
<1>8. TypeOK' /\ now' <= MaxTime
  BY <1>1, <1>4, <1>7 DEF FlowInv, TypeOK, CallType, chainVars, Chain!TypeOK
<1>9. \A d \in Calls : PhaseOf(d)'
  <2> TAKE d \in Calls
  <2>1. CASE d = c
    BY <1>1, <1>3, <1>5, <1>6, <1>7, <2>1
    DEF PhaseOf, Before, Unsent, Confirmed
  <2>2. CASE d # c
    BY <1>3, <1>7, <2>2, PhaseStays DEF FlowInv
  <2> QED
    BY <2>1, <2>2
<1>10. \A d \in Challenged' : DetailsOf(d)'
  <2> SUFFICES ASSUME NEW d \in Challenged' PROVE DetailsOf(d)'
    OBVIOUS
  <2>1. \A e \in Challenged : e \in Calls /\ e # c /\ NonceOf(e)' = NonceOf(e)
                              /\ NonceOf(e) \in issued
    BY <1>5, <1>6 DEF FlowInv, DetailsOf, Challenged
  <2>2. now' = now
    BY <1>7 DEF chainVars
  <2>3. CASE d = c
    <3>1. \A e \in Challenged' : NonceOf(e)' = NonceOf(c)' => e = c
      BY <1>5, <1>6, <2>1
    <3>2. n \notin DOMAIN tx'
      BY <1>1, <1>7
    <3>3. /\ D.amount = price[call[c].resource] /\ D.payee = payeeOf[call[c].resource]
          /\ D.expiry = now + Ttl
      BY DEF BuildDetails
    <3>4. now + Ttl <= now + Ttl
      BY <1>1, FlowAssumption
    <3> QED
      BY <1>2, <1>3, <1>6, <2>2, <2>3, <3>1, <3>2, <3>3, <3>4 DEF DetailsOf
  <2>4. CASE d # c
    <3>1. d \in Challenged /\ DetailsOf(d)
      BY <1>5, <2>4 DEF FlowInv
    <3>2. \A e \in Challenged' : NonceOf(e)' = NonceOf(d)' => e = d
      BY <1>5, <1>6, <2>1, <3>1 DEF DetailsOf
    <3> QED
      BY <1>3, <1>7, <2>1, <2>2, <3>1, <3>2 DEF DetailsOf
  <2> QED
    BY <2>3, <2>4
<1>11. RecordsAreLandings'
  <2>1. \A e \in Challenged : e \in Calls /\ e # c /\ NonceOf(e)' = NonceOf(e)
    BY <1>5, <1>6 DEF Challenged
  <2>2. ~Landed(n)' /\ \A m \in Nonces : Landed(m)' <=> Landed(m)
    BY <1>1, <1>7 DEF Landed
  <2>3. \A m \in DOMAIN tx' : \E e \in Challenged' : m = NonceOf(e)'
    BY <1>5, <1>7, <2>1 DEF FlowInv, RecordsAreLandings
  <2>4. \A e \in Challenged' : Landed(NonceOf(e))' =>
           nonceRecord'[NonceOf(e)'].payer = walletOf[e]
    <3> SUFFICES ASSUME NEW e \in Challenged', Landed(NonceOf(e))'
                 PROVE  nonceRecord'[NonceOf(e)'].payer = walletOf[e]
      OBVIOUS
    <3>1. e # c
      BY <1>6, <2>2 DEF Landed
    <3> QED
      BY <1>5, <1>7, <2>1, <3>1 DEF FlowInv, RecordsAreLandings, Landed, chainVars
  <2> QED
    BY <1>1, <1>7, <2>2, <2>3, <2>4 DEF FlowInv, RecordsAreLandings, chainVars
<1>12. \A m \in Nonces : served'[m] > 0 => m \in DOMAIN tx'
  BY <1>7 DEF FlowInv
<1>13. \A d \in Calls : CheckOf(d)'
  <2> TAKE d \in Calls
  <2>1. CASE d = c
    <3>1. check[c] = "none"
      BY DEF Challenge, FlowInv, CheckOf, Asked
    <3>2. ~(served[n] > 0)
      BY <1>1 DEF FlowInv
    <3> QED
      BY <1>6, <1>7, <2>1, <3>1, <3>2 DEF CheckOf
  <2>2. CASE d # c
    <3>1. now' = now
      BY <1>7 DEF chainVars
    <3>2. check[d] # "none" => call[d].pc \in Asked
      BY DEF FlowInv, CheckOf
    <3> QED
      BY <1>1, <1>3, <1>7, <2>2, <3>1, <3>2, CheckStays
  <2> QED
    BY <2>1, <2>2
<1> QED
  BY <1>8, <1>9, <1>10, <1>11, <1>12, <1>13 DEF FlowInv

\* The steps of one call that change neither the chain nor the transactions.
LEMMA CallStepsKeep ==
  ASSUME FlowInv, NEW c \in Calls,
         Fetch(c) \/ Validate(c) \/ Retry(c) \/ Throw(c)
  PROVE  FlowInv'
<1> DEFINE Same == UNCHANGED <<chainVars, issued, tx, check, served>>
<1> USE DEF Waiting, Outcomes, Asked
<1>1. /\ call \in [Calls -> CallType] /\ PhaseOf(c)
      /\ call[c].pc \in Waiting \cup Outcomes
      /\ c \in Challenged => DetailsOf(c)
  BY Types DEF FlowInv, CallType
<1>2. ASSUME NEW p \in Waiting \cup Outcomes, Go(c, p)
      PROVE  /\ call'[c].pc = p /\ NonceOf(c)' = NonceOf(c)
             /\ call'[c].details = call[c].details
             /\ c \in Challenged' <=> c \in Challenged
  BY <1>2, GoMoves DEF FlowInv, NonceOf, Challenged
<1>0. check[c] # "none" => call[c].pc \in Asked
  BY DEF FlowInv, CheckOf
<1>3. CASE Fetch(c)
  <2>1. Go(c, "first") /\ Same /\ call[c].pc = "idle"
    BY <1>3 DEF Fetch
  <2>2. PhaseOf(c)'
    BY <1>1, <1>2, <2>1 DEF PhaseOf, Before, Unsent, Confirmed
  <2> QED
    BY <1>0, <2>1, <2>2, GoKeeps
<1>4. CASE Validate(c)
  <2>1. call[c].pc = "details" /\ Same
    BY <1>4 DEF Validate
  <2>2. CASE Agreeable(c)
    <3>1. Go(c, "approved")
      BY <1>4, <2>2 DEF Validate
    <3>2. PhaseOf(c)'
      BY <1>1, <1>2, <2>1, <2>2, <3>1
      DEF PhaseOf, Before, Unsent, Confirmed, Agreeable
    <3> QED
      BY <1>0, <2>1, <3>1, <3>2, GoKeeps
  <2>3. CASE ~Agreeable(c)
    <3>1. Go(c, "threw")
      BY <1>4, <2>3 DEF Validate
    <3>2. PhaseOf(c)'
      BY <1>2, <3>1 DEF PhaseOf, Before, Unsent, Confirmed
    <3> QED
      BY <1>0, <2>1, <3>1, <3>2, GoKeeps
  <2> QED
    BY <2>2, <2>3
<1>5. CASE Retry(c)
  <2>1. /\ Go(c, "retried") /\ call[c].pc = "proof"
        /\ check' = [check EXCEPT ![c] = "received"]
        /\ UNCHANGED <<chainVars, issued, tx, served>>
    BY <1>5 DEF Retry
  <2>2. PhaseOf(c)'
    BY <1>1, <1>2, <2>1 DEF PhaseOf, Before, Unsent, Confirmed
  <2>3. check \in [Calls -> Checks] /\ served \in [Nonces -> Nat]
    BY DEF FlowInv, TypeOK
  <2>4. /\ check' \in [Calls -> Checks] /\ check'[c] = "received"
        /\ \A d \in Calls : d # c => check'[d] = check[d]
    BY <2>1, <2>3 DEF Checks
  <2>5. /\ call' \in [Calls -> CallType]
        /\ \A d \in Calls : /\ call'[d].details = call[d].details
                            /\ call'[d].resource = call[d].resource
                            /\ d # c => call'[d] = call[d]
    BY <2>1, GoMoves DEF FlowInv
  <2>6. CheckOf(c)'
    <3>1. /\ c \in Challenged /\ NonceOf(c) \in DOMAIN tx
          /\ tx[NonceOf(c)] \in {"Ok", "failed"}
      BY <1>1, <2>1 DEF PhaseOf, Before, Confirmed
    <3>2. served[NonceOf(c)] > 0 => gate[call[c].resource] = "dev" \/ Landed(NonceOf(c))
      BY <3>1 DEF FlowInv, CheckOf
    <3> QED
      BY <1>2, <2>1, <2>4, <2>5, <3>1, <3>2 DEF CheckOf, Landed
  <2> QED
    BY <2>1, <2>2, <2>3, <2>4, <2>5, <2>6, StepKeeps
<1>6. CASE Throw(c)
  <2>1. Go(c, "threw") /\ Same
    BY <1>6 DEF Throw
  <2>2. PhaseOf(c)'
    BY <1>2, <2>1 DEF PhaseOf, Before, Unsent, Confirmed
  <2> QED
    BY <2>1, <2>2, GoKeeps
<1> QED
  BY <1>3, <1>4, <1>5, <1>6

\* What a transaction's new fate leaves of the payments that landed.
LEMMA FateLands ==
  ASSUME TypeOK, NEW n \in issued, NEW fate \in Fates, SetFate(n, fate), ~Landed(n)
  PROVE  /\ \A m \in Nonces : m # n => (Landed(m)' <=> Landed(m))
         /\ Landed(n)' <=> fate = "Ok"
  BY FateSet DEF Landed

\* A transaction's fate changes for an approved call or one that is pending, and
\* nothing lands: the invariant stays, given what the call's phase becomes.
LEMMA FateKeeps ==
  ASSUME FlowInv, NEW c \in Challenged, NEW fate \in Fates \ {"Ok"},
         SetFate(NonceOf(c), fate), ~Landed(NonceOf(c)),
         NonceOf(c) \in DOMAIN tx \/ call[c].details.amount <= maxAmount[c],
         NonceOf(c) \in DOMAIN tx => tx[NonceOf(c)] = "pending",
         UNCHANGED <<chainVars, issued, check, served>>,
         call' \in [Calls -> CallType],
         \A d \in Calls : /\ call'[d].details = call[d].details
                          /\ call'[d].resource = call[d].resource
                          /\ call'[d].stamp = call[d].stamp
                          /\ d # c => call'[d] = call[d],
         call'[c] = call[c] \/ call'[c].pc = "sent",
         call[c].pc \notin Unsent \/ call'[c].pc = "sent"
  PROVE  FlowInv'
<1> DEFINE n == NonceOf(c)
<1>1. c \in Calls /\ n \in issued /\ n \in Nonces /\ DetailsOf(c)
  BY Types DEF FlowInv, DetailsOf, Challenged
<1>2. /\ DOMAIN tx' = DOMAIN tx \cup {n} /\ tx'[n] = fate
      /\ \A m \in DOMAIN tx : m # n => tx'[m] = tx[m]
      /\ \E ns \in SUBSET issued : tx' \in [ns -> Fates]
  BY <1>1, FateSet DEF FlowInv
<1>3. \A m \in Nonces : Landed(m)' <=> Landed(m)
  BY <1>1, FateLands DEF FlowInv
<1>4. Challenged' = Challenged /\ \A d \in Calls : NonceOf(d)' = NonceOf(d)
  BY DEF Challenged, NonceOf
<1>5. TypeOK' /\ now' <= MaxTime
  BY <1>2 DEF FlowInv, TypeOK, CallType, chainVars, Chain!TypeOK
<1>6. \A d \in Calls : PhaseOf(d)'
  <2> TAKE d \in Calls
  <2>1. CASE d = c
    <3>1. CASE call'[c].pc = "sent"
      BY <1>2, <1>4, <2>1, <3>1 DEF PhaseOf, Before, Unsent, Confirmed
    <3>2. CASE call'[c] = call[c]
      BY <1>2, <1>4, <2>1, <3>2 DEF FlowInv, PhaseOf, Before, Unsent, Confirmed
    <3> QED
      BY <3>1, <3>2
  <2>2. CASE d # c
    <3>1. d \in Challenged => NonceOf(d) # n
      BY <1>1, <2>2 DEF DetailsOf
    <3>2. d \notin Challenged => call[d].pc \in Before \cup {"threw"}
      BY DEF FlowInv, PhaseOf
    <3>3. CASE d \in Challenged
      BY <1>2, <2>2, <3>1, <3>3, PhaseStays DEF FlowInv
    <3>4. CASE d \notin Challenged
      BY <1>4, <2>2, <3>2, <3>4 DEF PhaseOf, Before, Unsent, Confirmed
    <3> QED
      BY <3>3, <3>4
  <2> QED
    BY <2>1, <2>2
<1>7. \A d \in Challenged' : DetailsOf(d)'
  <2> SUFFICES ASSUME NEW d \in Challenged PROVE DetailsOf(d)'
    BY <1>4
  <2>1. d \in Calls /\ DetailsOf(d)
    BY DEF FlowInv, Challenged
  <2>2. NonceOf(d) = n => d = c
    BY <1>1 DEF DetailsOf
  <2>3. NonceOf(d) \in DOMAIN tx' => call[d].details.amount <= maxAmount[d]
    BY <1>1, <1>2, <2>1, <2>2 DEF DetailsOf
  <2>4. now' = now /\ issued' = issued
    BY DEF chainVars
  <2>5. \A e \in Challenged' : NonceOf(e)' = NonceOf(d)' => e = d
    BY <1>4, <2>1 DEF DetailsOf, Challenged
  <2> QED
    BY <1>4, <2>1, <2>3, <2>4, <2>5 DEF DetailsOf
<1>8. RecordsAreLandings'
  <2>1. Challenged \subseteq Calls /\ nonceRecord' = nonceRecord
    BY DEF Challenged, chainVars
  <2>2. \A d \in Challenged : NonceOf(d) \in Nonces
    BY Types DEF FlowInv
  <2> QED
    BY <1>1, <1>2, <1>3, <1>4, <2>1, <2>2 DEF FlowInv, RecordsAreLandings
<1>9. \A m \in Nonces : served'[m] > 0 => m \in DOMAIN tx'
  BY <1>2 DEF FlowInv
<1>10. \A d \in Calls : CheckOf(d)'
  <2> TAKE d \in Calls
  <2>1. now' = now /\ now \in Nat
    BY Types DEF FlowInv, chainVars
  <2>2. check[d] # "none" => call'[d].pc \in Asked
    <3>1. check[c] = "none" \/ call'[c] = call[c]
      BY <1>1 DEF FlowInv, CheckOf, Asked
    <3>2. check[d] # "none" => call[d].pc \in Asked
      BY DEF FlowInv, CheckOf
    <3> QED
      BY <3>1, <3>2
  <2>3. \A m \in DOMAIN tx : tx[m] \in {"Ok", "failed"} =>
                             m \in DOMAIN tx' /\ tx'[m] = tx[m]
    BY <1>2
  <2> QED
    BY <2>1, <2>2, <2>3, CheckStays
<1> QED
  BY <1>5, <1>6, <1>7, <1>8, <1>9, <1>10 DEF FlowInv

\* A payment is sent, or a simulation fails and the call throws.
LEMMA SendKeeps ==
  ASSUME FlowInv, NEW c \in Calls, Send(c)
  PROVE  FlowInv'
<1>1. /\ call[c].pc = "approved" /\ PhaseOf(c) /\ c \in Challenged
      /\ NonceOf(c) \notin DOMAIN tx /\ call[c].details.amount <= maxAmount[c]
      /\ UNCHANGED <<chainVars, issued, check, served>> /\ check[c] = "none"
  BY DEF Send, FlowInv, PhaseOf, Before, Unsent, CheckOf, Asked
<1>2. CASE WouldPay(c)
  <2>1. SetFate(NonceOf(c), "pending") /\ Go(c, "sent")
    BY <1>2 DEF Send
  <2>2. /\ call' \in [Calls -> CallType] /\ call'[c].pc = "sent"
        /\ \A d \in Calls : /\ call'[d].details = call[d].details
                            /\ call'[d].resource = call[d].resource
                            /\ call'[d].stamp = call[d].stamp
                            /\ d # c => call'[d] = call[d]
    <3>1. "sent" \in Waiting \cup Outcomes
      BY DEF Waiting
    <3> QED
      BY <2>1, <3>1, GoMoves DEF FlowInv
  <2>3. ~Landed(NonceOf(c))
    BY <1>1 DEF Landed
  <2>4. "pending" \in Fates \ {"Ok"}
    BY DEF Fates
  <2> QED
    BY <1>1, <2>1, <2>2, <2>3, <2>4, FateKeeps
<1>3. CASE ~WouldPay(c)
  <2>1. Go(c, "threw") /\ UNCHANGED tx
    BY <1>3 DEF Send
  <2>2. "threw" \in Waiting \cup Outcomes
    BY DEF Outcomes
  <2>3. c \in Challenged' /\ call'[c].pc = "threw"
    BY <1>1, <2>1, <2>2, GoMoves DEF FlowInv, Challenged
  <2>4. PhaseOf(c)'
    BY <2>3 DEF PhaseOf, Before, Unsent, Confirmed
  <2> QED
    BY <1>1, <2>1, <2>2, <2>4, GoKeeps
<1> QED
  BY <1>2, <1>3

\* A pending transaction is lost, or fails on chain.
LEMMA UnpaidKeeps ==
  ASSUME FlowInv, NEW n \in DOMAIN tx, tx[n] = "pending",
         NEW fate \in {"lost", "failed"}, SetFate(n, fate),
         UNCHANGED <<chainVars, call, issued, check, served>>
  PROVE  FlowInv'
<1>1. PICK c \in Challenged : n = NonceOf(c)
  BY DEF FlowInv, RecordsAreLandings
<1>2. call' \in [Calls -> CallType]
  BY Types DEF FlowInv
<1>3. ~Landed(n) /\ fate \in Fates \ {"Ok"}
  BY DEF Landed, Fates
<1>4. call[c].pc \notin Unsent
  BY <1>1 DEF FlowInv, PhaseOf, Challenged
<1> QED
  BY <1>1, <1>2, <1>3, <1>4, FateKeeps

\* The proof of a confirmed payment is stamped with the time.
LEMMA ConfirmKeeps ==
  ASSUME FlowInv, NEW c \in Calls, Confirm(c)
  PROVE  FlowInv'
<1>1. /\ call \in [Calls -> CallType] /\ now \in Nat
      /\ \A d \in Challenged : NonceOf(d) \in Nonces
  BY Types DEF FlowInv
<1>2. /\ call'[c].pc = "proof" /\ call'[c].details = call[c].details
      /\ call'[c].resource = call[c].resource
      /\ \A d \in Calls : d # c => call'[d] = call[d]
      /\ UNCHANGED <<chainVars, issued, tx, check, served>>
  BY <1>1 DEF Confirm, CallType
<1>3. call' \in [Calls -> CallType]
  BY <1>1 DEF Confirm, CallType, Waiting
<1>4. /\ Challenged' = Challenged /\ \A d \in Calls : NonceOf(d)' = NonceOf(d)
      /\ \A d \in Challenged : DetailsOf(d)'
      /\ RecordsAreLandings'
  BY <1>2, SameDetails
<1>5. TypeOK' /\ now' <= MaxTime
  BY <1>2, <1>3 DEF FlowInv, TypeOK, CallType, chainVars, Chain!TypeOK
<1>6. PhaseOf(c)'
  BY <1>2, <1>4 DEF Confirm, FlowInv, PhaseOf, Before, Unsent, Confirmed
<1>7. \A d \in Calls : PhaseOf(d)'
  <2> TAKE d \in Calls
  <2>1. CASE d # c
    BY <1>2, <2>1, PhaseStays DEF FlowInv
  <2> QED
    BY <1>6, <2>1
<1>8. \A n \in Nonces : served'[n] > 0 => n \in DOMAIN tx'
  BY <1>2 DEF FlowInv
<1>9. \A d \in Calls : CheckOf(d)'
  <2> TAKE d \in Calls
  <2>1. now' = now
    BY <1>2 DEF chainVars
  <2>2. check[c] = "none"
    BY DEF Confirm, FlowInv, CheckOf, Asked
  <2>3. check[d] # "none" => call[d].pc \in Asked
    BY DEF FlowInv, CheckOf
  <2> QED
    BY <1>1, <1>2, <2>1, <2>2, <2>3, CheckStays
<1> QED
  BY <1>4, <1>5, <1>7, <1>8, <1>9 DEF FlowInv

\* A step of a verification: what its verdict says holds of the payment.
LEMMA ConcludeKeeps ==
  ASSUME FlowInv, NEW c \in Calls, check[c] # "none",
         NEW verdict \in Checks \ {"none", "received"}, Conclude(c, verdict),
         verdict \in {"tx", "nonce"} => gate[call[c].resource] = "middleware",
         verdict = "nonce" => Landed(NonceOf(c)),
         verdict = "failed" => ~Landed(NonceOf(c)),
         verdict = "too old" => now > call[c].stamp + ProofMaxAge,
         verdict = "served" => gate[call[c].resource] = "dev" \/ Landed(NonceOf(c))
  PROVE  FlowInv'
<1>1. /\ c \in Challenged /\ NonceOf(c) \in Nonces /\ NonceOf(c) \in DOMAIN tx
      /\ tx[NonceOf(c)] \in {"Ok", "failed"} /\ call[c].pc \in Asked
      /\ PhaseOf(c) /\ CheckOf(c) /\ call \in [Calls -> CallType]
      /\ check \in [Calls -> Checks] /\ served \in [Nonces -> Nat]
  BY Types DEF FlowInv, CheckOf, TypeOK
<1>2. /\ check' \in [Calls -> Checks] /\ check'[c] = verdict
      /\ \A d \in Calls : d # c => check'[d] = check[d]
      /\ UNCHANGED <<chainVars, issued, tx>>
  BY <1>1 DEF Conclude
<1>3. /\ call' \in [Calls -> CallType]
      /\ call'[c] = call[c] \/ call'[c].pc \in {"ok", "refused"}
      /\ \A d \in Calls : /\ call'[d].details = call[d].details
                          /\ call'[d].resource = call[d].resource
                          /\ call'[d].stamp = call[d].stamp
                          /\ d # c => call'[d] = call[d]
  <2>1. CASE UNCHANGED call
    BY <1>1, <2>1
  <2>2. ASSUME NEW p \in {"ok", "refused"}, Go(c, p)
        PROVE  /\ call' \in [Calls -> CallType] /\ call'[c].pc = p
               /\ \A d \in Calls : /\ call'[d].details = call[d].details
                                   /\ call'[d].resource = call[d].resource
                                   /\ call'[d].stamp = call[d].stamp
                                   /\ d # c => call'[d] = call[d]
    <3>1. p \in Waiting \cup Outcomes
      BY DEF Outcomes
    <3> QED
      BY <2>2, <3>1, GoMoves DEF FlowInv
  <2>3. UNCHANGED call \/ Go(c, "ok") \/ Go(c, "refused")
    BY DEF Conclude
  <2> QED
    BY <2>1, <2>2, <2>3
<1>4. NonceOf(c)' = NonceOf(c) /\ c \in Challenged'
  BY <1>1, <1>3 DEF NonceOf, Challenged
<1>5. PhaseOf(c)'
  BY <1>1, <1>2, <1>3, <1>4 DEF PhaseOf, Before, Unsent, Confirmed
<1>6. /\ served' \in [Nonces -> Nat]
      /\ \A n \in Nonces : served'[n] # served[n] => n = NonceOf(c) /\ verdict = "served"
  <2>1. CASE verdict = "served"
    <3>1. served' = [served EXCEPT ![NonceOf(c)] = @ + 1]
      BY <2>1 DEF Conclude
    <3> QED
      BY <1>1, <2>1, <3>1
  <2>2. CASE verdict # "served"
    BY <1>1, <2>2 DEF Conclude
  <2> QED
    BY <2>1, <2>2
<1>7. CheckOf(c)'
  <2>1. call'[c].pc \in Asked
    BY <1>1, <1>3 DEF Asked
  <2>2. Landed(NonceOf(c))' <=> Landed(NonceOf(c))
    BY <1>2, <1>4 DEF Landed
  <2>3. now' = now
    BY <1>2 DEF chainVars
  <2>4. served'[NonceOf(c)] > 0 => gate[call[c].resource] = "dev" \/ Landed(NonceOf(c))
    BY <1>1, <1>6 DEF CheckOf
  <2> QED
    BY <1>1, <1>2, <1>3, <1>4, <2>1, <2>2, <2>3, <2>4 DEF CheckOf
<1> QED
  BY <1>1, <1>2, <1>3, <1>5, <1>6, <1>7, StepKeeps

\* The verifier's own checks, its read of the transaction and its read of the
\* nonce's account, and a request that arrives once more.
LEMMA VerifyKeeps ==
  ASSUME FlowInv, NEW c \in Calls, Verify(c)
  PROVE  FlowInv'
<1> DEFINE v == Verdict(call[c].resource, ProofOf(c))
<1>1. /\ call[c].stamp \in Nat /\ now \in Nat /\ call[c].resource \in Resources
      /\ gate[call[c].resource] \in {"middleware", "dev", "accept"}
  BY Types, FlowAssumption DEF FlowInv, CallType
<1>2. v = "too old" => now > call[c].stamp + ProofMaxAge
  BY <1>1, FlowAssumption DEF Verdict, Stale, ProofOf
<1>3. /\ v \in {"error", "too old", "served", "tx"}
      /\ v = "served" => gate[call[c].resource] = "dev"
      /\ v = "tx" => gate[call[c].resource] = "middleware"
  BY <1>1 DEF Verdict
<1>4. v \in Checks \ {"none", "received"}
  BY <1>3 DEF Checks, Reasons
<1>5. check[c] # "none" /\ Conclude(c, v)
  BY DEF Verify
<1> HIDE DEF v
<1> QED
  BY <1>2, <1>3, <1>4, <1>5, ConcludeKeeps

LEMMA ReadsKeep ==
  ASSUME FlowInv, NEW c \in Calls, ReadTx(c) \/ ReadNonce(c)
  PROVE  FlowInv'
<1> USE DEF Checks, Reasons
<1>0. CheckOf(c) /\ NonceOf(c) \in Nonces
  BY Types DEF FlowInv, CheckOf, ReadTx, ReadNonce
<1>1. CASE ReadTx(c)
  <2>1. PICK v \in TxVerdicts(NonceOf(c)) : check[c] = "tx" /\ Conclude(c, v)
    BY <1>1 DEF ReadTx, ProofOf
  <2>2. /\ v \in {"not found", "error", "nonce", "failed"}
        /\ v = "nonce" => Landed(NonceOf(c))
        /\ v = "failed" => ~Landed(NonceOf(c))
    BY <2>1 DEF TxVerdicts, Landed
  <2>3. gate[call[c].resource] = "middleware"
    BY <1>0, <2>1 DEF CheckOf
  <2> QED
    BY <2>1, <2>2, <2>3, ConcludeKeeps
<1>2. CASE ReadNonce(c)
  <2>1. PICK v \in NonceVerdicts(NonceOf(c)) : check[c] = "nonce" /\ Conclude(c, v)
    BY <1>2 DEF ReadNonce, ProofOf
  <2>2. v \in {"no nonce", "error", "served"} /\ Landed(NonceOf(c))
    BY <1>0, <2>1 DEF NonceVerdicts, CheckOf
  <2> QED
    BY <2>1, <2>2, ConcludeKeeps
<1> QED
  BY <1>1, <1>2

LEMMA RedeliverKeeps ==
  ASSUME FlowInv, NEW c \in Calls, Redeliver(c)
  PROVE  FlowInv'
<1>1. check[c] # "none" /\ UNCHANGED <<chainVars, call, issued, tx, served>>
  BY DEF Redeliver, Reasons
<1>2. /\ PhaseOf(c) /\ CheckOf(c) /\ check \in [Calls -> Checks]
      /\ call \in [Calls -> CallType] /\ served \in [Nonces -> Nat]
  BY Types DEF FlowInv, TypeOK
<1>3. /\ check' \in [Calls -> Checks] /\ check'[c] = "received"
      /\ \A d \in Calls : d # c => check'[d] = check[d]
  BY <1>2 DEF Redeliver, Checks
<1>4. PhaseOf(c)'
  BY <1>1, <1>2, PhaseStays
<1>5. CheckOf(c)'
  BY <1>1, <1>2, <1>3 DEF CheckOf, Landed, NonceOf, Challenged
<1> QED
  BY <1>1, <1>2, <1>3, <1>4, <1>5, StepKeeps

\* What a payment does to the chain: its own record is new, and nothing else in
\* the registry, the channels or the clock changes.
LEMMA PaysOnChain ==
  ASSUME FlowInv, NEW c \in Challenged, Pays(c)
  PROVE  /\ Chain!TypeOK' /\ UNCHANGED <<vault, channel, receipts, now, stray>>
         /\ now <= call[c].details.expiry
         /\ NonceOf(c) \notin DOMAIN nonceRecord
         /\ DOMAIN nonceRecord' = DOMAIN nonceRecord \cup {NonceOf(c)}
         /\ nonceRecord'[NonceOf(c)].payer = walletOf[c]
         /\ \A m \in DOMAIN nonceRecord : nonceRecord'[m] = nonceRecord[m]
<1> DEFINE d == call[c].details
           n == NonceOf(c)
           e == Chain!RetainUntil(d.expiry)
<1>1. /\ Chain!TypeOK /\ n \in Nonces /\ c \in Calls
      /\ d.payee \in Payees /\ d.amount \in Nat /\ d.expiry \in Nat /\ n = d.nonce
  BY Types DEF FlowInv, Details, NonceOf, Challenged
<1>2. walletOf[c] \in Chain!Users /\ d.payee \in Chain!Users
  BY <1>1 DEF Chain!Users, Payers
<1>3. e \in Int
  BY <1>1, FlowAssumption DEF Chain!RetainUntil
<1>4. /\ n \notin DOMAIN nonceRecord /\ now <= d.expiry
      /\ Chain!Record(n, walletOf[c], e)
      /\ Chain!Move(walletOf[c], d.payee, d.amount)
      /\ UNCHANGED <<vault, channel, receipts, now, stray>>
  BY DEF Pays, Chain!DirectPay, Chain!Fresh, NonceOf
<1>5. wallet' \in [Chain!Users -> Nat]
  BY <1>1, <1>2, <1>4 DEF Chain!Move, Chain!TypeOK
<1>6. PICK used \in SUBSET Nonces : nonceRecord \in [used -> Chain!NonceRecord]
  BY <1>1 DEF Chain!TypeOK
<1>7. /\ nonceRecord' \in [used \cup {n} -> Chain!NonceRecord]
      /\ nonceRecord'[n].payer = walletOf[c]
      /\ \A m \in DOMAIN nonceRecord : nonceRecord'[m] = nonceRecord[m]
  BY <1>1, <1>2, <1>3, <1>4, <1>6 DEF Chain!Record, Chain!NonceRecord
<1>8. uses' \in [Nonces -> Nat]
  BY <1>1, <1>4 DEF Chain!Record, Chain!TypeOK
<1>9. Chain!TypeOK'
  <2>1. \E ns \in SUBSET Nonces : nonceRecord' \in [ns -> Chain!NonceRecord]
    BY <1>1, <1>7
  <2> QED
    BY <1>1, <1>4, <1>5, <1>8, <2>1 DEF Chain!TypeOK
<1> QED
  BY <1>4, <1>6, <1>7, <1>9

\* A pending payment lands and succeeds.
LEMMA PaidKeeps ==
  ASSUME FlowInv, NEW c \in Challenged, NonceOf(c) \in DOMAIN tx,
         tx[NonceOf(c)] = "pending", Pays(c), SetFate(NonceOf(c), "Ok"),
         UNCHANGED <<call, issued, check, served>>
  PROVE  FlowInv'
<1> PICK n \in DOMAIN tx : n = NonceOf(c)
  OBVIOUS
<1>1. c \in Calls /\ n \in issued /\ n \in Nonces /\ DetailsOf(c)
  BY Types DEF FlowInv, DetailsOf, Challenged
<1>2. /\ DOMAIN tx' = DOMAIN tx /\ tx'[n] = "Ok"
      /\ \A m \in DOMAIN tx : m # n => tx'[m] = tx[m]
      /\ \E ns \in SUBSET issued : tx' \in [ns -> Fates]
  BY <1>1, FateSet DEF FlowInv, Fates
<1>3. /\ \A m \in Nonces : m # n => (Landed(m)' <=> Landed(m))
      /\ Landed(n)'
  <2>1. ~Landed(n)
    BY DEF Landed
  <2> QED
    BY <1>1, <2>1, FateLands DEF FlowInv, Fates
<1>4. /\ Chain!TypeOK' /\ UNCHANGED <<vault, channel, receipts, now, stray>>
      /\ DOMAIN nonceRecord' = DOMAIN nonceRecord \cup {n}
      /\ nonceRecord'[n].payer = walletOf[c]
      /\ \A m \in DOMAIN nonceRecord : nonceRecord'[m] = nonceRecord[m]
  BY PaysOnChain
<1>5. Challenged' = Challenged /\ \A d \in Calls : NonceOf(d)' = NonceOf(d)
  BY DEF Challenged, NonceOf
<1>6. TypeOK' /\ now' <= MaxTime
  BY <1>2, <1>4 DEF FlowInv, TypeOK
<1>7. \A d \in Calls : PhaseOf(d)'
  <2> TAKE d \in Calls
  <2>1. CASE d = c
    BY <1>1, <1>2, <1>5, <2>1
    DEF FlowInv, PhaseOf, Before, Unsent, Confirmed
  <2>2. CASE d # c
    <3>1. d \in Challenged => NonceOf(d) # n
      BY <1>1, <2>2 DEF DetailsOf
    <3>2. CASE d \in Challenged
      BY <1>2, <3>1, <3>2, PhaseStays DEF FlowInv
    <3>3. CASE d \notin Challenged
      BY <1>5, <3>3 DEF FlowInv, PhaseOf, Before, Unsent, Confirmed
    <3> QED
      BY <3>2, <3>3
  <2> QED
    BY <2>1, <2>2
<1>8. \A d \in Challenged' : DetailsOf(d)'
  <2>1. Challenged \subseteq Calls /\ now' = now
    BY <1>4 DEF Challenged
  <2> QED
    BY <1>2, <1>5, <2>1 DEF FlowInv, DetailsOf
<1>9. RecordsAreLandings'
  <2>1. Challenged \subseteq Calls /\ \A d \in Challenged : NonceOf(d) \in Nonces
    BY Types DEF FlowInv, Challenged
  <2>2. \A m \in DOMAIN tx' : \E d \in Challenged' : m = NonceOf(d)'
    BY <1>2, <1>5, <2>1 DEF FlowInv, RecordsAreLandings
  <2>3. \A m \in Nonces : m \in DOMAIN nonceRecord' <=> Landed(m)'
    BY <1>1, <1>3, <1>4 DEF FlowInv, RecordsAreLandings
  <2>4. \A d \in Challenged : Landed(NonceOf(d))' =>
           nonceRecord'[NonceOf(d)].payer = walletOf[d]
    <3> SUFFICES ASSUME NEW d \in Challenged, Landed(NonceOf(d))'
                 PROVE  nonceRecord'[NonceOf(d)].payer = walletOf[d]
      OBVIOUS
    <3>0. NonceOf(d)' = NonceOf(d)
      BY <1>5, <2>1
    <3>1. CASE d = c
      BY <1>4, <3>1
    <3>2. CASE d # c
      <4>1. NonceOf(d) # n
        BY <1>1, <3>2 DEF DetailsOf
      <4>2. Landed(NonceOf(d))
        BY <1>3, <2>1, <3>0, <4>1 DEF Landed
      <4> QED
        BY <1>4, <2>1, <4>2 DEF FlowInv, RecordsAreLandings
    <3> QED
      BY <3>1, <3>2
  <2> QED
    BY <1>2, <1>5, <2>1, <2>2, <2>3, <2>4 DEF FlowInv, RecordsAreLandings, Landed
<1>10. \A m \in Nonces : served'[m] > 0 => m \in DOMAIN tx'
  BY <1>2 DEF FlowInv
<1>11. \A d \in Calls : CheckOf(d)'
  <2> TAKE d \in Calls
  <2>1. now' = now /\ now \in Nat
    BY <1>4, Types DEF FlowInv
  <2>2. check[d] # "none" => call[d].pc \in Asked
    BY DEF FlowInv, CheckOf
  <2>3. \A m \in DOMAIN tx : tx[m] \in {"Ok", "failed"} =>
                             m \in DOMAIN tx' /\ tx'[m] = tx[m]
    BY <1>2
  <2> QED
    BY <2>1, <2>2, <2>3, CheckStays
<1> QED
  BY <1>6, <1>7, <1>8, <1>9, <1>10, <1>11 DEF FlowInv

\* A transaction that was sent lands, or fails on the state it meets.
LEMMA LandKeeps ==
  ASSUME FlowInv, NEW c \in Challenged, Land(c)
  PROVE  FlowInv'
<1>1. CASE Pays(c) /\ SetFate(NonceOf(c), "Ok")
  BY <1>1, PaidKeeps DEF Land
<1>2. CASE SetFate(NonceOf(c), "failed") /\ UNCHANGED chainVars
  <2> PICK n \in DOMAIN tx : n = NonceOf(c)
    BY DEF Land
  <2> QED
    BY <1>2, UnpaidKeeps DEF Land
<1> QED
  BY <1>1, <1>2 DEF Land

\* Time passes.
LEMMA TickKeeps ==
  ASSUME FlowInv, Tick
  PROVE  FlowInv'
<1>1. /\ now \in Nat /\ now' = now + 1 /\ now' <= MaxTime
      /\ UNCHANGED <<wallet, vault, channel, nonceRecord, receipts, stray, uses>>
      /\ UNCHANGED <<call, issued, tx, check, served>>
  BY Types, FlowAssumption DEF Tick, Chain!Tick, FlowInv
<1>2. /\ Challenged' = Challenged /\ Challenged \subseteq Calls
      /\ \A d \in Calls : NonceOf(d)' = NonceOf(d)
  BY <1>1 DEF Challenged, NonceOf
<1>3. TypeOK'
  BY <1>1 DEF FlowInv, TypeOK, Chain!TypeOK
<1>4. \A d \in Calls : PhaseOf(d)'
  BY <1>1, PhaseStays DEF FlowInv
<1>5. \A d \in Challenged' : DetailsOf(d)'
  <2> SUFFICES ASSUME NEW d \in Challenged PROVE DetailsOf(d)'
    BY <1>2
  <2>1. call[d].details.expiry \in Nat /\ DetailsOf(d)
    BY DEF FlowInv, DetailsOf, Details
  <2>2. call[d].details.expiry <= now' + Ttl
    BY <1>1, <2>1, FlowAssumption DEF DetailsOf
  <2> QED
    BY <1>1, <1>2, <2>1, <2>2 DEF DetailsOf
<1>6. RecordsAreLandings'
  BY <1>1, <1>2 DEF FlowInv, RecordsAreLandings, Landed
<1>7. \A n \in Nonces : served'[n] > 0 => n \in DOMAIN tx'
  BY <1>1 DEF FlowInv
<1>8. \A d \in Calls : CheckOf(d)'
  <2> TAKE d \in Calls
  <2>1. check[d] # "none" => call[d].pc \in Asked
    BY DEF FlowInv, CheckOf
  <2>2. now' \in Nat /\ now <= now'
    BY <1>1
  <2> QED
    BY <1>1, <2>1, <2>2, CheckStays
<1> QED
  BY <1>1, <1>3, <1>4, <1>5, <1>6, <1>7, <1>8 DEF FlowInv

LEMMA InitFlow == Init => FlowInv
<1> SUFFICES ASSUME Init PROVE FlowInv
  OBVIOUS
<1>1. Chain!TypeOK
  <2>1. \E live \in SUBSET Chain!Pairs : channel \in [live -> Chain!Channel]
    <3>1. channel \in [{} -> Chain!Channel]
      BY DEF Init, Chain!Init
    <3> QED
      BY <3>1
  <2>2. \E used \in SUBSET Nonces : nonceRecord \in [used -> Chain!NonceRecord]
    <3>1. nonceRecord \in [{} -> Chain!NonceRecord]
      BY DEF Init, Chain!Init
    <3> QED
      BY <3>1
  <2> QED
    BY <2>1, <2>2, FlowAssumption
    DEF Init, Chain!Init, Chain!TypeOK, Chain!Users, Wallets
<1>2. call \in [Calls -> CallType]
  BY DEF Init, CallType, Waiting
<1>3. TypeOK
  <2>1. tx \in [{} -> Fates]
    BY DEF Init
  <2>2. \E ns \in SUBSET issued : tx \in [ns -> Fates]
    BY <2>1
  <2> QED
    BY <1>1, <1>2, <2>2 DEF Init, TypeOK, CallType, Checks
<1>4. Challenged = {} /\ DOMAIN tx = {} /\ now <= MaxTime
  BY FlowAssumption DEF Init, Chain!Init, Challenged
<1>5. \A c \in Calls : call[c].pc = "idle" /\ check[c] = "none"
  BY DEF Init
<1>6. DOMAIN nonceRecord = {}
  BY DEF Init, Chain!Init
<1> QED
  BY <1>3, <1>4, <1>5, <1>6
  DEF Init, FlowInv, PhaseOf, Before, Unsent, Confirmed, RecordsAreLandings,
      Landed, CheckOf

LEMMA NextFlow == FlowInv /\ [Next]_vars => FlowInv'
<1> SUFFICES ASSUME FlowInv, [Next]_vars PROVE FlowInv'
  OBVIOUS
<1>1. ASSUME NEW c \in Calls, Next, ClientStep(c) \/ ServerStep(c) \/ Fetch(c)
      PROVE  FlowInv'
  BY <1>1, CallStepsKeep, SendKeeps, ConfirmKeeps, ChallengeKeeps, VerifyKeeps, ReadsKeep
  DEF ClientStep, ServerStep
<1>2. ASSUME NEW c \in Calls, call[c].details # NoDetails, Land(c) PROVE FlowInv'
  BY <1>2, LandKeeps DEF Challenged
<1>3. ASSUME NEW n \in Nonces, Drop(n) PROVE FlowInv'
  BY <1>3, UnpaidKeeps DEF Drop
<1>4. CASE UNCHANGED vars
  <2>1. UNCHANGED <<chainVars, call, issued, tx, check, served>>
    BY <1>4 DEF vars
  <2>2. RecordsAreLandings' /\ (\A d \in Challenged' : DetailsOf(d)')
    BY <2>1, SameDetails
  <2>3. \A d \in Calls : PhaseOf(d)'
    BY <2>1, PhaseStays DEF FlowInv
  <2>4. \A d \in Calls : CheckOf(d)'
    BY <2>1 DEF FlowInv, CheckOf, Landed, NonceOf, Challenged, chainVars
  <2> QED
    BY <2>1, <2>2, <2>3, <2>4
    DEF FlowInv, TypeOK, Chain!TypeOK, chainVars
<1> QED
  BY <1>1, <1>2, <1>3, <1>4, RedeliverKeeps, TickKeeps DEF Next

\* The inductive invariant holds throughout.
THEOREM FlowInvariance == Spec => []FlowInv
  BY InitFlow, NextFlow, PTL DEF Spec

-----------------------------------------------------------------------------
\* A call costs at most its maxAmount, once, whatever it throws or times out on.
THEOREM CallsSafeTheorem == Spec => []CallsSafe
<1>1. ASSUME FlowInv PROVE CallsSafe
  <2>1. WithinMax
    <3> SUFFICES ASSUME NEW c \in Calls PROVE Charge(c) <= maxAmount[c]
      BY DEF WithinMax
    <3>1. maxAmount[c] \in Nat
      BY FlowAssumption
    <3>2. c \in Challenged /\ Landed(NonceOf(c)) =>
            call[c].details.amount <= maxAmount[c]
      BY <1>1 DEF FlowInv, DetailsOf, Landed
    <3> QED
      BY <3>1, <3>2 DEF Charge
  <2>2. OnePaymentPerCall
    <3>1. DOMAIN nonceRecord \subseteq Nonces
      BY <1>1 DEF FlowInv, TypeOK, Chain!TypeOK
    <3> QED
      BY <1>1, <3>1 DEF FlowInv, RecordsAreLandings, Landed, OnePaymentPerCall
  <2> QED
    BY <1>1, <2>1, <2>2 DEF CallsSafe, FlowInv
<1> QED
  BY <1>1, FlowInvariance, PTL

\* What a verifying gate lets through of fetchWithPayment's requests was paid
\* for by that call: in full, to the payee, from its wallet.
THEOREM ServedWasPaidTheorem == Spec => []ServedWasPaid
<1>1. ASSUME FlowInv PROVE ServedWasPaid
  <2> SUFFICES ASSUME NEW c \in Challenged, served[NonceOf(c)] > 0,
                      gate[call[c].resource] # "dev"
               PROVE  /\ Landed(NonceOf(c))
                      /\ nonceRecord[NonceOf(c)].payer = walletOf[c]
                      /\ call[c].details.amount = price[call[c].resource]
                      /\ call[c].details.payee = payeeOf[call[c].resource]
    BY DEF ServedWasPaid
  <2>1. CheckOf(c) /\ DetailsOf(c)
    BY <1>1 DEF FlowInv, Challenged
  <2> QED
    BY <1>1, <2>1 DEF FlowInv, RecordsAreLandings, CheckOf, DetailsOf
<1> QED
  BY <1>1, FlowInvariance, PTL

\* A 402 for a paid proof blames the node, or the proof is past its window.
THEOREM PaidProofRefusalsTheorem == Spec => []PaidProofRefusals
<1>1. ASSUME FlowInv PROVE PaidProofRefusals
  BY <1>1 DEF FlowInv, CheckOf, PaidProofRefusals, Challenged, Reasons, NodeReasons
<1> QED
  BY <1>1, FlowInvariance, PTL


-----------------------------------------------------------------------------
\* The same payments have landed, of the same calls: nobody is charged.
LEMMA SameCharge ==
  ASSUME Challenged' = Challenged,
         \A c \in Challenged : /\ call'[c].details = call[c].details
                               /\ Landed(NonceOf(c))' <=> Landed(NonceOf(c))
  PROVE  \A c \in Calls : Charge(c)' = Charge(c)
  BY DEF Charge

\* Only a payment that lands charges anybody, and only its own call.
LEMMA ChargedOnTime ==
  ASSUME FlowInv, Next, NEW c \in Calls, Charge(c) # Charge(c)'
  PROVE  now <= call[c].details.expiry
<1> DEFINE Same == Charge(c)' = Charge(c)
<1>0. \A d \in Challenged : d \in Calls /\ NonceOf(d) \in Nonces /\ NonceOf(d) \in issued
  BY Types DEF FlowInv, DetailsOf, Challenged
<1>1. ASSUME \A d \in Calls : call'[d].details = call[d].details,
             \A m \in Nonces : Landed(m)' <=> Landed(m)
      PROVE  Same
  <2>1. Challenged' = Challenged /\ \A d \in Calls : NonceOf(d)' = NonceOf(d)
    BY <1>1 DEF Challenged, NonceOf
  <2>2. \A d \in Challenged : Landed(NonceOf(d))' <=> Landed(NonceOf(d))
    BY <1>0, <1>1, <2>1 DEF Landed
  <2> QED
    BY <1>0, <1>1, <2>1, <2>2, SameCharge
<1>2. ASSUME UNCHANGED tx PROVE \A m \in Nonces : Landed(m)' <=> Landed(m)
  BY <1>2 DEF Landed
<1>3. ASSUME NEW d \in Calls, NEW p \in Waiting \cup Outcomes, Go(d, p)
      PROVE  \A e \in Calls : call'[e].details = call[e].details
  BY <1>3, GoMoves DEF FlowInv
<1>4. ASSUME NEW n \in DOMAIN tx, tx[n] = "pending",
             NEW fate \in {"lost", "failed"}, SetFate(n, fate), UNCHANGED call
      PROVE  Same
  <2>1. n \in issued /\ n \in Nonces /\ ~Landed(n) /\ fate \in Fates /\ fate # "Ok"
    BY <1>4, Types DEF FlowInv, Landed, Fates
  <2>2. \A m \in Nonces : Landed(m)' <=> Landed(m)
    BY <1>4, <2>1, FateLands DEF FlowInv
  <2> QED
    BY <1>1, <1>4, <2>2
<1>5. ASSUME NEW d \in Calls, Challenge(d) PROVE Same
  <2>1. call \in [Calls -> CallType] /\ DOMAIN tx \subseteq issued /\ UNCHANGED tx
    BY <1>5, Types DEF FlowInv, Challenge
  <2> PICK n \in Nonces \ issued :
        call' = [call EXCEPT ![d].pc = "details",
                             ![d].details = BuildDetails(call[d].resource, n)]
    BY <1>5 DEF Challenge
  <2>2. CASE c = d
    <3>1. call'[c].details = BuildDetails(call[c].resource, n)
      BY <2>1, <2>2 DEF CallType
    <3>2. NonceOf(c)' = n
      BY <3>1 DEF NonceOf, BuildDetails
    <3>3. n \notin DOMAIN tx'
      BY <2>1
    <3>4. c \notin Challenged
      BY <1>5, <2>2 DEF FlowInv, PhaseOf, Before, Challenge
    <3> QED
      BY <3>2, <3>3, <3>4 DEF Charge, Landed
  <2>3. CASE c # d
    <3>1. call'[c] = call[c]
      BY <2>1, <2>3 DEF CallType
    <3> QED
      BY <2>1, <3>1 DEF Charge, Challenged, NonceOf, Landed
  <2> QED
    BY <2>2, <2>3
<1>6. ASSUME NEW d \in Calls, Send(d) PROVE Same
  <2>1. CASE WouldPay(d)
    <3>1. PICK n \in issued : n = NonceOf(d) /\ n \notin DOMAIN tx
      <4>1. d \in Challenged /\ NonceOf(d) \notin DOMAIN tx
        BY <1>6 DEF Send, FlowInv, PhaseOf, Before, Unsent
      <4> QED
        BY <1>0, <4>1
    <3>2. SetFate(n, "pending") /\ Go(d, "sent") /\ "sent" \in Waiting
      BY <1>6, <2>1, <3>1 DEF Send, Waiting
    <3>3. \A m \in Nonces : Landed(m)' <=> Landed(m)
      <4>1. ~Landed(n) /\ "pending" \in Fates
        BY <3>1 DEF Landed, Fates
      <4> QED
        BY <3>2, <4>1, FateLands DEF FlowInv
    <3> QED
      BY <1>1, <1>3, <3>2, <3>3
  <2>2. CASE ~WouldPay(d)
    BY <1>1, <1>2, <1>3, <1>6, <2>2 DEF Send, Outcomes
  <2> QED
    BY <2>1, <2>2
<1>7. ASSUME NEW d \in Calls, Confirm(d) PROVE Same
  <2>1. \A e \in Calls : call'[e].details = call[e].details
    BY <1>7, Types DEF FlowInv, Confirm, CallType
  <2> QED
    BY <1>1, <1>2, <1>7, <2>1 DEF Confirm
<1>8. ASSUME NEW d \in Calls, Fetch(d) \/ Validate(d) \/ Retry(d) \/ Throw(d)
      PROVE  Same
  <2>1. PICK p \in Waiting \cup Outcomes : Go(d, p)
    BY <1>8 DEF Fetch, Validate, Retry, Throw, Waiting, Outcomes
  <2>2. UNCHANGED tx
    BY <1>8 DEF Fetch, Validate, Retry, Throw
  <2> QED
    BY <1>1, <1>2, <1>3, <2>1, <2>2
<1>13. ASSUME NEW d \in Calls, Verify(d) \/ ReadTx(d) \/ ReadNonce(d)
       PROVE  Same
  <2>1. PICK verdict : Conclude(d, verdict)
    BY <1>13 DEF Verify, ReadTx, ReadNonce
  <2>2. UNCHANGED tx /\ (UNCHANGED call \/ \E p \in Outcomes : Go(d, p))
    BY <2>1 DEF Conclude, Outcomes
  <2> QED
    BY <1>1, <1>2, <1>3, <2>2
<1>9. ASSUME NEW d \in Challenged, Land(d) PROVE now <= call[c].details.expiry
  <2>1. PICK n \in DOMAIN tx : n = NonceOf(d) /\ tx[n] = "pending"
    BY <1>9 DEF Land
  <2>2. CASE Pays(d) /\ SetFate(n, "Ok")
    <3>1. \A m \in Nonces : m # n => (Landed(m)' <=> Landed(m))
      <4>1. ~Landed(n) /\ n \in issued
        BY <1>0, <2>1 DEF Landed
      <4> QED
        BY <2>2, <4>1, FateLands DEF FlowInv, Fates
    <3>2. \A e \in Challenged : NonceOf(e) = n => e = d
      BY <1>0, <2>1 DEF FlowInv, DetailsOf
    <3>3. Challenged' = Challenged /\ NonceOf(c)' = NonceOf(c) /\ call' = call
      BY <1>9 DEF Land, Challenged, NonceOf
    <3>4. c = d
      <4> SUFFICES ASSUME c # d PROVE FALSE
        OBVIOUS
      <4>1. c \in Challenged => (Landed(NonceOf(c))' <=> Landed(NonceOf(c)))
        BY <1>0, <3>1, <3>2, <3>3 DEF Landed
      <4> QED
        BY <3>3, <4>1 DEF Charge
    <3> QED
      BY <1>9, <2>2, <3>4, PaysOnChain
  <2>3. CASE SetFate(n, "failed")
    BY <1>4, <1>9, <2>1, <2>3 DEF Land
  <2> QED
    BY <1>9, <2>1, <2>2, <2>3 DEF Land
<1>10. ASSUME Tick \/ \E d \in Calls : Redeliver(d) PROVE Same
  <2>1. UNCHANGED <<call, tx>>
    BY <1>10 DEF Tick, Redeliver
  <2> QED
    BY <1>1, <1>2, <2>1
<1>11. ASSUME NEW n \in Nonces, Drop(n) PROVE Same
  BY <1>4, <1>11 DEF Drop
<1>12. ~Same
  OBVIOUS
<1> QED
  BY <1>5, <1>6, <1>7, <1>8, <1>9, <1>10, <1>11, <1>12, <1>13
  DEF Next, ClientStep, ServerStep, Challenged

\* No lamport leaves a wallet for a call after the details' expiry.
THEOREM PaidBeforeExpiryTheorem == Spec => PaidBeforeExpiry
<1>1. ASSUME FlowInv, Next
      PROVE  \A c \in Calls : Charge(c) # Charge(c)' => now <= call[c].details.expiry
  BY <1>1, ChargedOnTime
<1>2. FlowInv /\ [Next]_vars =>
        [\A c \in Calls : Charge(c) # Charge(c)' => now <= call[c].details.expiry]_vars
  BY <1>1
<1> QED
  BY <1>2, FlowInvariance, PTL DEF Spec, PaidBeforeExpiry

-----------------------------------------------------------------------------
\* A payment of the flow is a direct payment of the program.
LEMMA PaysIsDirectPay ==
  ASSUME FlowInv, NEW c \in Challenged, Pays(c)
  PROVE  Chain!Next
<1> PICK d \in Details : d = call[c].details
  BY Types DEF FlowInv
<1>1. /\ c \in Calls /\ DetailsOf(c)
      /\ call[c].resource \in Resources
  BY Types DEF FlowInv, Challenged, CallType
<1>2. d.amount \in {price[r] : r \in Resources}
  BY <1>1 DEF DetailsOf
<1>3. d.expiry \in 0..(MaxTime + Ttl)
  BY <1>1, Types, FlowAssumption DEF DetailsOf, Details, FlowInv
<1>4. walletOf[c] \in Payers /\ d.payee \in Payees /\ d.nonce \in Nonces
  BY <1>1 DEF Payers, Details
<1>5. Chain!DirectPay(walletOf[c], d.payee, d.amount, d.nonce, d.expiry)
  BY DEF Pays
<1> QED
  BY <1>2, <1>3, <1>4, <1>5 DEF Chain!Next

\* What calls, servers and the network do to the chain is what AeeronProtocol
\* allows: payments on chain are its direct payments, and the rest is off chain.
THEOREM ChainIsAeeronProtocol == Spec => Chain!Spec
<1>1. Init => Chain!Init
  BY DEF Init
<1>2. ASSUME FlowInv, [Next]_vars PROVE [Chain!Next]_(Chain!vars)
  <2>1. ASSUME UNCHANGED chainVars PROVE UNCHANGED Chain!vars
    BY <2>1 DEF chainVars, Chain!vars
  <2>2. ASSUME NEW c \in Challenged, Land(c) PROVE [Chain!Next]_(Chain!vars)
    BY <1>2, <2>1, <2>2, PaysIsDirectPay DEF Land
  <2>3. CASE Tick
    BY <2>3 DEF Tick, Chain!Next
  <2>4. ASSUME NEW c \in Calls,
               Fetch(c) \/ ClientStep(c) \/ ServerStep(c) \/ Redeliver(c)
        PROVE  UNCHANGED chainVars
    BY <2>4 DEF ClientStep, ServerStep, Fetch, Validate, Send, Confirm, Retry, Throw,
                Challenge, Verify, ReadTx, ReadNonce, Conclude, Redeliver
  <2>5. ASSUME NEW n \in Nonces, Drop(n) PROVE UNCHANGED chainVars
    BY <2>5 DEF Drop
  <2>6. CASE UNCHANGED vars
    BY <2>6 DEF vars, chainVars, Chain!vars
  <2> QED
    BY <1>2, <2>1, <2>2, <2>3, <2>4, <2>5, <2>6 DEF Next, Challenged
<1>3. FlowInv /\ [Next]_vars => [Chain!Next]_(Chain!vars)
  BY <1>2
<1> QED
  BY <1>1, <1>3, FlowInvariance, PTL DEF Spec, Chain!Spec
=============================================================================
