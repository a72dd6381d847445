------------------------- MODULE GatewayStateProofs -------------------------
(***************************************************************************)
(* The gateway's in-memory state, for any requests, callers, clients and   *)
(* parameters.  Admission: no interval of one window lets more than twice  *)
(* the limit through, nobody is refused without cause, and a verdict of    *)
(* the gate is about a recent balance.  Stores: they differ as the         *)
(* properties say, an ended session is final, the budget is overshot by    *)
(* less than one call per caller.  Intents: what is stored was built and   *)
(* signed so, and nothing is authorized after its deadline.  Webhooks: an  *)
(* event is repeated only after an attempt given up or denied.             *)
(***************************************************************************)
EXTENDS GatewayAdmission, AgentStores, IntentStore, WebhookDelivery, FiniteSetTheorems, SequenceTheorems,
        TLAPS

-----------------------------------------------------------------------------
(* AgentStores *)

\* Before the session is created nothing was charged or shown, and a session
\* that was shown as over has ended.
SessionPhases ==
    /\ route.status = "none" => route = NoSession /\ charged = 0 /\ ~ended
    /\ ended => route.status # "active"

StoresInv == now \in Nat /\ StoresTypeOK /\ ChargedInTime /\ SessionPhases

-----------------------------------------------------------------------------

\* A session that is looked at keeps its totals and its type.
LEMMA ExpireKeeps ==
    ASSUME NEW s \in SessionType, now \in Nat, s.status = "expired" => now > s.expiresAt
    PROVE  LET e == maybeExpire(s) IN
           /\ e \in SessionType /\ e.calls = s.calls /\ e.spent = s.spent
           /\ e.expiresAt = s.expiresAt
           /\ e.status = "expired" => now > e.expiresAt
           /\ e.status = "active" => s.status = "active" /\ ~(now > s.expiresAt)
           /\ s.status # "active" => e = s
           /\ e.status = "none" <=> s.status = "none"
  BY DEF maybeExpire, SessionType

\* A charge adds one call and its price.
LEMMA ChargeAdds ==
    ASSUME NEW s \in SessionType, NEW p \in Prices
    PROVE  /\ Charged(s, p) \in SessionType /\ Charged(s, p).calls = s.calls + 1
           /\ Charged(s, p).status = s.status /\ Charged(s, p).expiresAt = s.expiresAt
<1>1. p \in Nat
  BY StoresAssumption
<1> DEFINE c == [status |-> s.status, calls |-> s.calls + 1, spent |-> s.spent + p,
                 expiresAt |-> s.expiresAt]
<1>2. Charged(s, p) = c
  <2> DEFINE t == [s EXCEPT !.calls = s.calls + 1]
  <2>1. Charged(s, p) = [t EXCEPT !.spent = s.spent + p]
    BY Zenon DEF Charged
  <2>2. t = [status |-> s.status, calls |-> s.calls + 1, spent |-> s.spent,
             expiresAt |-> s.expiresAt]
    BY DEF SessionType
  <2> HIDE DEF t
  <2> QED
    BY <2>1, <2>2
<1>3. c \in SessionType
  BY <1>1 DEF SessionType
<1> QED
  BY <1>2, <1>3

\* A record finds the session active and in time, and adds its call, or finds it
\* over, and leaves its totals.
LEMMA RecordEither ==
    ASSUME NEW s \in SessionType, NEW p \in Prices, now \in Nat,
           s.status = "expired" => now > s.expiresAt
    PROVE  LET r == Recorded(s, p) IN
           /\ r \in SessionType /\ r.expiresAt = s.expiresAt
           /\ r.status = "none" <=> s.status = "none"
           /\ r.status = "expired" => now > r.expiresAt
           /\ \/ s.status = "active" /\ r.status = "active" /\ ~(now > s.expiresAt)
              \/ r.status # "active" /\ r.calls = s.calls /\ r.spent = s.spent
           /\ s.status # "active" => r = s
<1> DEFINE e == maybeExpire(s)
           r == Recorded(s, p)
<1>1. /\ e \in SessionType /\ e.calls = s.calls /\ e.spent = s.spent
      /\ e.expiresAt = s.expiresAt
      /\ e.status = "expired" => now > e.expiresAt
      /\ e.status = "active" => s.status = "active" /\ ~(now > s.expiresAt)
      /\ s.status # "active" => e = s
      /\ e.status = "none" <=> s.status = "none"
  BY ExpireKeeps
<1>2. r = IF e.status = "active" THEN Charged(e, p) ELSE e
  BY DEF Recorded
<1> HIDE DEF e, r
<1>3. CASE e.status = "active"
  <2>1. r \in SessionType /\ r.status = "active" /\ r.expiresAt = e.expiresAt
    BY <1>1, <1>2, <1>3, ChargeAdds
  <2> QED
    BY <1>1, <1>3, <2>1 DEF r
<1>4. CASE e.status # "active"
  BY <1>1, <1>2, <1>4 DEF r
<1> QED
  BY <1>3, <1>4

-----------------------------------------------------------------------------

\* What the invariant says of the types, taken apart.
LEMMA Types ==
    ASSUME StoresInv
    PROVE  /\ now \in Nat /\ route \in SessionType /\ manager \in SessionType
           /\ route.status = "expired" => now > route.expiresAt
           /\ charged <= route.expiresAt
           /\ charged \in Nat /\ ended \in BOOLEAN /\ through \in Nat
           /\ agents \in AgentType /\ registry \in AgentType
           /\ TTL \in Nat /\ MaxCalls \in Nat
  BY StoresAssumption DEF StoresInv, StoresTypeOK, ChargedInTime

\* The gateway's answers about sessions.
LEMMA RouteSteps ==
    ASSUME StoresInv, RouteNext
    PROVE  StoresInv'
<1>0. UNCHANGED <<now, manager, through, agents, registry>>
  BY DEF RouteNext, Create, Get, Close, Record, agentVars
<1>1. /\ route' \in SessionType /\ charged' \in Nat /\ ended' \in BOOLEAN
      /\ charged' <= route'.expiresAt
      /\ route'.status = "expired" => now > route'.expiresAt
      /\ SessionPhases'
  <2>0. SessionPhases
    BY DEF StoresInv
  <2>1. CASE Create
    BY <2>0, <2>1, Types DEF Create, NewSession, NoSession, SessionType, SessionPhases
  <2>2. CASE Get
    <3>1. /\ route' \in SessionType /\ route'.expiresAt = route.expiresAt
          /\ route'.status = "expired" => now > route'.expiresAt
          /\ route'.status = "none" <=> route.status = "none"
          /\ route.status # "active" => route' = route
      BY <2>2, Types, ExpireKeeps DEF Get
    <3>2. route # NoSession /\ charged' = charged /\ ended' = (ended \/ route'.status # "active")
      BY <2>2 DEF Get
    <3>3. route.status # "none"
      BY <2>0, <2>2 DEF Get, SessionPhases
    <3> QED
      BY <2>0, <3>1, <3>2, <3>3, Types DEF SessionPhases
  <2>3. CASE Close
    BY <2>0, <2>3, Types DEF Close, Closed, SessionType, SessionPhases
  <2>4. CASE \E p \in Prices : Record(p)
    <3>1. PICK p \in Prices : Record(p)
      BY <2>4
    <3>2. /\ route' \in SessionType /\ route'.expiresAt = route.expiresAt
          /\ route'.status = "none" <=> route.status = "none"
          /\ route'.status = "expired" => now > route'.expiresAt
          /\ \/ route.status = "active" /\ route'.status = "active" /\ ~(now > route.expiresAt)
             \/ route'.status # "active" /\ route'.calls = route.calls
          /\ route.status # "active" => route' = route
      BY <3>1, Types, RecordEither DEF Record
    <3>3. /\ charged' = IF route'.calls > route.calls THEN now ELSE charged
          /\ ended' = (ended \/ route'.status # "active") /\ route # NoSession
      BY <3>1 DEF Record
    <3>4. charged' \in Nat /\ charged' <= route'.expiresAt
      BY <3>2, <3>3, Types DEF SessionType
    <3>5. route.status # "none"
      BY <2>0, <3>3 DEF SessionPhases
    <3> QED
      BY <2>0, <3>2, <3>3, <3>4, <3>5, Types DEF SessionPhases
  <2> QED
    BY <2>1, <2>2, <2>3, <2>4 DEF RouteNext
<1> QED
  BY <1>0, <1>1 DEF StoresInv, StoresTypeOK, ChargedInTime

\* The library's calls, and the guard's.
LEMMA ManagerSteps ==
    ASSUME StoresInv, ManagerNext
    PROVE  StoresInv'
<1>0. UNCHANGED <<now, route, charged, ended, agents, registry>>
  BY DEF ManagerNext, ManagerCreate, ManagerGet, ManagerClose, ManagerRecord, Guard, agentVars
<1>1. manager' \in SessionType /\ through' \in Nat
  <2>1. CASE ManagerCreate
    BY <2>1, Types DEF ManagerCreate, NewSession, SessionType
  <2>2. CASE ManagerGet
    BY <2>2, Types DEF ManagerGet, maybeExpire, SessionType
  <2>3. CASE ManagerClose
    BY <2>3, Types DEF ManagerClose, Closed, SessionType
  <2>4. CASE \E p \in Prices : ManagerRecord(p)
    BY <2>4, Types, ChargeAdds DEF ManagerRecord, ManagerRecorded
  <2>5. CASE \E h \in Headers : Guard(h)
    BY <2>5, Types DEF Guard
  <2> QED
    BY <2>1, <2>2, <2>3, <2>4, <2>5 DEF ManagerNext
<1> QED
  BY <1>0, <1>1 DEF StoresInv, StoresTypeOK, ChargedInTime, SessionPhases

\* The agents' steps leave the sessions alone.
LEMMA AgentSteps ==
    ASSUME StoresInv, AgentsNext \/ RegistryNext
    PROVE  StoresInv'
<1>0. UNCHANGED <<now, route, manager, charged, ended, through>>
  BY DEF AgentsNext, RegistryNext, Register, Heartbeat, Unregister, RegistryRegister,
         RegistryHeartbeat, MarkOffline, RegistryUnregister, sessionVars
<1>1. agents' \in AgentType /\ registry' \in AgentType
  <2>0. now \in Nat /\ agents \in AgentType /\ registry \in AgentType
    BY Types
  <2>1. Alive(agents) \in AgentType /\ Alive(registry) \in AgentType
    BY <2>0 DEF Alive, AgentType
  <2>2. NoAgent \in AgentType
    BY DEF NoAgent, AgentType
  <2>3. CASE Register
    BY <2>0, <2>3 DEF Register, Registered, AgentType
  <2>4. CASE RegistryRegister
    BY <2>0, <2>4 DEF RegistryRegister, AgentType
  <2>5. CASE MarkOffline
    BY <2>0, <2>5 DEF MarkOffline, AgentType
  <2>6. CASE Heartbeat \/ Unregister \/ RegistryHeartbeat \/ RegistryUnregister
    BY <2>0, <2>1, <2>2, <2>6 DEF Heartbeat, Unregister, RegistryHeartbeat, RegistryUnregister
  <2> QED
    BY <2>3, <2>4, <2>5, <2>6 DEF AgentsNext, RegistryNext
<1>2. /\ now \in Nat /\ route \in SessionType /\ manager \in SessionType
      /\ charged \in Nat /\ ended \in BOOLEAN /\ through \in Nat
      /\ ChargedInTime /\ SessionPhases
  BY Types DEF StoresInv
<1>3. StoresTypeOK'
  BY <1>0, <1>1, <1>2 DEF StoresTypeOK
<1>4. ChargedInTime' /\ SessionPhases'
  BY <1>0, <1>2 DEF ChargedInTime, SessionPhases
<1> QED
  BY <1>0, <1>2, <1>3, <1>4 DEF StoresInv

-----------------------------------------------------------------------------

\* The invariant holds in every reachable state.
THEOREM StoresInvariance == StoresSpec => []StoresInv
<1>1. now = 0 /\ StoresInit => StoresInv
  <2> SUFFICES ASSUME now = 0, StoresInit PROVE StoresInv
    OBVIOUS
  <2>1. /\ route = NoSession /\ manager = NoSession /\ agents = NoAgent /\ registry = NoAgent
        /\ charged = 0 /\ ended = FALSE /\ through = 0
    BY DEF StoresInit
  <2>2. /\ NoSession \in SessionType /\ NoSession.status = "none" /\ NoSession.expiresAt = 0
        /\ NoAgent \in AgentType
    BY DEF NoSession, NoAgent, SessionType, AgentType
  <2>3. StoresTypeOK
    BY <2>1, <2>2 DEF StoresTypeOK
  <2>4. ChargedInTime /\ SessionPhases
    BY <2>1, <2>2 DEF ChargedInTime, SessionPhases
  <2> QED
    BY <2>3, <2>4 DEF StoresInv
<1>2. StoresInv /\ [StoresNext]_<<now, storesVars>> => StoresInv'
  <2> SUFFICES ASSUME StoresInv, [StoresNext]_<<now, storesVars>> PROVE StoresInv'
    OBVIOUS
  <2>1. CASE UNCHANGED <<now, storesVars>>
    BY <2>1 DEF storesVars, sessionVars, agentVars, StoresInv, StoresTypeOK, ChargedInTime,
         SessionPhases
  <2>2. CASE StoresTick
    <3>1. now' \in Nat /\ now' >= now /\ UNCHANGED storesVars
      BY <2>2, Types, SMT DEF StoresTick, Tick
    <3> QED
      BY <3>1, Types DEF storesVars, sessionVars, agentVars, StoresInv, StoresTypeOK,
           ChargedInTime, SessionPhases, SessionType
  <2> QED
    BY <2>1, <2>2, RouteSteps, ManagerSteps, AgentSteps DEF StoresNext
<1> QED
  BY <1>1, <1>2, PTL DEF StoresSpec

\* The stores stay well typed, and the gateway bills no call after a session's
\* expiry, whoever looked at it or not.
THEOREM StoresAreSafe == StoresSpec => []StoresSafe
<1>1. StoresInv => StoresSafe
  BY DEF StoresInv, StoresSafe
<1> QED
  BY <1>1, StoresInvariance, PTL

\* A session that the gateway has shown as over stays over, with its totals.
THEOREM OverIsFinal == StoresSpec => EndedIsFinal
<1>1. StoresInv /\ [StoresNext]_<<now, storesVars>> =>
        [ended => /\ route'.spent = route.spent /\ route'.calls = route.calls
                  /\ maybeExpire(route').status # "active"]_<<now, storesVars>>
  <2> SUFFICES ASSUME StoresInv, StoresNext, ended
               PROVE  /\ route'.spent = route.spent /\ route'.calls = route.calls
                      /\ maybeExpire(route').status # "active"
    OBVIOUS
  <2>1. route \in SessionType /\ route.status \notin {"none", "active"} /\ route # NoSession
    BY Types DEF StoresInv, SessionPhases, NoSession
  <2>2. CASE route' = route
    BY <2>1, <2>2 DEF maybeExpire
  <2>3. CASE Close
    BY <2>1, <2>3 DEF Close, Closed, maybeExpire, SessionType
  <2>4. CASE Create \/ Get
    BY <2>1, <2>2, <2>4 DEF Create, Get, maybeExpire
  <2>5. CASE \E p \in Prices : Record(p)
    <3>1. PICK p \in Prices : Record(p)
      BY <2>5
    <3>2. route' = route
      BY <2>1, <3>1, Types, RecordEither DEF Record
    <3> QED
      BY <2>2, <3>2
  <2>6. CASE StoresTick \/ ManagerNext \/ AgentsNext \/ RegistryNext
    <3>1. route' = route
      BY <2>6 DEF StoresTick, storesVars, sessionVars, ManagerNext, ManagerCreate, ManagerGet,
           ManagerClose, ManagerRecord, Guard, AgentsNext, RegistryNext, Register, Heartbeat,
           Unregister, RegistryRegister, RegistryHeartbeat, MarkOffline, RegistryUnregister
    <3> QED
      BY <2>2, <3>1
  <2> QED
    BY <2>3, <2>4, <2>5, <2>6 DEF StoresNext, RouteNext
<1> QED
  BY <1>1, StoresInvariance, PTL DEF StoresSpec, EndedIsFinal

-----------------------------------------------------------------------------
(* GatewayAdmission *)

\* Requests that reached the limiter from t on, and those let through between.
Since(t) == {r \in Requests : asked[r] >= t}
Between(t, u) == {r \in Through : t < asked[r] /\ asked[r] < u}
Opened == bucket.resetAt - Window

\* The limit holds in the window that is open and in the one's length before it.
WindowInv ==
    IF bucket = NoBucket
    THEN /\ \A r \in Requests : asked[r] < now
         /\ Cardinality(Between(now - Window, now)) <= Max
    ELSE /\ Opened \in 0..now /\ \A r \in Requests : asked[r] < bucket.resetAt
         /\ bucket.count = Cardinality(Since(Opened))
         /\ Cardinality(Through \cap Since(Opened)) <= Max
         /\ Cardinality(Between(Opened - Window, Opened)) <= Max

AskedInv ==
    \A r \in Requests : /\ asked[r] <= now
                        /\ pc[r] = "new" => asked[r] = Never
                        /\ pc[r] # "new" => asked[r] >= 0

\* What the gate knows is about a balance of the last Latency, or Window more.
GateInv ==
    /\ richAt <= now /\ poorAt <= now
    /\ balance >= MinBalance => richAt = now
    /\ balance < MinBalance => poorAt = now
    /\ \A r \in Requests : pc[r] = "answered" =>
          /\ now <= read[r].at + Latency
          /\ read[r].balance >= MinBalance => richAt >= read[r].at
          /\ read[r].balance < MinBalance => poorAt >= read[r].at
    /\ Fresh =>
          /\ cache.balance >= MinBalance => richAt >= cache.expiresAt - Window - Latency
          /\ cache.balance < MinBalance => poorAt >= cache.expiresAt - Window - Latency

LimiterInv == WindowInv /\ AskedInv /\ TwiceTheLimit /\ RejectionHasCause

AdmissionInv ==
    now \in 0..MaxTime /\ AdmissionTypeOK /\ LimiterInv /\ GateInv

-----------------------------------------------------------------------------
(* Counting *)

LEMMA PartCounts ==
    ASSUME NEW S \in SUBSET Requests, NEW T \in SUBSET S
    PROVE  /\ IsFiniteSet(S) /\ Cardinality(S) \in Nat /\ Cardinality(T) \in Nat
           /\ Cardinality(T) <= Cardinality(S)
<1>1. IsFiniteSet(S)
  BY AdmissionAssumption, FS_Subset
<1> QED
  BY <1>1, FS_Subset, FS_CardinalityType

LEMMA UnionCounts ==
    ASSUME NEW S \in SUBSET Requests, NEW T \in SUBSET Requests, NEW U \in SUBSET (S \cup T)
    PROVE  Cardinality(U) <= Cardinality(S) + Cardinality(T)
<1>1. /\ IsFiniteSet(S) /\ IsFiniteSet(T) /\ S \cap T \in SUBSET S
      /\ Cardinality(S) \in Nat /\ Cardinality(T) \in Nat
  BY PartCounts
<1>2. Cardinality(S \cup T) = Cardinality(S) + Cardinality(T) - Cardinality(S \cap T)
  BY <1>1, FS_Union
<1>3. Cardinality(S \cap T) \in Nat /\ Cardinality(U) \in Nat
      /\ Cardinality(U) <= Cardinality(S \cup T)
  BY <1>1, PartCounts
<1> QED
  BY <1>1, <1>2, <1>3

LEMMA AdmissionNumbers ==
    ASSUME AdmissionInv
    PROVE  /\ now \in Nat /\ Max \in Nat /\ Window \in Nat /\ Latency \in Nat
           /\ MinBalance \in Nat /\ Max > 0 /\ Window > 0 /\ MaxTime \in Nat
           /\ balance \in Nat /\ cache.balance \in Nat /\ cache.expiresAt \in Nat
           /\ bucket.count \in Nat /\ bucket.resetAt \in Nat
           /\ richAt \in Int /\ poorAt \in Int
           /\ \A r \in Requests : /\ asked[r] \in Int /\ read[r].at \in Int
                                  /\ read[r].balance \in Nat
<1>1. Never \in Int
  BY DEF Never
<1>2. MaxTime \in Nat /\ now \in 0..MaxTime
  BY ClockAssumption DEF AdmissionInv
<1>3. Max \in Nat /\ Window \in Nat /\ Latency \in Nat /\ MinBalance \in Nat
      /\ Max > 0 /\ Window > 0 /\ Balances \subseteq Nat
  BY AdmissionAssumption
<1>4. Cardinality(Requests) \in Nat
  BY AdmissionAssumption, FS_CardinalityType
<1>5. AdmissionTypeOK
  BY DEF AdmissionInv
<1>6. balance \in Nat /\ cache.balance \in Nat /\ cache.expiresAt \in Nat
  <2>1. balance \in Balances /\ cache.balance \in Balances
        /\ cache.expiresAt \in 0..(MaxTime + Window)
    BY <1>5 DEF AdmissionTypeOK
  <2>2. 0..(MaxTime + Window) \subseteq Nat
    BY <1>2, <1>3
  <2> QED
    BY <1>3, <2>1, <2>2
<1>7. bucket.count \in Nat /\ bucket.resetAt \in Nat
  BY <1>2, <1>3, <1>4, <1>5 DEF AdmissionTypeOK
<1>8. richAt \in Int /\ poorAt \in Int
  BY <1>1, <1>2, <1>5 DEF AdmissionTypeOK
<1>9. ASSUME NEW r \in Requests
      PROVE  asked[r] \in Int /\ read[r].at \in Int /\ read[r].balance \in Nat
  <2>1. asked[r] \in Never..MaxTime /\ read[r] \in [balance : Balances, at : Never..MaxTime]
    BY <1>5 DEF AdmissionTypeOK
  <2>2. Never..MaxTime \subseteq Int
    BY <1>1, <1>2
  <2>3. read[r].at \in Never..MaxTime /\ read[r].balance \in Balances
    BY <2>1
  <2> QED
    BY <1>3, <2>1, <2>2, <2>3
<1> QED
  BY <1>2, <1>3, <1>6, <1>7, <1>8, <1>9

-----------------------------------------------------------------------------
(* The limiter *)

\* What a request adds, and what it leaves.
LEMMA LimitAsks ==
    ASSUME AdmissionInv, NEW r \in Requests, Limit(r)
    PROVE  /\ asked[r] = Never /\ asked'[r] = now /\ r \notin Through
           /\ \A q \in Requests : q # r => asked'[q] = asked[q] /\ pc'[q] = pc[q]
           /\ Through' = (IF Counted.count > Max THEN Through ELSE Through \cup {r})
           /\ pc'[r] = (IF Counted.count > Max THEN "429" ELSE "passed")
           /\ \A t \in Nat : Since(t)' = IF t <= now THEN Since(t) \cup {r} ELSE Since(t)
           /\ \A t \in Nat : r \notin Since(t)
<1>1. /\ pc[r] = "new" /\ asked' = [asked EXCEPT ![r] = now]
      /\ pc' = [pc EXCEPT ![r] = IF Counted.count > Max THEN "429" ELSE "passed"]
      /\ UNCHANGED now
  BY DEF Limit
<1>2. asked \in [Requests -> Never..MaxTime] /\ DOMAIN pc = Requests
      /\ pc = [q \in Requests |-> pc[q]]
  BY DEF AdmissionInv, AdmissionTypeOK
<1>3. /\ asked[r] = Never /\ asked'[r] = now /\ r \notin Through
      /\ \A q \in Requests : q # r => asked'[q] = asked[q] /\ pc'[q] = pc[q]
      /\ pc'[r] = (IF Counted.count > Max THEN "429" ELSE "passed")
  BY <1>1, <1>2 DEF AdmissionInv, LimiterInv, AskedInv, Through
<1>4. Through' = (IF Counted.count > Max THEN Through ELSE Through \cup {r})
  BY <1>3 DEF Through
<1>5. \A t \in Nat : ~(Never >= t)
  BY DEF Never
<1>6. \A t \in Nat : r \notin Since(t)
  BY <1>3, <1>5 DEF Since
<1>7. ASSUME NEW t \in Nat PROVE Since(t)' = IF t <= now THEN Since(t) \cup {r} ELSE Since(t)
  <2>1. now \in Nat /\ (now >= t <=> t <= now)
    BY AdmissionNumbers
  <2> QED
    BY <1>3, <1>6, <2>1 DEF Since
<1> QED
  BY <1>3, <1>4, <1>6, <1>7

\* When a window is over, the limit holds in the one's length before now.
LEMMA WindowOver ==
    ASSUME AdmissionInv, Expired(bucket)
    PROVE  /\ \A q \in Requests : asked[q] < now
           /\ Cardinality(Between(now - Window, now)) <= Max
<1>1. /\ now \in Nat /\ Max \in Nat /\ Window \in Nat /\ Max > 0 /\ Window > 0
      /\ \A q \in Requests : asked[q] \in Int
  BY AdmissionNumbers
<1>2. \A q \in Requests : asked[q] < now
  <2>1. CASE bucket = NoBucket
    BY <2>1 DEF AdmissionInv, LimiterInv, WindowInv
  <2>2. CASE bucket # NoBucket
    <3>1. now >= bucket.resetAt /\ bucket.resetAt \in Nat
          /\ \A q \in Requests : asked[q] < bucket.resetAt
      BY <2>2, AdmissionNumbers DEF Expired, AdmissionInv, LimiterInv, WindowInv
    <3> QED
      BY <1>1, <3>1
  <2> QED
    BY <2>1, <2>2
<1>3. Cardinality(Between(now - Window, now)) <= Max
  <2>1. CASE bucket = NoBucket
    BY <2>1 DEF AdmissionInv, LimiterInv, WindowInv
  <2>2. CASE bucket # NoBucket
    <3>1. Opened \in 0..now /\ now >= bucket.resetAt /\ bucket.resetAt \in Nat
      BY <2>2, AdmissionNumbers DEF Expired, AdmissionInv, LimiterInv, WindowInv
    <3>2. now - Window >= Opened
      BY <1>1, <3>1 DEF Opened
    <3>3. Opened \in Int
      BY <3>1
    <3>4. Between(now - Window, now) \subseteq Through \cap Since(Opened)
      BY <1>1, <3>2, <3>3 DEF Between, Since, Through
    <3>5. Cardinality(Through \cap Since(Opened)) <= Max
      BY <2>2 DEF AdmissionInv, LimiterInv, WindowInv
    <3> QED
      BY <1>1, <3>4, <3>5, PartCounts DEF Through
  <2> QED
    BY <2>1, <2>2
<1> QED
  BY <1>2, <1>3

\* The first request of a window.
LEMMA WindowOpens ==
    ASSUME AdmissionInv, NEW r \in Requests, Limit(r), Expired(bucket)
    PROVE  /\ WindowInv' /\ pc'[r] = "passed" /\ bucket'.count = 1
           /\ bucket'.resetAt = now + Window
           /\ Cardinality(Between(now - Window, now)) <= Max
           /\ \A q \in Requests : asked[q] < now
<1>1. /\ now \in Nat /\ Max \in Nat /\ Window \in Nat /\ Max > 0 /\ Window > 0
      /\ \A q \in Requests : asked[q] \in Int
  BY AdmissionNumbers
<1>2. bucket' = [count |-> 1, resetAt |-> now + Window] /\ Counted.count = 1 /\ now' = now
  BY DEF Limit, Counted
<1>3. bucket' # NoBucket /\ Opened' = now
  BY <1>1, <1>2 DEF NoBucket, Opened
<1>4. (\A q \in Requests : asked[q] < now) /\ Cardinality(Between(now - Window, now)) <= Max
  BY WindowOver
<1>6. /\ \A q \in Requests : q # r => asked'[q] = asked[q] /\ pc'[q] = pc[q]
      /\ asked'[r] = now /\ r \notin Through /\ Through' = Through \cup {r}
      /\ pc'[r] = "passed"
  BY <1>1, <1>2, LimitAsks
<1>7. Since(now)' = {r}
  BY <1>1, <1>2, <1>4, <1>6 DEF Since
<1>8. Cardinality({r}) = 1
  BY FS_Singleton
<1>9. Cardinality(Since(Opened)') = 1 /\ Cardinality((Through \cap Since(Opened))') <= Max
  <2>1. Since(Opened)' = {r}
    BY <1>2, <1>3, <1>7 DEF Since
  <2>2. (Through \cap Since(Opened))' = {r}
    BY <1>6, <2>1
  <2> QED
    BY <1>1, <1>8, <2>1, <2>2
<1>10. Between(Opened - Window, Opened)' = Between(now - Window, now)
  BY <1>1, <1>3, <1>6 DEF Between, Through
<1>11. \A q \in Requests : asked'[q] < bucket'.resetAt
  BY <1>1, <1>2, <1>4, <1>6
<1>12. WindowInv'
  BY <1>1, <1>2, <1>3, <1>4, <1>9, <1>10, <1>11 DEF WindowInv
<1> QED
  BY <1>2, <1>4, <1>6, <1>12

\* A further request of the window.
LEMMA WindowGoesOn ==
    ASSUME AdmissionInv, NEW r \in Requests, Limit(r), ~Expired(bucket)
    PROVE  /\ WindowInv' /\ bucket'.count = Cardinality(Since(Opened)')
           /\ Opened' = Opened /\ Opened \in 0..now /\ now < Opened + Window
           /\ bucket'.resetAt = bucket.resetAt /\ bucket' # NoBucket
           /\ pc'[r] = (IF bucket'.count > Max THEN "429" ELSE "passed")
<1>1. /\ now \in Nat /\ Max \in Nat /\ Window \in Nat /\ Max > 0 /\ Window > 0
      /\ \A q \in Requests : asked[q] \in Int
      /\ bucket.count \in Nat /\ bucket.resetAt \in Nat
  BY AdmissionNumbers
<1>2. /\ bucket # NoBucket /\ ~(now >= bucket.resetAt) /\ now' = now
      /\ bucket' = [bucket EXCEPT !.count = @ + 1]
      /\ Counted = [bucket EXCEPT !.count = @ + 1]
  BY DEF Limit, Counted, Expired
<1>3. bucket'.count = bucket.count + 1 /\ bucket'.resetAt = bucket.resetAt
  BY <1>2 DEF AdmissionInv, AdmissionTypeOK
<1>4. bucket' # NoBucket /\ Opened' = Opened
  <2>1. NoBucket.count = 0 /\ bucket.count + 1 # 0
    BY <1>1 DEF NoBucket
  <2> QED
    BY <1>3, <2>1 DEF Opened
<1>5. /\ Opened \in 0..now /\ \A q \in Requests : asked[q] < bucket.resetAt
      /\ bucket.count = Cardinality(Since(Opened))
      /\ Cardinality(Through \cap Since(Opened)) <= Max
      /\ Cardinality(Between(Opened - Window, Opened)) <= Max
  BY <1>2 DEF AdmissionInv, LimiterInv, WindowInv
<1>6. /\ \A q \in Requests : q # r => asked'[q] = asked[q] /\ pc'[q] = pc[q]
      /\ asked'[r] = now /\ r \notin Through
      /\ Through' = (IF bucket'.count > Max THEN Through ELSE Through \cup {r})
      /\ pc'[r] = (IF bucket'.count > Max THEN "429" ELSE "passed")
      /\ r \notin Since(Opened)
      /\ Since(Opened)' = Since(Opened) \cup {r}
  <2>1. Opened \in Nat /\ Opened <= now /\ Counted = bucket'
    BY <1>1, <1>2, <1>5
  <2>2. PICK u \in Nat : u = Opened /\ u <= now
    BY <2>1
  <2>3. Since(u)' = Since(u) \cup {r} /\ r \notin Since(u)
    BY <2>2, LimitAsks
  <2>4. Since(Opened)' = Since(u)' /\ Since(Opened) = Since(u)
    BY <1>4, <2>2 DEF Since
  <2>5. /\ \A q \in Requests : q # r => asked'[q] = asked[q] /\ pc'[q] = pc[q]
        /\ asked'[r] = now /\ r \notin Through
        /\ Through' = (IF bucket'.count > Max THEN Through ELSE Through \cup {r})
        /\ pc'[r] = (IF bucket'.count > Max THEN "429" ELSE "passed")
    BY <2>1, LimitAsks
  <2> QED
    BY <2>3, <2>4, <2>5
<1>7. bucket'.count = Cardinality(Since(Opened)')
  <2>1. IsFiniteSet(Since(Opened))
    BY PartCounts DEF Since
  <2> QED
    BY <1>3, <1>5, <1>6, <2>1, FS_AddElement
<1>8. Cardinality((Through \cap Since(Opened))') <= Max
  <2>1. CASE bucket'.count > Max
    <3>1. (Through \cap Since(Opened))' = Through \cap Since(Opened)
      BY <1>6, <2>1
    <3> QED
      BY <1>5, <3>1
  <2>2. CASE ~(bucket'.count > Max)
    <3>1. (Through \cap Since(Opened))' \in SUBSET (Since(Opened)')
          /\ Since(Opened)' \in SUBSET Requests
      BY DEF Since
    <3>2. Cardinality((Through \cap Since(Opened))') \in Nat
          /\ Cardinality((Through \cap Since(Opened))') <= Cardinality(Since(Opened)')
          /\ Cardinality(Since(Opened)') \in Nat
      BY <3>1, PartCounts
    <3> QED
      BY <1>1, <1>7, <2>2, <3>2
  <2> QED
    BY <2>1, <2>2
<1>9. Between(Opened - Window, Opened)' = Between(Opened - Window, Opened)
  <2>1. ~(now < Opened) /\ Opened \in Int
    BY <1>1, <1>5
  <2> QED
    BY <1>4, <1>6, <2>1 DEF Between, Through
<1>10. \A q \in Requests : asked'[q] < bucket'.resetAt
  BY <1>1, <1>2, <1>3, <1>5, <1>6
<1>11. WindowInv'
  BY <1>2, <1>4, <1>5, <1>7, <1>8, <1>9, <1>10 DEF WindowInv
<1>12. now < Opened + Window
  BY <1>1, <1>2 DEF Opened
<1> QED
  BY <1>3, <1>4, <1>5, <1>6, <1>7, <1>11, <1>12

LEMMA LimitKeeps ==
    ASSUME AdmissionInv, NEW r \in Requests, Limit(r)
    PROVE  LimiterInv'
<1>1. /\ now \in Nat /\ Max \in Nat /\ Window \in Nat /\ Max > 0 /\ Window > 0
      /\ now <= MaxTime /\ MaxTime \in Nat /\ now' = now
      /\ \A q \in Requests : asked[q] \in Int
  BY AdmissionNumbers DEF AdmissionInv, Limit
<1>2. /\ asked[r] = Never /\ asked'[r] = now /\ r \notin Through
      /\ \A q \in Requests : q # r => asked'[q] = asked[q] /\ pc'[q] = pc[q]
      /\ Through' \subseteq Through \cup {r} /\ Through' \subseteq Requests
      /\ Through \subseteq Requests /\ Through \subseteq Through'
      /\ pc'[r] \in {"429", "passed"}
  BY LimitAsks DEF Through
<1>3. AskedInv'
  BY <1>1, <1>2 DEF AdmissionInv, LimiterInv, AskedInv
<1>4. WindowInv'
  BY WindowOpens, WindowGoesOn
\* The requests let through around now are those of the open window and those
\* within one window's length before it.
<1>5. \E S, T \in SUBSET Requests :
        /\ Cardinality(S) <= Max /\ Cardinality(T) <= Max
        /\ \A q \in Through' : asked'[q] > now - Window => q \in S \cup T
  <2>1. CASE Expired(bucket)
    <3>1. /\ \A q \in Requests : asked[q] < now
          /\ Cardinality(Between(now - Window, now)) <= Max
      BY <2>1, WindowOver
    <3>2. Cardinality({r}) = 1 /\ Cardinality({r}) <= Max
      BY <1>1, FS_Singleton
    <3>3. \A q \in Through' : asked'[q] > now - Window => q \in {r} \cup Between(now - Window, now)
      BY <1>1, <1>2, <3>1 DEF Between
    <3> QED
      BY <3>1, <3>2, <3>3 DEF Between, Through
  <2>2. CASE ~Expired(bucket)
    <3>1. /\ bucket' # NoBucket /\ Opened' = Opened /\ Opened \in 0..now
      BY <2>2, WindowGoesOn
    <3>2. /\ Cardinality((Through \cap Since(Opened))') <= Max
          /\ Cardinality(Between(Opened - Window, Opened)') <= Max
      BY <1>4, <3>1 DEF WindowInv
    <3>3. \A q \in Through' : asked'[q] > now - Window =>
            q \in (Through \cap Since(Opened))' \cup Between(Opened - Window, Opened)'
      <4> SUFFICES ASSUME NEW q \in Through', asked'[q] > now - Window
                   PROVE  q \in (Through \cap Since(Opened))'
                                  \cup Between(Opened - Window, Opened)'
        OBVIOUS
      <4>1. Opened \in Int /\ Opened <= now /\ asked'[q] \in Int /\ q \in Requests
        BY <1>1, <1>2, <3>1
      <4>2. CASE asked'[q] >= Opened
        BY <3>1, <4>1, <4>2 DEF Since
      <4>3. CASE ~(asked'[q] >= Opened)
        <5>1. Opened - Window < asked'[q] /\ asked'[q] < Opened
          BY <1>1, <4>1, <4>3
        <5> QED
          BY <3>1, <5>1 DEF Between
      <4> QED
        BY <4>2, <4>3
    <3> QED
      BY <3>2, <3>3 DEF Between, Since, Through
  <2> QED
    BY <2>1, <2>2
<1>6. TwiceTheLimit'
  <2> SUFFICES ASSUME NEW t \in 0..MaxTime
               PROVE  Cardinality((Through \cap Asked(t, t + Window - 1))') <= 2 * Max
    BY DEF TwiceTheLimit
  <2>1. CASE now \in t..(t + Window - 1)
    <3>1. PICK S, T \in SUBSET Requests :
            /\ Cardinality(S) <= Max /\ Cardinality(T) <= Max
            /\ \A q \in Through' : asked'[q] > now - Window => q \in S \cup T
      BY <1>5
    <3>2. t > now - Window
      BY <1>1, <2>1
    <3>3. (Through \cap Asked(t, t + Window - 1))' \in SUBSET (S \cup T)
      BY <1>1, <1>2, <3>1, <3>2 DEF Asked
    <3>4. Cardinality((Through \cap Asked(t, t + Window - 1))')
            <= Cardinality(S) + Cardinality(T)
      BY <3>3, UnionCounts
    <3>5. Cardinality(S) \in Nat /\ Cardinality(T) \in Nat
          /\ Cardinality((Through \cap Asked(t, t + Window - 1))') \in Nat
      BY <1>2, PartCounts
    <3> QED
      BY <1>1, <3>1, <3>4, <3>5
  <2>2. CASE now \notin t..(t + Window - 1)
    <3>1. (Through \cap Asked(t, t + Window - 1))' = Through \cap Asked(t, t + Window - 1)
      BY <1>2, <2>2 DEF Asked, Through
    <3> QED
      BY <3>1 DEF AdmissionInv, LimiterInv, TwiceTheLimit
  <2> QED
    BY <2>1, <2>2
<1>7. RejectionHasCause'
  <2> SUFFICES ASSUME NEW q \in Requests, pc'[q] = "429"
               PROVE  \E t \in 0..asked'[q] :
                        t + Window > asked'[q]
                        /\ Cardinality(Asked(t, asked[q])') > Max
    BY DEF RejectionHasCause
  <2>1. CASE q = r
    <3>1. ~Expired(bucket)
      BY <2>1, WindowOpens
    <3>2. /\ bucket'.count = Cardinality(Since(Opened)') /\ bucket'.count > Max
          /\ Opened' = Opened /\ Opened \in 0..now /\ now < Opened + Window
      BY <2>1, <3>1, WindowGoesOn
    <3>3. asked'[q] = now
      BY <1>2, <2>1
    <3>4. PICK t \in 0..now : t = Opened
      BY <3>2
    <3>5. t + Window > now
      BY <1>1, <3>2, <3>4
    <3>6. Asked(t, asked[q])' = Since(Opened)'
      BY <1>1, <1>2, <1>3, <3>2, <3>3, <3>4 DEF Asked, Since, AskedInv
    <3> QED
      BY <3>2, <3>3, <3>4, <3>5, <3>6
  <2>2. CASE q # r
    <3>1. pc[q] = "429" /\ asked'[q] = asked[q]
      BY <1>2, <2>2
    <3>2. PICK t \in 0..asked[q] : t + Window > asked[q] /\ Cardinality(Asked(t, asked[q])) > Max
      BY <3>1 DEF AdmissionInv, LimiterInv, RejectionHasCause
    <3>3. r \notin Asked(t, asked[q])
      <4>1. ~(Never >= t)
        BY <3>2 DEF Never
      <4> QED
        BY <1>2, <4>1 DEF Asked
    <3>4. Asked(t, asked[q]) \in SUBSET (Asked(t, asked[q])')
          /\ Asked(t, asked[q])' \in SUBSET Requests
      BY <1>2, <3>1, <3>3 DEF Asked
    <3>5. Cardinality(Asked(t, asked[q])) \in Nat /\ Cardinality(Asked(t, asked[q])') \in Nat
          /\ Cardinality(Asked(t, asked[q])) <= Cardinality(Asked(t, asked[q])')
      BY <3>4, PartCounts
    <3>6. Cardinality(Asked(t, asked[q])') > Max
      BY <1>1, <3>2, <3>5
    <3> QED
      BY <3>1, <3>2, <3>6
  <2> QED
    BY <2>1, <2>2
<1> QED
  BY <1>3, <1>4, <1>6, <1>7 DEF LimiterInv

\* The sweep drops what Counted would have dropped.
LEMMA PruneKeeps ==
    ASSUME AdmissionInv, Prune
    PROVE  LimiterInv'
<1>1. /\ bucket' = NoBucket /\ Expired(bucket) /\ UNCHANGED <<asked, pc, now>>
  BY DEF Prune, Expired
<1>2. WindowInv'
  BY <1>1, WindowOver DEF WindowInv, Between, Through
<1> QED
  BY <1>1, <1>2 DEF AdmissionInv, LimiterInv, AskedInv, TwiceTheLimit, RejectionHasCause,
                    Through, Asked

LEMMA TickKeepsLimits ==
    ASSUME AdmissionInv, AdmissionTick
    PROVE  LimiterInv'
<1>1. /\ now' = now + 1 /\ UNCHANGED <<bucket, asked, pc>>
  BY DEF AdmissionTick, Tick, limiterVars
<1>2. /\ now \in Nat /\ Max \in Nat /\ Window \in Nat
      /\ \A q \in Requests : asked[q] \in Int
  BY AdmissionNumbers
<1>3. AskedInv'
  BY <1>1, <1>2 DEF AdmissionInv, LimiterInv, AskedInv
<1>4. CASE bucket = NoBucket
  <2>1. (\A q \in Requests : asked[q] < now) /\ Cardinality(Between(now - Window, now)) <= Max
    BY <1>4 DEF AdmissionInv, LimiterInv, WindowInv
  <2>2. Between(now - Window, now)' \in SUBSET Between(now - Window, now)
        /\ Between(now - Window, now) \in SUBSET Requests
    BY <1>1, <1>2, <2>1 DEF Between, Through
  <2>3. Cardinality(Between(now - Window, now)') <= Max
    BY <1>2, <2>1, <2>2, PartCounts
  <2>4. \A q \in Requests : asked'[q] < now'
    BY <1>1, <1>2, <2>1
  <2>5. WindowInv'
    BY <1>1, <1>4, <2>3, <2>4 DEF WindowInv
  <2> QED
    BY <1>1, <1>3, <2>5 DEF AdmissionInv, LimiterInv, TwiceTheLimit, RejectionHasCause,
                            Through, Asked
<1>5. CASE bucket # NoBucket
  <2>1. Opened' = Opened /\ Opened \in 0..now'
    BY <1>1, <1>2, <1>5 DEF Opened, AdmissionInv, LimiterInv, WindowInv
  <2>2. WindowInv'
    BY <1>1, <1>5, <2>1 DEF AdmissionInv, LimiterInv, WindowInv, Between, Since, Through
  <2> QED
    BY <1>1, <1>3, <2>2 DEF AdmissionInv, LimiterInv, TwiceTheLimit, RejectionHasCause,
                            Through, Asked
<1> QED
  BY <1>4, <1>5

\* Behind the limiter nothing changes what it knows.
LEMMA GateKeepsLimits ==
    ASSUME AdmissionInv, UNCHANGED <<bucket, asked, now>>,
           \A q \in Requests : \/ pc'[q] = pc[q]
                               \/ pc[q] \notin {"new", "429"} /\ pc'[q] \notin {"new", "429"}
    PROVE  LimiterInv'
<1>1. Through' = Through /\ Opened' = Opened
  BY DEF Through, Opened
<1>2. AskedInv'
  BY DEF AdmissionInv, LimiterInv, AskedInv
<1>3. WindowInv'
  BY <1>1 DEF AdmissionInv, LimiterInv, WindowInv, Between, Since
<1>4. TwiceTheLimit'
  BY <1>1 DEF AdmissionInv, LimiterInv, TwiceTheLimit, Asked
<1>5. RejectionHasCause'
  BY DEF AdmissionInv, LimiterInv, RejectionHasCause, Asked
<1> QED
  BY <1>2, <1>3, <1>4, <1>5 DEF LimiterInv

LEMMA LimitTypes ==
    ASSUME AdmissionInv, NEW r \in Requests, Limit(r)
    PROVE  AdmissionTypeOK'
<1>1. /\ now \in 0..MaxTime /\ MaxTime \in Nat /\ Window \in Nat
      /\ asked' = [asked EXCEPT ![r] = now]
      /\ pc' = [pc EXCEPT ![r] = IF Counted.count > Max THEN "429" ELSE "passed"]
      /\ UNCHANGED <<balance, richAt, poorAt, cache, read>>
  BY AdmissionNumbers DEF AdmissionInv, Limit, gateVars
<1>2. asked' \in [Requests -> Never..MaxTime]
  <2>1. now \in Never..MaxTime
    BY <1>1 DEF Never
  <2> QED
    BY <1>1, <2>1 DEF AdmissionInv, AdmissionTypeOK
<1>3. bucket' \in [count : 0..Cardinality(Requests), resetAt : 0..(MaxTime + Window)]
  <2>1. Cardinality(Requests) \in Nat
    BY AdmissionAssumption, FS_CardinalityType
  <2>2. CASE Expired(bucket)
    <3>1. bucket' = [count |-> 1, resetAt |-> now + Window]
      BY <2>2 DEF Limit, Counted
    <3>2. 1 <= Cardinality(Requests)
      <4>1. {r} \in SUBSET Requests /\ Cardinality({r}) = 1
        BY FS_Singleton
      <4> QED
        BY <2>1, <4>1, PartCounts
    <3>3. 1 \in 0..Cardinality(Requests) /\ now + Window \in 0..(MaxTime + Window)
      BY <1>1, <2>1, <3>2
    <3> QED
      BY <3>1, <3>3
  <2>3. CASE ~Expired(bucket)
    <3>1. bucket' = [bucket EXCEPT !.count = @ + 1]
          /\ bucket'.count = Cardinality(Since(Opened)')
      BY <2>3, WindowGoesOn DEF Limit, Counted
    <3>2. bucket'.count \in 0..Cardinality(Requests)
      <4>1. Since(Opened)' \in SUBSET Requests
        BY DEF Since
      <4>2. Cardinality(Since(Opened)') \in Nat
            /\ Cardinality(Since(Opened)') <= Cardinality(Requests)
        BY <4>1, PartCounts
      <4> QED
        BY <2>1, <3>1, <4>2
    <3>3. bucket.count + 1 \in 0..Cardinality(Requests)
      BY <3>1, <3>2 DEF AdmissionInv, AdmissionTypeOK
    <3> QED
      BY <3>1, <3>3 DEF AdmissionInv, AdmissionTypeOK
  <2> QED
    BY <2>2, <2>3
<1> QED
  BY <1>1, <1>2, <1>3 DEF AdmissionInv, AdmissionTypeOK

-----------------------------------------------------------------------------
(* The gate *)

\* What a cached or answered balance says of the recent past.
LEMMA CacheIsRecent ==
    ASSUME AdmissionInv, Fresh
    PROVE  /\ cache.balance >= MinBalance => now <= richAt + Window + Latency
           /\ cache.balance < MinBalance => now <= poorAt + Window + Latency
<1>1. /\ now \in Nat /\ Window \in Nat /\ Latency \in Nat
      /\ cache.expiresAt \in Nat /\ richAt \in Int /\ poorAt \in Int
  BY AdmissionNumbers
<1>2. now < cache.expiresAt
  BY DEF Fresh
<1>3. /\ cache.balance >= MinBalance => richAt >= cache.expiresAt - Window - Latency
      /\ cache.balance < MinBalance => poorAt >= cache.expiresAt - Window - Latency
  BY DEF AdmissionInv, GateInv
<1> QED
  BY <1>1, <1>2, <1>3

LEMMA AnswerIsRecent ==
    ASSUME AdmissionInv, NEW r \in Requests, pc[r] = "answered"
    PROVE  /\ read[r].balance >= MinBalance => now <= richAt + Latency
           /\ read[r].balance < MinBalance => now <= poorAt + Latency
<1>1. /\ now \in Nat /\ Latency \in Nat /\ read[r].at \in Int
      /\ richAt \in Int /\ poorAt \in Int
  BY AdmissionNumbers
<1>2. /\ now <= read[r].at + Latency
      /\ read[r].balance >= MinBalance => richAt >= read[r].at
      /\ read[r].balance < MinBalance => poorAt >= read[r].at
  BY DEF AdmissionInv, GateInv
<1> QED
  BY <1>1, <1>2

\* Only the limiter, the gate's answer from the cache or none of the gate's
\* state changes.
LEMMA StillKnown ==
    ASSUME AdmissionInv, UNCHANGED <<gateVars, now>>,
           \A q \in Requests : pc'[q] = "answered" => pc[q] = "answered"
    PROVE  GateInv'
  BY DEF AdmissionInv, GateInv, gateVars, Fresh

LEMMA LookupKeeps ==
    ASSUME AdmissionInv, NEW r \in Requests, NEW fails \in BOOLEAN, Lookup(r, fails)
    PROVE  GateInv' /\ AdmissionTypeOK'
<1>1. /\ pc' = [pc EXCEPT ![r] = "answered"] /\ pc[r] = "asking"
      /\ read' = [read EXCEPT ![r] = IF fails THEN [balance |-> 0, at |-> now]
                                     ELSE [balance |-> balance, at |-> now]]
      /\ poorAt' = IF fails THEN now ELSE poorAt
      /\ UNCHANGED <<bucket, asked, balance, richAt, cache, now>>
  BY DEF Lookup, limiterVars
<1>2. /\ now \in Nat /\ Latency \in Nat /\ MinBalance \in Nat /\ balance \in Nat
      /\ now \in 0..MaxTime /\ MaxTime \in Nat /\ 0 \in Balances
      /\ richAt \in Int /\ poorAt \in Int
  BY AdmissionNumbers, AdmissionAssumption DEF AdmissionInv
<1>3. /\ AdmissionTypeOK /\ GateInv
  BY DEF AdmissionInv
<1>4. now \in Never..MaxTime
  BY <1>2 DEF Never
<1>5. read' \in [Requests -> [balance : Balances, at : Never..MaxTime]]
  BY <1>1, <1>2, <1>3, <1>4 DEF AdmissionTypeOK
<1>6. AdmissionTypeOK'
  BY <1>1, <1>3, <1>4, <1>5 DEF AdmissionTypeOK
<1>7. /\ richAt <= now /\ poorAt <= now
      /\ balance >= MinBalance => richAt = now
      /\ balance < MinBalance => poorAt = now
  BY <1>3 DEF GateInv
<1>8. poorAt' <= now /\ poorAt <= poorAt' /\ (balance < MinBalance => poorAt' = now)
      /\ poorAt' \in Int
  BY <1>1, <1>2, <1>7
<1>9. /\ read'[r].at = now
      /\ read'[r].balance >= MinBalance => richAt = now
      /\ read'[r].balance < MinBalance => poorAt' = now
  <2>1. CASE fails
    <3>1. read'[r] = [balance |-> 0, at |-> now] /\ poorAt' = now
      BY <1>1, <1>3, <2>1 DEF AdmissionTypeOK
    <3>2. 0 >= MinBalance => balance >= MinBalance
      BY <1>2
    <3> QED
      BY <1>7, <3>1, <3>2
  <2>2. CASE ~fails
    <3>1. read'[r] = [balance |-> balance, at |-> now] /\ poorAt' = poorAt
      BY <1>1, <1>3, <2>2 DEF AdmissionTypeOK
    <3> QED
      BY <1>7, <3>1
  <2> QED
    BY <2>1, <2>2
<1>10. ASSUME NEW q \in Requests, pc'[q] = "answered"
       PROVE  /\ now <= read'[q].at + Latency
              /\ read'[q].balance >= MinBalance => richAt >= read'[q].at
              /\ read'[q].balance < MinBalance => poorAt' >= read'[q].at
  <2>1. CASE q = r
    BY <1>2, <1>9, <2>1
  <2>2. CASE q # r
    <3>1. pc[q] = "answered" /\ read'[q] = read[q] /\ read[q].at \in Int
      BY <1>1, <1>3, <1>10, <2>2, AdmissionNumbers DEF AdmissionTypeOK
    <3>2. /\ now <= read[q].at + Latency
          /\ read[q].balance >= MinBalance => richAt >= read[q].at
          /\ read[q].balance < MinBalance => poorAt >= read[q].at
      BY <1>3, <3>1 DEF GateInv
    <3> QED
      BY <1>2, <1>8, <3>1, <3>2
  <2> QED
    BY <2>1, <2>2
<1>11. Fresh' =>
          /\ cache.balance >= MinBalance => richAt >= cache.expiresAt - Window - Latency
          /\ cache.balance < MinBalance => poorAt' >= cache.expiresAt - Window - Latency
  <2>1. Fresh' = Fresh /\ Window \in Nat /\ cache.expiresAt \in Nat
    BY <1>1, AdmissionNumbers DEF Fresh
  <2> QED
    BY <1>2, <1>3, <1>8, <2>1 DEF GateInv
<1>12. GateInv'
  BY <1>1, <1>7, <1>8, <1>10, <1>11 DEF GateInv
<1> QED
  BY <1>6, <1>12

LEMMA AnswerKeeps ==
    ASSUME AdmissionInv, NEW r \in Requests, Answer(r)
    PROVE  GateInv' /\ AdmissionTypeOK'
<1>1. /\ pc[r] = "answered" /\ cache' = [balance |-> read[r].balance, expiresAt |-> now + Window]
      /\ pc' = [pc EXCEPT ![r] = Verdict(read[r].balance)]
      /\ read' = [read EXCEPT ![r] = NoRead]
      /\ UNCHANGED <<bucket, asked, balance, richAt, poorAt, now>>
  BY DEF Answer, limiterVars, Stored
<1>2. /\ now \in Nat /\ Latency \in Nat /\ MinBalance \in Nat /\ Window \in Nat
      /\ now \in 0..MaxTime /\ MaxTime \in Nat /\ 0 \in Balances
      /\ richAt \in Int /\ poorAt \in Int
  BY AdmissionNumbers, AdmissionAssumption DEF AdmissionInv
<1>3. AdmissionTypeOK /\ GateInv
  BY DEF AdmissionInv
<1>4. Verdict(read[r].balance) \in {"403", "served"}
  BY DEF Verdict
<1>5. now + Window \in 0..(MaxTime + Window) /\ Never \in Never..MaxTime
  BY <1>2 DEF Never
<1>6. NoRead \in [balance : Balances, at : Never..MaxTime]
  BY <1>2, <1>5 DEF NoRead
<1>7. read' \in [Requests -> [balance : Balances, at : Never..MaxTime]]
  BY <1>1, <1>3, <1>6 DEF AdmissionTypeOK
<1>8. cache' \in [balance : Balances, expiresAt : 0..(MaxTime + Window)]
  BY <1>1, <1>3, <1>5 DEF AdmissionTypeOK
<1>9. pc' \in [Requests -> {"new", "429", "passed", "refused", "asking", "answered",
                            "403", "served"}]
  BY <1>1, <1>3, <1>4 DEF AdmissionTypeOK
<1>10. AdmissionTypeOK'
  BY <1>1, <1>3, <1>7, <1>8, <1>9 DEF AdmissionTypeOK
<1>11. \A q \in Requests : pc'[q] = "answered" => pc[q] = "answered" /\ read'[q] = read[q]
  BY <1>1, <1>3, <1>4 DEF AdmissionTypeOK
<1>12. /\ cache'.balance >= MinBalance => richAt >= cache'.expiresAt - Window - Latency
       /\ cache'.balance < MinBalance => poorAt >= cache'.expiresAt - Window - Latency
  <2>1. /\ read[r].balance >= MinBalance => now <= richAt + Latency
        /\ read[r].balance < MinBalance => now <= poorAt + Latency
    BY <1>1, AnswerIsRecent
  <2>2. cache'.balance = read[r].balance /\ cache'.expiresAt = now + Window
    BY <1>1
  <2> QED
    BY <1>2, <2>1, <2>2
<1>13. GateInv'
  BY <1>1, <1>3, <1>11, <1>12 DEF GateInv
<1> QED
  BY <1>10, <1>13

LEMMA TradeKeeps ==
    ASSUME AdmissionInv, NEW b \in Balances, Trade(b)
    PROVE  GateInv' /\ AdmissionTypeOK'
<1>1. /\ balance' = b
      /\ richAt' = IF b >= MinBalance THEN now ELSE richAt
      /\ poorAt' = IF b < MinBalance THEN now ELSE poorAt
      /\ UNCHANGED <<bucket, asked, pc, cache, read, now>>
  BY DEF Trade, limiterVars
<1>2. /\ now \in Nat /\ Window \in Nat /\ Latency \in Nat /\ MinBalance \in Nat
      /\ now \in 0..MaxTime /\ MaxTime \in Nat /\ b \in Nat
      /\ richAt \in Int /\ poorAt \in Int /\ cache.expiresAt \in Nat
      /\ \A q \in Requests : read[q].at \in Int
  BY AdmissionNumbers, AdmissionAssumption DEF AdmissionInv
<1>3. AdmissionTypeOK /\ GateInv
  BY DEF AdmissionInv
<1>4. now \in Never..MaxTime
  BY <1>2 DEF Never
<1>5. AdmissionTypeOK'
  BY <1>1, <1>3, <1>4 DEF AdmissionTypeOK
<1>6. /\ richAt <= richAt' /\ poorAt <= poorAt' /\ richAt' <= now /\ poorAt' <= now
      /\ richAt' \in Int /\ poorAt' \in Int
  BY <1>1, <1>2, <1>3 DEF GateInv
<1>7. ASSUME NEW q \in Requests, pc[q] = "answered"
      PROVE  /\ now <= read[q].at + Latency
             /\ read[q].balance >= MinBalance => richAt' >= read[q].at
             /\ read[q].balance < MinBalance => poorAt' >= read[q].at
  <2>1. /\ now <= read[q].at + Latency
        /\ read[q].balance >= MinBalance => richAt >= read[q].at
        /\ read[q].balance < MinBalance => poorAt >= read[q].at
    BY <1>3, <1>7 DEF GateInv
  <2> QED
    BY <1>2, <1>6, <2>1
<1>8. Fresh' =>
         /\ cache.balance >= MinBalance => richAt' >= cache.expiresAt - Window - Latency
         /\ cache.balance < MinBalance => poorAt' >= cache.expiresAt - Window - Latency
  <2>1. Fresh' = Fresh
    BY <1>1 DEF Fresh
  <2> QED
    BY <1>2, <1>3, <1>6, <2>1 DEF GateInv
<1>9. GateInv'
  BY <1>1, <1>6, <1>7, <1>8 DEF GateInv
<1> QED
  BY <1>5, <1>9

LEMMA TickKeepsGate ==
    ASSUME AdmissionInv, AdmissionTick
    PROVE  GateInv' /\ AdmissionTypeOK' /\ now' \in 0..MaxTime
<1>1. /\ now < MaxTime /\ now' = now + 1
      /\ \A r \in Requests : pc[r] = "answered" => now < read[r].at + Latency
      /\ richAt' = IF balance >= MinBalance THEN now + 1 ELSE richAt
      /\ poorAt' = IF balance < MinBalance THEN now + 1 ELSE poorAt
      /\ UNCHANGED <<bucket, asked, pc, balance, cache, read>>
  BY DEF AdmissionTick, Tick, limiterVars
<1>2. /\ now \in Nat /\ Window \in Nat /\ Latency \in Nat /\ MinBalance \in Nat
      /\ now \in 0..MaxTime /\ MaxTime \in Nat /\ balance \in Nat
      /\ richAt \in Int /\ poorAt \in Int /\ cache.expiresAt \in Nat
      /\ \A q \in Requests : read[q].at \in Int
  BY AdmissionNumbers DEF AdmissionInv
<1>3. AdmissionTypeOK /\ GateInv
  BY DEF AdmissionInv
<1>4. now + 1 \in 0..MaxTime /\ now + 1 \in Never..MaxTime
  BY <1>1, <1>2 DEF Never
<1>5. AdmissionTypeOK'
  BY <1>1, <1>3, <1>4 DEF AdmissionTypeOK
<1>6. /\ richAt <= richAt' /\ poorAt <= poorAt' /\ richAt' <= now' /\ poorAt' <= now'
      /\ richAt' \in Int /\ poorAt' \in Int
      /\ balance >= MinBalance => richAt' = now'
      /\ balance < MinBalance => poorAt' = now'
  BY <1>1, <1>2, <1>3 DEF GateInv
<1>7. ASSUME NEW q \in Requests, pc[q] = "answered"
      PROVE  /\ now' <= read[q].at + Latency
             /\ read[q].balance >= MinBalance => richAt' >= read[q].at
             /\ read[q].balance < MinBalance => poorAt' >= read[q].at
  <2>1. /\ now < read[q].at + Latency
        /\ read[q].balance >= MinBalance => richAt >= read[q].at
        /\ read[q].balance < MinBalance => poorAt >= read[q].at
    BY <1>1, <1>3, <1>7 DEF GateInv
  <2> QED
    BY <1>1, <1>2, <1>6, <2>1
<1>8. Fresh' =>
         /\ cache.balance >= MinBalance => richAt' >= cache.expiresAt - Window - Latency
         /\ cache.balance < MinBalance => poorAt' >= cache.expiresAt - Window - Latency
  <2>1. Fresh' => Fresh
    BY <1>1, <1>2 DEF Fresh
  <2> QED
    BY <1>2, <1>3, <1>6, <2>1 DEF GateInv
<1>9. GateInv'
  BY <1>1, <1>6, <1>7, <1>8 DEF GateInv
<1> QED
  BY <1>1, <1>4, <1>5, <1>9

-----------------------------------------------------------------------------

LEMMA AdmissionStep ==
    AdmissionInv /\ [AdmissionNext]_<<admissionVars, now>> => AdmissionInv'
<1> SUFFICES ASSUME AdmissionInv, [AdmissionNext]_<<admissionVars, now>> PROVE AdmissionInv'
  OBVIOUS
<1>1. CASE AdmissionTick
  BY <1>1, TickKeepsLimits, TickKeepsGate DEF AdmissionInv
<1>2. CASE Prune
  <2>1. AdmissionTypeOK'
    <3>1. NoBucket \in [count : 0..Cardinality(Requests), resetAt : 0..(MaxTime + Window)]
      <4>1. /\ Cardinality(Requests) \in Nat /\ MaxTime + Window \in Nat
        BY AdmissionNumbers, AdmissionAssumption, FS_CardinalityType
      <4> QED
        BY <4>1 DEF NoBucket
    <3> QED
      BY <1>2, <3>1 DEF Prune, gateVars, AdmissionInv, AdmissionTypeOK
  <2> QED
    BY <1>2, <2>1, PruneKeeps, StillKnown DEF Prune, AdmissionInv
<1>3. ASSUME NEW r \in Requests, Limit(r) PROVE AdmissionInv'
  <2>1. \A q \in Requests : pc'[q] = "answered" => pc[q] = "answered"
    BY <1>3, LimitAsks
  <2> QED
    BY <1>3, <2>1, LimitKeeps, LimitTypes, StillKnown DEF AdmissionInv, Limit
<1>4. ASSUME NEW r \in Requests, Gate(r) PROVE AdmissionInv'
  <2>1. /\ pc[r] = "passed" /\ UNCHANGED <<bucket, asked, gateVars, now>>
        /\ \E s \in {"refused", "403", "served", "asking"} : pc' = [pc EXCEPT ![r] = s]
    BY <1>4 DEF Gate, Verdict, limiterVars
  <2>2. DOMAIN pc = Requests /\ AdmissionTypeOK
    BY DEF AdmissionInv, AdmissionTypeOK
  <2>3. AdmissionTypeOK'
    BY <2>1, <2>2 DEF AdmissionTypeOK, gateVars
  <2>4. LimiterInv'
    BY <2>1, <2>2, GateKeepsLimits
  <2>5. GateInv'
    BY <2>1, <2>2, StillKnown
  <2> QED
    BY <2>1, <2>3, <2>4, <2>5 DEF AdmissionInv
<1>5. ASSUME NEW r \in Requests, Answer(r) \/ \E fails \in BOOLEAN : Lookup(r, fails)
      PROVE  AdmissionInv'
  <2>1. /\ pc[r] \in {"asking", "answered"} /\ UNCHANGED <<bucket, asked, now>>
        /\ \E s \in {"answered", "403", "served"} : pc' = [pc EXCEPT ![r] = s]
    BY <1>5 DEF Answer, Lookup, Verdict, limiterVars
  <2>2. DOMAIN pc = Requests
    BY DEF AdmissionInv, AdmissionTypeOK
  <2>3. LimiterInv'
    BY <2>1, <2>2, GateKeepsLimits
  <2> QED
    BY <1>5, <2>1, <2>3, LookupKeeps, AnswerKeeps DEF AdmissionInv
<1>6. ASSUME NEW b \in Balances, Trade(b) PROVE AdmissionInv'
  <2>1. LimiterInv'
    BY <1>6, GateKeepsLimits DEF Trade, limiterVars
  <2> QED
    BY <1>6, <2>1, TradeKeeps DEF AdmissionInv, Trade
<1>7. CASE UNCHANGED <<admissionVars, now>>
  <2>1. UNCHANGED <<bucket, asked, gateVars, pc, now>>
    BY <1>7 DEF admissionVars, limiterVars
  <2>2. LimiterInv' /\ GateInv'
    BY <2>1, GateKeepsLimits, StillKnown
  <2> QED
    BY <2>1, <2>2 DEF AdmissionInv, AdmissionTypeOK, gateVars
<1> QED
  BY <1>1, <1>2, <1>3, <1>4, <1>5, <1>6, <1>7 DEF AdmissionNext

LEMMA AdmissionBegins == now = 0 /\ AdmissionInit => AdmissionInv
<1> SUFFICES ASSUME now = 0, AdmissionInit PROVE AdmissionInv
  OBVIOUS
<1>1. /\ bucket = NoBucket /\ cache = NoEntry /\ pc = [r \in Requests |-> "new"]
      /\ asked = [r \in Requests |-> Never] /\ balance \in Balances
      /\ richAt = (IF balance >= MinBalance THEN 0 ELSE Never)
      /\ poorAt = (IF balance < MinBalance THEN 0 ELSE Never)
      /\ read = [r \in Requests |-> NoRead]
  BY DEF AdmissionInit
<1>2. /\ MaxTime \in Nat /\ Max \in Nat /\ Window \in Nat /\ MinBalance \in Nat
      /\ 0 \in Balances /\ balance \in Nat /\ Cardinality(Requests) \in Nat
  BY <1>1, AdmissionAssumption, ClockAssumption, FS_CardinalityType
<1>3. Never \in Never..MaxTime /\ 0 \in Never..MaxTime /\ Never < 0
  BY <1>2 DEF Never
<1>4. NoBucket \in [count : 0..Cardinality(Requests), resetAt : 0..(MaxTime + Window)]
      /\ NoEntry \in [balance : Balances, expiresAt : 0..(MaxTime + Window)]
  BY <1>2 DEF NoBucket, NoEntry
<1>5. NoRead \in [balance : Balances, at : Never..MaxTime]
  BY <1>2, <1>3 DEF NoRead
<1>6. AdmissionTypeOK
  BY <1>1, <1>3, <1>4, <1>5 DEF AdmissionTypeOK
<1>7. Through = {} /\ Cardinality({}) = 0
  BY <1>1, FS_EmptySet DEF Through
<1>8. WindowInv
  <2>1. Between(now - Window, now) = {}
    BY <1>7 DEF Between
  <2> QED
    BY <1>1, <1>2, <1>3, <1>7, <2>1 DEF WindowInv
<1>9. TwiceTheLimit
  <2>1. \A t : Through \cap Asked(t, t + Window - 1) = {}
    BY <1>7
  <2>2. 0 <= 2 * Max
    BY <1>2
  <2> QED
    BY <1>7, <2>1, <2>2 DEF TwiceTheLimit
<1>10. AskedInv /\ RejectionHasCause
  BY <1>1, <1>3 DEF AskedInv, RejectionHasCause, Never
<1>11. GateInv
  <2>1. ~Fresh
    BY <1>1 DEF Fresh, NoEntry
  <2>2. /\ richAt <= now /\ poorAt <= now
        /\ balance >= MinBalance => richAt = now
        /\ balance < MinBalance => poorAt = now
    BY <1>1, <1>2 DEF Never
  <2> QED
    BY <1>1, <2>1, <2>2 DEF GateInv
<1>12. now \in 0..MaxTime
  BY <1>2
<1> QED
  BY <1>6, <1>8, <1>9, <1>10, <1>11, <1>12 DEF AdmissionInv, LimiterInv

\* The limiter's windows are disjoint and hold the limit each; what the gate
\* knows is recent.
THEOREM AdmissionInvariance == AdmissionSpec => []AdmissionInv
  BY AdmissionBegins, AdmissionStep, PTL DEF AdmissionSpec

\* For any limit, window and requests: no interval of one window lets more than
\* twice the limit through, and nobody is refused without cause.
THEOREM AdmissionIsSafe == AdmissionSpec => []AdmissionSafe
<1>1. AdmissionInv => AdmissionSafe
  BY DEF AdmissionInv, LimiterInv, AdmissionSafe
<1> QED
  BY <1>1, AdmissionInvariance, PTL

\* A verdict of the gate is about a balance held within the cache's lifetime
\* plus the time of one answer, however requests overlap.
THEOREM VerdictsAreRecent == AdmissionSpec => VerdictIsRecent
<1> DEFINE Rich == \A r \in Requests : pc[r] # "served" /\ pc'[r] = "served" =>
                       now <= richAt + Window + Latency
           Poor == \A r \in Requests : pc[r] # "403" /\ pc'[r] = "403" =>
                       now <= poorAt + Window + Latency
<1>1. ASSUME AdmissionInv, AdmissionNext PROVE Rich /\ Poor
  <2>0. pc = [r \in Requests |-> pc[r]]
    BY <1>1 DEF AdmissionInv, AdmissionTypeOK
  <2>1. ASSUME NEW r \in Requests, Gate(r) PROVE Rich /\ Poor
    <3>1. CASE Fresh /\ pc' = [pc EXCEPT ![r] = Verdict(cache.balance)]
      <4>1. cache.balance \in Nat /\ MinBalance \in Nat
        BY <1>1, AdmissionNumbers
      <4>2. /\ Verdict(cache.balance) = "served" => cache.balance >= MinBalance
            /\ Verdict(cache.balance) = "403" => cache.balance < MinBalance
        BY <4>1 DEF Verdict
      <4>3. \A q \in Requests : q # r => pc'[q] = pc[q]
        BY <2>0, <3>1
      <4>4. pc'[r] = Verdict(cache.balance)
        BY <2>0, <3>1
      <4> QED
        BY <1>1, <3>1, <4>2, <4>3, <4>4, CacheIsRecent
    <3>2. CASE \E s \in {"refused", "asking"} : pc' = [pc EXCEPT ![r] = s]
      BY <2>0, <3>2
    <3> QED
      BY <2>1, <3>1, <3>2 DEF Gate
  <2>2. ASSUME NEW r \in Requests, Answer(r) PROVE Rich /\ Poor
    <3>1. pc[r] = "answered" /\ pc' = [pc EXCEPT ![r] = Verdict(read[r].balance)]
      BY <2>2 DEF Answer
    <3>2. /\ now \in Nat /\ Window \in Nat /\ Latency \in Nat /\ MinBalance \in Nat
          /\ read[r].balance \in Nat /\ richAt \in Int /\ poorAt \in Int
      BY <1>1, AdmissionNumbers
    <3>3. /\ Verdict(read[r].balance) = "served" => read[r].balance >= MinBalance
          /\ Verdict(read[r].balance) = "403" => read[r].balance < MinBalance
      BY <3>2 DEF Verdict
    <3>4. /\ read[r].balance >= MinBalance => now <= richAt + Latency
          /\ read[r].balance < MinBalance => now <= poorAt + Latency
      BY <1>1, <3>1, AnswerIsRecent
    <3>5. /\ now <= richAt + Latency => now <= richAt + Window + Latency
          /\ now <= poorAt + Latency => now <= poorAt + Window + Latency
      BY <3>2
    <3>6. /\ \A q \in Requests : q # r => pc'[q] = pc[q]
          /\ pc'[r] = Verdict(read[r].balance)
      BY <2>0, <3>1
    <3> QED
      BY <3>3, <3>4, <3>5, <3>6
  <2>3. ASSUME NEW r \in Requests, Limit(r) PROVE Rich /\ Poor
    <3>1. \A q \in Requests : q # r => pc'[q] = pc[q]
      BY <1>1, <2>3, LimitAsks
    <3>2. pc'[r] \in {"429", "passed"}
      BY <1>1, <2>3, LimitAsks
    <3> QED
      BY <3>1, <3>2
  <2>4. ASSUME NEW r \in Requests, NEW fails \in BOOLEAN, Lookup(r, fails) PROVE Rich /\ Poor
    <3>1. pc' = [pc EXCEPT ![r] = "answered"]
      BY <2>4 DEF Lookup
    <3> QED
      BY <2>0, <3>1
  <2>5. ASSUME AdmissionTick \/ Prune \/ \E b \in Balances : Trade(b) PROVE Rich /\ Poor
    <3>1. UNCHANGED pc
      BY <2>5 DEF AdmissionTick, Prune, Trade
    <3> QED
      BY <3>1
  <2> QED
    BY <1>1, <2>1, <2>2, <2>3, <2>4, <2>5 DEF AdmissionNext
<1>2. AdmissionInv /\ [AdmissionNext]_<<admissionVars, now>> =>
        [Rich]_<<admissionVars, now>> /\ [Poor]_<<admissionVars, now>>
  BY <1>1
<1> QED
  BY <1>2, AdmissionInvariance, PTL
  DEF AdmissionSpec, VerdictIsRecent, ServedWasRich, PoorWasPoor

-----------------------------------------------------------------------------
(* IntentStore *)

\* A record carries the signature of an intent that was built, with what stands
\* behind all strings, and is that intent when none of its strings has a '|'.
SignedAs(i, b) ==
    /\ i.signature = b.signature
    /\ i.expiresAt = b.expiresAt /\ i.nonce = b.nonce /\ i.payloadHash = b.payloadHash
    /\ Plain(b) => SameBut(i, b, {"id"})

RecordOK(rec, id) ==
    /\ rec.status \in {"authorized", "cancelled"} /\ DOMAIN rec = {"status", "intent"}
    /\ rec.intent \in IntentBody /\ rec.intent.id = id /\ rec.intent.amount <= Ceiling
    /\ \E b \in built : SignedAs(rec.intent, b)

IntentsInv ==
    /\ now \in Nat /\ announced \in [Ids -> 0..2]
    /\ \A b \in built : b \in IntentBody /\ b.signature.over = canonicalIntent(b)
    /\ DOMAIN store = Ids /\ store = [id \in Ids |-> store[id]]
    /\ \A id \in Ids : store[id] = NoRecord \/ RecordOK(store[id], id)

-----------------------------------------------------------------------------

Joined(s, t) == s \o t

\* Of two concatenations that are equal, ends of one length are equal, and so is
\* what stands before them.
LEMMA EndsAgree ==
    \A S : \A s, t, u, v \in Seq(S) :
        Len(u) = Len(v) /\ Joined(s, u) = Joined(t, v) => s = t /\ u = v
<1> SUFFICES ASSUME NEW S, NEW s \in Seq(S), NEW t \in Seq(S), NEW u \in Seq(S),
                    NEW v \in Seq(S), Len(u) = Len(v), Joined(s, u) = Joined(t, v)
             PROVE  s = t /\ u = v
  OBVIOUS
<1>0. s \o u = t \o v
  BY DEF Joined
<1>1. Len(s) = Len(t)
  <2>1. Len(s \o u) = Len(s) + Len(u) /\ Len(t \o v) = Len(t) + Len(v)
    BY ConcatProperties
  <2> QED
    BY <1>0, <2>1, LenProperties
<1>2. \A k \in 1..Len(s) : s[k] = t[k]
  <2> SUFFICES ASSUME NEW k \in 1..Len(s) PROVE s[k] = t[k]
    OBVIOUS
  <2>1. (s \o u)[k] = s[k] /\ (t \o v)[k] = t[k]
    BY <1>1, ConcatProperties, LenProperties
  <2> QED
    BY <1>0, <2>1
<1>3. \A k \in 1..Len(u) : u[k] = v[k]
  <2> SUFFICES ASSUME NEW k \in 1..Len(u) PROVE u[k] = v[k]
    OBVIOUS
  <2>1. (s \o u)[Len(s) + k] = u[k] /\ (t \o v)[Len(t) + k] = v[k]
    BY <1>1, LenProperties, SMT
  <2> QED
    BY <1>0, <1>1, <2>1
<1> QED
  BY <1>1, <1>2, <1>3, SeqEqual

\* A text joined with another is one again.
LEMMA JoinedType == \A S : \A s, t \in Seq(S) : Joined(s, t) \in Seq(S)
  BY ConcatProperties DEF Joined

\* The text that is signed, up to the amount, to the mint and to the deadline.
Named(i) == i.version \o i.payer \o i.recipient \o i.agentId \o i.capability
Priced(i) == Named(i) \o <<i.amount, i.rail>>
Railed(i) == Priced(i) \o i.mint \o i.channelId
Last(i) == <<i.expiresAt, i.nonce, i.payloadHash>>

\* The fields are texts of at least one piece, and their lengths add up.
LEMMA BodyTexts ==
    ASSUME NEW i \in IntentBody
    PROVE  /\ i.version \in Signed /\ Len(i.version) \in Nat \ {0}
           /\ i.payer \in Signed /\ Len(i.payer) \in Nat \ {0}
           /\ i.recipient \in Signed /\ Len(i.recipient) \in Nat \ {0}
           /\ i.agentId \in Signed /\ Len(i.agentId) \in Nat \ {0}
           /\ i.capability \in Signed /\ Len(i.capability) \in Nat \ {0}
           /\ i.mint \in Signed /\ Len(i.mint) \in Nat \ {0}
           /\ i.channelId \in Signed /\ Len(i.channelId) \in Nat \ {0}
           /\ Named(i) \in Signed /\ Priced(i) \in Signed /\ Railed(i) \in Signed
           /\ <<i.amount, i.rail>> \in Signed /\ Last(i) \in Signed
           /\ Len(Named(i)) = Len(i.version) + Len(i.payer) + Len(i.recipient)
                                + Len(i.agentId) + Len(i.capability)
           /\ Len(Railed(i)) = Len(Named(i)) + 2 + Len(i.mint) + Len(i.channelId)
           /\ canonicalIntent(i) = Railed(i) \o Last(i)
<1> DEFINE V == Pieces \cup Rails \cup Nat \cup Nonces \cup Hashes
<1>1. \A t \in Text : t \in Seq(V) /\ Len(t) \in Nat \ {0}
  <2> SUFFICES ASSUME NEW t \in Text PROVE t \in Seq(V) /\ Len(t) \in Nat \ {0}
    OBVIOUS
  <2>1. t \in Seq(Pieces) /\ t # <<>>
    BY DEF Text
  <2>2. t \in Seq(V)
    BY <2>1, SeqMonotonic
  <2> QED
    BY <2>1, <2>2, EmptySeq, LenProperties
<1>2. /\ {i.version, i.payer, i.recipient, i.agentId, i.capability, i.mint, i.channelId}
           \subseteq Text
      /\ i.amount \in V /\ i.rail \in V /\ i.expiresAt \in V /\ i.nonce \in V
      /\ i.payloadHash \in V
  BY DEF IntentBody
<1>3. Signed = Seq(V)
  BY DEF Signed
<1> HIDE DEF V
<1>4. <<i.amount, i.rail>> \in Seq(V) /\ Len(<<i.amount, i.rail>>) = 2 /\ Last(i) \in Seq(V)
  BY <1>2 DEF Last
<1>5. \A s, t \in Seq(V) : s \o t \in Seq(V) /\ Len(s \o t) = Len(s) + Len(t)
  BY ConcatProperties
<1> DEFINE n1 == i.version \o i.payer
           n2 == n1 \o i.recipient
           n3 == n2 \o i.agentId
           r1 == Priced(i) \o i.mint
<1>6. /\ n1 \in Seq(V) /\ n2 \in Seq(V) /\ n3 \in Seq(V) /\ Named(i) \in Seq(V)
      /\ Len(n1) = Len(i.version) + Len(i.payer) /\ Len(n2) = Len(n1) + Len(i.recipient)
      /\ Len(n3) = Len(n2) + Len(i.agentId) /\ Len(Named(i)) = Len(n3) + Len(i.capability)
  BY <1>1, <1>2, <1>5 DEF Named
<1>7. /\ Priced(i) \in Seq(V) /\ r1 \in Seq(V) /\ Railed(i) \in Seq(V)
      /\ Len(Priced(i)) = Len(Named(i)) + 2 /\ Len(r1) = Len(Priced(i)) + Len(i.mint)
      /\ Len(Railed(i)) = Len(r1) + Len(i.channelId)
  BY <1>1, <1>2, <1>4, <1>5, <1>6 DEF Priced, Railed
<1>8. canonicalIntent(i) = Railed(i) \o Last(i)
  BY DEF canonicalIntent, Railed, Priced, Named, Last
<1> QED
  BY <1>1, <1>2, <1>3, <1>4, <1>6, <1>7, <1>8

\* An intent with the signed text of another ends as that one does, and is that
\* one, but for the id, when no string of the other has a '|'.
LEMMA SignatureCovers ==
    ASSUME NEW i \in IntentBody, NEW b \in IntentBody,
           canonicalIntent(i) = canonicalIntent(b), i.signature = b.signature
    PROVE  SignedAs(i, b)
<1> DEFINE V == Pieces \cup Rails \cup Nat \cup Nonces \cup Hashes
<1>0. Signed = Seq(V)
  BY DEF Signed
<1> HIDE DEF V
<1>1. Joined(Railed(i), Last(i)) = Joined(Railed(b), Last(b)) /\ Len(Last(i)) = Len(Last(b))
  BY BodyTexts DEF Last, Joined
<1>t. /\ Railed(i) \in Seq(V) /\ Railed(b) \in Seq(V) /\ Last(i) \in Seq(V) /\ Last(b) \in Seq(V)
      /\ Priced(i) \in Seq(V) /\ Priced(b) \in Seq(V) /\ Named(i) \in Seq(V) /\ Named(b) \in Seq(V)
      /\ i.version \in Seq(V) /\ b.version \in Seq(V) /\ i.payer \in Seq(V) /\ b.payer \in Seq(V)
      /\ i.recipient \in Seq(V) /\ b.recipient \in Seq(V)
      /\ i.agentId \in Seq(V) /\ b.agentId \in Seq(V)
      /\ i.capability \in Seq(V) /\ b.capability \in Seq(V)
      /\ i.mint \in Seq(V) /\ b.mint \in Seq(V) /\ i.channelId \in Seq(V) /\ b.channelId \in Seq(V)
      /\ <<i.amount, i.rail>> \in Seq(V) /\ <<b.amount, b.rail>> \in Seq(V)
  BY <1>0, BodyTexts
<1>2. Railed(i) = Railed(b) /\ Last(i) = Last(b)
  BY <1>1, EndsAgree, <1>t
<1>3. i.expiresAt = b.expiresAt /\ i.nonce = b.nonce /\ i.payloadHash = b.payloadHash
  BY <1>2 DEF Last
<1>4. ASSUME Plain(b) PROVE SameBut(i, b, {"id"})
  <2>1. /\ Len(b.version) = 1 /\ Len(b.payer) = 1 /\ Len(b.recipient) = 1
        /\ Len(b.agentId) = 1 /\ Len(b.capability) = 1 /\ Len(b.mint) = 1
        /\ Len(b.channelId) = 1
    BY <1>4 DEF Plain
  <2>2. Len(Railed(b)) = 9
    <3>1. Len(Railed(b)) = Len(Named(b)) + 2 + Len(b.mint) + Len(b.channelId)
          /\ Len(Named(b)) = Len(b.version) + Len(b.payer) + Len(b.recipient)
                             + Len(b.agentId) + Len(b.capability)
      BY BodyTexts
    <3> QED
      BY <2>1, <3>1
  <2>3. /\ Len(i.version) = 1 /\ Len(i.payer) = 1 /\ Len(i.recipient) = 1
        /\ Len(i.agentId) = 1 /\ Len(i.capability) = 1 /\ Len(i.mint) = 1
        /\ Len(i.channelId) = 1
    <3>1. /\ Len(Railed(i)) = Len(Named(i)) + 2 + Len(i.mint) + Len(i.channelId)
          /\ Len(Named(i)) = Len(i.version) + Len(i.payer) + Len(i.recipient)
                             + Len(i.agentId) + Len(i.capability)
      BY BodyTexts
    <3>2. /\ Len(i.version) \in Nat \ {0} /\ Len(i.payer) \in Nat \ {0}
          /\ Len(i.recipient) \in Nat \ {0} /\ Len(i.agentId) \in Nat \ {0}
          /\ Len(i.capability) \in Nat \ {0} /\ Len(i.mint) \in Nat \ {0}
          /\ Len(i.channelId) \in Nat \ {0}
      BY BodyTexts
    <3>3. Len(Railed(i)) = 9
      BY <1>2, <2>2
    <3> DEFINE l1 == Len(i.version)
               l2 == Len(i.payer)
               l3 == Len(i.recipient)
               l4 == Len(i.agentId)
               l5 == Len(i.capability)
               l6 == Len(i.mint)
               l7 == Len(i.channelId)
    <3>4. (l1 + l2 + l3 + l4 + l5) + 2 + l6 + l7 = 9
      BY <3>1, <3>3, Zenon
    <3> HIDE DEF l1, l2, l3, l4, l5, l6, l7
    <3>5. /\ l1 \in Nat \ {0} /\ l2 \in Nat \ {0} /\ l3 \in Nat \ {0} /\ l4 \in Nat \ {0}
          /\ l5 \in Nat \ {0} /\ l6 \in Nat \ {0} /\ l7 \in Nat \ {0}
      BY <3>2 DEF l1, l2, l3, l4, l5, l6, l7
    <3>6. l1 = 1 /\ l2 = 1 /\ l3 = 1 /\ l4 = 1 /\ l5 = 1 /\ l6 = 1 /\ l7 = 1
      BY <3>4, <3>5, SMT
    <3> QED
      BY <3>6 DEF l1, l2, l3, l4, l5, l6, l7
  <2>v. i.version \in Seq(V) /\ b.version \in Seq(V) /\ Len(i.version) = Len(b.version)
    BY <1>t, <2>1, <2>3
  <2>p. i.payer \in Seq(V) /\ b.payer \in Seq(V) /\ Len(i.payer) = Len(b.payer)
    BY <1>t, <2>1, <2>3
  <2>r. i.recipient \in Seq(V) /\ b.recipient \in Seq(V) /\ Len(i.recipient) = Len(b.recipient)
    BY <1>t, <2>1, <2>3
  <2>a. i.agentId \in Seq(V) /\ b.agentId \in Seq(V) /\ Len(i.agentId) = Len(b.agentId)
    BY <1>t, <2>1, <2>3
  <2>c. i.capability \in Seq(V) /\ b.capability \in Seq(V) /\ Len(i.capability) = Len(b.capability)
    BY <1>t, <2>1, <2>3
  <2>m. i.mint \in Seq(V) /\ b.mint \in Seq(V) /\ Len(i.mint) = Len(b.mint)
    BY <1>t, <2>1, <2>3
  <2>h. i.channelId \in Seq(V) /\ b.channelId \in Seq(V) /\ Len(i.channelId) = Len(b.channelId)
    BY <1>t, <2>1, <2>3
  <2> DEFINE n1(x) == Joined(x.version, x.payer)
             n2(x) == Joined(n1(x), x.recipient)
             n3(x) == Joined(n2(x), x.agentId)
             m1(x) == Joined(Priced(x), x.mint)
             at2(x) == <<x.amount, x.rail>>
  <2>4. /\ n1(i) \in Seq(V) /\ n1(b) \in Seq(V)
    BY <2>v, <2>p, JoinedType
  <2>5. n2(i) \in Seq(V) /\ n2(b) \in Seq(V)
    <3> HIDE DEF n1
    <3> QED
      BY <2>4, <2>r, JoinedType
  <2>6. n3(i) \in Seq(V) /\ n3(b) \in Seq(V)
    <3> HIDE DEF n2
    <3> QED
      BY <2>5, <2>a, JoinedType
  <2>7. m1(i) \in Seq(V) /\ m1(b) \in Seq(V)
    <3>1. Priced(i) \in Seq(V) /\ Priced(b) \in Seq(V)
      BY <1>t
    <3> QED
      BY <3>1, <2>m, JoinedType
  <2>8. Joined(m1(i), i.channelId) = Joined(m1(b), b.channelId)
    BY <1>2, Zenon DEF Railed, Joined
  <2>9. i.channelId = b.channelId /\ m1(i) = m1(b)
    <3> HIDE DEF m1
    <3> QED
      BY <2>h, <2>7, <2>8, EndsAgree
  <2>10. i.mint = b.mint /\ Priced(i) = Priced(b)
    <3>1. Priced(i) \in Seq(V) /\ Priced(b) \in Seq(V)
      BY <1>t
    <3> QED
      BY <2>m, <2>9, <3>1, EndsAgree
  <2>11. at2(i) = at2(b) /\ Named(i) = Named(b)
    <3>1. Len(at2(i)) = Len(at2(b)) /\ at2(i) \in Seq(V) /\ at2(b) \in Seq(V)
      BY <1>t
    <3>2. Named(i) \in Seq(V) /\ Named(b) \in Seq(V)
      BY <1>t
    <3>3. Joined(Named(i), at2(i)) = Joined(Named(b), at2(b))
      BY <2>10, Zenon DEF Priced, Joined
    <3> HIDE DEF at2
    <3> QED
      BY <3>1, <3>2, <3>3, EndsAgree
  <2>12. i.capability = b.capability /\ n3(i) = n3(b)
    <3>1. Joined(n3(i), i.capability) = Joined(n3(b), b.capability)
      BY <2>11, Zenon DEF Named, Joined
    <3> HIDE DEF n3
    <3> QED
      BY <2>c, <2>6, <3>1, EndsAgree
  <2>13. i.agentId = b.agentId /\ n2(i) = n2(b)
    <3> HIDE DEF n2
    <3> QED
      BY <2>a, <2>5, <2>12, EndsAgree
  <2>14. i.recipient = b.recipient /\ i.payer = b.payer /\ i.version = b.version
    <3>1. i.recipient = b.recipient /\ n1(i) = n1(b)
      <4> HIDE DEF n1
      <4> QED
        BY <2>r, <2>4, <2>13, EndsAgree
    <3> QED
      BY <2>p, <2>v, <3>1, EndsAgree
  <2>15. i.amount = b.amount /\ i.rail = b.rail
    BY <2>11
  <2>16. DOMAIN b = {"id", "version", "payer", "recipient", "agentId", "capability",
                     "amount", "rail", "mint", "channelId", "expiresAt", "nonce",
                     "payloadHash", "signature"}
    BY DEF IntentBody
  <2> QED
    BY <1>3, <2>9, <2>10, <2>12, <2>13, <2>14, <2>15, <2>16 DEF SameBut
<1> QED
  BY <1>3, <1>4 DEF SignedAs

\* What build() returns is an intent, and carries the signature of its fields.
LEMMA BuildSigns ==
    ASSUME now \in Nat, NEW d \in Drafts, NEW id \in Ids, NEW nonce \in Nonces,
           NEW token \in Tokens
    PROVE  LET i == Fields(d, id, nonce)
               b == With(i, signIntent(i, token))
           IN  b \in IntentBody /\ b.signature.over = canonicalIntent(b)
<1> DEFINE i == Fields(d, id, nonce)
           any == [key |-> token, over |-> <<>>]
           b == With(i, signIntent(i, token))
<1>1. d \in DraftType /\ <<Blank>> \in Text /\ <<Version>> \in Text
  BY IntentAssumption DEF Text
<1>2. /\ i.id \in Ids /\ i.version \in Text /\ i.payer \in Text /\ i.recipient \in Text
      /\ i.agentId \in Text /\ i.capability \in Text /\ i.amount \in Nat /\ i.rail \in Rails
      /\ i.mint \in Text /\ i.channelId \in Text /\ i.nonce \in Nonces
      /\ i.payloadHash \in Hashes
  BY <1>1, IntentAssumption DEF Fields, DraftType
<1>3. i.expiresAt \in Nat
  BY <1>1, IntentAssumption DEF Fields, DraftType
<1> HIDE DEF i
<1>4. \A sig \in [key : Tokens, over : Signed] : With(i, sig) \in IntentBody
  BY <1>2, <1>3 DEF With, IntentBody
<1>5. \A sig : canonicalIntent(With(i, sig)) = canonicalIntent(i) /\ With(i, sig).signature = sig
  BY DEF With, canonicalIntent
<1>6. canonicalIntent(i) \in Signed
  <2>1. any \in [key : Tokens, over : Signed]
    BY EmptySeq DEF Signed
  <2>2. With(i, any) \in IntentBody
    BY <1>4, <2>1
  <2>3. canonicalIntent(With(i, any)) \in Signed
    <3> DEFINE w == With(i, any)
               V == Pieces \cup Rails \cup Nat \cup Nonces \cup Hashes
    <3> HIDE DEF w
    <3>1. w \in IntentBody
      BY <2>2 DEF w
    <3>2. canonicalIntent(w) = Railed(w) \o Last(w) /\ Railed(w) \in Signed /\ Last(w) \in Signed
      BY <3>1, BodyTexts
    <3>3. Signed = Seq(V)
      BY DEF Signed
    <3> HIDE DEF V
    <3>4. canonicalIntent(w) \in Signed
      BY <3>2, <3>3, ConcatProperties
    <3> QED
      BY <3>4 DEF w
  <2> QED
    BY <1>5, <2>3
<1>7. signIntent(i, token) \in [key : Tokens, over : Signed]
      /\ signIntent(i, token).over = canonicalIntent(i)
  BY <1>6 DEF signIntent
<1> QED
  BY <1>4, <1>5, <1>7 DEF i

\* What Submit does to the store, and why it may, whatever the client sends.
LEMMA SubmitAccepts ==
    ASSUME IntentsInv, NEW i \in built, NEW token \in Tokens \cup {NoToken},
           NEW sent, sent.signature = i.signature, Submit(sent, token)
    PROVE  /\ sent.id \in Ids /\ now <= i.expiresAt /\ UNCHANGED <<now, built>>
           /\ store' = [store EXCEPT ![sent.id] = [status |-> "authorized", intent |-> sent]]
           /\ RecordOK(store'[sent.id], sent.id)
           /\ announced' = [announced EXCEPT ![sent.id] = IF @ < 2 THEN @ + 1 ELSE @]
<1>1. /\ sent \in IntentBody /\ verifyIntent(sent, token) = "ok" /\ UNCHANGED <<now, built>>
      /\ store' = [store EXCEPT ![sent.id] = [status |-> "authorized", intent |-> sent]]
      /\ announced' = [announced EXCEPT ![sent.id] = IF @ < 2 THEN @ + 1 ELSE @]
  BY DEF Submit
<1>2. /\ ~(now > sent.expiresAt) /\ ~(sent.amount > Ceiling)
      /\ sent.signature = signIntent(sent, token)
  BY <1>1 DEF verifyIntent
<1>3. i \in IntentBody /\ i.signature.over = canonicalIntent(i) /\ now \in Nat
  BY DEF IntentsInv
<1>4. canonicalIntent(sent) = canonicalIntent(i)
  BY <1>2, <1>3 DEF signIntent
<1>5. SignedAs(sent, i)
  BY <1>1, <1>3, <1>4, SignatureCovers
<1>6. /\ sent.id \in Ids /\ sent.amount \in Nat /\ sent.expiresAt \in Nat /\ Ceiling \in Nat
  BY <1>1, IntentAssumption DEF IntentBody
<1>7. now <= i.expiresAt /\ sent.amount <= Ceiling
  BY <1>2, <1>3, <1>5, <1>6 DEF SignedAs
<1>8. store'[sent.id] = [status |-> "authorized", intent |-> sent]
  BY <1>1, <1>6 DEF IntentsInv
<1>9. RecordOK(store'[sent.id], sent.id)
  BY <1>1, <1>5, <1>7, <1>8 DEF RecordOK
<1> QED
  BY <1>1, <1>6, <1>7, <1>9

LEMMA IntentsStep == IntentsInv /\ [IntentsNext]_<<now, intentVars>> => IntentsInv'
<1> SUFFICES ASSUME IntentsInv, [IntentsNext]_<<now, intentVars>> PROVE IntentsInv'
  OBVIOUS
<1>1. CASE UNCHANGED intentVars /\ (Tick \/ UNCHANGED now)
  BY <1>1 DEF IntentsInv, Tick, intentVars, RecordOK
<1>2. ASSUME NEW d \in Drafts, NEW token \in Tokens, Build(d, token) PROVE IntentsInv'
  <2>1. /\ UNCHANGED <<now, store, announced>>
        /\ \E id \in Ids, nonce \in Nonces :
              LET i == Fields(d, id, nonce)
              IN  built' = built \cup {With(i, signIntent(i, token))}
    BY <1>2 DEF Build
  <2>2. \A b \in built' : b \in IntentBody /\ b.signature.over = canonicalIntent(b)
    BY <2>1, BuildSigns DEF IntentsInv
  <2>3. built \subseteq built'
    BY <2>1
  <2> QED
    BY <2>1, <2>2, <2>3 DEF IntentsInv, RecordOK
<1>3. ASSUME NEW i \in built, NEW token \in Tokens \cup {NoToken}, SendIntent(i, token)
      PROVE  IntentsInv'
  <2>0. PICK sent \in Sendable(i) : sent.signature = i.signature /\ Submit(sent, token)
    BY <1>3 DEF SendIntent
  <2>1. /\ sent.id \in Ids /\ UNCHANGED <<now, built>>
        /\ store' = [store EXCEPT ![sent.id] = [status |-> "authorized", intent |-> sent]]
        /\ RecordOK(store'[sent.id], sent.id)
        /\ announced' = [announced EXCEPT ![sent.id] = IF @ < 2 THEN @ + 1 ELSE @]
    BY <2>0, SubmitAccepts
  <2>2. announced' \in [Ids -> 0..2]
    BY <2>1 DEF IntentsInv
  <2>3. \A id \in Ids : id # sent.id => store'[id] = store[id]
    BY <2>1 DEF IntentsInv
  <2>4. \A id \in Ids : store'[id] = NoRecord \/ RecordOK(store'[id], id)
    BY <2>1, <2>3 DEF IntentsInv
  <2>5. DOMAIN store' = Ids /\ store' = [id \in Ids |-> store'[id]]
    BY <2>1 DEF IntentsInv
  <2> QED
    BY <2>1, <2>2, <2>4, <2>5 DEF IntentsInv, RecordOK
<1>4. ASSUME NEW id \in Ids, Cancel(id) PROVE IntentsInv'
  <2>1. /\ RecordOK(store[id], id) /\ UNCHANGED <<now, built, announced>>
        /\ store' = [store EXCEPT ![id].status = "cancelled"]
    BY <1>4 DEF Cancel, IntentsInv
  <2>2. store'[id] = [store[id] EXCEPT !.status = "cancelled"]
    BY <2>1 DEF IntentsInv
  <2>3. RecordOK(store'[id], id)
    BY <2>1, <2>2 DEF RecordOK
  <2>4. \A k \in Ids : store'[k] = NoRecord \/ RecordOK(store'[k], k)
    BY <2>1, <2>3 DEF IntentsInv
  <2>5. DOMAIN store' = Ids /\ store' = [k \in Ids |-> store'[k]]
    BY <2>1 DEF IntentsInv
  <2> QED
    BY <2>1, <2>4, <2>5 DEF IntentsInv, RecordOK
<1> QED
  BY <1>1, <1>2, <1>3, <1>4 DEF IntentsNext, intentVars

\* What the store holds carries the signature of an intent that was built, and is
\* that intent when its strings have no '|', whatever bodies clients send.
THEOREM IntentsInvariance == IntentsSpec => []IntentsInv
<1>1. now = 0 /\ IntentsInit => IntentsInv
  BY DEF IntentsInit, IntentsInv
<1> QED
  BY <1>1, IntentsStep, PTL DEF IntentsSpec

\* No record is beyond the ceiling or without its signer's consent.
THEOREM IntentsAreSafe == IntentsSpec => []IntentsSafe
<1>1. IntentsInv => IntentsSafe
  <2> SUFFICES ASSUME IntentsInv PROVE IntentsSafe
    OBVIOUS
  <2>1. IntentsTypeOK
    BY DEF IntentsInv, IntentsTypeOK, RecordOK
  <2>2. AuthorizedWasSigned
    BY DEF IntentsInv, AuthorizedWasSigned, RecordOK, SignedAs
  <2> QED
    BY <2>1, <2>2 DEF IntentsSafe
<1> QED
  BY <1>1, IntentsInvariance, PTL

\* Nothing is authorized, and nothing announced, after the deadline its signer
\* set.
THEOREM NothingLate == IntentsSpec => NothingAfterDeadline
<1> DEFINE InTime ==
      \A id \in Ids :
          (store'[id] # store[id] /\ store'[id].status = "authorized")
              \/ announced'[id] # announced[id] =>
                \E b \in built : /\ store'[id] # NoRecord /\ now <= b.expiresAt
                                 /\ b.signature = store'[id].intent.signature
<1>1. ASSUME IntentsInv, IntentsNext PROVE InTime
  <2> SUFFICES ASSUME NEW id \in Ids,
                      (store'[id] # store[id] /\ store'[id].status = "authorized")
                      \/ announced'[id] # announced[id]
               PROVE  \E b \in built : /\ store'[id] # NoRecord /\ now <= b.expiresAt
                                       /\ b.signature = store'[id].intent.signature
    OBVIOUS
  <2>1. ~\E k \in Ids : Cancel(k)
    <3> SUFFICES ASSUME NEW k \in Ids, Cancel(k) PROVE FALSE
      OBVIOUS
    <3>1. RecordOK(store[k], k) /\ store' = [store EXCEPT ![k].status = "cancelled"]
          /\ UNCHANGED announced
      BY <1>1 DEF Cancel, IntentsInv
    <3>2. store'[id] = store[id] \/ store'[id].status = "cancelled"
      BY <1>1, <3>1 DEF IntentsInv, RecordOK
    <3> QED
      BY <3>1, <3>2
  <2>2. PICK i \in built, token \in Tokens \cup {NoToken} : SendIntent(i, token)
    BY <1>1, <2>1 DEF IntentsNext, intentVars, Build
  <2>3. PICK sent \in Sendable(i) : sent.signature = i.signature /\ Submit(sent, token)
    BY <2>2 DEF SendIntent
  <2>5. /\ sent.id \in Ids /\ now <= i.expiresAt /\ sent.signature = i.signature
        /\ store' = [store EXCEPT ![sent.id] = [status |-> "authorized", intent |-> sent]]
        /\ announced' = [announced EXCEPT ![sent.id] = IF @ < 2 THEN @ + 1 ELSE @]
    BY <1>1, <2>3, SubmitAccepts
  <2>6. id = sent.id
    BY <1>1, <2>5 DEF IntentsInv
  <2>7. store'[id] = [status |-> "authorized", intent |-> sent]
    BY <1>1, <2>5, <2>6 DEF IntentsInv
  <2>8. store'[id] # NoRecord
    BY <2>7 DEF NoRecord
  <2> QED
    BY <2>5, <2>7, <2>8
<1>2. IntentsInv /\ [IntentsNext]_<<now, intentVars>> => [InTime]_<<now, intentVars>>
  BY <1>1
<1> QED
  BY <1>2, IntentsInvariance, PTL DEF IntentsSpec, NothingAfterDeadline

-----------------------------------------------------------------------------
(* WebhookDelivery *)

\* Attempts of a job whose request may still reach the endpoint, and payloads
\* of the registry that may still be received.
OnWire(j) == {n \in 0..2 : <<j, n>> \in wire}
Owing(h) == {n \in 1..MaxPosts : <<h, n>> \in posts}

\* The attempt in progress is excused from the count until it is known to have
\* failed: not while it waits for an answer, nor once it was answered well.
Excused(j) ==
    phase[j] \in {"delivered", "lost"} \/ (phase[j] = "sending" /\ answer[j] # "bad")

\* What one delivery may have done: its requests, processed or still under way,
\* are at most the attempts given up, those denied and the one in progress.
JobOK(j) ==
    /\ hits[j] + Cardinality(OnWire(j)) <=
         timeouts[j] + denied[j] + (IF Excused(j) THEN 1 ELSE 0)
    /\ \A n \in OnWire(j) : n <= attempt[j]
    /\ timeouts[j] <= attempt[j] + (IF phase[j] = "sending" THEN 0 ELSE 1)
    /\ phase[j] \in {"none", "skipped"} => attempt[j] = 0 /\ timeouts[j] = 0
    /\ phase[j] = "waiting" => attempt[j] < 2
    /\ phase[j] = "failed" => attempt[j] = 2
    /\ phase[j] = "delivered" => hits[j] >= 1
    /\ phase[j] = "sending" =>
          /\ answer[j] # "none" => attempt[j] \notin OnWire(j)
          /\ answer[j] = "ok" => hits[j] >= 1

\* A payload of the registry is received, or its fetch is under way, once.
HookOK(h) == got[h] + Cardinality(Owing(h)) <= owed[h] /\ \A n \in Owing(h) : n <= owed[h]

WebhooksInv ==
    /\ WebhooksTypeOK
    /\ \A j \in Jobs : JobOK(j)
    /\ \A h \in Hooks : HookOK(h)

-----------------------------------------------------------------------------

\* A set of attempts, or of payloads, is counted by a number.
LEMMA FewRequests ==
    ASSUME NEW b \in Int, NEW S \in SUBSET (0..b)
    PROVE  IsFiniteSet(S) /\ Cardinality(S) \in Nat
<1>1. IsFiniteSet(0..b)
  BY FS_Interval
<1>2. IsFiniteSet(S)
  BY <1>1, FS_Subset
<1> QED
  BY <1>2, FS_CardinalityType

\* One more is sent.
LEMMA OneMore ==
    ASSUME NEW b \in Int, NEW S \in SUBSET (0..b), NEW n \in 0..b
    PROVE  Cardinality(S \cup {n}) \in Nat /\ Cardinality(S \cup {n}) <= Cardinality(S) + 1
<1>1. IsFiniteSet(S) /\ Cardinality(S) \in Nat /\ S \cup {n} \in SUBSET (0..b)
  BY FewRequests
<1> QED
  BY <1>1, FewRequests, FS_AddElement

\* One of them is over.
LEMMA OneLess ==
    ASSUME NEW b \in Int, NEW S \in SUBSET (0..b), NEW n \in S
    PROVE  Cardinality(S \ {n}) \in Nat /\ Cardinality(S \ {n}) = Cardinality(S) - 1
<1>1. IsFiniteSet(S) /\ Cardinality(S) \in Nat /\ S \ {n} \in SUBSET (0..b)
  BY FewRequests
<1> QED
  BY <1>1, FewRequests, FS_RemoveElement

LEMMA RequestCounts ==
    ASSUME NEW j
    PROVE  OnWire(j) \in SUBSET (0..2) /\ Cardinality(OnWire(j)) \in Nat
<1>1. OnWire(j) \in SUBSET (0..2) /\ 2 \in Int
  BY DEF OnWire
<1> QED
  BY <1>1, FewRequests

LEMMA PayloadCounts ==
    ASSUME NEW h
    PROVE  /\ MaxPosts \in Int /\ Owing(h) \in SUBSET (0..MaxPosts)
           /\ Cardinality(Owing(h)) \in Nat
<1>1. MaxPosts \in Int /\ Owing(h) \in SUBSET (0..MaxPosts)
  BY WebhookAssumption DEF Owing
<1> QED
  BY <1>1, FewRequests

LEMMA JobTypes ==
    ASSUME WebhooksTypeOK, NEW j \in Jobs
    PROVE  /\ hits[j] \in Nat /\ denied[j] \in Nat /\ timeouts[j] \in 0..3 /\ attempt[j] \in 0..2
           /\ answer[j] \in {"none", "ok", "bad"}
           /\ phase[j] \in {"none", "skipped", "sending", "waiting",
                            "delivered", "failed", "lost"}
  BY DEF WebhooksTypeOK

LEMMA OtherJobs ==
    ASSUME NEW j \in Jobs, JobOK(j), phase'[j] = phase[j], attempt'[j] = attempt[j],
           answer'[j] = answer[j], hits'[j] = hits[j], timeouts'[j] = timeouts[j],
           denied'[j] = denied[j], OnWire(j)' = OnWire(j)
    PROVE  JobOK(j)'
  BY DEF JobOK, Excused

\* deliver(..., n) for the first time, or once more after a failure.
LEMMA SendKeeps ==
    ASSUME WebhooksTypeOK, NEW j \in Jobs, NEW n \in 0..2, \A k \in Jobs : JobOK(k), Send(j, n),
           hits[j] + Cardinality(OnWire(j)) <= timeouts[j] + denied[j], timeouts[j] <= n,
           \A m \in OnWire(j) : m <= n
    PROVE  \A k \in Jobs : JobOK(k)'
<1> SUFFICES ASSUME NEW k \in Jobs PROVE JobOK(k)'
  OBVIOUS
<1>1. CASE k # j
  <2>1. OnWire(k)' = OnWire(k)
    BY <1>1 DEF Send, OnWire
  <2> QED
    BY <1>1, <2>1, OtherJobs DEF Send, WebhooksTypeOK
<1>2. CASE k = j
  <2>1. /\ phase'[j] = "sending" /\ attempt'[j] = n /\ answer'[j] = "none"
        /\ hits'[j] = hits[j] /\ timeouts'[j] = timeouts[j] /\ denied'[j] = denied[j]
    BY DEF Send, WebhooksTypeOK
  <2>2. OnWire(j)' = OnWire(j) \cup {n}
    BY DEF Send, OnWire
  <2>3. Cardinality(OnWire(j)') <= Cardinality(OnWire(j)) + 1
        /\ Cardinality(OnWire(j)') \in Nat
    <3>1. OnWire(j) \in SUBSET (0..2) /\ 2 \in Int
      BY RequestCounts
    <3> QED
      BY <2>2, <3>1, OneMore
  <2>4. Cardinality(OnWire(j)) \in Nat
    BY RequestCounts
  <2>5. \A m \in OnWire(j)' : m <= n
    BY <2>2
  <2>6. Excused(j)' /\ n \in Nat
    BY <2>1 DEF Excused
  <2>7. hits'[j] + Cardinality(OnWire(j)') <= timeouts'[j] + denied'[j] + 1
    BY <2>1, <2>3, <2>4, JobTypes
  <2> HIDE DEF OnWire, Excused
  <2> QED
    BY <1>2, <2>1, <2>5, <2>6, <2>7, JobTypes DEF JobOK
<1> QED
  BY <1>1, <1>2

\* A request reaches the endpoint, or is lost.
LEMMA EndpointKeeps ==
    ASSUME WebhooksTypeOK, NEW j \in Jobs, NEW n \in 0..2, NEW outcome \in {"ok", "bad", "lost"},
           NEW processed \in BOOLEAN,
           \A k \in Jobs : JobOK(k), Endpoint(j, n, outcome, processed)
    PROVE  \A k \in Jobs : JobOK(k)'
<1> SUFFICES ASSUME NEW k \in Jobs PROVE JobOK(k)'
  OBVIOUS
<1>1. CASE k # j
  <2>1. OnWire(k)' = OnWire(k)
    BY <1>1 DEF Endpoint, OnWire
  <2> QED
    BY <1>1, <2>1, OtherJobs DEF Endpoint, WebhooksTypeOK
<1>2. CASE k = j
  <2>1. n \in OnWire(j) /\ OnWire(j)' = OnWire(j) \ {n}
    BY DEF Endpoint, OnWire
  <2>2. Cardinality(OnWire(j)') = Cardinality(OnWire(j)) - 1
        /\ Cardinality(OnWire(j)) \in Nat /\ Cardinality(OnWire(j)') \in Nat
    <3>1. OnWire(j) \in SUBSET (0..2) /\ 2 \in Int /\ Cardinality(OnWire(j)) \in Nat
      BY RequestCounts
    <3> QED
      BY <2>1, <3>1, OneLess
  <2>3. /\ phase'[j] = phase[j] /\ attempt'[j] = attempt[j] /\ timeouts'[j] = timeouts[j]
        /\ hits'[j] = IF processed THEN hits[j] + 1 ELSE hits[j]
        /\ outcome = "ok" => processed
        /\ answer'[j] = IF phase[j] = "sending" /\ attempt[j] = n /\ outcome # "lost"
                        THEN outcome ELSE answer[j]
        /\ denied'[j] = IF phase[j] = "sending" /\ attempt[j] = n /\ processed
                           /\ outcome = "bad"
                        THEN denied[j] + 1 ELSE denied[j]
    BY DEF Endpoint, WebhooksTypeOK
  <2>4. hits'[j] + Cardinality(OnWire(j)') <=
           timeouts'[j] + denied'[j] + (IF Excused(j)' THEN 1 ELSE 0)
    <3>1. hits[j] + Cardinality(OnWire(j)) <=
             timeouts[j] + denied[j] + (IF Excused(j) THEN 1 ELSE 0)
      BY DEF JobOK
    <3>2. CASE answer'[j] = answer[j]
      BY <2>2, <2>3, <3>1, <3>2, JobTypes DEF Excused
    <3>3. CASE answer'[j] # answer[j]
      <4>1. phase[j] = "sending" /\ attempt[j] = n /\ answer[j] = "none"
            /\ answer'[j] = outcome /\ outcome # "lost"
        BY <2>1, <2>3, <3>3 DEF JobOK
      <4> QED
        BY <2>2, <2>3, <3>1, <4>1, JobTypes DEF Excused
    <3> QED
      BY <3>2, <3>3
  <2>5. \A m \in OnWire(j)' : m <= attempt'[j]
    BY <2>1, <2>3 DEF JobOK
  <2>6. phase'[j] = "sending" =>
           /\ answer'[j] # "none" => attempt'[j] \notin OnWire(j)'
           /\ answer'[j] = "ok" => hits'[j] >= 1
    <3>1. answer'[j] # "none" => attempt[j] = n \/ attempt[j] \notin OnWire(j) \/ phase[j] # "sending"
      BY <2>3 DEF JobOK
    <3>2. answer'[j] = "ok" => outcome = "ok" \/ answer[j] = "ok"
      BY <2>3
    <3>3. phase[j] = "sending" /\ answer[j] = "ok" => hits[j] >= 1
      BY DEF JobOK
    <3> QED
      BY <2>1, <2>3, <3>1, <3>2, <3>3, JobTypes
  <2>7. phase'[j] = "delivered" => hits'[j] >= 1
    <3>1. phase[j] = "delivered" => hits[j] >= 1
      BY DEF JobOK
    <3> QED
      BY <2>3, <3>1, JobTypes
  <2> QED
    BY <1>2, <2>3, <2>4, <2>5, <2>6, <2>7 DEF JobOK
<1> QED
  BY <1>1, <1>2

\* The fetch of an attempt resolves or rejects.
LEMMA AttemptEnds ==
    ASSUME WebhooksTypeOK, NEW j \in Jobs, \A k \in Jobs : JobOK(k), Respond(j) \/ Timeout(j)
    PROVE  \A k \in Jobs : JobOK(k)'
<1> SUFFICES ASSUME NEW k \in Jobs PROVE JobOK(k)'
  OBVIOUS
<1>1. OnWire(k)' = OnWire(k)
  BY DEF Respond, Timeout, OnWire
<1>2. CASE k # j
  BY <1>1, <1>2, OtherJobs DEF Respond, Timeout, WebhooksTypeOK
<1>3. CASE k = j
  <2> DEFINE tried == Cardinality(OnWire(j))
  <2>1. /\ phase[j] = "sending" /\ attempt'[j] = attempt[j] /\ hits'[j] = hits[j]
        /\ answer'[j] = answer[j] /\ tried' = tried /\ tried \in Nat
        /\ denied'[j] = denied[j]
    BY <1>1, <1>3, RequestCounts DEF Respond, Timeout
  <2>2. /\ hits[j] + tried <= timeouts[j] + denied[j] + (IF answer[j] # "bad" THEN 1 ELSE 0)
        /\ timeouts[j] <= attempt[j] /\ \A n \in OnWire(j) : n <= attempt[j]
        /\ answer[j] = "ok" => hits[j] >= 1
    BY <2>1, JobTypes DEF JobOK, Excused
  <2>3. attempt[j] \in 0..2 /\ hits[j] \in Nat /\ timeouts[j] \in Nat /\ denied[j] \in Nat
    BY JobTypes
  <2>4. phase'[j] = "waiting" => attempt[j] < 2
    BY <2>3 DEF Respond, Timeout, Outcome, Unsuccessful, GivesUp, WebhooksTypeOK
  <2>5. phase'[j] = "failed" => attempt[j] = 2
    BY <2>3 DEF Respond, Timeout, Outcome, Unsuccessful, GivesUp, WebhooksTypeOK
  <2>6. CASE Respond(j)
    <3>1. timeouts'[j] = timeouts[j] /\ phase'[j] = Outcome(j) /\ answer[j] # "none"
      BY <2>6 DEF Respond, WebhooksTypeOK
    <3>2. CASE answer[j] = "ok"
      <4>1. phase'[j] = "delivered"
        BY <3>1, <3>2 DEF Outcome
      <4> HIDE DEF tried
      <4>2. hits'[j] + tried' <= timeouts'[j] + denied'[j] + 1
        BY <2>1, <2>2, <2>3, <3>1, <3>2
      <4> USE DEF tried
      <4> QED
        BY <1>1, <1>3, <2>1, <2>2, <2>3, <3>1, <3>2, <4>1, <4>2 DEF JobOK, Excused
    <3>3. CASE answer[j] = "bad"
      <4>1. phase'[j] \in {"waiting", "failed"}
        BY <3>1, <3>3 DEF Outcome, Unsuccessful
      <4>2. ~Excused(j)'
        BY <4>1 DEF Excused
      <4>3. timeouts'[j] <= attempt'[j] + 1
        BY <2>1, <2>2, <2>3, <3>1
      <4> QED
        BY <1>1, <1>3, <2>1, <2>2, <2>4, <2>5, <3>1, <3>3, <4>1, <4>2, <4>3 DEF JobOK
    <3> QED
      BY <3>1, <3>2, <3>3, JobTypes
  <2>7. CASE Timeout(j)
    <3>1. timeouts'[j] = timeouts[j] + 1 /\ phase'[j] \in {"waiting", "failed"}
      BY <2>7 DEF Timeout, Unsuccessful, WebhooksTypeOK
    <3>2. ~Excused(j)'
      BY <3>1 DEF Excused
    <3>3. timeouts'[j] <= attempt'[j] + 1
      BY <2>1, <2>2, <2>3, <3>1
    <3>4. hits'[j] + tried' <= timeouts'[j] + denied'[j]
      <4> HIDE DEF tried
      <4> QED
        BY <2>1, <2>2, <2>3, <3>1
    <3> QED
      BY <1>1, <1>3, <2>1, <2>2, <2>3, <2>4, <2>5, <3>1, <3>2, <3>3, <3>4 DEF JobOK
  <2> QED
    BY <2>6, <2>7
<1> QED
  BY <1>2, <1>3

\* The process ends: what was in progress is lost, not failed.
LEMMA CrashKeeps ==
    ASSUME WebhooksTypeOK, \A k \in Jobs : JobOK(k), Crash
    PROVE  \A k \in Jobs : JobOK(k)'
<1> SUFFICES ASSUME NEW j \in Jobs PROVE JobOK(j)'
  OBVIOUS
<1>1. /\ OnWire(j)' = OnWire(j) /\ attempt'[j] = attempt[j] /\ hits'[j] = hits[j]
      /\ timeouts'[j] = timeouts[j] /\ answer'[j] = answer[j] /\ denied'[j] = denied[j]
      /\ phase'[j] = IF phase[j] \in {"sending", "waiting"} THEN "lost" ELSE phase[j]
  BY DEF Crash, OnWire
<1>2. CASE phase[j] \notin {"sending", "waiting"}
  BY <1>1, <1>2, OtherJobs
<1>3. CASE phase[j] \in {"sending", "waiting"}
  <2>1. Excused(j)' /\ phase'[j] = "lost"
    BY <1>1, <1>3 DEF Excused
  <2> QED
    <3>1. /\ hits[j] + Cardinality(OnWire(j)) <= timeouts[j] + denied[j] + 1
          /\ timeouts[j] <= attempt[j] + 1
      BY RequestCounts, JobTypes DEF JobOK
    <3>2. /\ hits'[j] + Cardinality(OnWire(j)') <= timeouts'[j] + denied'[j] + 1
          /\ timeouts'[j] <= attempt'[j] + 1
      BY <1>1, <3>1
    <3>3. \A n \in OnWire(j)' : n <= attempt'[j]
      BY <1>1 DEF JobOK
    <3> QED
      BY <2>1, <3>2, <3>3 DEF JobOK
<1> QED
  BY <1>2, <1>3

\* Every step of a delivery.
LEMMA JobsStep ==
    ASSUME WebhooksTypeOK, \A k \in Jobs : JobOK(k), [WebhooksNext]_webhookVars
    PROVE  \A k \in Jobs : JobOK(k)'
<1>1. ASSUME UNCHANGED jobVars PROVE \A k \in Jobs : JobOK(k)'
  BY <1>1, OtherJobs DEF jobVars, OnWire
<1>2. ASSUME NEW j \in Jobs, Dispatch(j) PROVE \A k \in Jobs : JobOK(k)'
  <2>1. phase[j] = "none" /\ attempt[j] = 0 /\ timeouts[j] = 0 /\ ~Excused(j) /\ 0 \in 0..2
    BY <1>2 DEF Dispatch, JobOK, Excused
  <2>2. /\ hits[j] + Cardinality(OnWire(j)) <= timeouts[j] + denied[j]
        /\ \A m \in OnWire(j) : m <= 0
    BY <2>1, RequestCounts, JobTypes DEF JobOK
  <2>3. CASE Send(j, 0)
    BY <2>1, <2>2, <2>3, SendKeeps
  <2>4. CASE phase' = [phase EXCEPT ![j] = "skipped"]
             /\ UNCHANGED <<attempt, wire, answer, hits, timeouts, denied>>
    <3> SUFFICES ASSUME NEW k \in Jobs PROVE JobOK(k)'
      OBVIOUS
    <3>1. OnWire(k)' = OnWire(k)
      BY <2>4 DEF OnWire
    <3>2. CASE k # j
      BY <2>4, <3>1, <3>2, OtherJobs DEF WebhooksTypeOK
    <3>3. CASE k = j
      <4>1. phase'[j] = "skipped" /\ ~Excused(j)'
        BY <2>4 DEF WebhooksTypeOK, Excused
      <4> QED
        BY <2>1, <2>2, <2>4, <3>1, <3>3, <4>1, JobTypes DEF JobOK
    <3> QED
      BY <3>2, <3>3
  <2> QED
    BY <1>2, <2>3, <2>4 DEF Dispatch
<1>3. ASSUME NEW j \in Jobs, Retry(j) PROVE \A k \in Jobs : JobOK(k)'
  <2>1. phase[j] = "waiting" /\ Send(j, attempt[j] + 1) /\ ~Excused(j)
    BY <1>3 DEF Retry, Excused
  <2>2. /\ attempt[j] + 1 \in 0..2 /\ timeouts[j] <= attempt[j] + 1
        /\ \A m \in OnWire(j) : m <= attempt[j] + 1
    <3>1. attempt[j] \in 0..2 /\ attempt[j] < 2 /\ OnWire(j) \in SUBSET (0..2)
      BY <2>1, JobTypes, RequestCounts DEF JobOK
    <3>2. timeouts[j] <= attempt[j] + 1 /\ \A m \in OnWire(j) : m <= attempt[j]
      BY <2>1 DEF JobOK
    <3> QED
      BY <3>1, <3>2
  <2>3. hits[j] + Cardinality(OnWire(j)) <= timeouts[j] + denied[j]
    BY <2>1, RequestCounts, JobTypes DEF JobOK
  <2> QED
    BY <2>1, <2>2, <2>3, SendKeeps
<1>4. ASSUME NEW j \in Jobs, Respond(j) \/ Timeout(j) PROVE \A k \in Jobs : JobOK(k)'
  BY <1>4, AttemptEnds
<1>5. ASSUME NEW r \in wire, NEW outcome \in {"ok", "bad", "lost"},
             NEW processed \in BOOLEAN, Endpoint(r[1], r[2], outcome, processed)
      PROVE  \A k \in Jobs : JobOK(k)'
  <2>1. r[1] \in Jobs /\ r[2] \in 0..2
    BY DEF WebhooksTypeOK
  <2> QED
    BY <1>5, <2>1, EndpointKeeps
<1>6. CASE Crash
  BY <1>6, CrashKeeps
<1>7. ASSUME NEW h \in Hooks, NEW kinds \in SUBSET Kinds, RegisterHook(h, kinds)
      PROVE  UNCHANGED jobVars
  BY <1>7 DEF RegisterHook
<1>8. ASSUME NEW h \in Hooks, Remove(h) \/ Test(h) PROVE UNCHANGED jobVars
  BY <1>8 DEF Remove, Test, Post
<1>9. ASSUME NEW k \in Kinds, Publish(k) PROVE UNCHANGED jobVars
  BY <1>9 DEF Publish, Post
<1>10. ASSUME NEW p \in posts, NEW ok \in BOOLEAN, Fetched(p[1], p[2], ok)
       PROVE  UNCHANGED jobVars
  BY <1>10 DEF Fetched
<1>11. CASE Configure \/ UNCHANGED webhookVars
  BY <1>1, <1>11 DEF Configure, webhookVars
<1> QED
  BY <1>1, <1>2, <1>3, <1>4, <1>5, <1>6, <1>7, <1>8, <1>9, <1>10, <1>11
     DEF WebhooksNext, DispatchStep

-----------------------------------------------------------------------------

LEMMA HookTypes ==
    ASSUME WebhooksTypeOK, NEW h \in Hooks
    PROVE  got[h] \in Nat /\ owed[h] \in 0..MaxPosts /\ owed[h] \in Nat
  BY WebhookAssumption DEF WebhooksTypeOK

LEMMA OtherHooks ==
    ASSUME NEW h \in Hooks, HookOK(h), owed'[h] = owed[h], got'[h] = got[h],
           Owing(h)' = Owing(h)
    PROVE  HookOK(h)'
  BY DEF HookOK

\* One payload goes to several hooks.
LEMMA PostKeeps ==
    ASSUME WebhooksTypeOK, \A h \in Hooks : HookOK(h), NEW targets \in SUBSET Hooks, Post(targets)
    PROVE  \A h \in Hooks : HookOK(h)'
<1> SUFFICES ASSUME NEW h \in Hooks PROVE HookOK(h)'
  OBVIOUS
<1>1. CASE h \notin targets
  <2>1. owed'[h] = owed[h] /\ got'[h] = got[h] /\ Owing(h)' = Owing(h)
    BY <1>1 DEF Post, Owing
  <2> QED
    BY <2>1, OtherHooks
<1>2. CASE h \in targets
  <2>1. /\ owed'[h] = owed[h] + 1 /\ got'[h] = got[h] /\ owed[h] < MaxPosts
        /\ posts' = posts \cup {<<g, owed[g] + 1>> : g \in targets}
    BY <1>2 DEF Post
  <2>2. MaxPosts \in Int /\ Owing(h) \in SUBSET (0..MaxPosts)
        /\ Cardinality(Owing(h)) \in Nat
    BY PayloadCounts
  <2>3. owed[h] + 1 \in 1..MaxPosts /\ owed[h] + 1 \in 0..MaxPosts
    BY <2>1, <2>2, HookTypes
  <2>4. Owing(h)' = Owing(h) \cup {owed[h] + 1}
    BY <1>2, <2>1, <2>3 DEF Owing
  <2>5. Cardinality(Owing(h)') \in Nat
        /\ Cardinality(Owing(h)') <= Cardinality(Owing(h)) + 1
    BY <2>2, <2>3, <2>4, OneMore
  <2>6. got[h] + Cardinality(Owing(h)) <= owed[h] /\ \A n \in Owing(h) : n <= owed[h]
    BY DEF HookOK
  <2>7. got'[h] + Cardinality(Owing(h)') <= owed'[h]
    BY <2>1, <2>2, <2>5, <2>6, HookTypes
  <2>8. \A n \in Owing(h)' : n <= owed'[h]
    BY <2>1, <2>2, <2>4, <2>6, HookTypes
  <2> QED
    BY <2>7, <2>8 DEF HookOK
<1> QED
  BY <1>1, <1>2

\* Every step of the registry.
LEMMA HooksStep ==
    ASSUME WebhooksTypeOK, \A h \in Hooks : HookOK(h), [WebhooksNext]_webhookVars
    PROVE  \A h \in Hooks : HookOK(h)'
<1>1. ASSUME UNCHANGED <<posts, owed, got>> PROVE \A h \in Hooks : HookOK(h)'
  BY <1>1, OtherHooks DEF Owing
<1>2. ASSUME NEW j \in Jobs, Dispatch(j) \/ Respond(j) \/ Timeout(j) \/ Retry(j)
      PROVE  UNCHANGED <<posts, owed, got>>
  BY <1>2 DEF Dispatch, Respond, Timeout, Retry, hookVars
<1>3. ASSUME NEW r \in wire, NEW outcome \in {"ok", "bad", "lost"},
             NEW processed \in BOOLEAN, Endpoint(r[1], r[2], outcome, processed)
      PROVE  UNCHANGED <<posts, owed, got>>
  BY <1>3 DEF Endpoint, hookVars
<1>4. CASE Crash
  <2> SUFFICES ASSUME NEW h \in Hooks PROVE HookOK(h)'
    OBVIOUS
  <2>1. Owing(h)' = {} /\ owed'[h] = owed[h] /\ got'[h] = got[h]
    BY <1>4 DEF Crash, Owing
  <2>2. Cardinality({}) = 0
    BY FS_EmptySet
  <2>3. got[h] <= owed[h]
    BY HookTypes, PayloadCounts DEF HookOK
  <2>4. got'[h] + Cardinality(Owing(h)') <= owed'[h]
    BY <2>1, <2>2, <2>3, HookTypes
  <2> QED
    BY <2>1, <2>4 DEF HookOK
<1>5. CASE Configure \/ UNCHANGED webhookVars
  BY <1>1, <1>5 DEF Configure, webhookVars, hookVars
<1>6. ASSUME NEW h \in Hooks, NEW kinds \in SUBSET Kinds, RegisterHook(h, kinds)
      PROVE  UNCHANGED <<posts, owed, got>>
  BY <1>6 DEF RegisterHook
<1>7. ASSUME NEW h \in Hooks, Remove(h) PROVE UNCHANGED <<posts, owed, got>>
  BY <1>7 DEF Remove
<1>8. ASSUME NEW h \in Hooks, Test(h) PROVE \A g \in Hooks : HookOK(g)'
  BY <1>8, PostKeeps DEF Test
<1>9. ASSUME NEW k \in Kinds, Publish(k) PROVE \A g \in Hooks : HookOK(g)'
  <2>1. {h \in Hooks : k \in hooks[h]} \in SUBSET Hooks
    OBVIOUS
  <2> QED
    BY <1>9, <2>1, PostKeeps DEF Publish
<1>10. ASSUME NEW p \in posts, NEW ok \in BOOLEAN, Fetched(p[1], p[2], ok)
       PROVE  \A g \in Hooks : HookOK(g)'
  <2> SUFFICES ASSUME NEW h \in Hooks PROVE HookOK(h)'
    OBVIOUS
  <2>1. p[1] \in Hooks /\ p[2] \in 1..MaxPosts
    BY DEF WebhooksTypeOK
  <2>2. CASE h # p[1]
    <3>1. owed'[h] = owed[h] /\ got'[h] = got[h] /\ Owing(h)' = Owing(h)
      BY <1>10, <2>2 DEF Fetched, Owing, WebhooksTypeOK
    <3> QED
      BY <3>1, OtherHooks
  <2>3. CASE h = p[1]
    <3>1. /\ owed'[h] = owed[h] /\ got'[h] \in {got[h], got[h] + 1}
          /\ posts' = posts \ {<<h, p[2]>>} /\ <<h, p[2]>> \in posts
      BY <1>10, <2>3 DEF Fetched, WebhooksTypeOK
    <3>2. p[2] \in Owing(h) /\ Owing(h)' = Owing(h) \ {p[2]}
      BY <2>1, <3>1 DEF Owing
    <3>3. MaxPosts \in Int /\ Owing(h) \in SUBSET (0..MaxPosts)
          /\ Cardinality(Owing(h)) \in Nat
      BY PayloadCounts
    <3>4. Cardinality(Owing(h)') = Cardinality(Owing(h)) - 1
      BY <3>2, <3>3, OneLess
    <3>5. got[h] + Cardinality(Owing(h)) <= owed[h] /\ \A n \in Owing(h) : n <= owed[h]
      BY DEF HookOK
    <3>6. got'[h] + Cardinality(Owing(h)') <= owed'[h]
      BY <3>1, <3>3, <3>4, <3>5, HookTypes
    <3> QED
      BY <3>1, <3>2, <3>5, <3>6 DEF HookOK
  <2> QED
    BY <2>2, <2>3
<1> QED
  BY <1>1, <1>2, <1>3, <1>4, <1>5, <1>6, <1>7, <1>8, <1>9, <1>10
     DEF WebhooksNext, DispatchStep

\* Every step keeps the types; no attempt goes beyond the third.
LEMMA WebhookTypesStep ==
    ASSUME WebhooksInv, [WebhooksNext]_webhookVars
    PROVE  WebhooksTypeOK'
<1> USE DEF WebhooksTypeOK
<1>1. ASSUME NEW j \in Jobs, NEW n \in 0..2, Send(j, n), UNCHANGED <<row, flips, hookVars>>
      PROVE  WebhooksTypeOK'
  BY <1>1 DEF Send, hookVars, WebhooksInv
<1>2. ASSUME NEW j \in Jobs, Dispatch(j) PROVE WebhooksTypeOK'
  <2>1. CASE Send(j, 0)
    BY <1>1, <1>2, <2>1 DEF Dispatch
  <2> QED
    BY <1>2, <2>1 DEF Dispatch, hookVars, WebhooksInv
<1>3. ASSUME NEW j \in Jobs, Retry(j) PROVE WebhooksTypeOK'
  <2>1. attempt[j] + 1 \in 0..2
    BY <1>3, JobTypes DEF Retry, WebhooksInv, JobOK
  <2> QED
    BY <1>1, <1>3, <2>1 DEF Retry
<1>4. ASSUME NEW j \in Jobs, Respond(j) PROVE WebhooksTypeOK'
  BY <1>4 DEF Respond, Outcome, Unsuccessful, hookVars, WebhooksInv
<1>5. ASSUME NEW j \in Jobs, Timeout(j) PROVE WebhooksTypeOK'
  <2>1. timeouts[j] + 1 \in 0..3
    <3>1. timeouts[j] <= attempt[j]
      BY <1>5, JobTypes DEF Timeout, WebhooksInv, JobOK
    <3> QED
      BY <3>1, JobTypes DEF WebhooksInv
  <2> QED
    BY <1>5, <2>1 DEF Timeout, Unsuccessful, hookVars, WebhooksInv
<1>6. ASSUME NEW r \in wire, NEW outcome \in {"ok", "bad", "lost"},
             NEW processed \in BOOLEAN, Endpoint(r[1], r[2], outcome, processed)
      PROVE  WebhooksTypeOK'
  BY <1>6 DEF Endpoint, hookVars, WebhooksInv
<1>7. CASE Crash
  BY <1>7 DEF Crash, WebhooksInv
<1>8. CASE Configure
  BY <1>8, WebhookAssumption DEF Configure, jobVars, hookVars, WebhooksInv
<1>9. ASSUME NEW h \in Hooks, NEW kinds \in SUBSET Kinds, RegisterHook(h, kinds)
      PROVE  WebhooksTypeOK'
  BY <1>9 DEF RegisterHook, jobVars, WebhooksInv
<1>10. ASSUME NEW h \in Hooks, Remove(h) PROVE WebhooksTypeOK'
  BY <1>10 DEF Remove, jobVars, WebhooksInv
<1>11. ASSUME NEW targets \in SUBSET Hooks, Post(targets) PROVE WebhooksTypeOK'
  <2>1. \A h \in targets : owed[h] + 1 \in 1..MaxPosts /\ owed[h] + 1 \in 0..MaxPosts
    BY <1>11, WebhookAssumption DEF Post, WebhooksInv
  <2> QED
    BY <1>11, <2>1 DEF Post, jobVars, WebhooksInv
<1>12. ASSUME NEW k \in Kinds, Publish(k) PROVE WebhooksTypeOK'
  BY <1>11, <1>12 DEF Publish
<1>13. ASSUME NEW p \in posts, NEW ok \in BOOLEAN, Fetched(p[1], p[2], ok)
       PROVE  WebhooksTypeOK'
  BY <1>13 DEF Fetched, jobVars, WebhooksInv
<1>14. CASE UNCHANGED webhookVars
  BY <1>14 DEF webhookVars, jobVars, hookVars, WebhooksInv
<1> QED
  BY <1>2, <1>3, <1>4, <1>5, <1>6, <1>7, <1>8, <1>9, <1>10, <1>11, <1>12, <1>13, <1>14
     DEF WebhooksNext, DispatchStep, Test

\* For any settlements, endpoints and order of answers, delays and restarts.
THEOREM WebhooksInvariance == WebhooksSpec => []WebhooksInv
<1>1. WebhooksInit => WebhooksInv
  <2> SUFFICES ASSUME WebhooksInit PROVE WebhooksInv
    OBVIOUS
  <2>1. \A j \in Jobs : OnWire(j) = {}
    BY DEF WebhooksInit, OnWire
  <2>2. \A h \in Hooks : Owing(h) = {}
    BY DEF WebhooksInit, Owing
  <2>3. Cardinality({}) = 0
    BY FS_EmptySet
  <2>4. \A j \in Jobs : JobOK(j)
    <3> SUFFICES ASSUME NEW j \in Jobs PROVE JobOK(j)
      OBVIOUS
    <3>1. /\ phase[j] = "none" /\ attempt[j] = 0 /\ hits[j] = 0 /\ timeouts[j] = 0
          /\ denied[j] = 0
      BY DEF WebhooksInit
    <3>2. Cardinality(OnWire(j)) = 0 /\ OnWire(j) = {}
      BY <2>1, <2>3
    <3> QED
      BY <3>1, <3>2 DEF JobOK, Excused
  <2>5. \A h \in Hooks : HookOK(h)
    <3> SUFFICES ASSUME NEW h \in Hooks PROVE HookOK(h)
      OBVIOUS
    <3>1. got[h] = 0 /\ owed[h] = 0 /\ Cardinality(Owing(h)) = 0 /\ Owing(h) = {}
      BY <2>2, <2>3 DEF WebhooksInit
    <3> QED
      BY <3>1 DEF HookOK
  <2>6. WebhooksTypeOK
    BY WebhookAssumption DEF WebhooksInit, WebhooksTypeOK
  <2> QED
    BY <2>4, <2>5, <2>6 DEF WebhooksInv
<1>2. WebhooksInv /\ [WebhooksNext]_webhookVars => WebhooksInv'
  BY JobsStep, HooksStep, WebhookTypesStep DEF WebhooksInv
<1> QED
  BY <1>1, <1>2, PTL DEF WebhooksSpec

\* Three attempts at most, outcomes that are true of the endpoint, and no
\* payload of the registry received twice.
THEOREM WebhooksAreSafe == WebhooksSpec => []WebhooksSafe
<1>1. WebhooksInv => WebhooksSafe
  <2> SUFFICES ASSUME WebhooksInv PROVE WebhooksSafe
    OBVIOUS
  <2>1. OutcomeTruthful
    BY DEF WebhooksInv, OutcomeTruthful, JobOK
  <2>2. RegistryAtMostOnce
    BY HookTypes, PayloadCounts DEF WebhooksInv, RegistryAtMostOnce, HookOK
  <2> QED
    BY <2>1, <2>2 DEF WebhooksInv, WebhooksSafe
<1> QED
  BY <1>1, WebhooksInvariance, PTL

\* An event is processed again only after an attempt given up unanswered, or one
\* that was processed and answered as failed.
THEOREM DuplicatesHaveCause == WebhooksSpec => []DuplicatesExplained
<1>1. WebhooksInv => DuplicatesExplained
  BY JobTypes, RequestCounts DEF WebhooksInv, DuplicatesExplained, JobOK
<1> QED
  BY <1>1, WebhooksInvariance, PTL

=============================================================================
