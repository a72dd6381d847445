----------------------- MODULE GatewaySettlementProofs -----------------------
(***************************************************************************)
(* The gateway pays an intent at most once and tells the truth about it,   *)
(* for any wallets, intents, batches and number of requests that race.     *)
(***************************************************************************)
EXTENDS GatewaySettlement, TLAPS

Handlers == [pc : {"idle", "leg", "sent", "done", "dropped"}, route : {"pay", "batch"},
             legs : Legs \cup {<<>>}, answers : Seq(Codes)]

\* The intent a transaction was sent for.
SentFor(t) == request[t[1]].legs[t[2]]

\* The variables that the argument is about have their types.
Shape ==
    /\ transfers \in [IntentIds -> Nat]
    /\ request \in [Requests -> Handlers]
    /\ tx \in [DOMAIN tx -> {"pending", "lost", "Ok"} \cup Refusals]
    /\ DOMAIN tx \subseteq Requests \X (Nat \ {0})

\* A handler has sent nothing for the legs ahead of it, and on the SOL rail only.
SentInOrder ==
    /\ \A r \in Requests : request[r].pc = "sent" => <<r, LegOf(r)>> \in DOMAIN tx
    /\ \A r \in Requests : request[r].pc = "idle" => request[r].answers = <<>>
    /\ \A t \in DOMAIN tx :
          /\ request[t[1]].pc # "idle" /\ SentFor(t).rail = "sol"
          /\ \/ t[2] <= Len(request[t[1]].answers)
             \/ t[2] = LegOf(t[1]) /\ request[t[1]].pc \in {"sent", "dropped"}

\* OK is answered for a transaction that succeeded.
OkWasSent ==
    \A r \in Requests : \A k \in 1..Len(request[r].answers) :
        request[r].answers[k] = "OK" => <<r, k>> \in DOMAIN tx /\ tx[<<r, k>>] = "Ok"

Recorded(i) ==
    /\ i.id \in DOMAIN payment
    /\ payment[i.id].payer = i.payer /\ payment[i.id].recipient = i.recipient
    /\ payment[i.id].amount = i.amount /\ payment[i.id].rail = i.rail

\* A transaction that succeeded left its record, and is the only one of its id.
OneTxPerRecord ==
    /\ \A t \in DOMAIN tx : tx[t] = "Ok" => Recorded(SentFor(t))
    /\ \A t, u \in DOMAIN tx :
          tx[t] = "Ok" /\ tx[u] = "Ok" /\ SentFor(t).id = SentFor(u).id => t = u

\* What is announced or about to be announced is on chain.
Announced == logs \subseteq DOMAIN payment /\ SettledEventsTruthful

GInv == Shape /\ RecordsAgree /\ SentInOrder /\ OkWasSent /\ OneTxPerRecord /\ Announced

-----------------------------------------------------------------------------

\* Writing the records of an id that has none keeps all records in step.
LEMMA WriteAgrees ==
    ASSUME RecordsAgree, transfers \in [IntentIds -> Nat], NEW id, id \notin DOMAIN payment,
           NEW payer, NEW recipient, NEW amount, NEW rail,
           WriteRecords(id, payer, recipient, amount, rail)
    PROVE  /\ RecordsAgree' /\ transfers' \in [IntentIds -> Nat]
           /\ DOMAIN payment' = DOMAIN payment \cup {id}
           /\ \A i \in DOMAIN payment : payment'[i] = payment[i]
           /\ payment'[id].payer = payer /\ payment'[id].recipient = recipient
           /\ payment'[id].amount = amount /\ payment'[id].rail = rail
<1>1. id \notin nonceUsed /\ nonceUsed' = nonceUsed \cup {id}
  BY DEF RecordsAgree, WriteRecords
<1>2. transfers' = [transfers EXCEPT ![id] = transfers[id] + 1]
  BY DEF WriteRecords
<1>3. /\ DOMAIN payment' = DOMAIN payment \cup {id}
      /\ \A i \in DOMAIN payment : payment'[i] = payment[i]
      /\ payment'[id].payer = payer /\ payment'[id].recipient = recipient
      /\ payment'[id].amount = amount /\ payment'[id].rail = rail
  BY DEF WriteRecords
<1>4. transfers' \in [IntentIds -> Nat]
  <2>1. CASE id \in IntentIds
    <3>1. transfers[id] + 1 \in Nat
      BY <2>1
    <3> QED
      BY <1>2, <3>1
  <2>2. CASE id \notin IntentIds
    BY <1>2, <2>2
  <2> QED
    BY <2>1, <2>2
<1>5. RecordsAgree'
  BY <1>1, <1>2, <1>3 DEF RecordsAgree
<1> QED
  BY <1>3, <1>4, <1>5

\* What is recorded stays recorded while records are only added.
LEMMA RecordedStays ==
    ASSUME NEW i, Recorded(i), DOMAIN payment \subseteq DOMAIN payment',
           \A id \in DOMAIN payment : payment'[id] = payment[id]
    PROVE  Recorded(i)'
  BY DEF Recorded

\* A handler gets a request: it has sent nothing before.
LEMMA ArriveKeeps ==
    ASSUME GInv, NEW r \in Requests, NEW route \in {"pay", "batch"},
           NEW legs \in Legs \cup {<<>>}, NEW pc \in {"leg", "done"},
           Arrive(r, route, legs, pc)
    PROVE  GInv'
<1>1. /\ request[r].pc = "idle" /\ request \in [Requests -> Handlers]
      /\ request' = [request EXCEPT
             ![r] = [pc |-> pc, route |-> route, legs |-> legs, answers |-> <<>>]]
      /\ UNCHANGED <<chainVars, tx, bus, logs>>
  BY DEF Arrive, GInv, Shape
<1>2. \A q \in Requests : q # r => request'[q] = request[q]
  BY <1>1
<1>3. request'[r].pc = pc /\ request'[r].answers = <<>>
  BY <1>1
<1>4. \A t \in DOMAIN tx : t[1] \in Requests /\ t[1] # r
  BY <1>1 DEF GInv, Shape, SentInOrder
<1>5. \A t \in DOMAIN tx : SentFor(t)' = SentFor(t) /\ request'[t[1]] = request[t[1]]
  BY <1>2, <1>4 DEF SentFor
<1>6. Shape'
  <2>1. request' \in [Requests -> Handlers]
    <3>1. [pc |-> pc, route |-> route, legs |-> legs, answers |-> <<>>] \in Handlers
      BY DEF Handlers
    <3> QED
      BY <1>1, <3>1
  <2> QED
    BY <1>1, <2>1 DEF GInv, Shape, chainVars
<1>7. SentInOrder'
  BY <1>1, <1>2, <1>3, <1>5 DEF GInv, SentInOrder, LegOf
<1>8. OkWasSent'
  <2>1. ASSUME NEW q \in Requests, NEW k \in 1..Len(request'[q].answers),
               request'[q].answers[k] = "OK"
        PROVE  <<q, k>> \in DOMAIN tx /\ tx[<<q, k>>] = "Ok"
    <3>1. q # r
      BY <1>3, <2>1
    <3> QED
      BY <1>2, <2>1, <3>1 DEF GInv, OkWasSent
  <2> QED
    BY <1>1, <2>1 DEF OkWasSent
<1>9. OneTxPerRecord'
  BY <1>1, <1>5 DEF GInv, OneTxPerRecord, Recorded, chainVars
<1>10. RecordsAgree' /\ Announced'
  BY <1>1 DEF GInv, RecordsAgree, Announced, SettledEventsTruthful, chainVars
<1> QED
  BY <1>6, <1>7, <1>8, <1>9, <1>10 DEF GInv

\* A handler notes an answer: OK only for a transaction that succeeded.
LEMMA AnswerKeeps ==
    ASSUME GInv, NEW r \in Requests, request[r].pc \in {"leg", "sent"},
           NEW code \in Codes, Answer(r, code), UNCHANGED <<chainVars, tx>>,
           code = "OK" => request[r].pc = "sent" /\ tx[<<r, LegOf(r)>>] = "Ok"
    PROVE  Shape' /\ RecordsAgree' /\ SentInOrder' /\ OkWasSent' /\ OneTxPerRecord'
<1> DEFINE done == IF LegOf(r) = Len(request[r].legs) THEN "done" ELSE "leg"
           n == Len(request[r].answers)
<1>1. /\ request \in [Requests -> Handlers] /\ request[r] \in Handlers
      /\ request[r].answers \in Seq(Codes) /\ n \in Nat
  BY DEF GInv, Shape, Handlers
<1>2. /\ request' \in [Requests -> Handlers]
      /\ request'[r].answers = Append(request[r].answers, code)
      /\ request'[r].pc \in {"done", "leg"} /\ request'[r].legs = request[r].legs
      /\ \A q \in Requests : q # r => request'[q] = request[q]
  <2> DEFINE noted == [request EXCEPT ![r].answers = Append(request[r].answers, code)]
  <2>1. request' = [noted EXCEPT ![r].pc = done]
    BY Zenon DEF Answer
  <2>2. /\ noted \in [Requests -> Handlers]
        /\ noted[r].answers = Append(request[r].answers, code) /\ noted[r].legs = request[r].legs
        /\ \A q \in Requests : q # r => noted[q] = request[q]
    <3> DEFINE answers == Append(request[r].answers, code)
    <3>1. answers \in Seq(Codes)
      BY <1>1
    <3> HIDE DEF answers
    <3>2. noted = [request EXCEPT ![r].answers = answers]
      BY Zenon DEF answers
    <3>3. noted \in [Requests -> Handlers] /\ noted[r].answers = answers
          /\ noted[r].legs = request[r].legs
          /\ \A q \in Requests : q # r => noted[q] = request[q]
      BY <1>1, <3>1, <3>2 DEF Handlers
    <3> QED
      BY <3>3 DEF answers
  <2> HIDE DEF noted
  <2>3. done \in {"done", "leg"}
    OBVIOUS
  <2> HIDE DEF done
  <2> QED
    BY <1>1, <2>1, <2>2, <2>3 DEF Handlers
<1>3. /\ Len(request'[r].answers) = n + 1 /\ request'[r].answers[n + 1] = code
      /\ \A k \in 1..n : request'[r].answers[k] = request[r].answers[k]
  BY <1>1, <1>2
<1>4. DOMAIN tx \subseteq Requests \X (Nat \ {0})
  BY DEF GInv, Shape
<1>5. \A t \in DOMAIN tx : SentFor(t)' = SentFor(t)
  BY <1>2, <1>4 DEF SentFor
<1>6. Shape'
  BY <1>2 DEF GInv, Shape, chainVars
<1>7. SentInOrder'
  <2>1. ASSUME NEW t \in DOMAIN tx
        PROVE  /\ request'[t[1]].pc # "idle" /\ SentFor(t)'.rail = "sol"
               /\ \/ t[2] <= Len(request'[t[1]].answers)
                  \/ t[2] = LegOf(t[1])' /\ request'[t[1]].pc \in {"sent", "dropped"}
    <3>1. /\ t[1] \in Requests /\ t[2] \in Nat
          /\ request[t[1]].pc # "idle" /\ SentFor(t).rail = "sol"
          /\ \/ t[2] <= Len(request[t[1]].answers)
             \/ t[2] = LegOf(t[1]) /\ request[t[1]].pc \in {"sent", "dropped"}
      BY <1>4 DEF GInv, SentInOrder
    <3>2. CASE t[1] = r
      BY <1>1, <1>2, <1>3, <1>5, <3>1, <3>2 DEF LegOf
    <3>3. CASE t[1] # r
      BY <1>2, <1>5, <3>1, <3>3 DEF LegOf
    <3> QED
      BY <3>2, <3>3
  <2>2. \A q \in Requests : request'[q].pc = "sent" => <<q, LegOf(q)'>> \in DOMAIN tx
    BY <1>2 DEF GInv, SentInOrder, LegOf
  <2>3. \A q \in Requests : request'[q].pc = "idle" => request'[q].answers = <<>>
    BY <1>2 DEF GInv, SentInOrder
  <2> QED
    BY <2>1, <2>2, <2>3 DEF SentInOrder
<1>8. OkWasSent'
  <2>1. ASSUME NEW q \in Requests, NEW k \in 1..Len(request'[q].answers),
               request'[q].answers[k] = "OK"
        PROVE  <<q, k>> \in DOMAIN tx /\ tx[<<q, k>>] = "Ok"
    <3>1. CASE q # r
      BY <1>2, <2>1, <3>1 DEF GInv, OkWasSent
    <3>2. CASE q = r /\ k \in 1..n
      BY <1>3, <2>1, <3>2 DEF GInv, OkWasSent
    <3>3. CASE q = r /\ k = n + 1
      BY <1>3, <2>1, <3>3 DEF GInv, SentInOrder, LegOf
    <3> QED
      BY <1>1, <1>3, <3>1, <3>2, <3>3
  <2> QED
    BY <2>1 DEF OkWasSent
<1>9. OneTxPerRecord' /\ RecordsAgree'
  BY <1>5 DEF GInv, OneTxPerRecord, Recorded, RecordsAgree, chainVars
<1> QED
  BY <1>6, <1>7, <1>8, <1>9

\* The ways a leg is answered.
LEMMA AnsweringSteps ==
    ASSUME GInv, NEW r \in Requests,
           RejectLeg(r) \/ RefuseSpl(r) \/ Confirmed(r) \/ Refused(r) \/ GiveUp(r)
    PROVE  GInv'
<1>1. UNCHANGED <<chainVars, tx, logs>>
  BY DEF RejectLeg, RefuseSpl, Confirmed, Refused, GiveUp
<1>2. CASE Confirmed(r)
  <2>1. Shape' /\ RecordsAgree' /\ SentInOrder' /\ OkWasSent' /\ OneTxPerRecord'
    <3>1. "OK" \in Codes /\ request[r].pc = "sent" /\ tx[<<r, LegOf(r)>>] = "Ok"
          /\ Answer(r, "OK")
      BY <1>2 DEF Confirmed, Codes
    <3> QED
      BY <1>1, <3>1, AnswerKeeps
  <2>2. Announced'
    <3>1. <<r, LegOf(r)>> \in DOMAIN tx /\ tx[<<r, LegOf(r)>>] = "Ok"
      BY <1>2 DEF Confirmed, GInv, SentInOrder
    <3>2. IntentOf(r).id \in DOMAIN payment
      BY <3>1 DEF GInv, OneTxPerRecord, Recorded, SentFor, IntentOf
    <3>3. bus' = bus \cup {[source |-> "gateway", type |-> "payment.settled",
                             id |-> IntentOf(r).id, request |-> r]}
      BY <1>2 DEF Confirmed, Emit
    <3> QED
      BY <1>1, <3>2, <3>3 DEF GInv, Announced, SettledEventsTruthful, chainVars
  <2> QED
    BY <2>1, <2>2 DEF GInv
<1>3. CASE RejectLeg(r)
  <2>1. Shape' /\ RecordsAgree' /\ SentInOrder' /\ OkWasSent' /\ OneTxPerRecord'
    BY <1>1, <1>3, AnswerKeeps DEF RejectLeg, Codes
  <2>2. Announced'
    BY <1>1, <1>3 DEF RejectLeg, GInv, Announced, SettledEventsTruthful, chainVars
  <2> QED
    BY <2>1, <2>2 DEF GInv
<1>4. CASE RefuseSpl(r) \/ Refused(r) \/ GiveUp(r)
  <2>1. PICK error : Fail(r, error)
    BY <1>4 DEF RefuseSpl, Refused, GiveUp
  <2>2. request[r].pc \in {"leg", "sent"}
    BY <1>4 DEF RefuseSpl, Refused, GiveUp
  <2>3. PICK code \in Codes \ {"OK"} : Answer(r, code)
    BY <2>1 DEF Fail, Codes
  <2>4. Shape' /\ RecordsAgree' /\ SentInOrder' /\ OkWasSent' /\ OneTxPerRecord'
    BY <1>1, <2>2, <2>3, AnswerKeeps
  <2>5. bus' = bus \cup {[source |-> "gateway", type |-> "payment.failed",
                           id |-> IntentOf(r).id, request |-> r]}
    BY <2>1 DEF Fail, Emit
  <2>6. Announced'
    BY <1>1, <2>5 DEF GInv, Announced, SettledEventsTruthful, chainVars
  <2> QED
    BY <2>4, <2>6 DEF GInv
<1> QED
  BY <1>2, <1>3, <1>4

\* The process goes down: what it was working on stays as it is.
LEMMA SeedTooLongKeeps ==
    ASSUME GInv, NEW r \in Requests, SeedTooLong(r)
    PROVE  GInv'
<1>1. request \in [Requests -> Handlers] /\ DOMAIN tx \subseteq Requests \X (Nat \ {0})
  BY DEF GInv, Shape
<1>2. /\ request' \in [Requests -> Handlers]
      /\ \A q \in Requests : /\ request'[q].answers = request[q].answers
                             /\ request'[q].legs = request[q].legs
                             /\ request'[q].pc = request[q].pc \/ request'[q].pc = "dropped"
  <2>1. request' = [q \in Requests |->
            IF request[q].pc \in {"leg", "sent"}
              THEN [request[q] EXCEPT !.pc = "dropped"] ELSE request[q]]
    BY DEF SeedTooLong
  <2> QED
    BY <1>1, <2>1 DEF Handlers
<1>3. UNCHANGED <<chainVars, tx, bus>> /\ logs' = {}
  BY DEF SeedTooLong
<1>4. \A t \in DOMAIN tx : t[1] \in Requests /\ SentFor(t)' = SentFor(t)
  BY <1>1, <1>2 DEF SentFor
<1>5. Shape'
  BY <1>2, <1>3 DEF GInv, Shape, chainVars
<1>6. SentInOrder'
  BY <1>2, <1>3, <1>4 DEF GInv, SentInOrder, LegOf
<1>7. OkWasSent'
  BY <1>2, <1>3 DEF GInv, OkWasSent
<1>8. OneTxPerRecord' /\ RecordsAgree' /\ Announced'
  BY <1>3, <1>4 DEF GInv, OneTxPerRecord, Recorded, RecordsAgree, Announced,
                    SettledEventsTruthful, chainVars
<1> QED
  BY <1>5, <1>6, <1>7, <1>8 DEF GInv

\* A transaction is sent for the leg a handler is working on.
LEMMA SendLegKeeps ==
    ASSUME GInv, NEW r \in Requests, SendLeg(r)
    PROVE  GInv'
<1> DEFINE leg == <<r, LegOf(r)>>
<1>1. /\ request \in [Requests -> Handlers] /\ DOMAIN tx \subseteq Requests \X (Nat \ {0})
      /\ LegOf(r) \in Nat \ {0} /\ Len(request[r].answers) \in Nat
      /\ tx \in [DOMAIN tx -> {"pending", "lost", "Ok"} \cup Refusals]
  BY DEF GInv, Shape, Handlers, LegOf
<1>2. /\ request' \in [Requests -> Handlers] /\ request'[r].pc = "sent"
      /\ request'[r].answers = request[r].answers /\ request'[r].legs = request[r].legs
      /\ \A q \in Requests : q # r => request'[q] = request[q]
      /\ request[r].pc = "leg" /\ IntentOf(r).rail = "sol"
  BY <1>1 DEF SendLeg, Handlers
<1>3. UNCHANGED <<chainVars, bus, logs>>
  BY DEF SendLeg
<1>4. leg \notin DOMAIN tx
  BY <1>1, <1>2 DEF GInv, SentInOrder, LegOf
<1>5. /\ DOMAIN tx' = DOMAIN tx \cup {leg} /\ tx'[leg] = "pending"
      /\ \A t \in DOMAIN tx : tx'[t] = tx[t]
      /\ tx' \in [DOMAIN tx' -> {"pending", "lost", "Ok"} \cup Refusals]
  BY <1>1, <1>4 DEF SendLeg
<1>6. \A t \in DOMAIN tx \cup {leg} : SentFor(t)' = SentFor(t)
  BY <1>1, <1>2 DEF SentFor
<1>7. SentFor(leg).rail = "sol"
  BY <1>2 DEF SentFor, IntentOf
<1>8. Shape'
  BY <1>1, <1>2, <1>3, <1>5 DEF GInv, Shape, chainVars
<1>9. SentInOrder'
  <2>1. ASSUME NEW t \in DOMAIN tx'
        PROVE  /\ request'[t[1]].pc # "idle" /\ SentFor(t)'.rail = "sol"
               /\ \/ t[2] <= Len(request'[t[1]].answers)
                  \/ t[2] = LegOf(t[1])' /\ request'[t[1]].pc \in {"sent", "dropped"}
    <3>1. CASE t = leg
      BY <1>2, <1>6, <1>7, <3>1 DEF LegOf
    <3>2. CASE t \in DOMAIN tx
      BY <1>1, <1>2, <1>6, <3>2 DEF GInv, SentInOrder, LegOf
    <3> QED
      BY <1>5, <3>1, <3>2
  <2>2. \A q \in Requests : request'[q].pc = "sent" => <<q, LegOf(q)'>> \in DOMAIN tx'
    BY <1>2, <1>5 DEF GInv, SentInOrder, LegOf
  <2>3. \A q \in Requests : request'[q].pc = "idle" => request'[q].answers = <<>>
    BY <1>2 DEF GInv, SentInOrder
  <2> QED
    BY <2>1, <2>2, <2>3 DEF SentInOrder
<1>10. OkWasSent'
  BY <1>2, <1>5 DEF GInv, OkWasSent
<1>11. OneTxPerRecord'
  BY <1>3, <1>5, <1>6 DEF GInv, OneTxPerRecord, Recorded, chainVars
<1>12. RecordsAgree' /\ Announced'
  BY <1>3 DEF GInv, RecordsAgree, Announced, SettledEventsTruthful, chainVars
<1> QED
  BY <1>8, <1>9, <1>10, <1>11, <1>12 DEF GInv

\* A transaction gets its fate, other than success, or success with its record.
LEMMA FateKeeps ==
    ASSUME GInv, NEW t \in DOMAIN tx, tx[t] = "pending",
           NEW fate \in {"lost", "Ok"} \cup Refusals, tx' = [tx EXCEPT ![t] = fate],
           UNCHANGED <<request, bus>>,
           DOMAIN payment \subseteq DOMAIN payment',
           \A id \in DOMAIN payment : payment'[id] = payment[id],
           fate = "Ok" => SentFor(t).id \notin DOMAIN payment /\ Recorded(SentFor(t))'
    PROVE  SentInOrder' /\ OkWasSent' /\ OneTxPerRecord' /\ SettledEventsTruthful'
           /\ tx' \in [DOMAIN tx' -> {"pending", "lost", "Ok"} \cup Refusals]
           /\ DOMAIN tx' = DOMAIN tx
<1>1. tx \in [DOMAIN tx -> {"pending", "lost", "Ok"} \cup Refusals]
  BY DEF GInv, Shape
<1>2. /\ DOMAIN tx' = DOMAIN tx /\ tx'[t] = fate
      /\ \A u \in DOMAIN tx : u # t => tx'[u] = tx[u]
      /\ tx' \in [DOMAIN tx' -> {"pending", "lost", "Ok"} \cup Refusals]
  BY <1>1
<1>3. \A u \in DOMAIN tx : SentFor(u)' = SentFor(u)
  BY DEF SentFor
<1>4. SentInOrder'
  BY <1>2, <1>3 DEF GInv, SentInOrder, LegOf
<1>5. OkWasSent'
  BY <1>2 DEF GInv, OkWasSent
<1>6. OneTxPerRecord'
  <2>1. ASSUME NEW u \in DOMAIN tx, tx'[u] = "Ok", u # t
        PROVE  Recorded(SentFor(u)) /\ Recorded(SentFor(u))'
    BY <1>2, <1>3, <2>1 DEF GInv, OneTxPerRecord, Recorded
  <2>2. \A u \in DOMAIN tx : tx'[u] = "Ok" => Recorded(SentFor(u))'
    BY <1>2, <2>1
  <2>3. ASSUME NEW u \in DOMAIN tx, NEW v \in DOMAIN tx, tx'[u] = "Ok", tx'[v] = "Ok",
               SentFor(u)'.id = SentFor(v)'.id
        PROVE  u = v
    <3>1. CASE u # t /\ v # t
      BY <1>2, <1>3, <2>3, <3>1 DEF GInv, OneTxPerRecord
    <3>2. CASE u = t /\ v # t
      BY <1>2, <1>3, <2>1, <2>3, <3>2 DEF Recorded
    <3>3. CASE u # t /\ v = t
      BY <1>2, <1>3, <2>1, <2>3, <3>3 DEF Recorded
    <3> QED
      BY <3>1, <3>2, <3>3
  <2> QED
    BY <1>2, <2>2, <2>3 DEF OneTxPerRecord
<1>7. SettledEventsTruthful'
  BY DEF GInv, Announced, SettledEventsTruthful
<1> QED
  BY <1>2, <1>4, <1>5, <1>6, <1>7

\* The cluster runs a transaction, or it is lost.
LEMMA ClusterSteps ==
    ASSUME GInv, NEW t \in DOMAIN tx, Land(t) \/ Lose(t)
    PROVE  GInv'
<1> DEFINE i == SentFor(t)
           answer == SolAnswer(i.id, i.payer = Gateway, i.payer, i.amount,
                               i.expiresAt \div TicksPerSecond)
<1>1. UNCHANGED <<request, bus>> /\ tx[t] = "pending"
      /\ request' \in [Requests -> Handlers]
      /\ DOMAIN tx \subseteq Requests \X (Nat \ {0})
  BY DEF Land, Lose, GInv, Shape
<1>2. CASE Lose(t)
  <2>1. tx' = [tx EXCEPT ![t] = "lost"] /\ UNCHANGED <<chainVars, logs>>
    BY <1>2 DEF Lose
  <2>2. UNCHANGED <<payment, transfers, nonceUsed>>
    BY <2>1 DEF chainVars
  <2>3. SentInOrder' /\ OkWasSent' /\ OneTxPerRecord' /\ SettledEventsTruthful'
        /\ tx' \in [DOMAIN tx' -> {"pending", "lost", "Ok"} \cup Refusals]
        /\ DOMAIN tx' = DOMAIN tx
    BY <1>1, <2>1, <2>2, FateKeeps
  <2>4. RecordsAgree' /\ Announced' /\ transfers' \in [IntentIds -> Nat]
    BY <2>1, <2>2, <2>3 DEF GInv, Shape, RecordsAgree, Announced
  <2> QED
    BY <1>1, <2>3, <2>4 DEF GInv, Shape
<1>3. CASE Land(t)
  <2>1. /\ tx' = [tx EXCEPT ![t] = answer]
        /\ \/ /\ SettleSol(i.id, i.payer = Gateway, i.payer, i.recipient, i.amount,
                           i.expiresAt \div TicksPerSecond)
              /\ logs' = IF subscribed THEN logs \cup {i.id} ELSE logs
           \/ tx'[t] # "Ok" /\ UNCHANGED <<chainVars, logs>>
    BY <1>3 DEF Land, SentFor
  <2>2. answer \in {"Ok"} \cup Refusals /\ (answer = "Ok" => i.id \notin DOMAIN payment)
    BY DEF SolAnswer, SettleAnswer, Refusals
  <2> HIDE DEF answer
  <2>3. CASE tx'[t] # "Ok" /\ UNCHANGED <<chainVars, logs>>
    <3>1. UNCHANGED <<payment, transfers, nonceUsed>> /\ answer # "Ok"
      BY <2>1, <2>3 DEF chainVars, GInv, Shape
    <3>2. SentInOrder' /\ OkWasSent' /\ OneTxPerRecord' /\ SettledEventsTruthful'
          /\ tx' \in [DOMAIN tx' -> {"pending", "lost", "Ok"} \cup Refusals]
          /\ DOMAIN tx' = DOMAIN tx
      BY <1>1, <2>1, <2>2, <3>1, FateKeeps
    <3>3. RecordsAgree' /\ Announced' /\ transfers' \in [IntentIds -> Nat]
      BY <2>3, <3>1, <3>2 DEF GInv, Shape, RecordsAgree, Announced
    <3> QED
      BY <1>1, <3>2, <3>3 DEF GInv, Shape
  <2>4. CASE /\ SettleSol(i.id, i.payer = Gateway, i.payer, i.recipient, i.amount,
                          i.expiresAt \div TicksPerSecond)
             /\ logs' = IF subscribed THEN logs \cup {i.id} ELSE logs
    <3>1. answer = "Ok" /\ WriteRecords(i.id, i.payer, i.recipient, i.amount, "sol")
      BY <2>4 DEF SettleSol, answer
    <3>2. /\ RecordsAgree' /\ transfers' \in [IntentIds -> Nat]
          /\ DOMAIN payment' = DOMAIN payment \cup {i.id}
          /\ \A id \in DOMAIN payment : payment'[id] = payment[id]
          /\ payment'[i.id].payer = i.payer /\ payment'[i.id].recipient = i.recipient
          /\ payment'[i.id].amount = i.amount /\ payment'[i.id].rail = "sol"
      <4>1. RecordsAgree /\ transfers \in [IntentIds -> Nat] /\ i.id \notin DOMAIN payment
        BY <2>2, <3>1 DEF GInv, Shape
      <4> HIDE DEF i
      <4> QED
        BY <3>1, <4>1, WriteAgrees
    <3>3. Recorded(i)'
      <4>1. i.rail = "sol" /\ i' = i
        BY <1>1 DEF GInv, SentInOrder, SentFor
      <4> HIDE DEF i
      <4> QED
        BY <3>2, <4>1 DEF Recorded
    <3>4. SentInOrder' /\ OkWasSent' /\ OneTxPerRecord' /\ SettledEventsTruthful'
          /\ tx' \in [DOMAIN tx' -> {"pending", "lost", "Ok"} \cup Refusals]
          /\ DOMAIN tx' = DOMAIN tx
      BY <1>1, <2>1, <2>2, <3>1, <3>2, <3>3, FateKeeps
    <3>5. Announced'
      BY <2>4, <3>2, <3>4 DEF GInv, Announced
    <3> QED
      BY <1>1, <3>2, <3>4, <3>5 DEF GInv, Shape
  <2> QED
    BY <2>1, <2>3, <2>4
<1> QED
  BY <1>2, <1>3

\* Someone else settles an id on the SPL rail.
LEMMA ElsewhereKeeps ==
    ASSUME GInv, NEW id, NEW payer, NEW recipient, NEW amount, NEW deadline, NEW from, NEW to,
           SettleSplElsewhere(id, payer, recipient, amount, deadline, from, to)
    PROVE  GInv'
<1>1. /\ WriteRecords(id, payer, recipient, amount, "spl") /\ id \notin DOMAIN payment
      /\ logs' = (IF subscribed THEN logs \cup {id} ELSE logs) /\ UNCHANGED <<request, tx, bus>>
  BY DEF SettleSplElsewhere, SettleSpl, SplAnswer, SettleAnswer
<1>2. /\ RecordsAgree' /\ transfers' \in [IntentIds -> Nat]
      /\ DOMAIN payment' = DOMAIN payment \cup {id}
      /\ \A x \in DOMAIN payment : payment'[x] = payment[x]
  BY <1>1, WriteAgrees DEF GInv, Shape
<1>3. \A t \in DOMAIN tx : SentFor(t)' = SentFor(t)
  BY <1>1 DEF SentFor
<1>4. Shape' /\ SentInOrder' /\ OkWasSent'
  BY <1>1, <1>2, <1>3 DEF GInv, Shape, SentInOrder, OkWasSent, LegOf
<1>5. OneTxPerRecord' /\ Announced'
  BY <1>1, <1>2, <1>3 DEF GInv, OneTxPerRecord, Recorded, Announced, SettledEventsTruthful
<1> QED
  BY <1>2, <1>4, <1>5 DEF GInv

\* The indexer and the clock.
LEMMA OtherSteps ==
    ASSUME GInv, StartIndexer \/ StopIndexer \/ (\E id \in logs : ProcessLogs(id)) \/ Tick
    PROVE  GInv'
<1>1. UNCHANGED <<request, tx, payment, nonceUsed, transfers>>
  BY DEF StartIndexer, StopIndexer, ProcessLogs, Tick, chainVars
<1>2. Announced'
  <2>1. CASE StartIndexer \/ StopIndexer \/ Tick
    BY <1>1, <2>1 DEF StartIndexer, StopIndexer, Tick, GInv, Announced, SettledEventsTruthful
  <2>2. CASE \E id \in logs : ProcessLogs(id)
    <3>1. PICK id \in logs : ProcessLogs(id)
      BY <2>2
    <3>2. /\ logs' = logs \ {id} /\ id \in DOMAIN payment
          /\ bus' = bus \cup {[source |-> "on-chain", type |-> "payment.settled",
                               id |-> id, request |-> "none"]}
      BY <3>1 DEF ProcessLogs, Emit, GInv, Announced
    <3> QED
      BY <1>1, <3>2 DEF GInv, Announced, SettledEventsTruthful
  <2> QED
    BY <2>1, <2>2
<1>3. \A t \in DOMAIN tx : SentFor(t)' = SentFor(t)
  BY <1>1 DEF SentFor
<1> QED
  BY <1>1, <1>2, <1>3 DEF GInv, Shape, RecordsAgree, SentInOrder, OkWasSent, OneTxPerRecord,
                          Recorded, LegOf

-----------------------------------------------------------------------------

\* The invariant holds in every reachable state.
THEOREM GatewayInvariance == Spec => []GInv
<1>1. Init => GInv
  <2> SUFFICES ASSUME Init PROVE GInv
    OBVIOUS
  <2>1. /\ \A r \in Requests : request[r].pc = "idle" /\ request[r].answers = <<>>
        /\ request \in [Requests -> Handlers]
    BY DEF Init, Handlers
  <2>2. DOMAIN tx = {} /\ tx \in [DOMAIN tx -> {"pending", "lost", "Ok"} \cup Refusals]
    BY DEF Init
  <2>3. DOMAIN payment = {} /\ nonceUsed = {} /\ transfers = [id \in IntentIds |-> 0]
    BY DEF Init, ChainInit
  <2>4. Shape /\ RecordsAgree
    BY <2>1, <2>2, <2>3 DEF Shape, RecordsAgree
  <2>5. SentInOrder /\ OkWasSent /\ OneTxPerRecord
    BY <2>1, <2>2 DEF SentInOrder, OkWasSent, OneTxPerRecord
  <2>6. Announced
    BY <2>3 DEF Init, Announced, SettledEventsTruthful
  <2> QED
    BY <2>4, <2>5, <2>6 DEF GInv
<1>2. GInv /\ [Next]_vars => GInv'
  <2> SUFFICES ASSUME GInv, [Next]_vars PROVE GInv'
    OBVIOUS
  <2>1. CASE UNCHANGED vars
    BY <2>1 DEF vars, chainVars, gatewayVars, GInv, Shape, RecordsAgree, SentInOrder, OkWasSent,
         OneTxPerRecord, Announced, SettledEventsTruthful, SentFor, Recorded, LegOf
  <2>2. ASSUME NEW r \in Requests, SubmitPay(r) \/ SubmitBatch(r) \/ Handler(r) PROVE GInv'
    <3>1. CASE SubmitPay(r)
      <4>1. \A i \in PayIntents : <<i>> \in Legs
        BY DEF Legs
      <4> QED
        BY <3>1, <4>1, ArriveKeeps DEF SubmitPay
    <3>2. CASE SubmitBatch(r)
      <4>1. PICK b \in Batches : Arrive(r, "batch", b, IF BatchAccepted(b) THEN "leg" ELSE "done")
        BY <3>2 DEF SubmitBatch
      <4>2. b \in Legs
        BY DEF Legs
      <4> QED
        BY <4>1, <4>2, ArriveKeeps
    <3>3. CASE Handler(r)
      BY <3>3, AnsweringSteps, SeedTooLongKeeps, SendLegKeeps DEF Handler
    <3> QED
      BY <2>2, <3>1, <3>2, <3>3
  <2>3. ASSUME NEW t \in DOMAIN tx, Land(t) \/ Lose(t) PROVE GInv'
    BY <2>3, ClusterSteps
  <2>4. CASE StartIndexer \/ StopIndexer \/ (\E id \in logs : ProcessLogs(id)) \/ Tick
    BY <2>4, OtherSteps
  <2>5. ASSUME NEW i \in {j \in Intents : j.rail = "spl"},
               NEW from \in TokenAccounts, NEW to \in TokenAccounts,
               SettleSplElsewhere(i.id, TokenOwner[from], i.recipient, i.amount,
                                  i.expiresAt \div TicksPerSecond, from, to)
        PROVE  GInv'
    BY <2>5, ElsewhereKeeps
  <2> QED
    BY <2>1, <2>2, <2>3, <2>4, <2>5 DEF Next
<1> QED
  BY <1>1, <1>2, PTL DEF Spec

\* The two records of an id agree, so that NonceAlreadyUsed never decides.
THEOREM RecordsAlwaysAgree == Spec => []RecordsAgree
<1>1. GInv => RecordsAgree
  BY DEF GInv
<1> QED
  BY <1>1, GatewayInvariance, PTL

\* However requests race and however late transactions land, no intent is paid
\* twice.
THEOREM PaidAtMostOnce == Spec => []PaidOncePerIntent
<1>1. RecordsAgree => PaidOncePerIntent
  BY DEF RecordsAgree, PaidOncePerIntent
<1> QED
  BY <1>1, RecordsAlwaysAgree, PTL

\* An OK is the truth about one payment, and no two OKs claim the same one.
THEOREM OkIsTruth == Spec => []OkIsExactlyOnePayment
<1>1. GInv => OkIsExactlyOnePayment
  <2> SUFFICES ASSUME GInv PROVE OkIsExactlyOnePayment
    OBVIOUS
  <2>1. ASSUME NEW t \in OkLegs
        PROVE  t \in DOMAIN tx /\ tx[t] = "Ok" /\ t = <<t[1], t[2]>>
    <3>1. /\ t = <<t[1], t[2]>> /\ t[1] \in Requests /\ t[2] \in 1..8
          /\ t[2] <= Len(request[t[1]].answers) /\ request[t[1]].answers[t[2]] = "OK"
      BY DEF OkLegs
    <3>2. Len(request[t[1]].answers) \in Nat
      BY <3>1 DEF GInv, Shape, Handlers
    <3> QED
      BY <3>1, <3>2 DEF GInv, OkWasSent
  <2>2. \A t \in OkLegs : Recorded(SentFor(t))
    BY <2>1 DEF GInv, OneTxPerRecord
  <2>3. \A t, u \in OkLegs : SentFor(t).id = SentFor(u).id => t = u
    BY <2>1 DEF GInv, OneTxPerRecord
  <2> QED
    BY <2>2, <2>3 DEF OkIsExactlyOnePayment, Recorded, SentFor
<1> QED
  BY <1>1, GatewayInvariance, PTL

\* A payment.settled event, from either source, is about a payment on chain.
THEOREM EventsTruthful == Spec => []SettledEventsTruthful
<1>1. GInv => SettledEventsTruthful
  BY DEF GInv, Announced
<1> QED
  BY <1>1, GatewayInvariance, PTL

\* The gateway's answers and its events only tell of payments that took place.
THEOREM AnswersTrue == Spec => []AnswersTruthful
<1>1. OkIsExactlyOnePayment /\ SettledEventsTruthful => AnswersTruthful
  BY DEF AnswersTruthful
<1> QED
  BY <1>1, OkIsTruth, EventsTruthful, PTL

-----------------------------------------------------------------------------
(* Type correctness: the legs a handler or a transaction works on exist, and  *)
(* no account is overdrawn.                                                  *)

\* A handler that has not finished has a leg to work on; none answers more legs
\* than it was handed.
InLegs ==
    \A r \in Requests :
        /\ request[r].pc \in {"leg", "sent", "dropped"} => LegOf(r) <= Len(request[r].legs)
        /\ Len(request[r].answers) <= Len(request[r].legs)

Events == [source : {"gateway", "on-chain"}, type : {"payment.settled", "payment.failed"},
           id : IntentIds, request : Requests \cup {"none"}]

\* What the gateway holds besides its handlers and transactions.
GatewayTyped ==
    /\ now \in Nat /\ subscribed \in BOOLEAN
    /\ bus \subseteq Events /\ logs \subseteq IntentIds /\ db \subseteq IntentIds

TypesInv == GInv /\ InLegs /\ ChainTypeOK /\ GatewayTyped

\* Requests carry sequences of well-typed intents.
LEMMA LegsTyped ==
    ASSUME NEW legs \in Legs \cup {<<>>}
    PROVE  /\ Len(legs) \in Nat
           /\ \A k \in 1..Len(legs) : legs[k] \in Intents
           /\ legs # <<>> => Len(legs) \in Nat \ {0}
<1>1. CASE legs = <<>>
  BY <1>1
<1>2. ASSUME NEW i \in PayIntents, legs = <<i>> PROVE legs[1] \in Intents /\ Len(legs) = 1
  BY <1>2 DEF Intents
<1>3. ASSUME legs \in Batches PROVE \E n \in 1..8 : legs \in [1..n -> Intents]
  BY <1>3, IntentAssumption
<1>4. ASSUME NEW n \in 1..8, legs \in [1..n -> Intents]
      PROVE  Len(legs) = n /\ \A k \in 1..n : legs[k] \in Intents
  BY <1>4
<1> QED
  BY <1>1, <1>2, <1>3, <1>4 DEF Legs

\* The leg a handler works on is an intent.
LEMMA LegIsIntent ==
    ASSUME TypesInv, NEW r \in Requests, request[r].pc \in {"leg", "sent", "dropped"}
    PROVE  IntentOf(r) \in Intents /\ IntentOf(r).id \in IntentIds
<1>1. /\ request[r].legs \in Legs \cup {<<>>} /\ request[r].answers \in Seq(Codes)
      /\ LegOf(r) <= Len(request[r].legs)
  BY DEF TypesInv, GInv, Shape, Handlers, InLegs
<1>2. LegOf(r) \in 1..Len(request[r].legs)
  BY <1>1, LegsTyped DEF LegOf
<1> QED
  BY <1>1, <1>2, LegsTyped, IntentAssumption DEF IntentOf

\* A transaction was sent for an intent.
LEMMA SentForIntent ==
    ASSUME TypesInv, NEW t \in DOMAIN tx
    PROVE  SentFor(t) \in Intents
<1>1. t[1] \in Requests /\ t[2] \in Nat \ {0}
  BY DEF TypesInv, GInv, Shape
<1>2. /\ request[t[1]].legs \in Legs \cup {<<>>} /\ request[t[1]].answers \in Seq(Codes)
      /\ Len(request[t[1]].answers) <= Len(request[t[1]].legs)
      /\ request[t[1]].pc \in {"sent", "dropped"} => LegOf(t[1]) <= Len(request[t[1]].legs)
  BY <1>1 DEF TypesInv, GInv, Shape, Handlers, InLegs
<1>3. \/ t[2] <= Len(request[t[1]].answers)
      \/ t[2] = LegOf(t[1]) /\ request[t[1]].pc \in {"sent", "dropped"}
  BY DEF TypesInv, GInv, SentInOrder
<1>4. t[2] \in 1..Len(request[t[1]].legs)
  BY <1>1, <1>2, <1>3, LegsTyped
<1> QED
  BY <1>2, <1>4, LegsTyped DEF SentFor

\* A transfer that its source can pay for overdraws nobody.
LEMMA MovedTyped ==
    ASSUME NEW S, NEW funds \in [S -> Nat], NEW from \in S, NEW to, NEW amount \in Nat,
           amount <= funds[from]
    PROVE  Moved(funds, from, to, amount) \in [S -> Nat]
<1>1. ASSUME NEW x \in S
      PROVE  funds[x] - (IF x = from THEN amount ELSE 0)
                      + (IF x = to THEN amount ELSE 0) \in Nat
  <2>1. funds[x] \in Nat
    OBVIOUS
  <2> QED
    BY <2>1
<1> QED
  BY <1>1 DEF Moved

\* The records written are well typed.
LEMMA WriteTyped ==
    ASSUME TypesInv, NEW id \in IntentIds, NEW payer \in Wallets, NEW recipient \in Wallets,
           NEW amount \in Nat, NEW rail \in {"sol", "spl"},
           WriteRecords(id, payer, recipient, amount, rail), transfers' \in [IntentIds -> Nat],
           sol' \in [Wallets -> Nat], tokens' \in [TokenAccounts -> Nat], clock' \in Nat
    PROVE  ChainTypeOK'
<1>1. PICK ids \in SUBSET IntentIds : payment \in [ids -> PaymentRecord]
  BY DEF TypesInv, ChainTypeOK
<1>2. [payer |-> payer, recipient |-> recipient, amount |-> amount, rail |-> rail,
       settledAt |-> clock] \in PaymentRecord
  BY DEF TypesInv, ChainTypeOK, PaymentRecord
<1>3. payment' \in [ids \cup {id} -> PaymentRecord]
  BY <1>1, <1>2 DEF WriteRecords
<1>4. nonceUsed' \subseteq IntentIds
  BY DEF TypesInv, ChainTypeOK, WriteRecords
<1>5. \E s \in SUBSET IntentIds : payment' \in [s -> PaymentRecord]
  BY <1>1, <1>3
<1> QED
  BY <1>4, <1>5 DEF ChainTypeOK

\* The chain is left alone.
LEMMA ChainStays ==
    ASSUME TypesInv, UNCHANGED chainVars
    PROVE  ChainTypeOK'
  BY DEF TypesInv, ChainTypeOK, chainVars, PaymentRecord

\* A handler that notes an answer goes on to its next leg only if there is one.
LEMMA AnswerInLegs ==
    ASSUME TypesInv, NEW r \in Requests, request[r].pc \in {"leg", "sent"},
           NEW code \in Codes, Answer(r, code)
    PROVE  InLegs'
<1> DEFINE done == IF LegOf(r) = Len(request[r].legs) THEN "done" ELSE "leg"
           noted == [request EXCEPT ![r].answers = Append(request[r].answers, code)]
<1>1. /\ request \in [Requests -> Handlers] /\ request[r].answers \in Seq(Codes)
      /\ request[r].legs \in Legs \cup {<<>>} /\ LegOf(r) <= Len(request[r].legs)
  BY DEF TypesInv, GInv, Shape, Handlers, InLegs
<1>2. request' = [noted EXCEPT ![r].pc = done]
  BY Zenon DEF Answer
<1>3. /\ request'[r].answers = Append(request[r].answers, code)
      /\ request'[r].pc = done /\ request'[r].legs = request[r].legs
      /\ \A q \in Requests : q # r => request'[q] = request[q]
  <2> HIDE DEF done
  <2>1. /\ DOMAIN request = Requests /\ DOMAIN request[r] = {"pc", "route", "legs", "answers"}
    BY <1>1 DEF Handlers
  <2> QED
    BY <1>2, <2>1
<1>4. Len(request'[r].answers) = LegOf(r) /\ LegOf(r) \in Nat
  BY <1>1, <1>3 DEF LegOf
<1>5. Len(request[r].legs) \in Nat
  BY <1>1, LegsTyped
<1>6. /\ request'[r].pc \in {"leg", "sent", "dropped"} =>
             Len(request'[r].answers) + 1 <= Len(request'[r].legs)
      /\ Len(request'[r].answers) <= Len(request'[r].legs)
  BY <1>1, <1>3, <1>4, <1>5
<1> QED
  BY <1>3, <1>6 DEF TypesInv, InLegs, LegOf

\* The requests stay within their legs at every step.
LEMMA LegsStay ==
    ASSUME TypesInv, NEW r \in Requests, SubmitPay(r) \/ SubmitBatch(r) \/ Handler(r)
    PROVE  InLegs'
<1>1. request \in [Requests -> Handlers]
  BY DEF TypesInv, GInv, Shape
<1>2. ASSUME NEW route, NEW legs \in Legs \cup {<<>>}, NEW pc \in {"leg", "done"},
             pc = "leg" => legs # <<>>, Arrive(r, route, legs, pc)
      PROVE  InLegs'
  <2>1. /\ request'[r].pc = pc /\ request'[r].legs = legs /\ request'[r].answers = <<>>
        /\ \A q \in Requests : q # r => request'[q] = request[q]
    BY <1>1, <1>2 DEF Arrive
  <2>2. Len(legs) \in Nat /\ (pc = "leg" => Len(legs) \in Nat \ {0})
    BY <1>2, LegsTyped
  <2>3. /\ request'[r].pc \in {"leg", "sent", "dropped"} =>
               Len(request'[r].answers) + 1 <= Len(request'[r].legs)
        /\ Len(request'[r].answers) <= Len(request'[r].legs)
    BY <2>1, <2>2
  <2> QED
    BY <2>1, <2>3 DEF TypesInv, InLegs, LegOf
<1>3. CASE SubmitPay(r)
  <2>1. \A i \in PayIntents : <<i>> \in Legs /\ <<i>> # <<>>
    BY DEF Legs
  <2> QED
    BY <1>2, <1>3, <2>1 DEF SubmitPay
<1>4. CASE SubmitBatch(r)
  <2>1. PICK b \in Batches : Arrive(r, "batch", b, IF BatchAccepted(b) THEN "leg" ELSE "done")
    BY <1>4 DEF SubmitBatch
  <2>2. b \in Legs
    BY DEF Legs
  <2>3. b # <<>>
    <3>1. PICK n \in 1..8 : b \in [1..n -> Intents]
      BY IntentAssumption
    <3>2. Len(b) = n
      BY <3>1
    <3> QED
      BY <3>2
  <2> QED
    BY <1>2, <2>1, <2>2, <2>3
<1>5. CASE SendLeg(r) \/ SeedTooLong(r)
  <2>1. \A q \in Requests :
            /\ request'[q].legs = request[q].legs /\ request'[q].answers = request[q].answers
            /\ request'[q].pc \in {"leg", "sent", "dropped"} =>
                   request[q].pc \in {"leg", "sent", "dropped"}
    <3>1. CASE SendLeg(r)
      BY <1>1, <3>1 DEF SendLeg, Handlers
    <3>2. CASE SeedTooLong(r)
      <4>1. \A q \in Requests : request'[q] =
                IF request[q].pc \in {"leg", "sent"}
                  THEN [request[q] EXCEPT !.pc = "dropped"] ELSE request[q]
        BY <3>2 DEF SeedTooLong
      <4>2. \A q \in Requests : request[q] \in Handlers
        BY <1>1
      <4> QED
        BY <4>1, <4>2 DEF Handlers
    <3> QED
      BY <1>5, <3>1, <3>2
  <2> QED
    BY <2>1 DEF TypesInv, InLegs, LegOf
<1>6. CASE RejectLeg(r) \/ Confirmed(r)
  BY <1>6, AnswerInLegs DEF RejectLeg, Confirmed, Codes
<1>7. CASE RefuseSpl(r) \/ Refused(r) \/ GiveUp(r)
  <2>1. PICK error : Fail(r, error)
    BY <1>7 DEF RefuseSpl, Refused, GiveUp
  <2>2. PICK code \in Codes : Answer(r, code)
    BY <2>1 DEF Fail, Codes
  <2>3. request[r].pc \in {"leg", "sent"}
    BY <1>7 DEF RefuseSpl, Refused, GiveUp
  <2> QED
    BY <2>2, <2>3, AnswerInLegs
<1> QED
  BY <1>3, <1>4, <1>5, <1>6, <1>7 DEF Handler

\* Handlers leave the chain alone and emit events about intents.
LEMMA HandlersTyped ==
    ASSUME TypesInv, NEW r \in Requests, SubmitPay(r) \/ SubmitBatch(r) \/ Handler(r)
    PROVE  ChainTypeOK' /\ GatewayTyped'
<1>1. ASSUME NEW type \in {"payment.settled", "payment.failed"},
             request[r].pc \in {"leg", "sent"}, Emit("gateway", type, IntentOf(r).id, r)
      PROVE  bus' \subseteq Events
  <2>1. IntentOf(r).id \in IntentIds
    BY <1>1, LegIsIntent
  <2>2. [source |-> "gateway", type |-> type, id |-> IntentOf(r).id, request |-> r] \in Events
    BY <1>1, <2>1 DEF Events
  <2> QED
    BY <1>1, <2>2 DEF Emit, TypesInv, GatewayTyped
<1>2. CASE SubmitPay(r) \/ SubmitBatch(r) \/ RejectLeg(r) \/ SendLeg(r)
  <2>1. UNCHANGED <<chainVars, now, bus, subscribed, logs, db>>
    BY <1>2 DEF SubmitPay, SubmitBatch, Arrive, RejectLeg, SendLeg
  <2> QED
    BY <2>1, ChainStays DEF TypesInv, GatewayTyped, Events
<1>3. CASE SeedTooLong(r)
  <2>1. UNCHANGED <<chainVars, now, bus, db>> /\ subscribed' = FALSE /\ logs' = {}
    BY <1>3 DEF SeedTooLong
  <2> QED
    BY <2>1, ChainStays DEF TypesInv, GatewayTyped, Events
<1>4. CASE RefuseSpl(r) \/ Confirmed(r) \/ Refused(r) \/ GiveUp(r)
  <2>1. UNCHANGED <<chainVars, now, subscribed, logs, db>> /\ request[r].pc \in {"leg", "sent"}
    BY <1>4 DEF RefuseSpl, Confirmed, Refused, GiveUp
  <2>2. \E type \in {"payment.settled", "payment.failed"} :
            Emit("gateway", type, IntentOf(r).id, r)
    BY <1>4 DEF RefuseSpl, Confirmed, Refused, GiveUp, Fail
  <2>3. bus' \subseteq Events
    BY <1>1, <2>1, <2>2
  <2> QED
    BY <2>1, <2>3, ChainStays DEF TypesInv, GatewayTyped, Events
<1> QED
  BY <1>2, <1>3, <1>4 DEF Handler

\* A settlement that succeeds spends what its payer holds.
LEMMA SettlementTyped ==
    ASSUME TypesInv, transfers' \in [IntentIds -> Nat], NEW i \in Intents, NEW signed, NEW deadline
    PROVE  /\ SettleSol(i.id, signed, i.payer, i.recipient, i.amount, deadline) => ChainTypeOK'
           /\ \A from, to \in TokenAccounts :
                 SettleSpl(i.id, signed, TokenOwner[from], i.recipient, i.amount, deadline,
                           from, to) => ChainTypeOK'
<1>1. /\ i.id \in IntentIds /\ i.payer \in Wallets /\ i.recipient \in Wallets
      /\ i.amount \in Nat
  BY IntentAssumption
<1>2. /\ sol \in [Wallets -> Nat] /\ tokens \in [TokenAccounts -> Nat] /\ clock \in Nat
  BY DEF TypesInv, ChainTypeOK
<1>3. ASSUME SettleSol(i.id, signed, i.payer, i.recipient, i.amount, deadline)
      PROVE  ChainTypeOK'
  <2>1. i.amount <= sol[i.payer]
    BY <1>1, <1>2, <1>3 DEF SettleSol, SolAnswer, SettleAnswer
  <2>2. sol' \in [Wallets -> Nat]
    BY <1>1, <1>2, <1>3, <2>1, MovedTyped DEF SettleSol
  <2> QED
    BY <1>1, <1>2, <1>3, <2>2, WriteTyped DEF SettleSol
<1>4. ASSUME NEW from \in TokenAccounts, NEW to \in TokenAccounts,
             SettleSpl(i.id, signed, TokenOwner[from], i.recipient, i.amount, deadline, from, to)
      PROVE  ChainTypeOK'
  <2>1. i.amount <= tokens[from] /\ TokenOwner[from] \in Wallets
    BY <1>1, <1>2, <1>4, VerifierAssumption DEF SettleSpl, SplAnswer, SettleAnswer, TokenAccounts
  <2>2. tokens' \in [TokenAccounts -> Nat]
    BY <1>1, <1>2, <1>4, <2>1, MovedTyped DEF SettleSpl
  <2> QED
    BY <1>1, <1>2, <1>4, <2>1, <2>2, WriteTyped DEF SettleSpl
<1> QED
  BY <1>3, <1>4

\* Transactions that land or are lost.
LEMMA ClusterTyped ==
    ASSUME TypesInv, transfers' \in [IntentIds -> Nat], NEW t \in DOMAIN tx, Land(t) \/ Lose(t)
    PROVE  ChainTypeOK' /\ GatewayTyped'
<1> DEFINE i == SentFor(t)
<1>1. i \in Intents /\ i.id \in IntentIds
  BY SentForIntent, IntentAssumption
<1>2. UNCHANGED <<now, bus, subscribed, db>>
  BY DEF Land, Lose
<1>3. CASE UNCHANGED <<chainVars, logs>>
  BY <1>2, <1>3, ChainStays DEF TypesInv, GatewayTyped, Events
<1>4. CASE /\ SettleSol(i.id, i.payer = Gateway, i.payer, i.recipient, i.amount,
                        i.expiresAt \div TicksPerSecond)
           /\ logs' = IF subscribed THEN logs \cup {i.id} ELSE logs
  <2>1. ChainTypeOK'
    <3> HIDE DEF i
    <3> QED
      BY <1>1, <1>4, SettlementTyped
  <2> QED
    BY <1>1, <1>2, <1>4, <2>1 DEF TypesInv, GatewayTyped, Events
<1> QED
  BY <1>3, <1>4 DEF Land, Lose, SentFor

\* Everybody else.
LEMMA OthersTyped ==
    ASSUME TypesInv, transfers' \in [IntentIds -> Nat],
           \/ StartIndexer \/ StopIndexer \/ (\E id \in logs : ProcessLogs(id)) \/ Tick
           \/ \E i \in {j \in Intents : j.rail = "spl"}, from, to \in TokenAccounts :
                SettleSplElsewhere(i.id, TokenOwner[from], i.recipient, i.amount,
                                   i.expiresAt \div TicksPerSecond, from, to)
    PROVE  ChainTypeOK' /\ GatewayTyped' /\ UNCHANGED request
<1>1. CASE StartIndexer \/ StopIndexer
  BY <1>1, ChainStays DEF StartIndexer, StopIndexer, TypesInv, GatewayTyped, Events
<1>2. ASSUME NEW id \in logs, ProcessLogs(id) PROVE ChainTypeOK' /\ GatewayTyped'
  <2>1. [source |-> "on-chain", type |-> "payment.settled", id |-> id, request |-> "none"]
            \in Events
    BY DEF TypesInv, GatewayTyped, Events
  <2>2. bus' \subseteq Events
    BY <1>2, <2>1 DEF ProcessLogs, Emit, TypesInv, GatewayTyped
  <2> QED
    BY <1>2, <2>2, ChainStays DEF ProcessLogs, TypesInv, GatewayTyped, Events
<1>3. CASE Tick
  <2>1. now' \in Nat /\ TicksPerSecond \in Nat \ {0}
    BY <1>3, GatewayAssumption DEF Tick, TypesInv, GatewayTyped
  <2>2. clock' \in Nat
    BY <1>3, <2>1 DEF Tick
  <2>3. ChainTypeOK'
    BY <1>3, <2>2 DEF Tick, TypesInv, ChainTypeOK, PaymentRecord
  <2> QED
    BY <1>3, <2>1, <2>3 DEF Tick, TypesInv, GatewayTyped, Events
<1>4. ASSUME NEW i \in Intents, NEW from \in TokenAccounts, NEW to \in TokenAccounts,
             SettleSplElsewhere(i.id, TokenOwner[from], i.recipient, i.amount,
                                i.expiresAt \div TicksPerSecond, from, to)
      PROVE  ChainTypeOK' /\ GatewayTyped'
  <2>1. ChainTypeOK' /\ i.id \in IntentIds
    BY <1>4, SettlementTyped, IntentAssumption DEF SettleSplElsewhere
  <2> QED
    BY <1>4, <2>1 DEF SettleSplElsewhere, TypesInv, GatewayTyped, Events
<1>5. UNCHANGED request
  BY DEF StartIndexer, StopIndexer, ProcessLogs, Tick, SettleSplElsewhere
<1> QED
  BY <1>1, <1>2, <1>3, <1>4, <1>5

\* For any wallets, balances, intents, batches and number of requests.
THEOREM TypesInvariance == Spec => []TypesInv
<1>1. Init => InLegs /\ ChainTypeOK /\ GatewayTyped
  <2> SUFFICES ASSUME Init PROVE InLegs /\ ChainTypeOK /\ GatewayTyped
    OBVIOUS
  <2>1. InLegs
    BY DEF Init, InLegs
  <2>2. payment \in [{} -> PaymentRecord]
    BY DEF Init, ChainInit
  <2>3. ChainTypeOK
    BY <2>2, VerifierAssumption DEF Init, ChainInit, ChainTypeOK, TokenAccounts
  <2> QED
    BY <2>1, <2>3 DEF Init, GatewayTyped
<1>2. TypesInv /\ GInv' /\ [Next]_vars => InLegs' /\ ChainTypeOK' /\ GatewayTyped'
  <2> SUFFICES ASSUME TypesInv, GInv', [Next]_vars
               PROVE  InLegs' /\ ChainTypeOK' /\ GatewayTyped'
    OBVIOUS
  <2>0. transfers' \in [IntentIds -> Nat]
    BY DEF GInv, Shape
  <2>1. CASE UNCHANGED vars
    BY <2>1, ChainStays DEF vars, gatewayVars, TypesInv, GatewayTyped, Events, InLegs, LegOf
  <2>2. ASSUME NEW r \in Requests, SubmitPay(r) \/ SubmitBatch(r) \/ Handler(r)
        PROVE  InLegs' /\ ChainTypeOK' /\ GatewayTyped'
    BY <2>2, LegsStay, HandlersTyped
  <2>3. ASSUME UNCHANGED request PROVE InLegs'
    BY <2>3 DEF TypesInv, InLegs, LegOf
  <2>4. ASSUME NEW t \in DOMAIN tx, Land(t) \/ Lose(t)
        PROVE  InLegs' /\ ChainTypeOK' /\ GatewayTyped'
    <3>1. UNCHANGED request
      BY <2>4 DEF Land, Lose
    <3> QED
      BY <2>0, <2>3, <2>4, <3>1, ClusterTyped
  <2>5. CASE \/ StartIndexer \/ StopIndexer \/ (\E id \in logs : ProcessLogs(id)) \/ Tick
             \/ \E i \in {j \in Intents : j.rail = "spl"}, from, to \in TokenAccounts :
                  SettleSplElsewhere(i.id, TokenOwner[from], i.recipient, i.amount,
                                     i.expiresAt \div TicksPerSecond, from, to)
    BY <2>0, <2>3, <2>5, OthersTyped
  <2> QED
    BY <2>1, <2>2, <2>4, <2>5 DEF Next
<1> QED
  BY <1>1, <1>2, GatewayInvariance, PTL DEF Spec, TypesInv

\* Every state is well typed: no account is overdrawn, by whatever rail and in
\* whatever order transactions land, and every answer and event is about a leg
\* that was handed in.
THEOREM TypeCorrect == Spec => []TypeOK
<1>1. TypesInv => TypeOK
  <2> SUFFICES ASSUME TypesInv PROVE TypeOK
    OBVIOUS
  <2>1. \A t \in DOMAIN tx : /\ t \in Requests \X Nat
                             /\ tx[t] \in {"pending", "lost", "Ok"} \cup Refusals
    BY DEF TypesInv, GInv, Shape
  <2> QED
    BY <2>1 DEF TypesInv, GInv, Shape, Handlers, TypeOK, GatewayTyped, Events
<1> QED
  BY <1>1, TypesInvariance, PTL

=============================================================================
