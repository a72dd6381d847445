---------------------------- MODULE ClientsProofs ----------------------------
(***************************************************************************)
(* The clients, for any parameters and any order of their callbacks.       *)
(* GatewayClient: what a client is told is true, and a wait times out only *)
(* when it may.  AgentLinks: no connection shows a payment nobody makes,   *)
(* names reach what they name, and reconnects are bounded by failures.     *)
(* EventFeed: reconnects do not multiply, events are handled once and in   *)
(* order, and a closed client is quiet.                                    *)
(***************************************************************************)
EXTENDS GatewayClient, AgentLinks, EventFeed, SequenceTheorems, FiniteSetTheorems,
        WellFoundedInduction, TLAPS

-----------------------------------------------------------------------------
(* GatewayClient *)

WaitType == [pc : Waits, deadline : 0..(MaxTime + Timeout), sent : Nat, slept : Nat,
             last : {"none", "absent", "settled", "failed", "lost"}]

\* A poll is read within Latency of its start, and what it said was true then:
\* a row that was absent appears later than the poll was sent.
PollInTime ==
    /\ wait.pc \in {"asking", "answered"} => wait.sent <= now /\ now <= wait.sent + Latency
    /\ wait.pc \in {"answered", "sleeping"} =>
          /\ wait.last # "none"
          /\ wait.last = "settled" => row # Absent
          /\ wait.last = "absent" => row = Absent \/ row >= wait.sent

\* A pause begins within Latency of the poll and lasts one tick.
PauseInTime ==
    wait.pc = "sleeping" =>
       /\ wait.last \in {"absent", "failed"}
       /\ wait.slept <= now /\ now <= wait.slept + 1
       /\ wait.sent <= wait.slept /\ wait.slept <= wait.sent + Latency

TimeoutInTime ==
    wait.pc = "timeout" => now >= wait.deadline /\ TimeoutMeansLate

WaitOK ==
    /\ wait \in WaitType /\ row \in Absent..MaxTime /\ row <= now
    /\ PollInTime /\ PauseInTime /\ TimeoutInTime
    /\ wait.pc = "settled" => row # Absent

WatchOK ==
    /\ checks \in [pc : {"off", "on", "exited", "crashed"}, next : Nat, flying : Nat]
    /\ checks.pc = "exited" => row # Absent

\* withRetry sleeps and calls only while it has attempts left.
RetryOK ==
    /\ retry = [pc |-> retry.pc, calls |-> retry.calls, until |-> retry.until]
    /\ retry.pc \in {"idle", "calling", "sleeping", "returned", "threw"}
    /\ retry.calls \in 0..maxAttempts
    /\ retry.pc \in {"idle", "sleeping"} => retry.calls < maxAttempts

PayOK ==
    /\ pay \in [Pays -> {"none", "sent", "ok", "error", "threw"}]
    /\ money \in [Pays -> {"none", "pending", "paid", "dead"}]

ClientInv == now \in 0..MaxTime /\ PayOK /\ WaitOK /\ WatchOK /\ RetryOK

-----------------------------------------------------------------------------

LEMMA Durations ==
    /\ Timeout \in Nat /\ Timeout > 0 /\ WatchEvery \in Nat /\ maxAttempts \in Nat
    /\ maxAttempts > 0 /\ Latency \in Nat /\ MaxTime \in Nat /\ Absent = -1
  BY ClientAssumption, ClockAssumption DEF Absent

LEMMA WaitTypes ==
    ASSUME now \in 0..MaxTime, WaitOK
    PROVE  /\ now \in Nat /\ row \in Int
           /\ wait.sent \in Nat /\ wait.slept \in Nat /\ wait.deadline \in Nat
           /\ wait.deadline \in 0..(MaxTime + Timeout)
           /\ wait.last \in {"none", "absent", "settled", "failed", "lost"}
           /\ wait = [pc |-> wait.pc, deadline |-> wait.deadline, sent |-> wait.sent,
                      slept |-> wait.slept, last |-> wait.last]
<1>1. now \in Nat /\ row \in Int
  BY Durations DEF WaitOK
<1>2. wait \in WaitType /\ 0..(MaxTime + Timeout) \subseteq Nat
  BY Durations DEF WaitOK
<1> QED
  BY <1>1, <1>2 DEF WaitType

\* A wait in which nothing changed but, perhaps, that the row has appeared now.
LEMMA RowAppears ==
    ASSUME now \in 0..MaxTime, WaitOK, UNCHANGED <<now, wait>>,
           row' = row \/ (row = Absent /\ row' = now)
    PROVE  WaitOK'
<1>1. CASE row' = row
  BY <1>1 DEF WaitOK, PollInTime, PauseInTime, TimeoutInTime, TimeoutMeansLate
<1>2. CASE row = Absent /\ row' = now
  <2>1. /\ row' \in Absent..MaxTime /\ row' <= now /\ row' # Absent
    BY <1>2, WaitTypes, Durations
  <2>2. PollInTime'
    <3>1. wait.pc = "answered" => wait.sent <= now
      BY DEF WaitOK, PollInTime
    <3>2. wait.pc = "sleeping" => wait.sent <= now
      BY WaitTypes DEF WaitOK, PauseInTime
    <3> QED
      BY <1>2, <2>1, <3>1, <3>2 DEF WaitOK, PollInTime
  <2>3. TimeoutInTime'
    <3>1. wait.pc = "timeout" => now + 1 + Latency >= wait.deadline
      BY WaitTypes, Durations DEF WaitOK, TimeoutInTime
    <3> QED
      BY <1>2, <3>1 DEF WaitOK, TimeoutInTime, TimeoutMeansLate
  <2> QED
    BY <2>1, <2>2, <2>3 DEF WaitOK, PauseInTime
<1> QED
  BY <1>1, <1>2

\* The clock moves on only while no answer and no pause is due.
LEMMA TickKeepsWait ==
    ASSUME now \in 0..MaxTime, WaitOK, ClientTick
    PROVE  WaitOK'
<1>1. /\ now' = now + 1 /\ UNCHANGED <<wait, row>>
      /\ wait.pc \in {"asking", "answered"} => now < wait.sent + Latency
      /\ wait.pc = "sleeping" => now = wait.slept
  BY DEF ClientTick, Tick, clientVars
<1>2. row <= now + 1
  BY WaitTypes DEF WaitOK
<1>3. PollInTime'
  <2>1. wait.pc \in {"asking", "answered"} => wait.sent <= now + 1 /\ now + 1 <= wait.sent + Latency
    BY <1>1, WaitTypes, Durations DEF WaitOK, PollInTime
  <2> QED
    BY <1>1, <2>1 DEF WaitOK, PollInTime
<1>4. PauseInTime'
  <2>1. wait.pc = "sleeping" => wait.slept <= now + 1 /\ now + 1 <= wait.slept + 1
    BY <1>1, WaitTypes
  <2> QED
    BY <1>1, <2>1 DEF WaitOK, PauseInTime
<1>5. TimeoutInTime'
  <2>1. wait.pc = "timeout" => now + 1 >= wait.deadline
    BY WaitTypes DEF WaitOK, TimeoutInTime
  <2> QED
    BY <1>1, <2>1 DEF WaitOK, TimeoutInTime, TimeoutMeansLate
<1> QED
  BY <1>1, <1>2, <1>3, <1>4, <1>5 DEF WaitOK

\* A poll goes out: nothing of an earlier one matters any more.
LEMMA AskingOK ==
    ASSUME now \in 0..MaxTime, WaitOK, UNCHANGED <<now, row>>, NEW w \in WaitType,
           wait' = [w EXCEPT !.pc = "asking", !.sent = now]
    PROVE  WaitOK'
<1>1. now \in Nat
  BY WaitTypes
<1>2. wait' \in WaitType /\ wait'.pc = "asking" /\ wait'.sent = now
  BY <1>1 DEF WaitType, Waits
<1>3. now <= now + Latency
  BY <1>1, Durations
<1> QED
  BY <1>1, <1>2, <1>3 DEF WaitOK, PollInTime, PauseInTime, TimeoutInTime

LEMMA WaitBegins ==
    ASSUME now \in 0..MaxTime, WaitOK, WaitForSettlement
    PROVE  WaitOK'
<1> DEFINE w == [Idle EXCEPT !.deadline = now + Timeout]
<1>1. wait' = Loop(w) /\ UNCHANGED <<now, row>>
  BY DEF WaitForSettlement
<1>2. now \in Nat /\ now + Timeout \in 0..(MaxTime + Timeout) /\ now < now + Timeout
  BY WaitTypes, Durations
<1>3. w = [pc |-> "idle", deadline |-> now + Timeout, sent |-> 0, slept |-> 0, last |-> "none"]
  BY DEF Idle
<1>4. w \in WaitType /\ w.deadline = now + Timeout
  BY <1>2, <1>3 DEF WaitType, Waits
<1> HIDE DEF w
<1>5. wait' = [w EXCEPT !.pc = "asking", !.sent = now]
  BY <1>1, <1>2, <1>4 DEF Loop
<1> QED
  BY <1>1, <1>4, <1>5, AskingOK

\* The gateway looks for the row.
LEMMA ReadKeepsWait ==
    ASSUME now \in 0..MaxTime, WaitOK, StatusRead
    PROVE  WaitOK'
<1>1. PICK a \in StatusAnswers : wait' = [wait EXCEPT !.pc = "answered", !.last = a]
  BY DEF StatusRead
<1>2. UNCHANGED <<now, row>> /\ wait.pc = "asking"
  BY DEF StatusRead
<1>3. /\ a \in {"absent", "settled", "failed", "lost"}
      /\ a = "settled" => row # Absent
      /\ a = "absent" => row = Absent
  BY DEF StatusAnswers
<1>4. wait' = [pc |-> "answered", deadline |-> wait.deadline, sent |-> wait.sent,
               slept |-> wait.slept, last |-> a]
  BY <1>1, WaitTypes
<1>5. wait' \in WaitType
  BY <1>3, <1>4, WaitTypes DEF WaitType, Waits
<1>6. PollInTime'
  BY <1>2, <1>3, <1>4 DEF WaitOK, PollInTime
<1> QED
  BY <1>2, <1>4, <1>5, <1>6 DEF WaitOK, PauseInTime, TimeoutInTime

\* The client gets the answer.
LEMMA ReturnKeepsWait ==
    ASSUME now \in 0..MaxTime, WaitOK, StatusReturns
    PROVE  WaitOK'
<1>1. /\ UNCHANGED <<now, row>> /\ wait.pc = "answered"
      /\ wait' = [wait EXCEPT !.pc = Polled(wait.last), !.slept = now]
  BY DEF StatusReturns
<1>2. wait' = [pc |-> Polled(wait.last), deadline |-> wait.deadline, sent |-> wait.sent,
               slept |-> now, last |-> wait.last]
  BY <1>1, WaitTypes
<1>3. /\ Polled(wait.last) \in {"settled", "threw", "sleeping"}
      /\ Polled(wait.last) = "settled" => wait.last = "settled"
      /\ Polled(wait.last) = "sleeping" => wait.last \notin {"settled", "lost"}
  BY DEF Polled
<1>4. wait' \in WaitType
  BY <1>2, <1>3, WaitTypes DEF WaitType, Waits
<1>5. /\ wait.sent <= now /\ now <= wait.sent + Latency /\ wait.last # "none"
      /\ wait.last = "settled" => row # Absent
      /\ wait.last = "absent" => row = Absent \/ row >= wait.sent
  BY <1>1 DEF WaitOK, PollInTime
<1>6. PollInTime'
  BY <1>1, <1>2, <1>3, <1>5 DEF PollInTime
<1>7. PauseInTime'
  <2>1. Polled(wait.last) = "sleeping" => wait.last \in {"absent", "failed", "none"}
    BY <1>3, WaitTypes
  <2>2. now <= now + 1
    BY WaitTypes
  <2> QED
    BY <1>1, <1>2, <1>5, <2>1, <2>2, WaitTypes DEF PauseInTime
<1> QED
  BY <1>1, <1>2, <1>3, <1>4, <1>5, <1>6, <1>7 DEF WaitOK, TimeoutInTime

\* The pause is over: another poll, or the timeout.
LEMMA PauseEnds ==
    ASSUME now \in 0..MaxTime, WaitOK, PollAgain
    PROVE  WaitOK'
<1>1. /\ UNCHANGED <<now, row>> /\ wait.pc = "sleeping" /\ wait' = Loop(wait)
  BY DEF PollAgain
<1>2. CASE now < wait.deadline
  BY <1>1, <1>2, AskingOK DEF Loop, WaitOK
<1>3. CASE ~(now < wait.deadline)
  <2>1. wait' = [pc |-> "timeout", deadline |-> wait.deadline, sent |-> wait.sent,
                 slept |-> wait.slept, last |-> wait.last]
    BY <1>1, <1>3, WaitTypes DEF Loop
  <2>2. wait' \in WaitType
    BY <2>1, WaitTypes DEF WaitType, Waits
  <2>3. /\ wait.last \in {"absent", "failed"} /\ now <= wait.slept + 1
        /\ wait.slept <= wait.sent + Latency
        /\ wait.last = "absent" => row = Absent \/ row >= wait.sent
    BY <1>1 DEF WaitOK, PollInTime, PauseInTime
  <2>4. wait.last = "absent" => row = Absent \/ row + 1 + Latency >= wait.deadline
    BY <1>3, <2>3, WaitTypes, Durations
  <2>5. now >= wait.deadline
    BY <1>3, WaitTypes
  <2>6. TimeoutInTime'
    BY <1>1, <2>1, <2>3, <2>4, <2>5 DEF TimeoutInTime, TimeoutMeansLate
  <2> QED
    BY <1>1, <2>1, <2>2, <2>6 DEF WaitOK, PollInTime, PauseInTime
<1> QED
  BY <1>2, <1>3

LEMMA WaitStepKeeps ==
    ASSUME now \in 0..MaxTime, WaitOK, [ClientNext]_<<now, clientVars>>
    PROVE  WaitOK'
<1>1. ASSUME UNCHANGED <<now, wait, row>> PROVE WaitOK'
  BY <1>1, RowAppears
<1>2. CASE PayStep
  <2>1. UNCHANGED <<now, wait>> /\ (row' = row \/ (row = Absent /\ row' = now))
    BY <1>2 DEF PayStep, WriteRow, Pay, PayReturns, Land
  <2> QED
    BY <2>1, RowAppears
<1>3. CASE WatchStep \/ RetryStep \/ UNCHANGED <<now, clientVars>>
  BY <1>1, <1>3 DEF WatchStep, Watch, Interval, Check, RetryStep, Retry, CallEnds, clientVars
<1> QED
  BY <1>2, <1>3, TickKeepsWait, WaitBegins, ReadKeepsWait, ReturnKeepsWait, PauseEnds
     DEF ClientNext, WaitStep

-----------------------------------------------------------------------------

LEMMA WatchKeeps ==
    ASSUME now \in 0..MaxTime, WaitOK, WatchOK, [ClientNext]_<<now, clientVars>>
    PROVE  WatchOK'
<1>1. row # Absent => row' # Absent
  BY Durations DEF ClientNext, ClientTick, clientVars, PayStep, WriteRow, Pay, PayReturns, Land,
         WaitForSettlement, WaitStep, StatusRead, StatusReturns, PollAgain,
         WatchStep, Watch, Interval, Check, RetryStep, Retry, CallEnds
<1>2. ASSUME UNCHANGED checks PROVE WatchOK'
  BY <1>1, <1>2 DEF WatchOK
<1>3. now \in Nat /\ now + WatchEvery \in Nat
  BY WaitTypes, Durations
<1>4. CASE Watch
  BY <1>3, <1>4 DEF Watch, WatchOK
<1>5. CASE Interval
  <2>1. checks' = [checks EXCEPT !.next = now + WatchEvery, !.flying = checks.flying + 1]
        /\ checks.pc = "on"
    BY <1>5 DEF Interval
  <2>2. checks.flying + 1 \in Nat
    BY DEF WatchOK
  <2> QED
    BY <1>3, <2>1, <2>2 DEF WatchOK
<1>6. CASE Check
  <2>1. PICK a \in StatusAnswers :
            checks' = [checks EXCEPT !.flying = checks.flying - 1, !.pc = Checked(a)]
    BY <1>6 DEF Check, WatchOK
  <2>2. checks.pc = "on" /\ checks.flying > 0 /\ row' = row
    BY <1>6 DEF Check
  <2>3. /\ Checked(a) \in {"exited", "crashed", "on"}
        /\ Checked(a) = "exited" => row # Absent
    BY <2>2 DEF Checked, StatusAnswers
  <2>4. checks.flying - 1 \in Nat
    BY <2>2 DEF WatchOK
  <2> QED
    BY <2>1, <2>2, <2>3, <2>4 DEF WatchOK
<1>7. CASE ~WatchStep
  BY <1>2, <1>7 DEF ClientNext, ClientTick, clientVars, PayStep, WriteRow, Pay, PayReturns, Land,
         WaitForSettlement, WaitStep, StatusRead, StatusReturns, PollAgain,
         RetryStep, Retry, CallEnds
<1> QED
  BY <1>4, <1>5, <1>6, <1>7 DEF WatchStep

LEMMA RetryKeeps ==
    ASSUME RetryOK, [ClientNext]_<<now, clientVars>>
    PROVE  RetryOK'
<1>1. ASSUME UNCHANGED retry PROVE RetryOK'
  BY <1>1 DEF RetryOK
<1>2. CASE Retry
  <2>1. /\ retry' = [retry EXCEPT !.pc = "calling", !.calls = retry.calls + 1]
        /\ retry.pc \in {"idle", "sleeping"}
    BY <1>2 DEF Retry, RetryOK
  <2>2. retry' = [pc |-> "calling", calls |-> retry.calls + 1, until |-> retry.until]
    BY <2>1 DEF RetryOK
  <2>3. retry.calls + 1 \in 0..maxAttempts
    BY <2>1, Durations DEF RetryOK
  <2> QED
    BY <2>2, <2>3 DEF RetryOK
<1>3. ASSUME NEW ok \in BOOLEAN, CallEnds(ok) PROVE RetryOK'
  <2>1. \/ retry' = [retry EXCEPT !.pc = "returned"]
        \/ retry' = [retry EXCEPT !.pc = "threw"]
        \/ retry.calls # maxAttempts
           /\ retry' = [retry EXCEPT !.pc = "sleeping", !.until = now + Delay(retry.calls - 1)]
    BY <1>3 DEF CallEnds, GivesUp
  <2> DEFINE u == now + Delay(retry.calls - 1)
  <2> HIDE DEF u
  <2>2. \/ retry' = [pc |-> "returned", calls |-> retry.calls, until |-> retry.until]
        \/ retry' = [pc |-> "threw", calls |-> retry.calls, until |-> retry.until]
        \/ retry.calls # maxAttempts
           /\ retry' = [pc |-> "sleeping", calls |-> retry.calls, until |-> u]
    BY <2>1 DEF RetryOK, u
  <2> QED
    BY <2>2, Durations DEF RetryOK
<1>4. CASE ~RetryStep
  BY <1>1, <1>4 DEF ClientNext, ClientTick, clientVars, PayStep, WriteRow, Pay, PayReturns, Land,
         WaitForSettlement, WaitStep, StatusRead, StatusReturns, PollAgain,
         WatchStep, Watch, Interval, Check
<1> QED
  BY <1>2, <1>3, <1>4 DEF RetryStep

LEMMA PayKeeps ==
    ASSUME PayOK, [ClientNext]_<<now, clientVars>>
    PROVE  PayOK'
<1>1. CASE PayStep
  BY <1>1 DEF PayStep, WriteRow, Pay, PayReturns, Answers, Land, PayOK
<1>2. CASE ~PayStep
  BY <1>2 DEF ClientNext, ClientTick, clientVars, PayOK,
         WaitForSettlement, WaitStep, StatusRead, StatusReturns, PollAgain,
         WatchStep, Watch, Interval, Check, RetryStep, Retry, CallEnds
<1> QED
  BY <1>1, <1>2

LEMMA ClientInvStep ==
    ASSUME ClientInv, [ClientNext]_<<now, clientVars>>
    PROVE  ClientInv'
<1>1. now' \in 0..MaxTime
  <2>1. ClientTick \/ now' = now
    BY DEF ClientNext, clientVars, PayStep, WriteRow, Pay,
           PayReturns, Land, WaitForSettlement, WaitStep, StatusRead, StatusReturns, PollAgain,
           WatchStep, Watch, Interval, Check, RetryStep, Retry, CallEnds
  <2>2. ClientTick => now' = now + 1 /\ now < MaxTime
    BY DEF ClientTick, Tick
  <2>3. now \in 0..MaxTime
    BY DEF ClientInv
  <2> QED
    BY <2>1, <2>2, <2>3, Durations
<1> QED
  BY <1>1, WaitStepKeeps, WatchKeeps, RetryKeeps, PayKeeps DEF ClientInv

\* For any durations, number of attempts and order of answers.
THEOREM ClientInvariance == ClientSpec => []ClientInv
<1>1. now = 0 /\ ClientInit => ClientInv
  <2> SUFFICES ASSUME now = 0, ClientInit PROVE ClientInv
    OBVIOUS
  <2>1. 0 \in 0..MaxTime /\ 0 \in 0..(MaxTime + Timeout) /\ 0 \in 0..maxAttempts
        /\ -1 \in -1..MaxTime
    BY Durations
  <2>2. PayOK
    BY DEF ClientInit, PayOK
  <2>3. WaitOK
    BY <2>1, Durations DEF ClientInit, Idle, WaitOK, WaitType, Waits, PollInTime, PauseInTime,
           TimeoutInTime
  <2>4. WatchOK /\ RetryOK
    BY <2>1, Durations DEF ClientInit, WatchOK, RetryOK
  <2> QED
    BY <2>1, <2>2, <2>3, <2>4 DEF ClientInv
<1> QED
  BY <1>1, ClientInvStep, PTL DEF ClientSpec

\* A client told that its intent has settled was told the truth, and a wait
\* times out only when the row was late or the last poll failed.
THEOREM ClientIsSafe == ClientSpec => []ClientSafe
<1>1. ClientInv => ClientSafe
  <2> SUFFICES ASSUME ClientInv PROVE ClientSafe
    OBVIOUS
  <2>1. ClientTypeOK
    BY DEF ClientInv, PayOK, WaitOK, WaitType, WatchOK, RetryOK, ClientTypeOK
  <2>2. SettledIsTrue
    BY DEF ClientInv, WaitOK, WatchOK, SettledIsTrue
  <2>3. TimeoutMeansLate
    BY DEF ClientInv, WaitOK, TimeoutInTime, TimeoutMeansLate
  <2> QED
    BY <2>1, <2>2, <2>3 DEF ClientSafe
<1> QED
  BY <1>1, ClientInvariance, PTL

-----------------------------------------------------------------------------
(* AgentLinks *)

CallType == [pc : {"idle", "connecting", "fetching", "body"}, via : {"mcp", "fetch", "own"},
             wanted : Names \cup {Unknown}, cap : Range(Offered) \cup {Unknown}, on : Nat,
             paid : Nat, result : {"none", "refused", "failed", "ok"}]

\* A connection shows "paying" only while some call on it has not been answered:
\* every answer and every failure overwrites what the call had set.
PayingIsAwaited ==
    \A k \in DOMAIN status : status[k] = "paying" =>
        \E t \in Tasks : task[t].on = k /\ task[t].pc = "fetching"

LinksInv ==
    /\ status \in Seq({"connected", "paying", "error", "closed"})
    /\ Len(status) >= 2 /\ cached \in {None} \cup 3..Len(status)
    /\ task \in [Tasks -> CallType]
    /\ \A t \in Tasks : task[t].on <= Len(status)
    /\ \A t \in Tasks : task[t].pc = "connecting" => task[t].wanted \in Names
    /\ PayingIsAwaited /\ ReachesNamed

-----------------------------------------------------------------------------
(* find() and the names *)

\* A set of positions that is not empty has a first one.
LEMMA FirstExists ==
    ASSUME NEW S \in SUBSET Nat, S # {}
    PROVE  Min(S) \in S
<1> DEFINE Less == {p \in Nat \X Nat : p[1] < p[2]}
<1>1. IsWellFoundedOn(Less, Nat)
  BY NatLessThanWellFounded DEF OpToRel
<1>2. PICK x \in S : \A y \in S : ~(<<y, x>> \in Less)
  BY <1>1, WFMin
<1>3. ASSUME NEW y \in S PROVE x <= y
  <2>1. <<y, x>> \in Nat \X Nat /\ ~(<<y, x>> \in Less)
    BY <1>2
  <2>2. ~(<<y, x>>[1] < <<y, x>>[2])
    BY <2>1
  <2>3. x \in Nat /\ y \in Nat /\ ~(y < x)
    BY <2>2
  <2> QED
    BY <2>3
<1> QED
  BY <1>3 DEF Min

\* Of a name of one piece, that piece is all.
LEMMA OnePiece ==
    ASSUME NEW S, NEW s \in Seq(S), Len(s) = 1
    PROVE  <<s[1]>> = s
<1> DEFINE piece == <<s[1]>>
<1>1. s[1] \in S
  BY ElementOfSeq
<1>2. piece \in Seq(S) /\ Len(piece) = 1 /\ piece[1] = s[1]
  BY <1>1
<1> HIDE DEF piece
<1>3. piece = s
  BY <1>2, SeqEqual
<1> QED
  BY <1>3 DEF piece

\* What is chosen is offered, and passes the test.
LEMMA ChosenReaches ==
    ASSUME NEW via \in {"mcp", "fetch", "own"}, NEW name \in Names
    PROVE  /\ Chosen(via, name) \in Range(Offered) \cup {Unknown}
           /\ Chosen(via, name) # Unknown => Reaches(via, name, Chosen(via, name))
<1> DEFINE fits(i) == CASE via = "mcp" -> Offered[i] = <<name[1]>>
                        [] via = "fetch" -> IsPrefix(Offered[i], name)
                        [] OTHER -> Offered[i] = name
           found == {i \in DOMAIN Offered : fits(i)}
<1>1. Chosen(via, name) = First(found)
  BY DEF Chosen
<1>2. Offered \in Seq(Names) /\ name \in Seq(STRING) /\ name # <<>>
  BY LinksAssumption
<1>3. DOMAIN Offered = 1..Len(Offered) /\ Len(Offered) \in Nat
  BY <1>2, LenProperties
<1>4. CASE found = {}
  BY <1>1, <1>4 DEF First
<1>5. CASE found # {}
  <2>1. found \in SUBSET Nat
    BY <1>3
  <2>2. Min(found) \in found
    BY <1>5, <2>1, FirstExists
  <2> HIDE DEF found
  <2>3. PICK i \in DOMAIN Offered : i = Min(found) /\ fits(i)
    BY <2>2 DEF found
  <2>4. Chosen(via, name) = Offered[i]
    BY <1>1, <1>5, <2>3 DEF First
  <2>5. Offered[i] \in Range(Offered)
    BY DEF Range
  <2>6. Reaches(via, name, Offered[i])
    <3>1. CASE via = "fetch"
      BY <2>3, <3>1 DEF Reaches
    <3>2. CASE via = "own"
      BY <2>3, <3>2 DEF Reaches
    <3>3. CASE via = "mcp"
      <4>1. Offered[i] = <<name[1]>>
        BY <2>3, <3>3
      <4>2. Len(name) = 1 \/ Len(name) > 1
        <5> DEFINE n == Len(name)
        <5>1. n \in Nat /\ n # 0
          BY <1>2, EmptySeq, LenProperties
        <5> HIDE DEF n
        <5>2. n = 1 \/ n > 1
          BY <5>1
        <5> QED
          BY <5>2 DEF n
      <4>3. CASE Len(name) = 1
        BY <1>2, <3>3, <4>1, <4>3, OnePiece DEF Reaches
      <4>4. CASE Len(name) > 1
        BY <3>3, <4>4 DEF Reaches
      <4> QED
        BY <4>2, <4>3, <4>4
    <3> QED
      BY <3>1, <3>2, <3>3
  <2> QED
    BY <2>4, <2>5, <2>6
<1> QED
  BY <1>4, <1>5

-----------------------------------------------------------------------------
(* Steps of a call *)

Shown == {"connected", "paying", "error", "closed"}

\* The states the invariant speaks of, for any statuses and calls: what Start
\* leaves is judged against a list of connections that may have grown.
CallsOK(st, calls) ==
    /\ st \in Seq(Shown) /\ Len(st) >= 2
    /\ calls \in [Tasks -> CallType]
    /\ \A t \in Tasks :
          /\ calls[t].on <= Len(st)
          /\ calls[t].pc = "connecting" => calls[t].wanted \in Names
          /\ calls[t].cap # Unknown => Reaches(calls[t].via, calls[t].wanted, calls[t].cap)
    /\ \A k \in 1..Len(st) : st[k] = "paying" =>
          \E t \in Tasks : calls[t].on = k /\ calls[t].pc = "fetching"

LEMMA InvIs == LinksInv <=> CallsOK(status, task) /\ cached \in {None} \cup 3..Len(status)
<1>1. ASSUME status \in Seq(Shown) PROVE DOMAIN status = 1..Len(status)
  BY <1>1, LenProperties
<1> QED
  BY <1>1 DEF LinksInv, CallsOK, PayingIsAwaited, ReachesNamed, Shown

\* A call that is over: nothing is known of it but its result.
LEMMA EndedIs ==
    ASSUME NEW result \in {"none", "refused", "failed", "ok"}
    PROVE  /\ Ended(result) \in CallType /\ Ended(result).on = 0 /\ Ended(result).cap = Unknown
           /\ Ended(result).pc = "idle"
<1>1. Ended(result) = [pc |-> "idle", via |-> "own", wanted |-> Unknown, cap |-> Unknown,
                       on |-> 0, paid |-> 0, result |-> result]
  BY DEF Ended, Rest, None
<1> QED
  BY <1>1 DEF CallType

\* One call changes, from one that does not await an answer, and no connection
\* shows "paying" that did not before unless the call awaits its answer.
LEMMA OneCallChanges ==
    ASSUME NEW st, NEW calls, CallsOK(st, calls), NEW next, NEW t \in Tasks,
           NEW c \in CallType, next \in Seq(Shown), Len(next) = Len(st),
           c.on <= Len(st), c.pc = "connecting" => c.wanted \in Names,
           c.cap # Unknown => Reaches(c.via, c.wanted, c.cap),
           \A k \in 1..Len(st) : next[k] = "paying" =>
              \/ c.on = k /\ c.pc = "fetching"
              \/ st[k] = "paying" /\ ~(calls[t].pc = "fetching" /\ calls[t].on = k)
    PROVE  CallsOK(next, [calls EXCEPT ![t] = c])
<1> DEFINE after == [calls EXCEPT ![t] = c]
<1>1. calls \in [Tasks -> CallType]
  BY DEF CallsOK
<1>2. after \in [Tasks -> CallType] /\ after[t] = c /\ \A u \in Tasks : u # t => after[u] = calls[u]
  BY <1>1
<1> HIDE DEF after
<1>3. ASSUME NEW k \in 1..Len(next), next[k] = "paying"
      PROVE  \E u \in Tasks : after[u].on = k /\ after[u].pc = "fetching"
  <2>1. CASE c.on = k /\ c.pc = "fetching"
    BY <1>2, <2>1
  <2>2. CASE st[k] = "paying" /\ ~(calls[t].pc = "fetching" /\ calls[t].on = k)
    <3>1. PICK u \in Tasks : calls[u].on = k /\ calls[u].pc = "fetching"
      BY <1>3, <2>2 DEF CallsOK
    <3>2. u # t
      BY <2>2, <3>1
    <3> QED
      BY <1>2, <3>1, <3>2
  <2> QED
    BY <1>3, <2>1, <2>2
<1>4. ASSUME NEW u \in Tasks
      PROVE  /\ after[u].on <= Len(next)
             /\ after[u].pc = "connecting" => after[u].wanted \in Names
             /\ after[u].cap # Unknown => Reaches(after[u].via, after[u].wanted, after[u].cap)
  BY <1>2 DEF CallsOK
<1>5. Len(next) >= 2
  BY DEF CallsOK
<1>6. CallsOK(next, after)
  BY <1>2, <1>3, <1>4, <1>5 DEF CallsOK
<1> QED
  BY <1>6 DEF after

\* AgentConnection.call on a connection, up to its await.
LEMMA StartKeeps ==
    ASSUME NEW st, CallsOK(st, task), NEW t \in Tasks, task[t].pc # "fetching",
           NEW via \in {"mcp", "fetch", "own"}, NEW name \in Names, NEW k \in 1..Len(st),
           Start(t, via, name, k, st)
    PROVE  CallsOK(status', task') /\ Len(status') = Len(st)
<1> DEFINE cap == Chosen(via, name)
           next == [pc |-> "fetching", via |-> via, wanted |-> name, cap |-> cap, on |-> k,
                    paid |-> 0, result |-> "none"]
<1>1. st \in Seq(Shown) /\ Len(st) \in Nat
  BY LenProperties DEF CallsOK
<1>2. cap \in Range(Offered) \cup {Unknown} /\ (cap # Unknown => Reaches(via, name, cap))
  BY ChosenReaches
<1> HIDE DEF cap
<1>3. \/ task' = [task EXCEPT ![t] = Ended("refused")] /\ status' = st
      \/ task' = [task EXCEPT ![t] = next] /\ status' = [st EXCEPT ![k] = "paying"]
  BY DEF Start, Rest, cap
<1>4. CASE task' = [task EXCEPT ![t] = Ended("refused")] /\ status' = st
  <2>1. CallsOK(st, [task EXCEPT ![t] = Ended("refused")])
    BY <1>1, EndedIs, OneCallChanges
  <2> QED
    BY <1>4, <2>1
<1>5. CASE task' = [task EXCEPT ![t] = next] /\ status' = [st EXCEPT ![k] = "paying"]
  <2> DEFINE paying == [st EXCEPT ![k] = "paying"]
  <2>1. /\ next \in CallType /\ next.on = k /\ next.pc = "fetching" /\ next.cap = cap
        /\ next.wanted = name /\ next.via = via
    BY <1>1, <1>2 DEF CallType
  <2>2. /\ paying \in Seq(Shown) /\ Len(paying) = Len(st)
        /\ \A j \in 1..Len(st) : paying[j] = IF j = k THEN "paying" ELSE st[j]
    <3>1. "paying" \in Shown
      BY DEF Shown
    <3> QED
      BY <1>1, <3>1, ExceptSeq
  <2> HIDE DEF next, paying
  <2>3. \A j \in 1..Len(st) : paying[j] = "paying" =>
           \/ next.on = j /\ next.pc = "fetching"
           \/ st[j] = "paying" /\ ~(task[t].pc = "fetching" /\ task[t].on = j)
    BY <2>1, <2>2
  <2>4. /\ next.on <= Len(st) /\ (next.pc = "connecting" => next.wanted \in Names)
        /\ (next.cap # Unknown => Reaches(next.via, next.wanted, next.cap))
    BY <1>1, <1>2, <2>1
  <2>5. CallsOK(paying, [task EXCEPT ![t] = next])
    BY <2>1, <2>2, <2>3, <2>4, OneCallChanges
  <2> QED
    BY <1>5, <2>2, <2>5 DEF paying
<1> QED
  BY <1>3, <1>4, <1>5

\* Another connection is made.
LEMMA GrownOK ==
    ASSUME CallsOK(status, task)
    PROVE  LET st == Append(status, "connected") IN
           /\ CallsOK(st, task) /\ Len(st) = Len(status) + 1 /\ Len(status) \in Nat
           /\ Len(status) >= 2
<1> DEFINE st == Append(status, "connected")
<1>1. status \in Seq(Shown) /\ Len(status) >= 2 /\ "connected" \in Shown
  BY DEF CallsOK, Shown
<1>2. /\ st \in Seq(Shown) /\ Len(st) = Len(status) + 1 /\ Len(status) \in Nat
      /\ \A k \in 1..Len(status) : st[k] = status[k]
      /\ st[Len(status) + 1] = "connected"
  BY <1>1, AppendProperties, LenProperties
<1> HIDE DEF st
<1>3. \A t \in Tasks : task[t].on \in Nat
  BY DEF CallsOK, CallType
<1>4. \A k \in 1..Len(st) : st[k] = "paying" => k \in 1..Len(status) /\ status[k] = "paying"
  BY <1>2
<1>5. Len(st) >= 2 /\ \A t \in Tasks : task[t].on <= Len(st)
  BY <1>1, <1>2, <1>3 DEF CallsOK
<1>6. CallsOK(st, task)
  BY <1>2, <1>4, <1>5 DEF CallsOK
<1> QED
  BY <1>1, <1>2, <1>6 DEF st

-----------------------------------------------------------------------------

CachedOK(position, st) == position \in {None} \cup 3..Len(st)

LEMMA CallKeeps ==
    ASSUME CallsOK(status, task), CachedOK(cached, status), NEW t \in Tasks, NEW name \in Names,
           Call(t, name)
    PROVE  CallsOK(status', task') /\ CachedOK(cached', status')
<1>1. /\ task[t].pc = "idle" /\ status \in Seq(Shown) /\ Len(status) \in Nat
      /\ Len(status) >= 2 /\ task \in [Tasks -> CallType]
  BY LenProperties DEF Call, CallsOK
<1>2. ASSUME NEW via \in {"mcp", "fetch", "own"}, NEW k \in 1..Len(status),
             Start(t, via, name, k, status), UNCHANGED cached
      PROVE  CallsOK(status', task') /\ CachedOK(cached', status')
  BY <1>1, <1>2, StartKeeps DEF CachedOK
<1>3. ASSUME NEW c \in CallType, c.on = 0, c.cap = Unknown,
             c.pc = "connecting" => c.wanted \in Names,
             task' = [task EXCEPT ![t] = c], UNCHANGED <<status, cached>>
      PROVE  CallsOK(status', task') /\ CachedOK(cached', status')
  <2>1. \A k \in 1..Len(status) : status[k] = "paying" =>
           \/ c.on = k /\ c.pc = "fetching"
           \/ status[k] = "paying" /\ ~(task[t].pc = "fetching" /\ task[t].on = k)
    BY <1>1
  <2>2. c.on <= Len(status)
    BY <1>1, <1>3
  <2>3. CallsOK(status, [task EXCEPT ![t] = c])
    BY <1>1, <1>3, <2>1, <2>2, OneCallChanges
  <2> QED
    BY <1>3, <2>3 DEF CachedOK
<1>4. CASE McpCall(t, name)
  <2>1. CASE Usable
    <3>1. cached \in 1..Len(status)
      BY <1>1, <2>1 DEF Usable, CachedOK
    <3> QED
      BY <1>2, <1>4, <2>1, <3>1 DEF McpCall
  <2>2. CASE ~Usable
    <3> DEFINE c == [pc |-> "connecting", via |-> "mcp", wanted |-> name, cap |-> Unknown,
                     on |-> 0, paid |-> 0, result |-> "none"]
    <3>1. task' = [task EXCEPT ![t] = c] /\ UNCHANGED <<status, cached>>
      BY <1>4, <2>2 DEF McpCall, Rest, None
    <3>2. /\ c \in CallType /\ c.on = 0 /\ c.cap = Unknown /\ c.wanted \in Names
      BY DEF CallType
    <3> HIDE DEF c
    <3> QED
      BY <1>3, <3>1, <3>2
  <2> QED
    BY <2>1, <2>2
<1>5. CASE AdapterCall(t, name)
  BY <1>1, <1>2, <1>5 DEF AdapterCall, Adapter
<1>6. CASE Start(t, "own", name, Own, status) /\ UNCHANGED cached
  BY <1>1, <1>2, <1>6 DEF Own
<1>7. CASE BadPayload(t)
  BY <1>3, <1>7, EndedIs DEF BadPayload
<1> QED
  BY <1>4, <1>5, <1>6, <1>7 DEF Call

\* connect() is back and its connection cached.
LEMMA ConnectedKeeps ==
    ASSUME CallsOK(status, task), CachedOK(cached, status), NEW t \in Tasks, Connected(t)
    PROVE  CallsOK(status', task') /\ CachedOK(cached', status')
<1> DEFINE st == Append(status, "connected")
<1>1. /\ CallsOK(st, task) /\ Len(st) = Len(status) + 1 /\ Len(status) \in Nat
      /\ Len(status) >= 2
  BY GrownOK
<1>2. task[t].pc = "connecting" /\ task[t].wanted \in Names
  BY DEF Connected, CallsOK
<1>3. /\ cached' = Len(st)
      /\ \/ Start(t, "mcp", task[t].wanted, Len(st), st)
         \/ status' = st /\ task' = [task EXCEPT ![t] = Ended("refused")]
  BY DEF Connected
<1> HIDE DEF st
<1>4. Len(st) \in 3..Len(st) /\ Len(st) \in 1..Len(st)
  BY <1>1
<1>5. CASE Start(t, "mcp", task[t].wanted, Len(st), st)
  BY <1>1, <1>2, <1>3, <1>4, <1>5, StartKeeps DEF CachedOK
<1>6. CASE status' = st /\ task' = [task EXCEPT ![t] = Ended("refused")]
  <2>1. st \in Seq(Shown)
    BY <1>1 DEF CallsOK
  <2>2. Ended("refused") \in CallType /\ Ended("refused").on <= Len(st)
        /\ Ended("refused").cap = Unknown /\ Ended("refused").pc = "idle"
    BY <1>1, EndedIs
  <2>3. CallsOK(st, [task EXCEPT ![t] = Ended("refused")])
    BY <1>1, <1>2, <2>1, <2>2, OneCallChanges
  <2> QED
    BY <1>3, <1>4, <1>6, <2>3 DEF CachedOK
<1> QED
  BY <1>3, <1>5, <1>6

\* An answer or a failure overwrites the status of the connection it came over.
LEMMA AnswerOverwrites ==
    ASSUME CallsOK(status, task), CachedOK(cached, status), NEW t \in Tasks,
           NEW shown \in {"connected", "error"}, NEW c \in CallType,
           c.on <= Len(status), c.pc # "connecting",
           c.cap # Unknown => Reaches(c.via, c.wanted, c.cap),
           task' = [task EXCEPT ![t] = c], UNCHANGED cached,
           status' = [status EXCEPT ![task[t].on] = shown]
    PROVE  CallsOK(status', task') /\ CachedOK(cached', status')
<1> DEFINE k == task[t].on
           next == [status EXCEPT ![k] = shown]
<1>1. /\ status \in Seq(Shown) /\ Len(status) \in Nat /\ task \in [Tasks -> CallType]
      /\ shown \in Shown /\ DOMAIN status = 1..Len(status)
  BY LenProperties DEF CallsOK, Shown
<1>2. /\ next \in Seq(Shown) /\ Len(next) = Len(status)
      /\ \A j \in 1..Len(status) : next[j] = IF j = k THEN shown ELSE status[j]
  <2>1. CASE k \in 1..Len(status)
    BY <1>1, <2>1, ExceptSeq
  <2>2. CASE k \notin 1..Len(status)
    <3>1. next = status
      BY <1>1, <2>2
    <3> QED
      BY <1>1, <2>2, <3>1
  <2> QED
    BY <2>1, <2>2
<1> HIDE DEF next
<1>3. \A j \in 1..Len(status) : next[j] = "paying" =>
         \/ c.on = j /\ c.pc = "fetching"
         \/ status[j] = "paying" /\ ~(task[t].pc = "fetching" /\ task[t].on = j)
  BY <1>2
<1>4. CallsOK(next, [task EXCEPT ![t] = c])
  BY <1>2, <1>3, OneCallChanges
<1> QED
  BY <1>2, <1>4 DEF next, CachedOK

LEMMA AnswerKeepsCalls ==
    ASSUME CallsOK(status, task), CachedOK(cached, status), NEW t \in Tasks,
           \/ Fails(t) \/ BodyRead(t)
           \/ \E lamports \in Asked \cup {0}, ok \in BOOLEAN : Fetched(t, lamports, ok)
    PROVE  CallsOK(status', task') /\ CachedOK(cached', status')
<1>1. /\ status \in Seq(Shown) /\ Len(status) \in Nat /\ task \in [Tasks -> CallType]
      /\ task[t].on <= Len(status)
      /\ task[t].cap # Unknown => Reaches(task[t].via, task[t].wanted, task[t].cap)
  BY LenProperties DEF CallsOK
<1>2. ASSUME NEW result \in {"failed", "ok"}
      PROVE  /\ Ended(result) \in CallType /\ Ended(result).on <= Len(status)
             /\ Ended(result).cap = Unknown /\ Ended(result).pc = "idle"
  BY <1>1, EndedIs
<1>3. CASE Fails(t)
  <2>1. /\ task' = [task EXCEPT ![t] = Ended("failed")] /\ UNCHANGED cached
        /\ status' = [status EXCEPT ![task[t].on] = "error"]
    BY <1>3 DEF Fails
  <2> QED
    BY <1>2, <2>1, AnswerOverwrites
<1>4. CASE BodyRead(t)
  <2>1. /\ task[t].pc = "body" /\ task' = [task EXCEPT ![t] = Ended("ok")]
        /\ UNCHANGED <<status, cached>>
    BY <1>4 DEF BodyRead
  <2>2. CallsOK(status, [task EXCEPT ![t] = Ended("ok")])
    BY <1>1, <1>2, <2>1, OneCallChanges
  <2> QED
    BY <2>1, <2>2 DEF CachedOK
<1>5. ASSUME NEW lamports \in Asked \cup {0}, NEW ok \in BOOLEAN, Fetched(t, lamports, ok)
      PROVE  CallsOK(status', task') /\ CachedOK(cached', status')
  <2> DEFINE c == [task[t] EXCEPT !.pc = "body", !.paid = lamports]
  <2>1. /\ status' = [status EXCEPT ![task[t].on] = "connected"] /\ UNCHANGED cached
        /\ \/ task' = [task EXCEPT ![t] = c]
           \/ task' = [task EXCEPT ![t] = Ended("failed")]
    BY <1>1, <1>5 DEF Fetched
  <2>2. lamports \in Nat
    BY LinksAssumption
  <2>3. /\ c \in CallType /\ c.pc = "body" /\ c.on = task[t].on
        /\ c.cap = task[t].cap /\ c.wanted = task[t].wanted /\ c.via = task[t].via
    <3>1. task[t] \in CallType
      BY <1>1
    <3> QED
      BY <2>2, <3>1 DEF CallType
  <2> HIDE DEF c
  <2> QED
    BY <1>1, <1>2, <2>1, <2>3, AnswerOverwrites
<1> QED
  BY <1>3, <1>4, <1>5

LEMMA CloseKeeps ==
    ASSUME CallsOK(status, task), CachedOK(cached, status), Close
    PROVE  CallsOK(status', task') /\ CachedOK(cached', status')
<1>1. /\ status \in Seq(Shown) /\ Len(status) \in Nat /\ Own \in 1..Len(status)
      /\ "closed" \in Shown
  BY LenProperties DEF CallsOK, Own, Shown
<1>2. /\ status' \in Seq(Shown) /\ Len(status') = Len(status) /\ UNCHANGED <<cached, task>>
      /\ \A k \in 1..Len(status) : status'[k] = IF k = Own THEN "closed" ELSE status[k]
  BY <1>1, ExceptSeq DEF Close
<1> QED
  BY <1>1, <1>2 DEF CallsOK, CachedOK

LEMMA LinksStep ==
    ASSUME LinksInv, [LinksNext]_linksVars
    PROVE  LinksInv'
<1>1. CallsOK(status, task) /\ CachedOK(cached, status)
  BY InvIs DEF CachedOK
<1>2. CallsOK(status', task') /\ CachedOK(cached', status')
  <2>1. CASE UNCHANGED linksVars
    BY <1>1, <2>1 DEF linksVars
  <2> QED
    BY <1>1, <2>1, CallKeeps, ConnectedKeeps, AnswerKeepsCalls, CloseKeeps
       DEF LinksNext, Progress
<1>3. LinksInv'
  <2>1. DOMAIN status' = 1..Len(status')
    BY <1>2, LenProperties DEF CallsOK
  <2> QED
    BY <1>2, <2>1 DEF LinksInv, CallsOK, CachedOK, PayingIsAwaited, ReachesNamed, Shown
<1> QED
  BY <1>3

\* For any calls, names, connections and prices.
THEOREM LinksInvariance == LinksSpec => []LinksInv
<1>1. LinksInit => LinksInv
  <2> SUFFICES ASSUME LinksInit PROVE LinksInv
    OBVIOUS
  <2>1. /\ status \in Seq({"connected", "paying", "error", "closed"}) /\ Len(status) = 2
        /\ DOMAIN status = 1..2 /\ \A k \in 1..2 : status[k] = "connected"
    BY DEF LinksInit
  <2>2. \A t \in Tasks : task[t] = [pc |-> "idle", via |-> "own", wanted |-> Unknown,
             cap |-> Unknown, on |-> 0, paid |-> 0, result |-> "none"]
    BY DEF LinksInit, Rest, None
  <2>3. task \in [Tasks -> CallType]
    BY <2>2 DEF LinksInit, CallType
  <2> QED
    BY <2>1, <2>2, <2>3 DEF LinksInit, LinksInv, PayingIsAwaited, ReachesNamed
<1> QED
  BY <1>1, LinksStep, PTL DEF LinksSpec

\* No connection keeps showing a payment nobody makes, and a call reaches the
\* capability it names, as far as ReachesNamed claims it.
THEOREM LinksAreSafe == LinksSpec => []LinksSafe
<1>1. LinksInv => LinksSafe
  <2> SUFFICES ASSUME LinksInv PROVE LinksSafe
    OBVIOUS
  <2>1. LinksTypeOK
    <3>1. Len(status) \in Nat
      BY LenProperties DEF LinksInv
    <3> QED
      BY <3>1 DEF LinksInv, LinksTypeOK, CallType
  <2>2. PayingHasPayer
    BY DEF LinksInv, PayingIsAwaited, PayingHasPayer, InFlight
  <2> QED
    BY <2>1, <2>2 DEF LinksInv, LinksSafe
<1> QED
  BY <1>1, LinksInvariance, PTL

-----------------------------------------------------------------------------
(* How many connections the handlers make *)

Connecting == {t \in Tasks : task[t].pc = "connecting"}

\* While the cached connection is usable nobody starts to connect: those who do
\* already are all that can still add one.  Once it is not, all may start again,
\* but then the failure has been counted.
ReconnectsInv ==
    LET made == Len(status) - Own IN
    /\ rejected \in Nat
    /\ Usable => made + Cardinality(Connecting) <= Cardinality(Tasks) * (rejected + 1)
    /\ ~Usable => made <= Cardinality(Tasks) * rejected

LEMMA Counts ==
    ASSUME IsFiniteSet(Tasks), LinksInv, rejected \in Nat
    PROVE  /\ Cardinality(Tasks) \in Nat /\ Cardinality(Connecting) \in Nat
           /\ IsFiniteSet(Connecting) /\ Cardinality(Connecting) <= Cardinality(Tasks)
           /\ Len(status) \in Nat
           /\ Cardinality(Tasks) * rejected \in Nat
           /\ Cardinality(Tasks) * (rejected + 1) = Cardinality(Tasks) * rejected + Cardinality(Tasks)
<1>1. Connecting \subseteq Tasks
  BY DEF Connecting
<1>2. Cardinality(Tasks) \in Nat /\ IsFiniteSet(Connecting) /\ Cardinality(Connecting) \in Nat
      /\ Cardinality(Connecting) <= Cardinality(Tasks)
  BY <1>1, FS_Subset, FS_CardinalityType
<1>3. Len(status) \in Nat
  BY LenProperties DEF LinksInv
<1> DEFINE n == Cardinality(Tasks)
<1> HIDE DEF n
<1>4. n \in Nat
  BY <1>2 DEF n
<1>5. n * rejected \in Nat /\ n * (rejected + 1) = n * rejected + n
  BY <1>4, SMT
<1> QED
  BY <1>2, <1>3, <1>5 DEF n

\* A step that makes no connection, begins none, and leaves the cached one usable
\* or counts a failure.
LEMMA NoneMade ==
    ASSUME IsFiniteSet(Tasks), LinksInv, ReconnectsInv, Len(status') = Len(status),
           UNCHANGED cached, Connecting' = Connecting,
           \/ /\ UNCHANGED rejected
              /\ \A k \in 3..Len(status) : status'[k] \in {status[k], "connected", "paying"}
           \/ rejected' = rejected + 1
    PROVE  ReconnectsInv'
<1> DEFINE n == Cardinality(Tasks)
           made == Len(status) - Own
           c == Cardinality(Connecting)
           nr == n * rejected
<1>1. /\ rejected \in Nat /\ n \in Nat /\ c \in Nat /\ c <= n /\ nr \in Nat /\ made \in Int
      /\ n * (rejected + 1) = nr + n
  BY Counts DEF ReconnectsInv, Own
<1>2. (Usable => made + c <= nr + n) /\ (~Usable => made <= nr)
  BY <1>1 DEF ReconnectsInv
<1>3. made' = made /\ c' = c
  BY DEF Own
<1>4. CASE UNCHANGED rejected /\ \A k \in 3..Len(status) : status'[k] \in {status[k], "connected", "paying"}
  <2>1. Usable => Usable'
    BY <1>4 DEF LinksInv, Usable, None
  <2> HIDE DEF made, c, nr
  <2>2. (Usable' => made + c <= nr + n) /\ (~Usable' => made <= nr)
    BY <1>1, <1>2, <2>1
  <2>3. (Usable' => made' + c' <= n * (rejected' + 1)) /\ (~Usable' => made' <= n * rejected')
    BY <1>1, <1>3, <1>4, <2>2 DEF nr
  <2> QED
    BY <1>1, <1>4, <2>3 DEF made, c, ReconnectsInv
<1>5. CASE rejected' = rejected + 1
  <2> DEFINE next == n * rejected'
  <2>1. rejected' \in Nat /\ next = nr + n
    BY <1>1, <1>5
  <2>2. n * (rejected' + 1) = next + n
    BY <1>1, <2>1, SMT
  <2> HIDE DEF made, c, nr, next
  <2>3. made + c <= next + n /\ made <= next
    BY <1>1, <1>2, <2>1
  <2>4. made' + c' <= n * (rejected' + 1) /\ made' <= n * rejected'
    BY <1>3, <2>2, <2>3 DEF next
  <2> QED
    BY <2>1, <2>4 DEF made, c, ReconnectsInv
<1> QED
  BY <1>4, <1>5

\* What one call becomes decides whether it is among those that connect.
LEMMA ConnectingMoves ==
    ASSUME LinksInv, NEW t \in Tasks, NEW c, task' = [task EXCEPT ![t] = c]
    PROVE  Connecting' = IF c.pc = "connecting" THEN Connecting \cup {t} ELSE Connecting \ {t}
<1>1. task'[t] = c /\ \A u \in Tasks : u # t => task'[u] = task[u]
  BY DEF LinksInv
<1> QED
  BY <1>1 DEF Connecting

\* A call on a connection: whatever it leaves, that connection does not fail.
LEMMA StartMoves ==
    ASSUME LinksInv, NEW st \in Seq(Shown), NEW t \in Tasks, NEW via, NEW name,
           NEW k \in 1..Len(st), Start(t, via, name, k, st)
    PROVE  /\ Len(status') = Len(st) /\ Connecting' = Connecting \ {t}
           /\ \A j \in 1..Len(st) : status'[j] \in IF j = k THEN {st[j], "paying"} ELSE {st[j]}
<1>1. Len(st) \in Nat /\ "paying" \in Shown
  BY LenProperties DEF Shown
<1> DEFINE next == [pc |-> "fetching", via |-> via, wanted |-> name, cap |-> Chosen(via, name),
                    on |-> k, paid |-> 0, result |-> "none"]
<1>2. \/ task' = [task EXCEPT ![t] = Ended("refused")] /\ status' = st
      \/ task' = [task EXCEPT ![t] = next] /\ status' = [st EXCEPT ![k] = "paying"]
  BY DEF Start, Rest
<1>3. Ended("refused").pc # "connecting" /\ next.pc # "connecting"
  BY EndedIs
<1> HIDE DEF next
<1>4. Connecting' = Connecting \ {t}
  BY <1>2, <1>3, ConnectingMoves
<1>5. CASE status' = st
  BY <1>4, <1>5
<1>6. CASE status' = [st EXCEPT ![k] = "paying"]
  <2>1. Len(status') = Len(st) /\ \A j \in 1..Len(st) : status'[j] = IF j = k THEN "paying" ELSE st[j]
    BY <1>1, <1>6, ExceptSeq
  <2> QED
    BY <1>4, <2>1
<1> QED
  BY <1>2, <1>5, <1>6

LEMMA CallCounts ==
    ASSUME IsFiniteSet(Tasks), LinksInv, ReconnectsInv, NEW t \in Tasks, NEW name \in Names,
           Call(t, name)
    PROVE  ReconnectsInv'
<1>1. /\ task[t].pc = "idle" /\ UNCHANGED rejected /\ status \in Seq(Shown)
      /\ Len(status) \in Nat /\ Len(status) >= 2
  BY LenProperties DEF Call, LinksInv, Shown
<1>2. t \notin Connecting /\ Connecting \ {t} = Connecting
  BY <1>1 DEF Connecting
<1>3. ASSUME NEW via, NEW k \in 1..Len(status), Start(t, via, name, k, status), UNCHANGED cached
      PROVE  ReconnectsInv'
  <2>1. /\ Len(status') = Len(status) /\ Connecting' = Connecting
        /\ \A j \in 1..Len(status) : status'[j] \in {status[j], "paying"}
    BY <1>1, <1>2, <1>3, StartMoves
  <2>2. \A j \in 3..Len(status) : status'[j] \in {status[j], "connected", "paying"}
    BY <1>1, <2>1
  <2> QED
    BY <1>1, <1>3, <2>1, <2>2, NoneMade
<1>4. CASE McpCall(t, name)
  <2>1. CASE Usable
    <3>1. cached \in 1..Len(status)
      BY <1>1, <2>1 DEF Usable, LinksInv
    <3> QED
      BY <1>3, <1>4, <2>1, <3>1 DEF McpCall
  <2>2. CASE ~Usable
    <3>1. ~Usable' /\ UNCHANGED status
      BY <1>4, <2>2 DEF McpCall, Usable
    <3> QED
      BY <1>1, <2>2, <3>1 DEF ReconnectsInv
  <2> QED
    BY <2>1, <2>2
<1>5. CASE AdapterCall(t, name)
  BY <1>1, <1>3, <1>5 DEF AdapterCall, Adapter
<1>6. CASE Start(t, "own", name, Own, status) /\ UNCHANGED cached
  BY <1>1, <1>3, <1>6 DEF Own
<1>7. CASE BadPayload(t)
  <2>1. Ended("refused").pc # "connecting"
    BY EndedIs
  <2>2. Connecting' = Connecting /\ UNCHANGED <<status, cached>>
    BY <1>2, <1>7, <2>1, ConnectingMoves DEF BadPayload
  <2> QED
    BY <1>1, <2>2, NoneMade
<1> QED
  BY <1>4, <1>5, <1>6, <1>7 DEF Call

\* One connection more, one call less that is making one.
LEMMA ConnectedCounts ==
    ASSUME IsFiniteSet(Tasks), LinksInv, ReconnectsInv, NEW t \in Tasks, Connected(t)
    PROVE  ReconnectsInv'
<1> DEFINE st == Append(status, "connected")
           n == Cardinality(Tasks)
           made == Len(status) - Own
           c == Cardinality(Connecting)
           nr == n * rejected
<1>1. /\ rejected \in Nat /\ n \in Nat /\ c \in Nat /\ c <= n /\ nr \in Nat
      /\ made \in Int /\ Len(status) \in Nat /\ n * (rejected + 1) = nr + n
      /\ IsFiniteSet(Connecting)
  BY Counts DEF ReconnectsInv, Own
<1>2. made + c <= nr + n
  <2>1. (Usable => made + c <= nr + n) /\ (~Usable => made <= nr)
    BY <1>1 DEF ReconnectsInv
  <2> HIDE DEF made, c, nr, n
  <2> QED
    BY <1>1, <2>1
<1>3. t \in Connecting /\ UNCHANGED rejected /\ cached' = Len(st)
  BY DEF Connected, Connecting
<1>4. /\ st \in Seq(Shown) /\ Len(st) = Len(status) + 1 /\ st[Len(st)] = "connected"
      /\ Len(st) \in 1..Len(st) /\ Len(st) >= 3
  <2>1. status \in Seq(Shown) /\ "connected" \in Shown /\ Len(status) >= 2
    BY DEF LinksInv, Shown
  <2>2. st \in Seq(Shown) /\ Len(st) = Len(status) + 1 /\ st[Len(status) + 1] = "connected"
    BY <2>1, AppendProperties
  <2> QED
    BY <1>1, <2>1, <2>2
<1>5. \/ Start(t, "mcp", task[t].wanted, Len(st), st)
      \/ status' = st /\ task' = [task EXCEPT ![t] = Ended("refused")]
  BY DEF Connected
<1> HIDE DEF st
<1>6. /\ Len(status') = Len(st) /\ Connecting' = Connecting \ {t}
      /\ status'[Len(st)] \in {"connected", "paying"}
  <2>1. CASE Start(t, "mcp", task[t].wanted, Len(st), st)
    BY <1>4, <2>1, StartMoves
  <2>2. CASE status' = st /\ task' = [task EXCEPT ![t] = Ended("refused")]
    <3>1. Ended("refused").pc # "connecting"
      BY EndedIs
    <3> QED
      BY <1>4, <2>2, <3>1, ConnectingMoves
  <2> QED
    BY <1>5, <2>1, <2>2
<1>7. Cardinality(Connecting') = c - 1
  BY <1>1, <1>3, <1>6, FS_RemoveElement
<1>8. Usable'
  BY <1>3, <1>4, <1>6 DEF Usable, None
<1>9. (Len(status') - Own) + Cardinality(Connecting') <= n * (rejected' + 1)
  <2>1. Len(status') - Own = made + 1
    BY <1>1, <1>4, <1>6 DEF Own
  <2> HIDE DEF made, c, nr, n
  <2> QED
    BY <1>1, <1>2, <1>3, <1>7, <2>1
<1>10. Own' = Own /\ Cardinality(Connecting)' = Cardinality(Connecting')
  BY DEF Own
<1> QED
  BY <1>1, <1>3, <1>8, <1>9, <1>10 DEF ReconnectsInv

LEMMA AnswerCounts ==
    ASSUME IsFiniteSet(Tasks), LinksInv, ReconnectsInv, NEW t \in Tasks,
           \/ Fails(t) \/ BodyRead(t)
           \/ \E lamports \in Asked \cup {0}, ok \in BOOLEAN : Fetched(t, lamports, ok)
    PROVE  ReconnectsInv'
<1>1. /\ task \in [Tasks -> CallType] /\ status \in Seq(Shown) /\ Len(status) \in Nat
      /\ DOMAIN status = 1..Len(status)
  BY LenProperties DEF LinksInv, Shown
<1>2. ASSUME NEW shown \in Shown
      PROVE  LET next == [status EXCEPT ![task[t].on] = shown] IN
             /\ Len(next) = Len(status)
             /\ \A k \in 1..Len(status) : next[k] \in {status[k], shown}
  <2>1. CASE task[t].on \in 1..Len(status)
    BY <1>1, <2>1, ExceptSeq
  <2>2. CASE task[t].on \notin 1..Len(status)
    <3>1. [status EXCEPT ![task[t].on] = shown] = status
      BY <1>1, <2>2
    <3> QED
      BY <3>1
  <2> QED
    BY <2>1, <2>2
<1>3. Connecting \ {t} = Connecting /\ UNCHANGED cached
  BY DEF Connecting, Fails, BodyRead, Fetched
<1>4. Ended("failed").pc # "connecting" /\ Ended("ok").pc # "connecting"
  BY EndedIs
<1>5. CASE Fails(t)
  <2>1. Len(status') = Len(status)
    BY <1>2, <1>5 DEF Fails, Shown
  <2>2. task' = [task EXCEPT ![t] = Ended("failed")] /\ rejected' = rejected + 1
    BY <1>5 DEF Fails
  <2>3. Connecting' = Connecting
    BY <1>3, <1>4, <2>2, ConnectingMoves
  <2> QED
    BY <1>3, <2>1, <2>2, <2>3, NoneMade
<1>6. CASE BodyRead(t)
  <2>1. task' = [task EXCEPT ![t] = Ended("ok")] /\ UNCHANGED <<status, rejected>>
    BY <1>6 DEF BodyRead
  <2>2. Connecting' = Connecting
    BY <1>3, <1>4, <2>1, ConnectingMoves
  <2> QED
    BY <1>3, <2>1, <2>2, NoneMade
<1>7. ASSUME NEW lamports \in Asked \cup {0}, NEW ok \in BOOLEAN, Fetched(t, lamports, ok)
      PROVE  ReconnectsInv'
  <2>1. /\ UNCHANGED rejected /\ Len(status') = Len(status)
        /\ \A k \in 1..Len(status) : status'[k] \in {status[k], "connected"}
    BY <1>2, <1>7 DEF Fetched, Shown
  <2> DEFINE c == [task[t] EXCEPT !.pc = "body", !.paid = lamports]
  <2>2. task' = [task EXCEPT ![t] = c] \/ task' = [task EXCEPT ![t] = Ended("failed")]
    BY <1>1, <1>7 DEF Fetched
  <2>3. c.pc = "body"
    <3>1. task[t] \in CallType
      BY <1>1
    <3> QED
      BY <3>1 DEF CallType
  <2> HIDE DEF c
  <2>4. Connecting' = Connecting
    BY <1>3, <1>4, <2>2, <2>3, ConnectingMoves
  <2>5. \A k \in 3..Len(status) : status'[k] \in {status[k], "connected", "paying"}
    BY <1>1, <2>1
  <2> QED
    BY <1>3, <2>1, <2>4, <2>5, NoneMade
<1> QED
  BY <1>5, <1>6, <1>7

LEMMA CloseCounts ==
    ASSUME IsFiniteSet(Tasks), LinksInv, ReconnectsInv, Close
    PROVE  ReconnectsInv'
<1>1. /\ status \in Seq(Shown) /\ Len(status) \in Nat /\ Own \in 1..Len(status)
      /\ "closed" \in Shown
  BY LenProperties DEF LinksInv, Own, Shown
<1>2. /\ Len(status') = Len(status) /\ UNCHANGED <<cached, task, rejected>>
      /\ \A k \in 1..Len(status) : status'[k] = IF k = Own THEN "closed" ELSE status[k]
  BY <1>1, ExceptSeq DEF Close
<1>3. Connecting' = Connecting
  BY <1>2 DEF Connecting
<1>4. \A k \in 3..Len(status) : status'[k] \in {status[k], "connected", "paying"}
  BY <1>1, <1>2 DEF Own
<1> QED
  BY <1>2, <1>3, <1>4, NoneMade

\* However many calls run side by side, the handlers make at most one connection
\* for each of them, and again as many for each request that rejected.
THEOREM ReconnectsAreBounded ==
    ASSUME IsFiniteSet(Tasks)
    PROVE  LinksSpec => []ReconnectsBounded
<1>1. LinksInit => ReconnectsInv
  <2> SUFFICES ASSUME LinksInit PROVE ReconnectsInv
    OBVIOUS
  <2>1. Len(status) = 2 /\ rejected = 0 /\ ~Usable
    BY DEF LinksInit, Usable
  <2>2. Cardinality(Tasks) * 0 = 0
    BY FS_CardinalityType, SMT
  <2> QED
    BY <2>1, <2>2 DEF ReconnectsInv, Own
<1>2. LinksInv /\ ReconnectsInv /\ [LinksNext]_linksVars => ReconnectsInv'
  <2> SUFFICES ASSUME LinksInv, ReconnectsInv, [LinksNext]_linksVars PROVE ReconnectsInv'
    OBVIOUS
  <2>1. CASE UNCHANGED linksVars
    <3>1. Connecting' = Connecting /\ Usable' = Usable
      BY <2>1 DEF linksVars, Connecting, Usable
    <3> QED
      BY <2>1, <3>1 DEF linksVars, ReconnectsInv
  <2> QED
    BY <2>1, CallCounts, ConnectedCounts, AnswerCounts, CloseCounts DEF LinksNext, Progress
<1>3. LinksInv /\ ReconnectsInv => ReconnectsBounded
  <2> SUFFICES ASSUME LinksInv, ReconnectsInv PROVE ReconnectsBounded
    OBVIOUS
  <2> DEFINE n == Cardinality(Tasks)
             made == Len(status) - Own
             c == Cardinality(Connecting)
             nr == n * rejected
  <2>1. /\ n \in Nat /\ c \in Nat /\ nr \in Nat /\ made \in Int
        /\ n * (rejected + 1) = nr + n
    BY Counts DEF ReconnectsInv, Own
  <2>2. (Usable => made + c <= nr + n) /\ (~Usable => made <= nr)
    BY <2>1 DEF ReconnectsInv
  <2>3. made <= n * (rejected + 1)
    <3> HIDE DEF n, made, c, nr
    <3> QED
      BY <2>1, <2>2
  <2> QED
    BY <2>3 DEF ReconnectsBounded
<1> QED
  BY <1>1, <1>2, <1>3, LinksInvariance, PTL DEF LinksSpec

-----------------------------------------------------------------------------
(* EventFeed *)

\* The sockets the client has not forgotten, the closing ones included.
Held == States(sock, {"connecting", "open", "closing"})

\* Each connect() is worth one socket or one timer: the strengthening of
\* OneChainPerConnect that the end of a closing socket needs.
ChainsCounted == Cardinality(Held) + timers <= connects

\* A socket the client has forgotten carries nothing.
ForgottenIsEmpty ==
    \A s \in Sockets : sock[s] = "none" => link[s] = "down" /\ down[s] = <<>>

\* What is on its way to the client was emitted, and leaves in that order.
InTransitOrdered ==
    \A s \in Sockets : \A i \in 1..Len(down[s]) :
        /\ down[s][i] <= Len(bus)
        /\ \A j \in 1..Len(down[s]) : i < j => down[s][i] < down[s][j]

\* Only the first attempt of a client is awaited: its counter is still 0.
OnlyFirstAwaited ==
    /\ connects = 0 => attempt = 0
    /\ \A s \in Sockets : promise[s] = "awaited" =>
          s \in Held /\ (connects = 1 => attempt = 0)

-----------------------------------------------------------------------------

LEMMA Bounds ==
    /\ MaxSockets \in Nat /\ MaxAttempt \in Nat /\ MaxEvents \in Nat /\ MaxConnects \in Nat
    /\ MaxDrops \in Nat /\ 0 \in 0..MaxSockets /\ 0 \in 0..MaxAttempt
    /\ 0 \in 0..MaxConnects /\ 0 \in 0..MaxDrops /\ Sockets \subseteq 0..MaxSockets
    /\ 0 \notin Sockets
  BY FeedAssumption DEF Sockets

\* The steps that are not the client's own, and the handling of an event,
\* leave its connection state alone.
LEMMA ClientMoves ==
    ASSUME [FeedNext]_feedVars
    PROVE  \/ Connect \/ ReconnectTimer \/ WsClose
           \/ \E s \in Sockets : OnOpen(s) \/ OnClose(s)
           \/ UNCHANGED <<wsVars, connects, hung>>
<1>1. ASSUME NEW s \in Sockets, OnMessage(s) PROVE UNCHANGED <<wsVars, connects, hung>>
  BY <1>1 DEF OnMessage
<1>2. ASSUME NEW s \in Sockets, OnConnect(s) \/ HubMessage(s) \/ HubClose(s) \/ Refuse(s)
      PROVE  UNCHANGED <<wsVars, connects, hung>>
  BY <1>2 DEF OnConnect, HubMessage, HubClose, Refuse, appVars
<1>3. ASSUME NEW s \in Sockets, HubError(s) \/ Drop(s) \/ Unsubscribe(s)
      PROVE  UNCHANGED <<wsVars, connects, hung>>
  BY <1>3 DEF HubError, Drop, Unsubscribe, appVars
<1>4. ASSUME NEW a \in Topics, Emit(a) PROVE UNCHANGED <<wsVars, connects, hung>>
  BY <1>4 DEF Emit, appVars
<1>5. CASE Sigterm \/ UNCHANGED feedVars
  BY <1>5 DEF Sigterm, appVars, feedVars
<1> QED
  BY <1>1, <1>2, <1>3, <1>4, <1>5 DEF FeedNext, ClientStep, HubStep

\* Events move by an emission, by their handling and with the end of a socket.
LEMMA EventMoves ==
    ASSUME [FeedNext]_feedVars
    PROVE  \/ \E s \in Sockets : OnMessage(s) \/ OnClose(s)
           \/ \E a \in Topics : Emit(a)
           \/ UNCHANGED <<down, log, bus>>
<1>1. ASSUME NEW s \in Sockets, OnOpen(s) PROVE UNCHANGED <<down, log, bus>>
  BY <1>1 DEF OnOpen, hubVars, appVars
<1>2. ASSUME NEW s \in Sockets, OnConnect(s) \/ HubMessage(s) \/ HubClose(s) \/ Refuse(s)
      PROVE  UNCHANGED <<down, log, bus>>
  BY <1>2 DEF OnConnect, HubMessage, HubClose, Refuse, hubVars, netVars, appVars
<1>3. ASSUME NEW s \in Sockets, HubError(s) \/ Drop(s) \/ Unsubscribe(s)
      PROVE  UNCHANGED <<down, log, bus>>
  BY <1>3 DEF HubError, Drop, Unsubscribe, hubVars, appVars
<1>4. CASE Connect \/ ReconnectTimer
  BY <1>4 DEF Connect, ReconnectTimer, TimerFires, OpenSocket, hubVars
<1>5. CASE WsClose \/ Sigterm \/ UNCHANGED feedVars
  BY <1>5 DEF WsClose, Sigterm, hubVars, netVars, appVars, feedVars
<1> QED
  BY <1>1, <1>2, <1>3, <1>4, <1>5 DEF FeedNext, ClientStep, HubStep

\* A new socket is one the client and the hub have forgotten.
LEMMA SocketOpens ==
    ASSUME FeedTypeOK, NEW caller \in {"awaited", "ignored"}, OpenSocket(caller)
    PROVE  \E s \in Sockets :
              /\ sock[s] = "none" /\ s \notin hub
              /\ sock' = [sock EXCEPT ![s] = "connecting"]
              /\ link' = [link EXCEPT ![s] = "syn"]
              /\ promise' = [promise EXCEPT ![s] = caller]
              /\ ws' = s /\ closed' = FALSE
              /\ UNCHANGED <<hubVars, up, down, drops, attempt, log, hung>>
  BY DEF OpenSocket, Forgotten, States

-----------------------------------------------------------------------------
(* Types, and what a forgotten socket carries *)

LEMMA SocketTypes ==
    ASSUME FeedTypeOK, NEW s \in Sockets
    PROVE  /\ sock[s] \in {"none", "connecting", "open", "closing"}
           /\ link[s] \in {"syn", "up", "down"} /\ down[s] \in Seq(1..MaxEvents)
           /\ up[s] \in Seq(Agents \cup {NoAgent})
           /\ promise[s] \in {"settled", "awaited", "ignored"}
  BY DEF FeedTypeOK

LEMMA OpeningTypes ==
    ASSUME FeedTypeOK, ForgottenIsEmpty, Connect \/ ReconnectTimer
    PROVE  FeedTypeOK' /\ ForgottenIsEmpty'
<1>1. PICK caller \in {"awaited", "ignored"} : OpenSocket(caller)
  BY DEF Connect, ReconnectTimer, TimerFires
<1>2. PICK s \in Sockets :
              /\ sock[s] = "none" /\ s \notin hub
              /\ sock' = [sock EXCEPT ![s] = "connecting"]
              /\ link' = [link EXCEPT ![s] = "syn"]
              /\ promise' = [promise EXCEPT ![s] = caller]
              /\ ws' = s /\ closed' = FALSE
              /\ UNCHANGED <<hubVars, up, down, drops, attempt, log, hung>>
  BY <1>1, SocketOpens
<1>3. ws' \in 0..MaxSockets
  BY <1>2, Bounds
<1>4. timers' \in Nat /\ connects' \in 0..MaxConnects
  BY Bounds DEF Connect, ReconnectTimer, TimerFires, FeedTypeOK
<1>5. FeedTypeOK'
  BY <1>2, <1>3, <1>4 DEF FeedTypeOK, hubVars
<1>6. ForgottenIsEmpty'
  BY <1>2 DEF FeedTypeOK, ForgottenIsEmpty
<1> QED
  BY <1>5, <1>6

LEMMA SocketTypesStep ==
    ASSUME FeedTypeOK, ForgottenIsEmpty, NEW s \in Sockets,
           OnOpen(s) \/ OnMessage(s) \/ OnClose(s)
    PROVE  FeedTypeOK' /\ ForgottenIsEmpty'
<1>1. CASE OnOpen(s)
  <2>1. up' \in [Sockets -> Seq(Agents \cup {NoAgent})]
    <3>1. Append(up[s], Subscription) \in Seq(Agents \cup {NoAgent})
      BY FeedAssumption, SocketTypes, AppendProperties
    <3> QED
      BY <1>1, <3>1 DEF OnOpen, FeedTypeOK
  <2>2. FeedTypeOK'
    BY <1>1, <2>1, Bounds DEF OnOpen, FeedTypeOK, hubVars, appVars
  <2>3. ForgottenIsEmpty'
    BY <1>1 DEF OnOpen, FeedTypeOK, ForgottenIsEmpty
  <2> QED
    BY <2>2, <2>3
<1>2. CASE OnMessage(s)
  <2>1. Head(down[s]) \in 1..MaxEvents /\ Tail(down[s]) \in Seq(1..MaxEvents)
    BY <1>2, SocketTypes, HeadTailProperties DEF OnMessage
  <2>2. log' \in Seq(1..MaxEvents)
    BY <1>2, <2>1, AppendProperties DEF OnMessage, FeedTypeOK
  <2>3. FeedTypeOK'
    BY <1>2, <2>1, <2>2 DEF OnMessage, FeedTypeOK, hubVars, wsVars
  <2>4. ForgottenIsEmpty'
    BY <1>2 DEF OnMessage, FeedTypeOK, ForgottenIsEmpty, wsVars
  <2> QED
    BY <2>3, <2>4
<1>3. CASE OnClose(s)
  <2>1. /\ sock' = [sock EXCEPT ![s] = "none"] /\ down' = [down EXCEPT ![s] = <<>>]
        /\ promise' = [promise EXCEPT ![s] = "settled"] /\ link[s] = "down"
        /\ hung' = (hung \/ (promise[s] = "awaited" /\ ~(attempt = 0)))
        /\ UNCHANGED <<hubVars, link, up, drops, ws, closed, log, connects>>
    BY <1>3 DEF OnClose, SocketEnds
  <2>2. attempt' \in 0..MaxAttempt /\ timers' \in Nat
    BY <1>3, Bounds DEF OnClose, SocketEnds, FeedTypeOK
  <2>3. <<>> \in Seq(1..MaxEvents)
    BY EmptySeq
  <2>4. FeedTypeOK'
    BY <2>1, <2>2, <2>3 DEF FeedTypeOK, hubVars
  <2>5. ForgottenIsEmpty'
    BY <2>1 DEF FeedTypeOK, ForgottenIsEmpty
  <2> QED
    BY <2>4, <2>5
<1> QED
  BY <1>1, <1>2, <1>3

LEMMA CloseTypes ==
    ASSUME FeedTypeOK, ForgottenIsEmpty, WsClose
    PROVE  FeedTypeOK' /\ ForgottenIsEmpty'
<1>1. <<>> \in Seq(Agents \cup {NoAgent})
  BY EmptySeq
<1>2. /\ sock' \in [Sockets -> {"none", "connecting", "open", "closing"}]
      /\ link' \in [Sockets -> {"syn", "up", "down"}]
      /\ up' \in [Sockets -> Seq(Agents \cup {NoAgent})]
  <2>1. CASE ws \in Live
    <3>1. /\ sock' = [sock EXCEPT ![ws] = "closing"] /\ link' = [link EXCEPT ![ws] = "down"]
          /\ up' = [up EXCEPT ![ws] = <<>>]
      BY <2>1 DEF WsClose, Cut
    <3>2. /\ sock' \in [Sockets -> {"none", "connecting", "open", "closing"}]
          /\ link' \in [Sockets -> {"syn", "up", "down"}]
      BY <3>1 DEF FeedTypeOK
    <3>3. up' \in [Sockets -> Seq(Agents \cup {NoAgent})]
      BY <1>1, <3>1 DEF FeedTypeOK
    <3> QED
      BY <3>2, <3>3
  <2>2. CASE ws \notin Live
    BY <2>2 DEF WsClose, FeedTypeOK
  <2> QED
    BY <2>1, <2>2
<1>3. FeedTypeOK'
  BY <1>2, Bounds DEF WsClose, FeedTypeOK, hubVars, appVars
<1>4. ForgottenIsEmpty'
  BY DEF WsClose, Cut, FeedTypeOK, ForgottenIsEmpty
<1> QED
  BY <1>3, <1>4

LEMMA HubTypes ==
    ASSUME FeedTypeOK, ForgottenIsEmpty, NEW s \in Sockets,
           OnConnect(s) \/ HubMessage(s) \/ HubClose(s) \/ Refuse(s)
    PROVE  FeedTypeOK' /\ ForgottenIsEmpty'
<1>1. CASE OnConnect(s)
  BY <1>1 DEF OnConnect, FeedTypeOK, ForgottenIsEmpty, wsVars, appVars
<1>2. CASE HubMessage(s)
  <2>1. Head(up[s]) \in Agents \cup {NoAgent} /\ Tail(up[s]) \in Seq(Agents \cup {NoAgent})
    BY <1>2, SocketTypes, HeadTailProperties DEF HubMessage
  <2> QED
    BY <1>2, <2>1 DEF HubMessage, FeedTypeOK, ForgottenIsEmpty, wsVars, appVars
<1>3. CASE HubClose(s)
  BY <1>3 DEF HubClose, FeedTypeOK, ForgottenIsEmpty, netVars, wsVars, appVars
<1>4. CASE Refuse(s)
  <2>1. <<>> \in Seq(Agents \cup {NoAgent})
    BY EmptySeq
  <2> QED
    BY <1>4, <2>1 DEF Refuse, Cut, FeedTypeOK, ForgottenIsEmpty, hubVars, wsVars, appVars
<1> QED
  BY <1>1, <1>2, <1>3, <1>4

LEMMA FaultTypes ==
    ASSUME FeedTypeOK, ForgottenIsEmpty, NEW s \in Sockets,
           HubError(s) \/ Drop(s) \/ Unsubscribe(s)
    PROVE  FeedTypeOK' /\ ForgottenIsEmpty'
<1>1. <<>> \in Seq(Agents \cup {NoAgent})
  BY EmptySeq
<1>2. drops < MaxDrops => drops + 1 \in 0..MaxDrops
  BY Bounds DEF FeedTypeOK
<1>3. CASE HubError(s)
  BY <1>1, <1>2, <1>3 DEF HubError, Cut, FeedTypeOK, ForgottenIsEmpty, wsVars, appVars
<1>4. CASE Drop(s)
  BY <1>1, <1>2, <1>4 DEF Drop, Cut, FeedTypeOK, ForgottenIsEmpty, hubVars, wsVars, appVars
<1>5. CASE Unsubscribe(s)
  <2>1. Append(up[s], NoAgent) \in Seq(Agents \cup {NoAgent})
    BY SocketTypes, AppendProperties
  <2> QED
    BY <1>5, <2>1 DEF Unsubscribe, FeedTypeOK, ForgottenIsEmpty, hubVars, wsVars, appVars
<1> QED
  BY <1>3, <1>4, <1>5

LEMMA EmitTypes ==
    ASSUME FeedTypeOK, ForgottenIsEmpty, NEW a \in Topics, Emit(a)
    PROVE  FeedTypeOK' /\ ForgottenIsEmpty'
<1>1. bus' \in Seq(Topics) /\ Len(bus') = Len(bus) + 1 /\ Len(bus) \in Nat
  BY AppendProperties, LenProperties DEF Emit, FeedTypeOK
<1>2. Len(bus') <= MaxEvents /\ Len(bus) + 1 \in 1..MaxEvents
  BY <1>1, Bounds DEF Emit
<1>3. \A s \in Sockets : down'[s] \in Seq(1..MaxEvents)
  <2> SUFFICES ASSUME NEW s \in Sockets PROVE down'[s] \in Seq(1..MaxEvents)
    OBVIOUS
  <2>1. Append(down[s], Len(bus) + 1) \in Seq(1..MaxEvents)
    BY <1>2, SocketTypes, AppendProperties
  <2> QED
    BY <2>1, SocketTypes DEF Emit
<1>4. down' \in [Sockets -> Seq(1..MaxEvents)]
  BY <1>3 DEF Emit
<1>5. FeedTypeOK'
  BY <1>1, <1>2, <1>4 DEF Emit, FeedTypeOK, wsVars, appVars
<1>6. ForgottenIsEmpty'
  BY DEF Emit, FeedTypeOK, ForgottenIsEmpty, wsVars
<1> QED
  BY <1>5, <1>6

LEMMA FeedTypesStep ==
    ASSUME FeedTypeOK, ForgottenIsEmpty, [FeedNext]_feedVars
    PROVE  FeedTypeOK' /\ ForgottenIsEmpty'
<1>1. CASE Sigterm
  <2>1. drops + 1 \in 0..MaxDrops
    BY <1>1, Bounds DEF Sigterm, FeedTypeOK
  <2> QED
    BY <1>1, <2>1 DEF Sigterm, FeedTypeOK, ForgottenIsEmpty, wsVars, appVars
<1>2. CASE UNCHANGED feedVars
  BY <1>2 DEF feedVars, hubVars, netVars, wsVars, appVars, FeedTypeOK, ForgottenIsEmpty
<1> QED
  BY <1>1, <1>2, OpeningTypes, SocketTypesStep, CloseTypes, HubTypes, FaultTypes, EmitTypes
     DEF FeedNext, ClientStep, HubStep

-----------------------------------------------------------------------------
(* Sockets and timers *)

LEMMA HeldCounts ==
    ASSUME NEW S \in SUBSET Sockets
    PROVE  IsFiniteSet(S) /\ Cardinality(S) \in Nat
<1>1. IsFiniteSet(1..MaxSockets)
  BY Bounds, FS_Interval
<1>2. IsFiniteSet(S)
  BY <1>1, FS_Subset DEF Sockets
<1> QED
  BY <1>2, FS_CardinalityType

\* Two sockets at a time are more than one.
LEMMA NoTwo ==
    ASSUME NEW S \in SUBSET Sockets, Cardinality(S) <= 1, NEW s \in S, NEW t \in S
    PROVE  s = t
<1>1. S \ {s} \in SUBSET Sockets /\ IsFiniteSet(S) /\ IsFiniteSet(S \ {s})
      /\ Cardinality(S) \in Nat /\ Cardinality(S \ {s}) \in Nat
  BY HeldCounts
<1>2. Cardinality(S \ {s}) = Cardinality(S) - 1
  BY <1>1, FS_RemoveElement
<1>3. S \ {s} = {}
  BY <1>1, <1>2, FS_EmptySet
<1> QED
  BY <1>3

LEMMA HeldIs ==
    ASSUME FeedTypeOK
    PROVE  /\ Held = {s \in Sockets : sock[s] # "none"} /\ Live \subseteq Held
           /\ Held \in SUBSET Sockets /\ Cardinality(Held) \in Nat
<1>1. Held \in SUBSET Sockets
  BY DEF Held, States
<1>2. Cardinality(Held) \in Nat
  BY <1>1, HeldCounts
<1>3. \A s \in Sockets : sock[s] \in {"none", "connecting", "open", "closing"}
  BY SocketTypes
<1>4. Held = {s \in Sockets : sock[s] # "none"} /\ Live \subseteq Held
  BY <1>3 DEF Held, Live, States
<1> QED
  BY <1>1, <1>2, <1>4

\* At most one socket or timer when connect() was called once at most.
LEMMA OneAtATime ==
    ASSUME FeedTypeOK, ChainsCounted, connects <= 1
    PROVE  /\ \A s, t \in Held : s = t
           /\ timers > 0 \/ connects = 0 => Held = {}
<1>1. Held \in SUBSET Sockets /\ Cardinality(Held) \in Nat /\ IsFiniteSet(Held)
  BY HeldIs, HeldCounts
<1>2. timers \in Nat /\ connects \in Nat /\ Cardinality(Held) + timers <= connects
  BY Bounds DEF FeedTypeOK, ChainsCounted
<1>3. Cardinality(Held) <= 1 /\ (timers > 0 \/ connects = 0 => Cardinality(Held) = 0)
  BY <1>1, <1>2
<1> QED
  BY <1>1, <1>3, NoTwo, FS_EmptySet

\* connect() adds a socket and a call, a timer turns into a socket, a socket
\* into a timer.
LEMMA ChainsStep ==
    ASSUME FeedTypeOK, FeedTypeOK', ChainsCounted, [FeedNext]_feedVars
    PROVE  ChainsCounted'
<1>1. /\ Held \in SUBSET Sockets /\ Cardinality(Held) \in Nat /\ IsFiniteSet(Held)
      /\ Held' \in SUBSET Sockets /\ Cardinality(Held') \in Nat
  <2>1. Held \in SUBSET Sockets /\ Held' \in SUBSET Sockets
    BY DEF Held, States, Sockets
  <2> QED
    BY <2>1, HeldCounts
<1>2. Held = {s \in Sockets : sock[s] # "none"}
  BY HeldIs
<1>3. Held' = {s \in Sockets : sock'[s] # "none"}
  <2>1. \A s \in Sockets : sock'[s] \in {"none", "connecting", "open", "closing"}
    BY DEF FeedTypeOK
  <2> QED
    BY <2>1 DEF Held, States, Sockets
<1>4. /\ timers \in Nat /\ connects \in Nat /\ Cardinality(Held) + timers <= connects
  BY Bounds DEF FeedTypeOK, ChainsCounted
<1> HIDE DEF Held
<1>5. ASSUME UNCHANGED <<sock, timers, connects>> PROVE ChainsCounted'
  <2>1. Held' = Held
    BY <1>2, <1>3, <1>5
  <2> QED
    BY <1>5, <2>1 DEF ChainsCounted
<1>6. ASSUME NEW caller \in {"awaited", "ignored"}, OpenSocket(caller)
      PROVE  Cardinality(Held') = Cardinality(Held) + 1
  <2>1. PICK s \in Sockets : sock[s] = "none" /\ sock' = [sock EXCEPT ![s] = "connecting"]
    BY <1>6, SocketOpens
  <2>2. Held' = Held \cup {s} /\ s \notin Held
    <3>1. sock'[s] = "connecting" /\ \A t \in Sockets : t # s => sock'[t] = sock[t]
      BY <2>1 DEF FeedTypeOK
    <3>2. \A t \in Sockets : sock'[t] # "none" <=> t = s \/ sock[t] # "none"
      BY <3>1
    <3> QED
      BY <1>2, <1>3, <2>1, <3>2
  <2> QED
    BY <1>1, <2>2, FS_AddElement
<1>7. CASE Connect
  <2>1. OpenSocket("awaited") /\ connects' = connects + 1 /\ timers' = timers
    BY <1>7 DEF Connect
  <2> QED
    BY <1>1, <1>4, <1>6, <2>1 DEF ChainsCounted
<1>8. CASE ReconnectTimer
  <2>1. OpenSocket("ignored") /\ connects' = connects /\ timers' = timers - 1 /\ timers > 0
    BY <1>8 DEF ReconnectTimer, TimerFires
  <2> QED
    BY <1>1, <1>4, <1>6, <2>1 DEF ChainsCounted
<1>9. CASE WsClose
  <2>1. UNCHANGED <<timers, connects>>
        /\ \A s \in Sockets : sock'[s] # "none" <=> sock[s] # "none"
    BY <1>9 DEF WsClose, appVars, Live, States, FeedTypeOK
  <2>2. Held' = Held
    BY <1>2, <1>3, <2>1
  <2> QED
    BY <2>1, <2>2 DEF ChainsCounted
<1>10. ASSUME NEW s \in Sockets, OnOpen(s) PROVE ChainsCounted'
  <2>1. UNCHANGED <<timers, connects>>
        /\ \A t \in Sockets : sock'[t] # "none" <=> sock[t] # "none"
    BY <1>10 DEF OnOpen, appVars, FeedTypeOK
  <2>2. Held' = Held
    BY <1>2, <1>3, <2>1
  <2> QED
    BY <2>1, <2>2 DEF ChainsCounted
<1>11. ASSUME NEW s \in Sockets, OnClose(s) PROVE ChainsCounted'
  <2>1. /\ sock[s] # "none" /\ sock' = [sock EXCEPT ![s] = "none"] /\ connects' = connects
        /\ timers' \in {timers, timers + 1}
    BY <1>11 DEF OnClose, SocketEnds
  <2>2. Held' = Held \ {s} /\ s \in Held
    BY <1>2, <1>3, <2>1 DEF FeedTypeOK
  <2>3. Cardinality(Held') = Cardinality(Held) - 1
    BY <1>1, <2>2, FS_RemoveElement
  <2> QED
    BY <1>1, <1>4, <2>1, <2>3 DEF ChainsCounted
<1> QED
  BY <1>5, <1>7, <1>8, <1>9, <1>10, <1>11, ClientMoves DEF wsVars

-----------------------------------------------------------------------------
(* Events in order *)

\* What was handled and what is under way was emitted, and goes in that order.
EventsOrdered == InTransitOrdered /\ \A i \in 1..Len(log) : log[i] <= Len(bus)

\* With one connect(), what was handled is in order, and what comes is newer.
HandledInOrder ==
    connects <= 1 =>
       /\ \A i, j \in 1..Len(log) : i < j => log[i] < log[j]
       /\ \A s \in Sockets : \A i \in 1..Len(log), j \in 1..Len(down[s]) :
             log[i] < down[s][j]

LEMMA SequenceTypes ==
    ASSUME FeedTypeOK
    PROVE  /\ Len(bus) \in Nat /\ Len(log) \in Nat /\ \A i \in 1..Len(log) : log[i] \in Nat
           /\ \A s \in Sockets : /\ Len(down[s]) \in Nat
                                 /\ \A i \in 1..Len(down[s]) : down[s][i] \in Nat
<1>1. 1..MaxEvents \subseteq Nat
  BY Bounds
<1>2. bus \in Seq(Topics) /\ log \in Seq(1..MaxEvents)
  BY DEF FeedTypeOK
<1>3. Len(bus) \in Nat /\ Len(log) \in Nat /\ \A i \in 1..Len(log) : log[i] \in 1..MaxEvents
  BY <1>2, LenProperties, ElementOfSeq
<1>4. ASSUME NEW s \in Sockets
      PROVE  /\ Len(down[s]) \in Nat
             /\ \A i \in 1..Len(down[s]) : down[s][i] \in 1..MaxEvents
  BY SocketTypes, LenProperties, ElementOfSeq
<1> QED
  BY <1>1, <1>3, <1>4

\* The event that is handled is the oldest of its socket, and every other
\* socket of a client with one connect() is empty.
LEMMA MessageKeepsOrder ==
    ASSUME FeedTypeOK, ForgottenIsEmpty, ChainsCounted, EventsOrdered, HandledInOrder,
           NEW s \in Sockets, OnMessage(s)
    PROVE  EventsOrdered' /\ HandledInOrder'
<1> DEFINE first == Head(down[s])
           n == Len(down[s])
<1>1. /\ down[s] \in Seq(1..MaxEvents) /\ down[s] # <<>> /\ n \in Nat /\ n >= 1
      /\ log \in Seq(1..MaxEvents) /\ first \in 1..MaxEvents
      /\ Tail(down[s]) \in Seq(1..MaxEvents) /\ Len(Tail(down[s])) = n - 1
      /\ \A i \in 1..(n - 1) : Tail(down[s])[i] = down[s][i + 1]
  <2>1. down[s] \in Seq(1..MaxEvents) /\ down[s] # <<>> /\ log \in Seq(1..MaxEvents)
    BY SocketTypes DEF OnMessage, FeedTypeOK
  <2>2. n \in Nat /\ n >= 1
    BY <2>1, EmptySeq
  <2>3. /\ first \in 1..MaxEvents
        /\ Tail(down[s]) \in Seq(1..MaxEvents) /\ Len(Tail(down[s])) = n - 1
        /\ \A i \in 1..Len(Tail(down[s])) : Tail(down[s])[i] = down[s][i + 1]
    BY <2>1, HeadTailProperties
  <2> QED
    BY <2>1, <2>2, <2>3
<1>2. first = down[s][1]
  BY <1>1
<1>3. /\ log' = Append(log, first) /\ UNCHANGED <<bus, sock, connects, timers>>
      /\ down' = [down EXCEPT ![s] = Tail(down[s])]
      /\ sock[s] = "open"
  BY DEF OnMessage, hubVars, wsVars
<1>4. down'[s] = Tail(down[s]) /\ \A t \in Sockets : t # s => down'[t] = down[t]
  BY <1>3 DEF FeedTypeOK
<1>5. /\ Len(log') = Len(log) + 1 /\ log'[Len(log) + 1] = first
      /\ \A i \in 1..Len(log) : log'[i] = log[i]
  BY <1>1, <1>3, AppendProperties
<1>6. /\ Len(bus) \in Nat /\ Len(log) \in Nat /\ \A i \in 1..Len(log) : log[i] \in Nat
      /\ \A i \in 1..n : down[s][i] \in Nat
  BY SequenceTypes
<1> HIDE DEF first, n
<1>7. \A i \in 1..(n - 1) : down'[s][i] = down[s][i + 1] /\ i + 1 \in 1..n
  BY <1>1, <1>4
<1>8. Len(down'[s]) = n - 1
  BY <1>1, <1>4
<1>9. \A i \in 1..n : down[s][i] <= Len(bus) /\ \A j \in 1..n : i < j => down[s][i] < down[s][j]
  BY DEF EventsOrdered, InTransitOrdered, n
<1>10. InTransitOrdered'
  <2> SUFFICES ASSUME NEW t \in Sockets, NEW i \in 1..Len(down'[t])
               PROVE  /\ down'[t][i] <= Len(bus)
                      /\ \A j \in 1..Len(down'[t]) : i < j => down'[t][i] < down'[t][j]
    BY <1>3 DEF InTransitOrdered
  <2>1. CASE t # s
    BY <1>4, <2>1 DEF EventsOrdered, InTransitOrdered
  <2>2. CASE t = s
    <3>1. i \in 1..(n - 1) /\ down'[s][i] = down[s][i + 1] /\ i + 1 \in 1..n
      BY <1>7, <1>8, <2>2
    <3>2. ASSUME NEW j \in 1..(n - 1), i < j PROVE down'[s][i] < down'[s][j]
      <4>1. down'[s][j] = down[s][j + 1] /\ j + 1 \in 1..n /\ i + 1 < j + 1
        BY <1>1, <1>7, <3>1, <3>2
      <4> QED
        BY <1>9, <3>1, <4>1
    <3> QED
      BY <1>8, <1>9, <2>2, <3>1, <3>2
  <2> QED
    BY <2>1, <2>2
<1>11. \A i \in 1..Len(log') : log'[i] <= Len(bus')
  <2> SUFFICES ASSUME NEW i \in 1..Len(log') PROVE log'[i] <= Len(bus)
    BY <1>3
  <2>1. 1 \in 1..n
    BY <1>1
  <2>2. first <= Len(bus)
    BY <1>2, <1>9, <2>1
  <2>3. i \in 1..Len(log) \/ i = Len(log) + 1
    BY <1>5, <1>6
  <2> QED
    BY <1>5, <2>2, <2>3 DEF EventsOrdered
<1>12. HandledInOrder'
  <2> SUFFICES ASSUME connects <= 1
               PROVE  /\ \A i, j \in 1..Len(log') : i < j => log'[i] < log'[j]
                      /\ \A t \in Sockets : \A i \in 1..Len(log'), j \in 1..Len(down'[t]) :
                            log'[i] < down'[t][j]
    BY <1>3 DEF HandledInOrder
  <2>1. /\ \A i, j \in 1..Len(log) : i < j => log[i] < log[j]
        /\ \A i \in 1..Len(log), j \in 1..n : log[i] < down[s][j]
    BY DEF HandledInOrder, n
  <2>2. \A i \in 1..Len(log) : log[i] < first
    <3>1. 1 \in 1..n
      BY <1>1
    <3> QED
      BY <1>2, <2>1, <3>1
  <2>3. \A i \in 1..Len(log') : i \in 1..Len(log) \/ i = Len(log) + 1
    BY <1>5, <1>6
  <2>4. ASSUME NEW i \in 1..Len(log'), NEW j \in 1..Len(log'), i < j PROVE log'[i] < log'[j]
    <3>1. i \in 1..Len(log)
      BY <1>5, <1>6, <2>4
    <3>2. CASE j \in 1..Len(log)
      BY <1>5, <2>1, <2>4, <3>1, <3>2
    <3>3. CASE j = Len(log) + 1
      BY <1>5, <2>2, <3>1, <3>3
    <3> QED
      BY <2>3, <3>2, <3>3
  <2>5. \A t \in Sockets : t # s => down'[t] = <<>>
    <3> SUFFICES ASSUME NEW t \in Sockets, t # s PROVE down'[t] = <<>>
      OBVIOUS
    <3>1. s \in Held
      BY <1>3, HeldIs
    <3>2. t \notin Held
      BY <3>1, OneAtATime
    <3>3. sock[t] = "none"
      BY <3>2, HeldIs
    <3> QED
      BY <1>4, <3>3 DEF ForgottenIsEmpty
  <2>6. ASSUME NEW t \in Sockets, NEW i \in 1..Len(log'), NEW j \in 1..Len(down'[t])
        PROVE  log'[i] < down'[t][j]
    <3>1. t = s
      <4>1. Len(<<>>) = 0
        BY EmptySeq
      <4> QED
        BY <2>5, <2>6, <4>1
    <3>2. j \in 1..(n - 1) /\ down'[s][j] = down[s][j + 1] /\ j + 1 \in 1..n
      BY <1>7, <1>8, <2>6, <3>1
    <3>3. CASE i \in 1..Len(log)
      BY <1>5, <2>1, <3>1, <3>2, <3>3
    <3>4. CASE i = Len(log) + 1
      <4>1. 1 \in 1..n /\ 1 < j + 1
        BY <1>1, <3>2
      <4>2. first < down[s][j + 1]
        BY <1>2, <1>9, <3>2, <4>1
      <4> QED
        BY <1>5, <3>1, <3>2, <3>4, <4>2
    <3> QED
      BY <2>3, <3>3, <3>4
  <2> QED
    BY <2>4, <2>6
<1> QED
  BY <1>10, <1>11, <1>12 DEF EventsOrdered

\* A new event is newer than all others.
LEMMA EmitKeepsOrder ==
    ASSUME FeedTypeOK, EventsOrdered, HandledInOrder, NEW a \in Topics, Emit(a)
    PROVE  EventsOrdered' /\ HandledInOrder'
<1> DEFINE next == Len(bus) + 1
<1>1. /\ Len(bus) \in Nat /\ Len(log) \in Nat /\ \A i \in 1..Len(log) : log[i] \in Nat
      /\ \A s \in Sockets : /\ Len(down[s]) \in Nat
                            /\ \A i \in 1..Len(down[s]) : down[s][i] \in Nat
  BY SequenceTypes
<1>2. UNCHANGED <<log, connects>> /\ Len(bus') = next /\ next \in 1..MaxEvents
  <2>1. UNCHANGED <<log, connects>> /\ bus' = Append(bus, a) /\ Len(bus) < MaxEvents
    BY DEF Emit, appVars
  <2>2. Len(bus') = next
    BY <2>1, AppendProperties DEF FeedTypeOK
  <2> QED
    BY <1>1, <2>1, <2>2, Bounds
<1> HIDE DEF next
<1>3. ASSUME NEW s \in Sockets, NEW i \in 1..Len(down'[s])
      PROVE  \/ i \in 1..Len(down[s]) /\ down'[s][i] = down[s][i]
             \/ i = Len(down[s]) + 1 /\ down'[s][i] = next
  <2>1. down'[s] = down[s] \/ down'[s] = Append(down[s], next)
    BY DEF Emit, next
  <2>2. /\ Len(Append(down[s], next)) = Len(down[s]) + 1
        /\ \A k \in 1..Len(down[s]) : Append(down[s], next)[k] = down[s][k]
        /\ Append(down[s], next)[Len(down[s]) + 1] = next
    BY <1>2, SocketTypes, AppendProperties
  <2>3. Len(down[s]) \in Nat
    BY <1>1
  <2>4. CASE down'[s] = down[s]
    BY <1>3, <2>4
  <2>5. CASE down'[s] = Append(down[s], next)
    <3>1. i \in 1..Len(down[s]) \/ i = Len(down[s]) + 1
      BY <1>3, <2>2, <2>3, <2>5
    <3> QED
      BY <2>2, <2>5, <3>1
  <2> QED
    BY <2>1, <2>4, <2>5
<1>4. \A s \in Sockets : \A i \in 1..Len(down[s]) : down[s][i] < next
  BY <1>1 DEF EventsOrdered, InTransitOrdered, next
<1>5. InTransitOrdered'
  <2> SUFFICES ASSUME NEW s \in Sockets, NEW i \in 1..Len(down'[s])
               PROVE  /\ down'[s][i] <= next
                      /\ \A j \in 1..Len(down'[s]) : i < j => down'[s][i] < down'[s][j]
    BY <1>2 DEF InTransitOrdered
  <2>1. down'[s][i] <= next
    <3>1. next \in Nat
      BY <1>1 DEF next
    <3>2. CASE i \in 1..Len(down[s]) /\ down'[s][i] = down[s][i]
      <4>1. down[s][i] \in Nat /\ down[s][i] < next
        BY <1>1, <1>4, <3>2
      <4> QED
        BY <3>1, <3>2, <4>1
    <3>3. CASE down'[s][i] = next
      BY <3>1, <3>3
    <3> QED
      BY <1>3, <3>2, <3>3
  <2>2. ASSUME NEW j \in 1..Len(down'[s]), i < j PROVE down'[s][i] < down'[s][j]
    <3>1. i \in 1..Len(down[s]) /\ down'[s][i] = down[s][i]
      <4>1. j \in 1..Len(down[s]) \/ j = Len(down[s]) + 1
        BY <1>3
      <4> QED
        BY <1>1, <1>3, <2>2, <4>1
    <3>2. CASE j \in 1..Len(down[s]) /\ down'[s][j] = down[s][j]
      BY <2>2, <3>1, <3>2 DEF EventsOrdered, InTransitOrdered
    <3>3. CASE down'[s][j] = next
      BY <1>4, <3>1, <3>3
    <3> QED
      BY <1>3, <3>2, <3>3
  <2> QED
    BY <2>1, <2>2
<1>6. \A i \in 1..Len(log') : log'[i] < Len(bus')
  BY <1>1, <1>2 DEF EventsOrdered, next
<1>7. HandledInOrder'
  <2> SUFFICES ASSUME connects <= 1
               PROVE  /\ \A i, j \in 1..Len(log) : i < j => log[i] < log[j]
                      /\ \A s \in Sockets : \A i \in 1..Len(log), j \in 1..Len(down'[s]) :
                            log[i] < down'[s][j]
    BY <1>2 DEF HandledInOrder
  <2>1. /\ \A i, j \in 1..Len(log) : i < j => log[i] < log[j]
        /\ \A s \in Sockets : \A i \in 1..Len(log), j \in 1..Len(down[s]) :
              log[i] < down[s][j]
    BY DEF HandledInOrder
  <2>2. ASSUME NEW s \in Sockets, NEW i \in 1..Len(log), NEW j \in 1..Len(down'[s])
        PROVE  log[i] < down'[s][j]
    <3>1. log[i] < next
      BY <1>2, <1>6
    <3> QED
      BY <1>3, <2>1, <3>1
  <2> QED
    BY <2>1, <2>2
<1>8. \A i \in 1..Len(log') : log'[i] <= Len(bus')
  BY <1>1, <1>2, <1>6 DEF next
<1> QED
  BY <1>5, <1>7, <1>8 DEF EventsOrdered

LEMMA ConnectsGrow ==
    ASSUME FeedTypeOK, [FeedNext]_feedVars
    PROVE  connects' = connects \/ (Connect /\ connects' = connects + 1)
<1>1. ASSUME NEW s \in Sockets, OnOpen(s) \/ OnClose(s) PROVE connects' = connects
  BY <1>1 DEF OnOpen, OnClose, SocketEnds, appVars
<1> QED
  BY <1>1, ClientMoves DEF Connect, ReconnectTimer, TimerFires, WsClose, appVars

LEMMA OrderStep ==
    ASSUME FeedTypeOK, ForgottenIsEmpty, ChainsCounted, EventsOrdered, HandledInOrder,
           [FeedNext]_feedVars
    PROVE  EventsOrdered' /\ HandledInOrder'
<1>1. connects' <= 1 => connects <= 1
  BY ConnectsGrow, Bounds DEF FeedTypeOK
<1>2. CASE UNCHANGED <<down, log, bus>>
  BY <1>1, <1>2 DEF EventsOrdered, InTransitOrdered, HandledInOrder
<1>3. ASSUME NEW s \in Sockets, OnClose(s) PROVE EventsOrdered' /\ HandledInOrder'
  <2>1. UNCHANGED <<log, bus>> /\ down' = [down EXCEPT ![s] = <<>>]
    BY <1>3 DEF OnClose, SocketEnds, hubVars
  <2>2. Len(down'[s]) = 0 /\ \A t \in Sockets : t # s => down'[t] = down[t]
    BY <2>1, EmptySeq DEF FeedTypeOK
  <2>3. \A t \in Sockets : \A i \in 1..Len(down'[t]) : t # s /\ down'[t] = down[t]
    BY <2>2
  <2> QED
    BY <1>1, <2>1, <2>3 DEF EventsOrdered, InTransitOrdered, HandledInOrder
<1> QED
  BY <1>2, <1>3, EventMoves, MessageKeepsOrder, EmitKeepsOrder

-----------------------------------------------------------------------------
(* The flags of the client *)

\* A client that connected once has one socket, if any, and it is the current
\* one; nobody who awaits it is left hanging.
OneCallIsQuiet == connects <= 1 => ~hung /\ Live \subseteq {ws}

FlagsOK == OnlyFirstAwaited /\ OneCallIsQuiet /\ (closed => ws = 0)

LEMMA OpeningFlags ==
    ASSUME FeedTypeOK, ChainsCounted, FlagsOK, Connect \/ ReconnectTimer
    PROVE  FlagsOK'
<1>1. \/ Connect /\ OpenSocket("awaited") /\ connects' = connects + 1
      \/ ReconnectTimer /\ OpenSocket("ignored") /\ connects' = connects /\ timers > 0
  BY DEF Connect, ReconnectTimer, TimerFires
<1>2. PICK caller \in {"awaited", "ignored"} :
          OpenSocket(caller) /\ (caller = "awaited" => connects' = connects + 1)
  BY <1>1
<1>3. PICK s \in Sockets :
              /\ sock[s] = "none" /\ s \notin hub
              /\ sock' = [sock EXCEPT ![s] = "connecting"]
              /\ link' = [link EXCEPT ![s] = "syn"]
              /\ promise' = [promise EXCEPT ![s] = caller]
              /\ ws' = s /\ closed' = FALSE
              /\ UNCHANGED <<hubVars, up, down, drops, attempt, log, hung>>
  BY <1>2, SocketOpens
<1>4. connects \in Nat /\ timers \in Nat
  BY Bounds DEF FeedTypeOK
<1>5. /\ Held' = {t \in Sockets : sock'[t] \in {"connecting", "open", "closing"}}
      /\ Held = {t \in Sockets : sock[t] \in {"connecting", "open", "closing"}}
      /\ Live' = {t \in Sockets : sock'[t] \in {"connecting", "open"}}
  BY DEF Held, Live, States, Sockets
<1>6. connects' = 0 => FALSE
  <2>1. CASE connects' = connects + 1
    BY <1>4, <2>1
  <2>2. CASE timers > 0 /\ connects' = connects
    <3>1. connects = 0 => Cardinality(Held) + timers <= 0 /\ Cardinality(Held) \in Nat
      BY HeldIs DEF ChainsCounted
    <3> QED
      BY <1>4, <2>2, <3>1
  <2> QED
    BY <1>1, <2>1, <2>2
<1>7. connects' <= 1 => Held = {}
  BY <1>1, <1>4, OneAtATime
<1>8. OnlyFirstAwaited'
  <2> SUFFICES ASSUME NEW t \in Sockets, promise'[t] = "awaited"
               PROVE  t \in Held' /\ (connects' = 1 => attempt' = 0)
    BY <1>6 DEF OnlyFirstAwaited
  <2>1. CASE t = s
    <3>1. t \in Held' /\ caller = "awaited"
      BY <1>3, <1>5, <2>1 DEF FeedTypeOK
    <3>2. connects' = 1 => attempt = 0
      BY <1>2, <1>4, <3>1 DEF FlagsOK, OnlyFirstAwaited
    <3> QED
      BY <1>3, <3>1, <3>2
  <2>2. CASE t # s
    <3>1. promise[t] = "awaited" /\ sock'[t] = sock[t]
      BY <1>3, <2>2 DEF FeedTypeOK
    <3>2. t \in Held
      BY <3>1 DEF FlagsOK, OnlyFirstAwaited
    <3>3. connects' # 1
      BY <1>7, <3>2
    <3> QED
      BY <1>5, <3>1, <3>2, <3>3
  <2> QED
    BY <2>1, <2>2
<1>9. OneCallIsQuiet'
  <2> SUFFICES ASSUME connects' <= 1 PROVE ~hung' /\ Live' \subseteq {ws'}
    BY DEF OneCallIsQuiet
  <2>1. ~hung'
    BY <1>1, <1>3, <1>4 DEF FlagsOK, OneCallIsQuiet
  <2>2. Live' \subseteq {s}
    BY <1>3, <1>5, <1>7 DEF FeedTypeOK
  <2> QED
    BY <1>3, <2>1, <2>2
<1> QED
  BY <1>3, <1>8, <1>9 DEF FlagsOK

LEMMA FlagsStep ==
    ASSUME FeedTypeOK, ChainsCounted, FlagsOK, [FeedNext]_feedVars
    PROVE  FlagsOK'
<1>1. /\ Held' = {t \in Sockets : sock'[t] \in {"connecting", "open", "closing"}}
      /\ Held = {t \in Sockets : sock[t] \in {"connecting", "open", "closing"}}
      /\ Live' = {t \in Sockets : sock'[t] \in {"connecting", "open"}}
      /\ Live = {t \in Sockets : sock[t] \in {"connecting", "open"}}
  BY DEF Held, Live, States, Sockets
<1>2. CASE UNCHANGED <<wsVars, connects, hung>>
  <2>1. Held' = Held /\ Live' = Live
    BY <1>1, <1>2 DEF wsVars
  <2> QED
    BY <1>2, <2>1 DEF wsVars, FlagsOK, OnlyFirstAwaited, OneCallIsQuiet
<1>3. CASE WsClose
  <2>1. /\ UNCHANGED <<promise, attempt, connects, hung>> /\ closed' = TRUE /\ ws' = 0
        /\ sock' = IF ws \in Live THEN [sock EXCEPT ![ws] = "closing"] ELSE sock
    BY <1>3 DEF WsClose, appVars
  <2>2. Held' = Held
    BY <1>1, <2>1 DEF FeedTypeOK
  <2>3. Live' = Live \ {ws}
    BY <1>1, <2>1 DEF FeedTypeOK
  <2> QED
    BY <2>1, <2>2, <2>3 DEF FlagsOK, OnlyFirstAwaited, OneCallIsQuiet
<1>4. ASSUME NEW s \in Sockets, OnOpen(s) PROVE FlagsOK'
  <2>1. /\ UNCHANGED <<connects, hung, ws, closed>> /\ attempt' = 0
        /\ sock[s] = "connecting" /\ sock' = [sock EXCEPT ![s] = "open"]
        /\ promise' = [promise EXCEPT ![s] = "settled"]
    BY <1>4 DEF OnOpen, appVars
  <2>2. Held' = Held /\ Live' = Live
    BY <1>1, <2>1 DEF FeedTypeOK
  <2>3. \A t \in Sockets : promise'[t] = "awaited" => promise[t] = "awaited"
    BY <2>1 DEF FeedTypeOK
  <2> QED
    BY <2>1, <2>2, <2>3 DEF FlagsOK, OnlyFirstAwaited, OneCallIsQuiet
<1>5. ASSUME NEW s \in Sockets, OnClose(s) PROVE FlagsOK'
  <2>1. /\ UNCHANGED <<connects, ws, closed>> /\ s \in Held
        /\ sock' = [sock EXCEPT ![s] = "none"]
        /\ promise' = [promise EXCEPT ![s] = "settled"]
        /\ hung' = (hung \/ (promise[s] = "awaited" /\ ~(attempt = 0)))
    BY <1>1, <1>5 DEF OnClose, SocketEnds
  <2>2. connects # 0
    BY <2>1, OneAtATime
  <2>3. Held' = Held \ {s} /\ Live' \subseteq Live
    BY <1>1, <2>1 DEF FeedTypeOK
  <2>4. OnlyFirstAwaited'
    <3> SUFFICES ASSUME NEW t \in Sockets, promise'[t] = "awaited"
                 PROVE  t \in Held' /\ (connects' = 1 => attempt' = 0)
      BY <2>1, <2>2 DEF OnlyFirstAwaited
    <3>1. t # s /\ promise[t] = "awaited"
      BY <2>1 DEF FeedTypeOK
    <3>2. t \in Held
      BY <3>1 DEF FlagsOK, OnlyFirstAwaited
    <3>3. connects # 1
      BY <2>1, <3>1, <3>2, OneAtATime
    <3> QED
      BY <2>1, <2>3, <3>1, <3>2, <3>3
  <2>5. OneCallIsQuiet'
    <3> SUFFICES ASSUME connects <= 1 PROVE ~hung' /\ Live' \subseteq {ws}
      BY <2>1 DEF OneCallIsQuiet
    <3>1. connects = 1
      BY <2>2, Bounds DEF FeedTypeOK
    <3>2. promise[s] = "awaited" => attempt = 0
      BY <3>1 DEF FlagsOK, OnlyFirstAwaited
    <3>3. ~hung /\ Live \subseteq {ws}
      BY DEF FlagsOK, OneCallIsQuiet
    <3> QED
      BY <2>1, <2>3, <3>2, <3>3
  <2> QED
    BY <2>1, <2>4, <2>5 DEF FlagsOK
<1> QED
  BY <1>2, <1>3, <1>4, <1>5, OpeningFlags, ClientMoves

-----------------------------------------------------------------------------

FeedInv ==
    /\ FeedTypeOK /\ ForgottenIsEmpty /\ ChainsCounted
    /\ EventsOrdered /\ HandledInOrder /\ FlagsOK

\* For any agents, number of sockets, calls, events and faults.
THEOREM FeedInvariance == FeedSpec => []FeedInv
<1>1. FeedInit => FeedInv
  <2> SUFFICES ASSUME FeedInit PROVE FeedInv
    OBVIOUS
  <2>1. /\ <<>> \in Seq(Topics) /\ <<>> \in Seq(1..MaxEvents) /\ Len(<<>>) = 0
        /\ <<>> \in Seq(Agents \cup {NoAgent})
    BY EmptySeq
  <2>2. FeedTypeOK
    <3>1. bus \in Seq(Topics) /\ Len(bus) <= MaxEvents /\ log \in Seq(1..MaxEvents)
      BY <2>1, Bounds DEF FeedInit
    <3>2. /\ up \in [Sockets -> Seq(Agents \cup {NoAgent})]
          /\ down \in [Sockets -> Seq(1..MaxEvents)]
      BY <2>1 DEF FeedInit
    <3>3. /\ filter \in [Sockets -> Agents \cup {NoAgent}]
          /\ link \in [Sockets -> {"syn", "up", "down"}]
          /\ sock \in [Sockets -> {"none", "connecting", "open", "closing"}]
          /\ promise \in [Sockets -> {"settled", "awaited", "ignored"}]
      BY DEF FeedInit
    <3>4. /\ serving \in BOOLEAN /\ hub \subseteq Sockets
          /\ ws \in 0..MaxSockets /\ attempt \in 0..MaxAttempt /\ timers \in Nat
          /\ {closed, hung} \subseteq BOOLEAN
          /\ connects \in 0..MaxConnects /\ drops \in 0..MaxDrops
      BY Bounds DEF FeedInit
    <3> QED
      BY <3>1, <3>2, <3>3, <3>4 DEF FeedTypeOK
  <2>3. Held = {} /\ Live = {}
    BY DEF FeedInit, Held, Live, States
  <2>4. ChainsCounted
    BY <2>3, FS_EmptySet DEF FeedInit, ChainsCounted
  <2>5. Len(log) = 0 /\ \A s \in Sockets : Len(down[s]) = 0
    BY <2>1 DEF FeedInit
  <2>6. EventsOrdered /\ HandledInOrder
    BY <2>5 DEF EventsOrdered, InTransitOrdered, HandledInOrder
  <2>7. FlagsOK
    BY <2>3 DEF FeedInit, FlagsOK, OnlyFirstAwaited, OneCallIsQuiet
  <2>8. ForgottenIsEmpty
    BY DEF FeedInit, ForgottenIsEmpty
  <2> QED
    BY <2>2, <2>4, <2>6, <2>7, <2>8 DEF FeedInv
<1>2. FeedInv /\ [FeedNext]_feedVars => FeedInv'
  BY FeedTypesStep, ChainsStep, OrderStep, FlagsStep DEF FeedInv
<1> QED
  BY <1>1, <1>2, PTL DEF FeedSpec

\* A client that connected once and is closed is quiet, and an awaited promise is
\* not left hanging.
THEOREM FeedIsSafe == FeedSpec => []FeedSafe
<1>1. FeedInv => FeedSafe
  <2> SUFFICES ASSUME FeedInv PROVE FeedSafe
    OBVIOUS
  <2>1. Live \subseteq Sockets
    BY DEF Live, States
  <2>2. ClosedIsQuiet
    BY <2>1, Bounds DEF FeedInv, FlagsOK, OneCallIsQuiet, ClosedIsQuiet
  <2>3. AwaitedConnectSettles
    BY DEF FeedInv, FlagsOK, OneCallIsQuiet, AwaitedConnectSettles
  <2> QED
    BY <2>2, <2>3 DEF FeedInv, FeedSafe
<1> QED
  BY <1>1, FeedInvariance, PTL

\* Reconnects do not multiply: a connect() is worth one live socket or one
\* pending timer.
THEOREM ReconnectsDoNotMultiply == FeedSpec => []OneChainPerConnect
<1>1. FeedInv => OneChainPerConnect
  <2> SUFFICES ASSUME FeedInv PROVE OneChainPerConnect
    OBVIOUS
  <2>1. Live \in SUBSET Held /\ IsFiniteSet(Held) /\ Cardinality(Held) \in Nat
        /\ Cardinality(Live) \in Nat
    BY HeldIs, HeldCounts DEF FeedInv
  <2>2. Cardinality(Live) <= Cardinality(Held)
    BY <2>1, FS_Subset
  <2>3. timers \in Nat /\ connects \in Nat
    BY Bounds DEF FeedInv, FeedTypeOK
  <2> QED
    BY <2>1, <2>2, <2>3 DEF FeedInv, ChainsCounted, OneChainPerConnect
<1> QED
  BY <1>1, FeedInvariance, PTL

\* An application that connects once handles no event twice or out of order,
\* across all reconnects.
THEOREM HandledOnceInOrder == FeedSpec => []InOrderOnce
<1>1. FeedInv => InOrderOnce
  BY DEF FeedInv, HandledInOrder, InOrderOnce
<1> QED
  BY <1>1, FeedInvariance, PTL

=============================================================================
