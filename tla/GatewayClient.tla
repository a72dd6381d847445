---------------------------- MODULE GatewayClient ----------------------------
(***************************************************************************)
(* Clients of the gateway: AeeronClient of packages/sdk/src/AeeronClient.ts*)
(* pays and waits for settlement, `aeeron intent status --watch` of the    *)
(* command line polls the same route, and withRetry repeats any call.      *)
(*                                                                         *)
(* One tick is the second between two polls of waitForSettlement.  A call  *)
(* to the gateway takes Latency ticks at most; the gateway itself is what  *)
(* GatewaySettlement shows of it: OK means paid, 400 means it never will.  *)
(***************************************************************************)
EXTENDS GatewayClock, Integers, FiniteSets

CONSTANTS Pays,         \* pay() calls an application makes for one purchase
          Timeout,      \* waitForSettlement: timeoutMs
          Latency,      \* bound: ticks a poll takes
          WatchEvery,   \* --watch: ticks between two checks
          maxAttempts,  \* withRetry
          baseDelay, maxDelay

ASSUME ClientAssumption ==
    /\ {Timeout, WatchEvery, maxAttempts} \subseteq Nat \ {0}
    /\ {Latency, baseDelay, maxDelay} \subseteq Nat

VARIABLES
    pay,     \* of each pay() call: "none", "sent", "ok", "error", "threw"
    money,   \* its transaction: "none", "pending", "paid", "dead"
    row,     \* when the paymentRecords row appeared, Absent if it has not
    wait,    \* waitForSettlement: pc, deadline, its last poll and its answer
    checks,  \* --watch: "on", "exited", "crashed", and checks in flight
    retry    \* withRetry: pc, calls made, when it sleeps until

clientVars == <<pay, money, row, wait, checks, retry>>

Absent == -1
\* bound: a wait and a repeated call begin early enough to end before MaxTime.
Within(ticks) == now + ticks <= MaxTime

Idle == [pc |-> "idle", deadline |-> 0, sent |-> 0, slept |-> 0, last |-> "none"]

ClientInit ==
    /\ pay = [n \in Pays |-> "none"] /\ money = [n \in Pays |-> "none"]
    /\ row = Absent /\ wait = Idle
    /\ checks = [pc |-> "off", next |-> 0, flying |-> 0]
    /\ retry = [pc |-> "idle", calls |-> 0, until |-> 0]

-----------------------------------------------------------------------------
(* pay(): every call builds an intent with an id of its own *)

\* The application pays again when it was not told that it has paid.
Pay(n) ==
    /\ pay[n] = "none" /\ \A k \in Pays : pay[k] \notin {"sent", "ok"}
    /\ pay' = [pay EXCEPT ![n] = "sent"]
    /\ UNCHANGED <<now, money, row, wait, checks, retry>>

\* 200; 400; 500 or no answer at all with the transaction still on its way.
Answers == {<<"ok", "paid">>, <<"error", "dead">>, <<"error", "pending">>,
            <<"threw", "pending">>, <<"threw", "paid">>, <<"threw", "dead">>}

PayReturns(n) ==
    /\ pay[n] = "sent"
    /\ \E a \in Answers : /\ pay' = [pay EXCEPT ![n] = a[1]]
                          /\ money' = [money EXCEPT ![n] = a[2]]
    /\ UNCHANGED <<now, row, wait, checks, retry>>

Land(n, fate) ==
    /\ money[n] = "pending"
    /\ money' = [money EXCEPT ![n] = fate]
    /\ UNCHANGED <<now, pay, row, wait, checks, retry>>

\* The row for a settled intent appears.  Nothing in the repository writes it.
WriteRow ==
    /\ row = Absent /\ \E n \in Pays : money[n] = "paid"
    /\ row' = now
    /\ UNCHANGED <<now, pay, money, wait, checks, retry>>

-----------------------------------------------------------------------------
(* GET /status, waitForSettlement *)

\* 200 or 404 by the row, 500 when the query fails, or no connection.
StatusAnswers == {IF row = Absent THEN "absent" ELSE "settled", "failed", "lost"}

FaultyLoop(w) == IF now + 2 < w.deadline THEN [w EXCEPT !.pc = "asking", !.sent = now]
                 ELSE [w EXCEPT !.pc = "timeout"]

\* The loop's head: another poll before the deadline, or the timeout.
Loop(w) == IF now < w.deadline THEN [w EXCEPT !.pc = "asking", !.sent = now]
           ELSE [w EXCEPT !.pc = "timeout"]

WaitForSettlement ==
    /\ wait = Idle /\ Within(Timeout + Latency + 1)
    /\ wait' = Loop([Idle EXCEPT !.deadline = now + Timeout])
    /\ UNCHANGED <<now, pay, money, row, checks, retry>>

\* Whether the row is there is decided when the gateway reads it.
StatusRead ==
    /\ wait.pc = "asking"
    /\ \E a \in StatusAnswers : wait' = [wait EXCEPT !.pc = "answered", !.last = a]
    /\ UNCHANGED <<now, pay, money, row, checks, retry>>

\* status() takes a 500 for unsettled; a lost connection rejects.
Polled(a) == CASE a = "settled" -> "settled"
               [] a = "lost" -> "threw"
               [] OTHER -> "sleeping"

StatusReturns ==
    /\ wait.pc = "answered"
    /\ wait' = [wait EXCEPT !.pc = Polled(wait.last), !.slept = now]
    /\ UNCHANGED <<now, pay, money, row, checks, retry>>

PollAgain ==
    /\ wait.pc = "sleeping" /\ now > wait.slept
    /\ wait' = Loop(wait)
    /\ UNCHANGED <<now, pay, money, row, checks, retry>>

-----------------------------------------------------------------------------
(* aeeron intent status --watch: setInterval with an async callback *)

Watch ==
    /\ checks.pc = "off"
    /\ checks' = [checks EXCEPT !.pc = "on", !.next = now + WatchEvery]
    /\ UNCHANGED <<now, pay, money, row, wait, retry>>

\* The interval fires whether or not earlier checks have been answered.
Interval ==
    /\ checks.pc = "on" /\ now >= checks.next
    /\ checks' = [checks EXCEPT !.next = now + WatchEvery, !.flying = @ + 1]
    /\ UNCHANGED <<now, pay, money, row, wait, retry>>

\* The first settled answer ends the process, and so does the first rejection.
Checked(a) == CASE a = "settled" -> "exited" [] a = "lost" -> "crashed" [] OTHER -> checks.pc

Check ==
    /\ checks.pc = "on" /\ checks.flying > 0
    /\ \E a \in StatusAnswers : checks' = [checks EXCEPT !.flying = @ - 1, !.pc = Checked(a)]
    /\ UNCHANGED <<now, pay, money, row, wait, retry>>

-----------------------------------------------------------------------------
(* withRetry *)

Power[n \in Nat] == IF n = 0 THEN 1 ELSE 2 * Power[n - 1]
Delay(attempt) == LET d == baseDelay * Power[attempt] IN IF d < maxDelay THEN d ELSE maxDelay

Retry ==
    /\ (retry.pc = "idle" /\ Within(maxAttempts * maxDelay)) \/ (retry.pc = "sleeping" /\ now >= retry.until)
    /\ retry' = [retry EXCEPT !.pc = "calling", !.calls = @ + 1]
    /\ UNCHANGED <<now, pay, money, row, wait, checks>>

FaultyGivesUp(calls) == FALSE

GivesUp(calls) == calls = maxAttempts

CallEnds(ok) ==
    /\ retry.pc = "calling"
    /\ retry' = IF ok THEN [retry EXCEPT !.pc = "returned"]
                ELSE IF GivesUp(retry.calls) THEN [retry EXCEPT !.pc = "threw"]
                ELSE [retry EXCEPT !.pc = "sleeping", !.until = now + Delay(retry.calls - 1)]
    /\ UNCHANGED <<now, pay, money, row, wait, checks>>

-----------------------------------------------------------------------------

\* A poll is answered within Latency, a repeated call at once, and no timer is late.
ClientTick ==
    /\ Tick
    /\ wait.pc \in {"asking", "answered"} => now < wait.sent + Latency
    /\ wait.pc = "sleeping" => now = wait.slept
    /\ checks.pc = "on" => now < checks.next
    /\ retry.pc # "calling" /\ (retry.pc = "sleeping" => now < retry.until)
    /\ UNCHANGED clientVars

PayStep == \/ WriteRow
           \/ \E n \in Pays : \/ Pay(n) \/ PayReturns(n)
                              \/ \E fate \in {"paid", "dead"} : Land(n, fate)
WaitStep == StatusRead \/ StatusReturns \/ PollAgain
WatchStep == Watch \/ Interval \/ Check
RetryStep == Retry \/ \E ok \in BOOLEAN : CallEnds(ok)

ClientNext == ClientTick \/ PayStep \/ WaitForSettlement \/ WaitStep \/ WatchStep \/ RetryStep

ClientSpec == now = 0 /\ ClientInit /\ [][ClientNext]_<<now, clientVars>>

\* Timers fire, the gateway answers or the connection breaks.
ClientFairness ==
    /\ WF_<<now, clientVars>>(ClientTick) /\ WF_<<now, clientVars>>(Interval)
    /\ WF_<<now, clientVars>>(WaitStep)
    /\ WF_<<now, clientVars>>(retry.pc # "idle" /\ RetryStep)

-----------------------------------------------------------------------------
(* Properties *)

Waits == {"idle", "asking", "answered", "sleeping", "settled", "timeout", "threw"}

\* Every variable keeps its type; withRetry calls maxAttempts times at most.
ClientTypeOK ==
    /\ pay \in [Pays -> {"none", "sent", "ok", "error", "threw"}]
    /\ money \in [Pays -> {"none", "pending", "paid", "dead"}]
    /\ row \in Absent..MaxTime
    /\ wait.pc \in Waits /\ wait.deadline \in 0..(MaxTime + Timeout)
    /\ checks.pc \in {"off", "on", "exited", "crashed"} /\ checks.flying \in Nat
    /\ retry.pc \in {"idle", "calling", "sleeping", "returned", "threw"}
    /\ retry.calls \in 0..maxAttempts

\* A client told that the intent has settled, by waiting or by watching, was
\* told the truth.
SettledIsTrue == wait.pc = "settled" \/ checks.pc = "exited" => row # Absent

\* waitForSettlement times out only if the row was not there until one poll and
\* one pause before the deadline, or if the last poll got a 500.
TimeoutMeansLate ==
    wait.pc = "timeout" =>
        \/ wait.last = "failed" \/ row = Absent
        \/ row + 1 + Latency >= wait.deadline

\* What a client is told is true and in time, however its polls, the row and
\* lost connections interleave.
ClientSafe == ClientTypeOK /\ SettledIsTrue /\ TimeoutMeansLate

\* A wait and a repeated call come to an end, whatever the gateway answers.
ClientEnds ==
    /\ wait.pc = "asking" ~> wait.pc \in {"settled", "timeout", "threw"}
    /\ retry.pc = "calling" ~> retry.pc \in {"returned", "threw"}

\* sdk/src/AeeronClient.ts:66: "Returns txSignature + slot on success", so an
\* application told otherwise may pay again: one purchase is paid once.
PaidOncePerPurchase == Cardinality({n \in Pays : money[n] = "paid"}) <= 1
=============================================================================
