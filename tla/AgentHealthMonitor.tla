------------------------- MODULE AgentHealthMonitor -------------------------
(***************************************************************************)
(* The gateway's AgentHealthMonitor: start, stop, the interval, and cycles *)
(* that read the agents table, probe every agent at once, then persist the *)
(* results one agent after the other and emit events.  Cycles overlap when *)
(* one outlasts the interval, and after stop and start.  The agents and    *)
(* the database are the environment.  Latencies and times are left out;    *)
(* whether an answering agent counts as idle depends on its payments only. *)
(***************************************************************************)
EXTENDS Naturals

CONSTANTS
  Agents,        \* the rows of the agents table
  Cycles,        \* bound: the runCycle()s that may be in progress together
  DatabaseFails  \* BOOLEAN: queries may reject

ASSUME MonitorAssumption == DatabaseFails \in BOOLEAN

VARIABLES
  up,        \* the agent answers its probes in time and with a 2xx
  status,    \* agents.status
  failures,  \* this.failures, 0 for no entry
  timer,     \* this.timer is set
  cycle,     \* the runCycle()s in progress
  seen,      \* the last event emitted about an agent
  probed,    \* history: the outcome of the latest probe of each agent
  streak,    \* history: failed probes since the last good one
  announced  \* history: agent.offline events since the last good probe

history == <<probed, streak, announced>>
vars == <<up, status, failures, timer, cycle, seen, history>>

------------------------------------------------------------------------------
Good == {"online", "idle"}
AgentStatus == Good \cup {"offline"}

\* Bound: counters stop at Many.  The code only asks whether one equals 2.
Many == 3
Inc(n) == IF n < Many THEN n + 1 ELSE Many

\* A runCycle(): the probes it waits for, the results still to be persisted,
\* and, while it persists one, the agent and the status read before the update.
Ended == [pc |-> "ended", waiting |-> {}, results |-> [a \in {} |-> "offline"],
          agent |-> {}, prev |-> "none"]
Begun == [Ended EXCEPT !.pc = "selecting"]

\* The process starts over a table that an earlier one has written.
Init ==
  /\ up \in [Agents -> BOOLEAN]
  /\ status \in [Agents -> AgentStatus]
  /\ failures = [a \in Agents |-> 0]
  /\ timer = FALSE
  /\ cycle = [y \in Cycles |-> Ended]
  /\ seen = [a \in Agents |-> "none"]
  /\ probed = [a \in Agents |-> "none"]
  /\ streak = [a \in Agents |-> 0]
  /\ announced = [a \in Agents |-> 0]

------------------------------------------------------------------------------
\* void this.runCycle()
RunCycle(y) ==
  /\ cycle[y] = Ended
  /\ cycle' = [cycle EXCEPT ![y] = Begun]
  /\ UNCHANGED <<up, status, failures, seen, history>>

\* start(): the interval and an immediate first cycle; nothing if started.
Start(y) == ~timer /\ timer' = TRUE /\ RunCycle(y)

\* The interval elapses.
Tick(y) == timer /\ UNCHANGED timer /\ RunCycle(y)

\* stop(): a cycle in progress goes on.
Stop ==
  /\ timer /\ timer' = FALSE
  /\ UNCHANGED <<up, status, failures, cycle, seen, history>>

\* The agents have been selected and are all being probed, or the query failed.
Selected(y) ==
  /\ cycle[y].pc = "selecting"
  /\ \/ cycle' = [cycle EXCEPT ![y].pc = "probing", ![y].waiting = Agents]
     \/ DatabaseFails /\ cycle' = [cycle EXCEPT ![y] = Ended]
  /\ UNCHANGED <<up, status, failures, timer, seen, history>>

\* checkAgent settles with result r; with the last one persisting begins.
Settle(y, a, r) ==
  /\ cycle[y].pc = "probing" /\ a \in cycle[y].waiting
  /\ cycle' = [cycle EXCEPT
       ![y].waiting = @ \ {a},
       ![y].results = [b \in DOMAIN @ \cup {a} |-> IF b = a THEN r ELSE @[b]],
       ![y].pc = IF cycle[y].waiting = {a} THEN "persisting" ELSE "probing"]
  /\ probed' = [probed EXCEPT ![a] = r]
  /\ UNCHANGED <<up, status, timer, seen>>

FaultyAnswers(y, a) ==
  /\ up[a]
  /\ \E r \in Good : Settle(y, a, r)
  /\ streak' = [streak EXCEPT ![a] = 0]
  /\ announced' = [announced EXCEPT ![a] = 0]
  /\ UNCHANGED failures

Answers(y, a) ==
  /\ up[a]
  /\ \E r \in Good : Settle(y, a, r)
  /\ failures' = [failures EXCEPT ![a] = 0]
  /\ streak' = [streak EXCEPT ![a] = 0]
  /\ announced' = [announced EXCEPT ![a] = 0]

\* A status that is not 2xx, a timeout or a network error.
NoAnswer(y, a) ==
  /\ ~up[a]
  /\ Settle(y, a, "offline")
  /\ failures' = [failures EXCEPT ![a] = Inc(@)]
  /\ streak' = [streak EXCEPT ![a] = Inc(@)]
  /\ UNCHANGED announced

------------------------------------------------------------------------------
\* persist(): the previous status has been read.
ReadPrevious(y, a) ==
  /\ cycle[y].pc = "persisting" /\ a \in DOMAIN cycle[y].results
  /\ cycle' = [cycle EXCEPT ![y].pc = "updating", ![y].agent = {a},
                            ![y].prev = status[a]]
  /\ UNCHANGED <<up, status, failures, timer, seen, history>>

\* The update of agents.status to the table t is applied.
Write(y, a, t) ==
  /\ cycle[y].pc = "updating" /\ cycle[y].agent = {a}
  /\ cycle' = [cycle EXCEPT ![y].pc = "updated"]
  /\ status' = t
  /\ UNCHANGED <<up, failures, timer, seen, history>>

FaultyUpdate(y, a) == Write(y, a, [b \in Agents |-> cycle[y].results[a]])

FaultyUpdateIfGood(y, a) ==
  Write(y, a, [status EXCEPT ![a] =
                 IF cycle[y].results[a] \in Good THEN cycle[y].results[a] ELSE @])

Update(y, a) == Write(y, a, [status EXCEPT ![a] = cycle[y].results[a]])

\* The cycle is done with agent a.
Persisted(y, a) ==
  LET rest == DOMAIN cycle[y].results \ {a}
  IN  cycle' = [cycle EXCEPT ![y] =
        IF rest = {} THEN Ended
        ELSE [Ended EXCEPT !.pc = "persisting",
                           !.results = [b \in rest |-> cycle[y].results[b]]]]

FaultyGoesOffline(y, a) ==
  cycle[y].results[a] = "offline" /\ failures[a] >= 2

\* "Emit offline event only on second consecutive failure to avoid noise"
GoesOffline(y, a) ==
  /\ cycle[y].results[a] = "offline"
  /\ failures[a] = 2
  /\ cycle[y].prev # "offline"

\* After the update: the heartbeat or, on the condition above, the alarm.
Emit(y, a) ==
  /\ cycle[y].pc = "updated" /\ cycle[y].agent = {a}
  /\ Persisted(y, a)
  /\ CASE cycle[y].results[a] \in Good ->
            seen' = [seen EXCEPT ![a] = "heartbeat"] /\ UNCHANGED announced
       [] GoesOffline(y, a) ->
            /\ seen' = [seen EXCEPT ![a] = "offline"]
            /\ announced' = [announced EXCEPT ![a] = Inc(@)]
       [] OTHER -> UNCHANGED <<seen, announced>>
  /\ UNCHANGED <<up, status, failures, timer, probed, streak>>

\* A query of persist() rejects: the update may have been applied or not, and
\* no event is emitted.
PersistFails(y, a) ==
  /\ DatabaseFails
  /\ \/ cycle[y].pc = "persisting" /\ a \in DOMAIN cycle[y].results
     \/ cycle[y].pc \in {"updating", "updated"} /\ cycle[y].agent = {a}
  /\ Persisted(y, a)
  /\ UNCHANGED <<up, status, failures, timer, seen, history>>

------------------------------------------------------------------------------
\* An agent stops or resumes answering.
Turn(a) ==
  /\ up' = [up EXCEPT ![a] = ~@]
  /\ UNCHANGED <<status, failures, timer, cycle, seen, history>>

\* The gateway process ends and starts again; the table survives.
Restart ==
  /\ failures' = [a \in Agents |-> 0]
  /\ timer' = FALSE
  /\ cycle' = [y \in Cycles |-> Ended]
  /\ UNCHANGED <<up, status, seen, history>>

CycleStep(y) ==
  \/ Selected(y)
  \/ \E a \in Agents : \/ Answers(y, a) \/ NoAnswer(y, a)
                       \/ ReadPrevious(y, a) \/ Update(y, a) \/ Emit(y, a)

Next ==
  \/ \E y \in Cycles :
       \/ Start(y) \/ Tick(y) \/ CycleStep(y)
       \/ \E a \in Agents : PersistFails(y, a)
  \/ \E a \in Agents : Turn(a)
  \/ Stop \/ Restart

Spec == Init /\ [][Next]_vars

\* The interval fires while it is set, probes end (each has a timeout), and
\* queries that do not reject return.
Fairness == \A y \in Cycles : WF_vars(Tick(y)) /\ WF_vars(CycleStep(y))

LiveSpec == Spec /\ Fairness

------------------------------------------------------------------------------
\* Type invariant of the monitor, its cycles, the table and the history.
TypeOK ==
  /\ up \in [Agents -> BOOLEAN] /\ status \in [Agents -> AgentStatus]
  /\ failures \in [Agents -> 0..Many] /\ timer \in BOOLEAN
  /\ seen \in [Agents -> {"none", "heartbeat", "offline"}]
  /\ probed \in [Agents -> AgentStatus \cup {"none"}]
  /\ streak \in [Agents -> 0..Many] /\ announced \in [Agents -> 0..Many]
  /\ \A y \in Cycles :
       /\ cycle[y].waiting \cup DOMAIN cycle[y].results \subseteq Agents
       /\ (cycle[y].pc = "ended") = (cycle[y] = Ended)
       /\ cycle[y].pc \in {"updating", "updated"} =>
            cycle[y].agent \subseteq DOMAIN cycle[y].results

\* An agent.offline event is only emitted for an agent whose last two probes
\* have failed, whichever cycles made them, also after a restart lost the
\* counts (AgentHealthMonitor.persist, "second consecutive failure").
OfflineMeansTwoInARow ==
  [][\A a \in Agents : announced'[a] > announced[a] => streak[a] >= 2]_vars

\* While cycles do not overlap, an outage is announced at most once, however
\* long it lasts and whatever queries and restarts fail in between.
OncePerOutage == \A a \in Agents : announced[a] <= 1

\* The same with the types of the monitor's state, over queries that fail and
\* restarts that lose the counts.
AlarmsSafe == TypeOK /\ OncePerOutage

\* While cycles do not overlap, the table is only ever changed to the outcome
\* of the latest probe of that agent.
TableFollowsProbe ==
  [][\A a \in Agents : status'[a] # status[a] => status'[a] = probed[a]]_vars

\* An agent that stays down is shown offline for good, as long as the monitor
\* stays started and the database answers.
DeadIsMarked ==
  \A a \in Agents :
    (<>[](~up[a]) /\ <>[]timer) => <>[](status[a] = "offline")

\* AgentHealthMonitor.ts: "agent.offline : when a previously-online agent stops
\* responding (after 2 consecutive failures)" -- the last event of an agent
\* that has failed twice is not a heartbeat once the cycles have ended.
OutageAnnounced ==
  (\A y \in Cycles : cycle[y] = Ended) =>
    \A a \in Agents : streak[a] >= 2 => seen[a] # "heartbeat"
==============================================================================
