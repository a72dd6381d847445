----------------------- MODULE AgentHealthMonitorProofs -----------------------
(***************************************************************************)
(* The health monitor for any agents and any cycles: an alarm follows two  *)
(* failed probes in a row; and, for one cycle at a time, an outage is      *)
(* announced once and the table follows the probes.                        *)
(***************************************************************************)
EXTENDS AgentHealthMonitor, TLAPS

Results == UNION {[S -> AgentStatus] : S \in SUBSET Agents}
AtWork == {"updating", "updated"}
Pcs == {"ended", "selecting", "probing", "persisting"} \cup AtWork
CycleState == [pc : Pcs, waiting : SUBSET Agents, results : Results,
               agent : SUBSET Agents, prev : AgentStatus \cup {"none"}]

CycleTyped(s) ==
  /\ s \in CycleState
  /\ s.pc = "ended" => s = Ended
  /\ s.pc \in AtWork => \E a \in DOMAIN s.results : s.agent = {a}

Typed ==
  /\ up \in [Agents -> BOOLEAN] /\ status \in [Agents -> AgentStatus]
  /\ failures \in [Agents -> 0..Many] /\ timer \in BOOLEAN
  /\ seen \in [Agents -> {"none", "heartbeat", "offline"}]
  /\ probed \in [Agents -> AgentStatus \cup {"none"}]
  /\ streak \in [Agents -> 0..Many] /\ announced \in [Agents -> 0..Many]
  /\ cycle \in [Cycles -> CycleState] /\ \A y \in Cycles : CycleTyped(cycle[y])

\* A restart loses counts, it never makes them larger than the real streak.
CountsTrail == \A a \in Agents : failures[a] <= streak[a]

MonitorInv == Typed /\ CountsTrail

\* What a cycle has found is what the latest probe found, and what it has
\* written is in the table.
CycleFresh(s) ==
  /\ \A a \in DOMAIN s.results : s.results[a] = probed[a]
  /\ \A a \in DOMAIN s.results : s.pc = "updated" /\ s.agent = {a} =>
                                   status[a] = s.results[a]
  /\ \A a \in Agents : s.pc \in AtWork /\ s.agent = {a} /\ announced[a] > 0 =>
                         s.prev = "offline"

\* An announced outage has failed its latest probe, and the table shows it.
OutageInv ==
  /\ OncePerOutage
  /\ \A a \in Agents : announced[a] > 0 => probed[a] = "offline" /\ status[a] = "offline"
  /\ \A y \in Cycles : CycleFresh(cycle[y])

OutagesInv == MonitorInv /\ OutageInv
-----------------------------------------------------------------------------
\* One cycle goes on; the others stay where they are.
LEMMA CycleMoves ==
  ASSUME Typed, NEW y \in Cycles, NEW s, CycleTyped(s),
         cycle' = [cycle EXCEPT ![y] = s]
  PROVE  /\ cycle' \in [Cycles -> CycleState]
         /\ \A z \in Cycles : CycleTyped(cycle'[z])
         /\ cycle'[y] = s /\ \A z \in Cycles : z # y => cycle'[z] = cycle[z]
  BY DEF Typed, CycleTyped

LEMMA EndedTyped == CycleTyped(Ended) /\ CycleTyped(Begun)
<1>1. [a \in {} |-> "offline"] \in [{} -> AgentStatus]
  OBVIOUS
<1>2. [a \in {} |-> "offline"] \in Results
  BY <1>1 DEF Results
<1> QED
  BY <1>2 DEF CycleTyped, CycleState, Ended, Begun, Pcs, AtWork

\* The results of a typed cycle are a function of some agents.
LEMMA ResultsTyped ==
  ASSUME NEW s, CycleTyped(s)
  PROVE  /\ DOMAIN s.results \subseteq Agents
         /\ s.results \in [DOMAIN s.results -> AgentStatus]
  BY DEF CycleTyped, CycleState, Results

LEMMA ResultsOver ==
  ASSUME NEW S \in SUBSET Agents, NEW f, f \in [S -> AgentStatus]
  PROVE  f \in Results
  BY DEF Results

\* The steps that end a cycle or one agent's part of it.
LEMMA PersistedMoves ==
  ASSUME Typed, NEW y \in Cycles, NEW a \in Agents, Persisted(y, a)
  PROVE  \E s : /\ CycleTyped(s) /\ cycle' = [cycle EXCEPT ![y] = s]
                /\ s.pc \notin AtWork
                /\ DOMAIN s.results \subseteq DOMAIN cycle[y].results
                /\ \A b \in DOMAIN s.results : s.results[b] = cycle[y].results[b]
<1> DEFINE rest == DOMAIN cycle[y].results \ {a}
           more == [Ended EXCEPT !.pc = "persisting",
                                 !.results = [b \in rest |-> cycle[y].results[b]]]
<1>1. rest \subseteq Agents /\ [b \in rest |-> cycle[y].results[b]] \in [rest -> AgentStatus]
  BY ResultsTyped DEF Typed
<1>2. CycleTyped(more)
  <2>1. more.results \in Results
    BY <1>1, ResultsOver DEF Ended
  <2> QED
    BY <2>1 DEF CycleTyped, CycleState, Ended, Pcs, AtWork
<1>3. CASE rest = {}
  <2>1. cycle' = [cycle EXCEPT ![y] = Ended]
    BY <1>3 DEF Persisted
  <2>2. Ended.pc \notin AtWork /\ DOMAIN Ended.results = {}
    BY DEF Ended, AtWork
  <2> QED
    BY <2>1, <2>2, EndedTyped
<1>4. CASE rest # {}
  <2>1. cycle' = [cycle EXCEPT ![y] = more]
    BY <1>4 DEF Persisted
  <2>2. /\ more.pc \notin AtWork /\ DOMAIN more.results = rest
        /\ \A b \in rest : more.results[b] = cycle[y].results[b]
    BY DEF Ended, AtWork
  <2> QED
    BY <1>2, <2>1, <2>2
<1> QED
  BY <1>3, <1>4

\* A probe settles.
LEMMA SettleMoves ==
  ASSUME Typed, NEW y \in Cycles, NEW a \in Agents, NEW r \in AgentStatus, Settle(y, a, r)
  PROVE  \E s : /\ CycleTyped(s) /\ cycle' = [cycle EXCEPT ![y] = s]
                /\ s.pc \notin AtWork
                /\ DOMAIN s.results = DOMAIN cycle[y].results \cup {a}
                /\ s.results[a] = r
                /\ \A b \in DOMAIN cycle[y].results : b # a =>
                     s.results[b] = cycle[y].results[b]
<1> DEFINE old == cycle[y]
           found == [b \in DOMAIN old.results \cup {a} |->
                       IF b = a THEN r ELSE old.results[b]]
           s == [old EXCEPT !.waiting = @ \ {a}, !.results = found,
                   !.pc = IF old.waiting = {a} THEN "persisting" ELSE "probing"]
<1>1. old \in CycleState /\ CycleTyped(old)
  BY DEF Typed
<1>2. cycle' = [cycle EXCEPT ![y] = s]
  BY <1>1 DEF Settle, CycleState, Typed
<1>3. found \in Results
  <2>1. DOMAIN old.results \cup {a} \in SUBSET Agents
        /\ found \in [DOMAIN old.results \cup {a} -> AgentStatus]
    BY <1>1, ResultsTyped
  <2> QED
    BY <2>1, ResultsOver
<1>4. s.pc \in {"persisting", "probing"} /\ s.results = found
  BY <1>1 DEF CycleState
<1>5. CycleTyped(s)
  <2>1. s \in CycleState
    BY <1>1, <1>3 DEF CycleState, Pcs
  <2> QED
    BY <1>4, <2>1 DEF CycleTyped, AtWork
<1>6. s.pc \notin AtWork
  BY <1>4 DEF AtWork
<1> QED
  BY <1>2, <1>4, <1>5, <1>6

LEMMA Counting == \A n \in 0..Many : Inc(n) \in 0..Many /\ Inc(n) >= n
  BY DEF Inc, Many

LEMMA CountingMonotone == \A m, n \in 0..Many : m <= n => Inc(m) <= Inc(n)
  BY DEF Inc, Many

-----------------------------------------------------------------------------
(* Any number of cycles.                                                   *)

LEMMA ReadMoves ==
  ASSUME Typed, NEW y \in Cycles, NEW a \in Agents, ReadPrevious(y, a)
  PROVE  \E s : /\ CycleTyped(s) /\ cycle' = [cycle EXCEPT ![y] = s]
                /\ s.pc = "updating" /\ s.agent = {a} /\ s.prev = status[a]
                /\ s.results = cycle[y].results
<1> DEFINE s == [cycle[y] EXCEPT !.pc = "updating", !.agent = {a}, !.prev = status[a]]
<1>1. cycle[y] \in CycleState /\ a \in DOMAIN cycle[y].results /\ status[a] \in AgentStatus
  BY DEF Typed, ReadPrevious
<1>2. cycle' = [cycle EXCEPT ![y] = s]
  BY <1>1 DEF ReadPrevious, CycleState, Typed
<1>3. s \in CycleState /\ s.pc = "updating" /\ s.agent = {a} /\ s.prev = status[a]
      /\ s.results = cycle[y].results
  BY <1>1 DEF CycleState, Pcs, AtWork
<1>4. CycleTyped(s)
  BY <1>1, <1>3 DEF CycleTyped
<1> QED
  BY <1>2, <1>3, <1>4

LEMMA UpdateMoves ==
  ASSUME Typed, NEW y \in Cycles, NEW a \in Agents, Update(y, a)
  PROVE  /\ a \in DOMAIN cycle[y].results
         /\ cycle[y].pc = "updating" /\ cycle[y].agent = {a}
         /\ \E s : /\ CycleTyped(s) /\ cycle' = [cycle EXCEPT ![y] = s]
                   /\ s.pc = "updated" /\ s.agent = {a} /\ s.prev = cycle[y].prev
                   /\ s.results = cycle[y].results
<1> DEFINE s == [cycle[y] EXCEPT !.pc = "updated"]
<1>1. cycle[y] \in CycleState /\ CycleTyped(cycle[y])
      /\ cycle[y].pc = "updating" /\ cycle[y].agent = {a}
  BY DEF Typed, Update, Write
<1>2. a \in DOMAIN cycle[y].results
  BY <1>1 DEF CycleTyped, AtWork
<1>3. cycle' = [cycle EXCEPT ![y] = s]
  BY <1>1 DEF Update, Write, CycleState, Typed
<1>4. s \in CycleState /\ s.pc = "updated" /\ s.agent = {a} /\ s.prev = cycle[y].prev
      /\ s.results = cycle[y].results
  BY <1>1 DEF CycleState, Pcs, AtWork
<1>5. CycleTyped(s)
  BY <1>2, <1>4 DEF CycleTyped
<1> QED
  BY <1>1, <1>2, <1>3, <1>4, <1>5

LEMMA SelectedMoves ==
  ASSUME Typed, NEW y \in Cycles, Selected(y)
  PROVE  \E s : /\ CycleTyped(s) /\ cycle' = [cycle EXCEPT ![y] = s]
                /\ s.pc \notin AtWork
                /\ DOMAIN s.results \subseteq DOMAIN cycle[y].results
                /\ \A b \in DOMAIN s.results : s.results[b] = cycle[y].results[b]
<1> DEFINE s == [cycle[y] EXCEPT !.pc = "probing", !.waiting = Agents]
<1>1. cycle[y] \in CycleState
  BY DEF Typed
<1>2. CycleTyped(s) /\ s.pc \notin AtWork /\ s.results = cycle[y].results
  BY <1>1 DEF CycleTyped, CycleState, Pcs, AtWork
<1>3. CASE cycle' = [cycle EXCEPT ![y].pc = "probing", ![y].waiting = Agents]
  <2>1. cycle' = [cycle EXCEPT ![y] = s]
    BY <1>1, <1>3 DEF CycleState, Typed
  <2> QED
    BY <1>2, <2>1
<1>4. CASE cycle' = [cycle EXCEPT ![y] = Ended]
  <2>1. Ended.pc \notin AtWork /\ DOMAIN Ended.results = {}
    BY DEF Ended, AtWork
  <2> QED
    BY <1>4, <2>1, EndedTyped
<1> QED
  BY <1>3, <1>4 DEF Selected

\* The cycles after a step of one of them, or of none.
CyclesTyped == cycle \in [Cycles -> CycleState] /\ \A y \in Cycles : CycleTyped(cycle[y])

LEMMA CyclesMove ==
  ASSUME Typed, Next
  PROVE  CyclesTyped'
<1>1. ASSUME NEW y \in Cycles, NEW s, CycleTyped(s), cycle' = [cycle EXCEPT ![y] = s]
      PROVE  CyclesTyped'
  BY <1>1, CycleMoves DEF CyclesTyped
<1>2. ASSUME UNCHANGED cycle PROVE CyclesTyped'
  BY <1>2 DEF Typed, CyclesTyped
<1>3. ASSUME NEW y \in Cycles, RunCycle(y) PROVE CyclesTyped'
  BY <1>1, <1>3, EndedTyped DEF RunCycle
<1>4. ASSUME NEW y \in Cycles, Selected(y) PROVE CyclesTyped'
  BY <1>1, <1>4, SelectedMoves
<1>5. ASSUME NEW y \in Cycles, NEW a \in Agents, NEW r \in AgentStatus, Settle(y, a, r)
      PROVE  CyclesTyped'
  BY <1>1, <1>5, SettleMoves
<1>6. ASSUME NEW y \in Cycles, NEW a \in Agents, Answers(y, a) \/ NoAnswer(y, a)
      PROVE  CyclesTyped'
  BY <1>5, <1>6 DEF Answers, NoAnswer, AgentStatus
<1>7. ASSUME NEW y \in Cycles, NEW a \in Agents, ReadPrevious(y, a) PROVE CyclesTyped'
  BY <1>1, <1>7, ReadMoves
<1>8. ASSUME NEW y \in Cycles, NEW a \in Agents, Update(y, a) PROVE CyclesTyped'
  BY <1>1, <1>8, UpdateMoves
<1>9. ASSUME NEW y \in Cycles, NEW a \in Agents, Persisted(y, a) PROVE CyclesTyped'
  BY <1>1, <1>9, PersistedMoves
<1>10. CASE Restart
  BY <1>10, EndedTyped DEF Restart, CyclesTyped, CycleTyped
<1> QED
  BY <1>2, <1>3, <1>4, <1>6, <1>7, <1>8, <1>9, <1>10
  DEF Next, Start, Tick, CycleStep, Emit, PersistFails, Stop, Turn

LEMMA NextMonitor == MonitorInv /\ [Next]_vars => MonitorInv'
<1> SUFFICES ASSUME MonitorInv, [Next]_vars PROVE MonitorInv'
  OBVIOUS
<1> DEFINE Same == UNCHANGED <<up, status, failures, timer, seen, history>>
           Rest == /\ up' \in [Agents -> BOOLEAN] /\ status' \in [Agents -> AgentStatus]
                   /\ failures' \in [Agents -> 0..Many] /\ timer' \in BOOLEAN
                   /\ seen' \in [Agents -> {"none", "heartbeat", "offline"}]
                   /\ probed' \in [Agents -> AgentStatus \cup {"none"}]
                   /\ streak' \in [Agents -> 0..Many]
                   /\ announced' \in [Agents -> 0..Many]
<1>1. ASSUME Same \/ \E y \in Cycles : Start(y) \/ Tick(y) PROVE Rest /\ CountsTrail'
  BY <1>1 DEF MonitorInv, Typed, CountsTrail, Start, Tick, RunCycle, history
<1>2. ASSUME NEW y \in Cycles, NEW a \in Agents, Answers(y, a)
      PROVE  Rest /\ CountsTrail'
  <2>1. 0 \in 0..Many /\ 0 <= 0
    BY DEF Many
  <2>2. /\ failures \in [Agents -> 0..Many] /\ streak \in [Agents -> 0..Many]
        /\ announced \in [Agents -> 0..Many]
        /\ failures' = [failures EXCEPT ![a] = 0]
        /\ streak' = [streak EXCEPT ![a] = 0]
        /\ announced' = [announced EXCEPT ![a] = 0]
    BY <1>2 DEF Answers, MonitorInv, Typed
  <2>3. /\ failures' \in [Agents -> 0..Many] /\ streak' \in [Agents -> 0..Many]
        /\ announced' \in [Agents -> 0..Many]
    BY <2>1, <2>2
  <2>4. CountsTrail'
    BY <2>1, <2>2 DEF MonitorInv, CountsTrail
  <2>5. probed' \in [Agents -> AgentStatus \cup {"none"}]
    BY <1>2 DEF Answers, Settle, MonitorInv, Typed, AgentStatus
  <2> QED
    BY <1>2, <2>3, <2>4, <2>5 DEF Answers, Settle, MonitorInv, Typed
<1>3. ASSUME NEW y \in Cycles, NEW a \in Agents, NoAnswer(y, a)
      PROVE  Rest /\ CountsTrail'
  <2>1. /\ failures \in [Agents -> 0..Many] /\ streak \in [Agents -> 0..Many]
        /\ failures' = [failures EXCEPT ![a] = Inc(@)]
        /\ streak' = [streak EXCEPT ![a] = Inc(@)]
    BY <1>3 DEF NoAnswer, MonitorInv, Typed
  <2>2. failures' \in [Agents -> 0..Many] /\ streak' \in [Agents -> 0..Many]
    BY <2>1, Counting
  <2>3. CountsTrail'
    BY <2>1, CountingMonotone DEF MonitorInv, CountsTrail
  <2>4. probed' \in [Agents -> AgentStatus \cup {"none"}]
    BY <1>3 DEF NoAnswer, Settle, MonitorInv, Typed, AgentStatus
  <2> QED
    BY <1>3, <2>2, <2>3, <2>4 DEF NoAnswer, Settle, MonitorInv, Typed
<1>4. ASSUME NEW y \in Cycles, NEW a \in Agents, Update(y, a)
      PROVE  Rest /\ CountsTrail'
  <2>1. cycle[y].results[a] \in AgentStatus
    BY <1>4, UpdateMoves, ResultsTyped DEF MonitorInv, Typed
  <2> QED
    BY <1>4, <2>1 DEF Update, Write, MonitorInv, Typed, CountsTrail, history
<1>5. ASSUME NEW y \in Cycles, NEW a \in Agents, Emit(y, a)
      PROVE  Rest /\ CountsTrail'
  <2>1. announced' \in [Agents -> 0..Many]
        /\ seen' \in [Agents -> {"none", "heartbeat", "offline"}]
    BY <1>5, Counting DEF Emit, MonitorInv, Typed
  <2> QED
    BY <1>5, <2>1 DEF Emit, MonitorInv, Typed, CountsTrail
<1>6. ASSUME NEW a \in Agents, Turn(a) PROVE Rest /\ CountsTrail'
  BY <1>6 DEF Turn, MonitorInv, Typed, CountsTrail, history
<1>7. ASSUME Restart PROVE Rest /\ CountsTrail'
  <2>1. 0 \in 0..Many /\ \A n \in 0..Many : 0 <= n
    BY DEF Many
  <2>2. failures' = [a \in Agents |-> 0] /\ UNCHANGED streak
    BY <1>7 DEF Restart, history
  <2>3. failures' \in [Agents -> 0..Many]
    BY <2>1, <2>2
  <2>4. CountsTrail'
    BY <2>1, <2>2 DEF MonitorInv, Typed, CountsTrail
  <2> QED
    BY <1>7, <2>3, <2>4 DEF Restart, MonitorInv, Typed, history
<1>8. ASSUME Stop PROVE Rest /\ CountsTrail'
  BY <1>8 DEF Stop, MonitorInv, Typed, CountsTrail, history
<1>9. CASE Next
  <2>0. ASSUME NEW y \in Cycles, Selected(y)
                 \/ \E a \in Agents : ReadPrevious(y, a) \/ PersistFails(y, a)
        PROVE  Same
    BY <2>0 DEF Selected, ReadPrevious, PersistFails
  <2>1. Rest /\ CountsTrail'
    <3> HIDE DEF Rest, Same
    <3> QED
      BY <1>1, <1>2, <1>3, <1>4, <1>5, <1>6, <1>7, <1>8, <1>9, <2>0 DEF Next, CycleStep
  <2>2. CyclesTyped'
    BY <1>9, CyclesMove DEF MonitorInv
  <2> QED
    BY <2>1, <2>2 DEF MonitorInv, Typed, CyclesTyped
<1>10. CASE UNCHANGED vars
  <2>1. Rest /\ CountsTrail'
    BY <1>10 DEF vars, history, MonitorInv, Typed, CountsTrail
  <2>2. CyclesTyped'
    BY <1>10 DEF vars, MonitorInv, Typed, CyclesTyped
  <2> QED
    BY <2>1, <2>2 DEF MonitorInv, Typed, CyclesTyped
<1> QED
  BY <1>9, <1>10

LEMMA InitMonitor == Init => MonitorInv
<1> SUFFICES ASSUME Init PROVE MonitorInv
  OBVIOUS
<1>1. cycle \in [Cycles -> CycleState] /\ \A y \in Cycles : CycleTyped(cycle[y])
  BY EndedTyped DEF Init, CycleTyped
<1>2. failures = [a \in Agents |-> 0] /\ streak = [a \in Agents |-> 0]
      /\ announced = [a \in Agents |-> 0]
  BY DEF Init
<1>3. 0 \in 0..Many /\ 0 <= 0
  BY DEF Many
<1>4. failures \in [Agents -> 0..Many] /\ streak \in [Agents -> 0..Many]
      /\ announced \in [Agents -> 0..Many] /\ CountsTrail
  BY <1>2, <1>3 DEF CountsTrail
<1> QED
  BY <1>1, <1>4 DEF Init, MonitorInv, Typed

\* Types and counts are right however many cycles overlap.
THEOREM MonitorInvariance == Spec => []MonitorInv
  BY InitMonitor, NextMonitor, PTL DEF Spec

LEMMA MonitorTypeOK == MonitorInv => TypeOK
<1> SUFFICES ASSUME MonitorInv, NEW y \in Cycles
             PROVE  /\ cycle[y].waiting \cup DOMAIN cycle[y].results \subseteq Agents
                    /\ (cycle[y].pc = "ended") = (cycle[y] = Ended)
                    /\ cycle[y].pc \in {"updating", "updated"} =>
                         cycle[y].agent \subseteq DOMAIN cycle[y].results
  BY DEF MonitorInv, Typed, TypeOK
<1>1. CycleTyped(cycle[y]) /\ cycle[y] \in CycleState
  BY DEF MonitorInv, Typed
<1>2. DOMAIN cycle[y].results \subseteq Agents
  BY <1>1, ResultsTyped
<1>3. cycle[y].waiting \subseteq Agents
  BY <1>1 DEF CycleState
<1>4. (cycle[y].pc = "ended") = (cycle[y] = Ended)
  BY <1>1 DEF CycleTyped, Ended
<1> QED
  BY <1>1, <1>2, <1>3, <1>4 DEF CycleTyped, AtWork

\* The monitor's state is well typed for any number of overlapping cycles.
THEOREM TypeCorrect == Spec => []TypeOK
  BY MonitorInvariance, MonitorTypeOK, PTL

\* An alarm follows two failed probes in a row, however cycles overlap and
\* however often the gateway restarts.
THEOREM OfflineMeansTwoInARowTheorem == Spec => OfflineMeansTwoInARow
<1> DEFINE Alarm == \A a \in Agents : announced'[a] > announced[a] => streak[a] >= 2
<1>1. ASSUME MonitorInv, Next PROVE Alarm
  <2> USE <1>1
  <2>1. ASSUME UNCHANGED announced PROVE Alarm
    BY <2>1 DEF MonitorInv, Typed
  <2>2. ASSUME NEW y \in Cycles, NEW a \in Agents, Answers(y, a) PROVE Alarm
    BY <2>2 DEF Answers, MonitorInv, Typed
  <2>3. ASSUME NEW y \in Cycles, NEW a \in Agents, Emit(y, a) PROVE Alarm
    <3>1. CASE GoesOffline(y, a)
      <4>1. streak[a] >= 2
        BY <3>1 DEF GoesOffline, MonitorInv, CountsTrail, Typed
      <4>2. \A b \in Agents : b # a => announced'[b] = announced[b]
        BY <2>3 DEF Emit, MonitorInv, Typed
      <4> QED
        BY <4>1, <4>2 DEF MonitorInv, Typed
    <3>2. CASE ~GoesOffline(y, a)
      <4>1. UNCHANGED announced
        BY <2>3, <3>2 DEF Emit
      <4> QED
        BY <2>1, <4>1
    <3> QED
      BY <3>1, <3>2
  <2> QED
    BY <2>1, <2>2, <2>3
    DEF Next, Start, Tick, RunCycle, CycleStep, Selected, NoAnswer, ReadPrevious, Update,
        Write, PersistFails, Turn, Stop, Restart, history
<1>2. MonitorInv /\ [Next]_vars => [Alarm]_vars
  BY <1>1
<1> QED
  BY <1>2, MonitorInvariance, PTL DEF Spec, OfflineMeansTwoInARow

-----------------------------------------------------------------------------
(* One cycle at a time.                                                      *)

OneCycle == \A y, z \in Cycles : y = z

\* The only cycle has moved to s.
LEMMA CycleFreshens ==
  ASSUME OneCycle, Typed, NEW y \in Cycles, NEW s, cycle' = [cycle EXCEPT ![y] = s],
         CycleFresh(s)'
  PROVE  (\A z \in Cycles : CycleFresh(cycle[z]))'
<1>1. \A z \in Cycles : cycle'[z] = s
  BY DEF OneCycle, Typed
<1> QED
  BY <1>1 DEF CycleFresh

\* A cycle that keeps no more than fresh results stays fresh between two agents.
LEMMA RestFreshens ==
  ASSUME OneCycle, OutageInv, Typed, UNCHANGED probed, NEW y \in Cycles, NEW s,
         cycle' = [cycle EXCEPT ![y] = s], s.pc \notin AtWork,
         DOMAIN s.results \subseteq DOMAIN cycle[y].results,
         \A b \in DOMAIN s.results : s.results[b] = cycle[y].results[b]
  PROVE  (\A z \in Cycles : CycleFresh(cycle[z]))'
<1>1. \A b \in DOMAIN s.results : s.results[b] = probed'[b]
  BY DEF OutageInv, CycleFresh
<1>2. CycleFresh(s)'
  BY <1>1 DEF CycleFresh, AtWork
<1> QED
  BY <1>2, CycleFreshens

\* The agents' part of the invariant.
Outages ==
  OncePerOutage
  /\ \A a \in Agents : announced[a] > 0 => probed[a] = "offline" /\ status[a] = "offline"

LEMMA ProbeKeepsOutages ==
  ASSUME OneCycle, MonitorInv, OutageInv, NEW y \in Cycles, NEW a \in Agents,
         Answers(y, a) \/ NoAnswer(y, a)
  PROVE  OutageInv'
<1>1. PICK r \in AgentStatus :
        /\ Settle(y, a, r) /\ (r = "offline" => UNCHANGED announced)
        /\ (r # "offline" => announced' = [announced EXCEPT ![a] = 0])
  BY DEF Answers, NoAnswer, AgentStatus, Good
<1>2. PICK s : /\ CycleTyped(s) /\ cycle' = [cycle EXCEPT ![y] = s]
               /\ s.pc \notin AtWork
               /\ DOMAIN s.results = DOMAIN cycle[y].results \cup {a}
               /\ s.results[a] = r
               /\ \A b \in DOMAIN cycle[y].results : b # a =>
                    s.results[b] = cycle[y].results[b]
  BY <1>1, SettleMoves DEF MonitorInv
<1>3. probed' = [probed EXCEPT ![a] = r] /\ UNCHANGED status
  BY <1>1 DEF Settle
<1>4. DOMAIN cycle[y].results \subseteq Agents
  BY ResultsTyped DEF MonitorInv, Typed
<1>5. \A b \in DOMAIN s.results : s.results[b] = probed'[b]
  BY <1>2, <1>3, <1>4 DEF OutageInv, CycleFresh, MonitorInv, Typed
<1>6. CycleFresh(s)'
  BY <1>2, <1>5 DEF CycleFresh, AtWork
<1>7. (\A z \in Cycles : CycleFresh(cycle[z]))'
  BY <1>2, <1>6, CycleFreshens DEF MonitorInv
<1>8. Outages'
  <2>1. CASE r = "offline"
    BY <1>1, <1>3, <2>1 DEF Outages, OutageInv, OncePerOutage, MonitorInv, Typed
  <2>2. CASE r # "offline"
    <3>1. announced'[a] = 0 /\ ~(announced'[a] > 0) /\ announced'[a] <= 1
      BY <1>1, <2>2 DEF MonitorInv, Typed
    <3>2. \A b \in Agents : b # a =>
            announced'[b] = announced[b] /\ probed'[b] = probed[b] /\ status'[b] = status[b]
      BY <1>1, <1>3, <2>2 DEF MonitorInv, Typed
    <3> QED
      BY <3>1, <3>2 DEF Outages, OutageInv, OncePerOutage
  <2> QED
    BY <2>1, <2>2
<1> QED
  BY <1>7, <1>8 DEF OutageInv, Outages

LEMMA ReadKeepsOutages ==
  ASSUME OneCycle, MonitorInv, OutageInv, NEW y \in Cycles, NEW a \in Agents,
         ReadPrevious(y, a)
  PROVE  OutageInv'
<1>1. UNCHANGED <<status, probed, announced>>
  BY DEF ReadPrevious, history
<1>2. PICK s : /\ cycle' = [cycle EXCEPT ![y] = s]
               /\ s.pc = "updating" /\ s.agent = {a} /\ s.prev = status[a]
               /\ s.results = cycle[y].results
  BY ReadMoves DEF MonitorInv
<1>3. \A b \in DOMAIN s.results : s.results[b] = probed'[b]
  BY <1>1, <1>2 DEF OutageInv, CycleFresh
<1>4. announced'[a] > 0 => s.prev = "offline"
  BY <1>1, <1>2 DEF OutageInv
<1>5. CycleFresh(s)'
  BY <1>2, <1>3, <1>4 DEF CycleFresh
<1>6. (\A z \in Cycles : CycleFresh(cycle[z]))'
  BY <1>2, <1>5, CycleFreshens DEF MonitorInv
<1> QED
  BY <1>1, <1>6 DEF OutageInv, OncePerOutage

LEMMA UpdateKeepsOutages ==
  ASSUME OneCycle, MonitorInv, OutageInv, NEW y \in Cycles, NEW a \in Agents,
         Update(y, a)
  PROVE  OutageInv' /\ status'[a] = probed[a] /\ \A b \in Agents : b # a => status'[b] = status[b]
<1>1. UNCHANGED <<probed, announced>> /\ status' = [status EXCEPT ![a] = cycle[y].results[a]]
  BY DEF Update, Write, history
<1>2. a \in DOMAIN cycle[y].results /\ cycle[y].pc = "updating" /\ cycle[y].agent = {a}
  BY UpdateMoves DEF MonitorInv
<1>3. PICK s : /\ cycle' = [cycle EXCEPT ![y] = s]
               /\ s.pc = "updated" /\ s.agent = {a} /\ s.prev = cycle[y].prev
               /\ s.results = cycle[y].results
  BY UpdateMoves DEF MonitorInv
<1>4. cycle[y].results[a] = probed[a]
  BY <1>2 DEF OutageInv, CycleFresh
<1>5. status'[a] = probed[a] /\ \A b \in Agents : b # a => status'[b] = status[b]
  BY <1>1, <1>4 DEF MonitorInv, Typed
<1>6. \A b \in DOMAIN s.results : s.results[b] = probed'[b]
  BY <1>1, <1>3 DEF OutageInv, CycleFresh
<1>7. status'[a] = s.results[a]
  BY <1>3, <1>4, <1>5
<1>8. announced'[a] > 0 => s.prev = "offline"
  BY <1>1, <1>2, <1>3 DEF OutageInv, CycleFresh, AtWork
<1>9. CycleFresh(s)'
  BY <1>3, <1>6, <1>7, <1>8 DEF CycleFresh
<1>10. (\A z \in Cycles : CycleFresh(cycle[z]))'
  BY <1>3, <1>9, CycleFreshens DEF MonitorInv
<1>11. Outages'
  BY <1>1, <1>5 DEF Outages, OutageInv, OncePerOutage
<1> QED
  BY <1>5, <1>10, <1>11 DEF OutageInv, Outages

LEMMA PersistedFreshens ==
  ASSUME OneCycle, MonitorInv, OutageInv, UNCHANGED probed,
         NEW y \in Cycles, NEW a \in Agents, Persisted(y, a)
  PROVE  (\A z \in Cycles : CycleFresh(cycle[z]))'
  BY PersistedMoves, RestFreshens DEF MonitorInv

LEMMA EmitKeepsOutages ==
  ASSUME OneCycle, MonitorInv, OutageInv, NEW y \in Cycles, NEW a \in Agents, Emit(y, a)
  PROVE  OutageInv'
<1>1. UNCHANGED <<status, probed>> /\ Persisted(y, a)
      /\ cycle[y].pc = "updated" /\ cycle[y].agent = {a}
  BY DEF Emit
<1>2. (\A z \in Cycles : CycleFresh(cycle[z]))'
  BY <1>1, PersistedFreshens
<1>3. CASE UNCHANGED announced
  BY <1>1, <1>2, <1>3 DEF OutageInv, OncePerOutage
<1>4. CASE GoesOffline(y, a) /\ announced' = [announced EXCEPT ![a] = Inc(@)]
  <2>1. a \in DOMAIN cycle[y].results
    BY <1>1 DEF MonitorInv, Typed, CycleTyped, AtWork
  <2>2. probed[a] = "offline" /\ status[a] = "offline"
    BY <1>1, <1>4, <2>1 DEF GoesOffline, OutageInv, CycleFresh
  <2>3. announced[a] \in 0..Many /\ ~(announced[a] > 0)
    BY <1>1, <1>4 DEF GoesOffline, OutageInv, CycleFresh, AtWork, MonitorInv, Typed
  <2>4. announced[a] = 0
    BY <2>3 DEF Many
  <2>5. announced'[a] = 1
    BY <1>4, <2>4 DEF Inc, Many, MonitorInv, Typed
  <2>6. \A b \in Agents : b # a => announced'[b] = announced[b]
    BY <1>4 DEF MonitorInv, Typed
  <2> QED
    BY <1>1, <1>2, <2>2, <2>5, <2>6 DEF OutageInv, OncePerOutage
<1> QED
  BY <1>3, <1>4 DEF Emit

LEMMA NextOutages == OneCycle /\ OutagesInv /\ [Next]_vars => OutagesInv'
<1> SUFFICES ASSUME OneCycle, OutagesInv, [Next]_vars PROVE OutagesInv'
  OBVIOUS
<1>1. MonitorInv /\ OutageInv /\ MonitorInv' /\ Typed
  BY NextMonitor DEF OutagesInv, MonitorInv
<1>2. ASSUME UNCHANGED <<status, probed, announced>>,
             (\A z \in Cycles : CycleFresh(cycle[z]))'
      PROVE  OutageInv'
  BY <1>1, <1>2 DEF OutageInv, OncePerOutage
<1>3. ASSUME UNCHANGED <<status, probed, announced, cycle>> PROVE OutageInv'
  BY <1>1, <1>3 DEF OutageInv, OncePerOutage, CycleFresh
<1>4. CycleFresh(Ended)' /\ CycleFresh(Begun)'
  BY DEF CycleFresh, Ended, Begun, AtWork
<1>5. ASSUME NEW y \in Cycles, RunCycle(y) PROVE OutageInv'
  <2>1. (\A z \in Cycles : CycleFresh(cycle[z]))'
    BY <1>1, <1>4, <1>5, CycleFreshens DEF RunCycle
  <2> QED
    BY <1>2, <1>5, <2>1 DEF RunCycle, history
<1>6. ASSUME NEW y \in Cycles, Selected(y) PROVE OutageInv'
  <2>1. UNCHANGED <<status, probed, announced>>
    BY <1>6 DEF Selected, history
  <2>2. (\A z \in Cycles : CycleFresh(cycle[z]))'
    BY <1>1, <1>6, <2>1, SelectedMoves, RestFreshens
  <2> QED
    BY <1>2, <2>1, <2>2
<1>7. ASSUME NEW y \in Cycles, NEW a \in Agents, PersistFails(y, a) PROVE OutageInv'
  <2>1. UNCHANGED <<status, probed, announced>> /\ Persisted(y, a)
    BY <1>7 DEF PersistFails, history
  <2>2. (\A z \in Cycles : CycleFresh(cycle[z]))'
    BY <1>1, <2>1, PersistedFreshens
  <2> QED
    BY <1>2, <2>1, <2>2
<1>8. ASSUME Restart PROVE OutageInv'
  <2>1. (\A z \in Cycles : CycleFresh(cycle[z]))'
    BY <1>4, <1>8 DEF Restart, CycleFresh
  <2> QED
    BY <1>2, <1>8, <2>1 DEF Restart, history
<1>9. CASE Next
  <2>1. OutageInv'
    BY <1>1, <1>3, <1>5, <1>6, <1>7, <1>8, <1>9, ProbeKeepsOutages, ReadKeepsOutages,
       UpdateKeepsOutages, EmitKeepsOutages
    DEF Next, CycleStep, Start, Tick, Stop, Turn, history
  <2> QED
    BY <1>1, <2>1 DEF OutagesInv
<1>10. CASE UNCHANGED vars
  BY <1>1, <1>3, <1>10 DEF OutagesInv, vars, history
<1> QED
  BY <1>9, <1>10

LEMMA InitOutages == Init => OutagesInv
<1> SUFFICES ASSUME Init PROVE OutagesInv
  OBVIOUS
<1>1. \A a \in Agents : announced[a] = 0 /\ ~(announced[a] > 0) /\ announced[a] <= 1
  <2>1. announced = [a \in Agents |-> 0]
    BY DEF Init
  <2>2. ~(0 > 0) /\ 0 <= 1
    OBVIOUS
  <2> QED
    BY <2>1, <2>2
<1>2. \A y \in Cycles : CycleFresh(cycle[y])
  BY DEF Init, CycleFresh, Ended, AtWork
<1> QED
  BY <1>1, <1>2, InitMonitor DEF OutagesInv, OutageInv, OncePerOutage

\* While cycles do not overlap, what a cycle found is what the latest probe
\* found, and an announced outage is in the table.
THEOREM OutageInvariance == OneCycle => (Spec => []OutagesInv)
<1> SUFFICES ASSUME OneCycle PROVE Spec => []OutagesInv
  OBVIOUS
<1>1. OutagesInv /\ [Next]_vars => OutagesInv'
  BY NextOutages
<1> QED
  BY <1>1, InitOutages, PTL DEF Spec

\* While cycles do not overlap, an outage is announced at most once, over
\* failing queries and restarts.
THEOREM AlarmsSafeTheorem == OneCycle => (Spec => []AlarmsSafe)
<1> SUFFICES ASSUME OneCycle PROVE Spec => []AlarmsSafe
  OBVIOUS
<1>1. OutagesInv => AlarmsSafe
  BY MonitorTypeOK DEF OutagesInv, OutageInv, AlarmsSafe
<1> QED
  BY <1>1, OutageInvariance, PTL

\* While cycles do not overlap, agents.status is only ever changed to the
\* outcome of the latest probe.
THEOREM TableFollowsProbeTheorem == OneCycle => (Spec => TableFollowsProbe)
<1> SUFFICES ASSUME OneCycle PROVE Spec => TableFollowsProbe
  OBVIOUS
<1> DEFINE Follows == \A a \in Agents : status'[a] # status[a] => status'[a] = probed[a]
<1>1. ASSUME OutagesInv, Next PROVE Follows
  <2>1. ASSUME UNCHANGED status PROVE Follows
    BY <2>1
  <2>2. ASSUME NEW y \in Cycles, NEW a \in Agents, Update(y, a) PROVE Follows
    BY <1>1, <2>2, UpdateKeepsOutages DEF OutagesInv
  <2>3. CASE \A y \in Cycles, a \in Agents : ~Update(y, a)
    <3>1. \A y \in Cycles : (\/ Start(y) \/ Tick(y) \/ Selected(y)
                             \/ \E a \in Agents : ReadPrevious(y, a) \/ PersistFails(y, a))
                            => UNCHANGED status
      BY DEF Start, Tick, RunCycle, Selected, ReadPrevious, PersistFails, history
    <3>2. ASSUME NEW y \in Cycles, NEW a \in Agents,
                 Answers(y, a) \/ NoAnswer(y, a) \/ Emit(y, a)
          PROVE  UNCHANGED status
      <4>1. CASE Answers(y, a)
        BY <4>1 DEF Answers, Settle
      <4>2. CASE NoAnswer(y, a)
        BY <4>2 DEF NoAnswer, Settle
      <4>3. CASE Emit(y, a)
        BY <4>3 DEF Emit
      <4> QED
        BY <3>2, <4>1, <4>2, <4>3
    <3>3. (\E a \in Agents : Turn(a)) \/ Stop \/ Restart => UNCHANGED status
      BY DEF Turn, Stop, Restart, history
    <3> QED
      BY <1>1, <2>1, <2>3, <3>1, <3>2, <3>3 DEF Next, CycleStep
  <2> QED
    BY <2>2, <2>3
<1>2. OutagesInv /\ [Next]_vars => [Follows]_vars
  BY <1>1
<1> QED
  BY <1>2, OutageInvariance, PTL DEF Spec, TableFollowsProbe
===============================================================================
