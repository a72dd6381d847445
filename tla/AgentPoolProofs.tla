--------------------------- MODULE AgentPoolProofs ---------------------------
(***************************************************************************)
(* AgentPool for any number of callers, any size and any funds: a dead     *)
(* connection is out of the pool for good once its call returns, nothing   *)
(* stays "paying", the books balance and no call is counted twice.         *)
(***************************************************************************)
EXTENDS AgentPool, FiniteSetTheorems, TLAPS

Link == [status : Statuses, open : BOOLEAN, balance : Int,
         settled : Nat, deposited : Nat]
OnLink == {"funding", "fetching", "reading", "replacing"}
Active == {"filling", "funding", "fetching", "reading"}
CallState == [pc : {"idle", "filling"} \cup OnLink, on : Nat, got : Nat,
              slot : Nat, array : Nat]

Typed ==
  /\ conns \in Seq(Nat) /\ links \in Seq(Link) /\ call \in [Callers -> CallState]
  /\ begun \in [calls : Nat, checks : Nat, drains : Nat]
  /\ stats \in [totalCalls : Nat, errors : Nat]
  /\ repairs \subseteq [check : Nat, array : Nat, slot : Nat]
  /\ array \in Nat /\ cursor \in Nat
  /\ timer \in BOOLEAN /\ draining \in BOOLEAN /\ direct \in BOOLEAN
  /\ closing \subseteq DOMAIN links /\ buried \subseteq DOMAIN links

\* The slot a replacement goes to: the dead connection is there, in the array
\* this.conns still denotes, or it is nowhere in the pool.
SiteTracked(s) ==
  /\ s.array <= array
  /\ s.array = array => s.slot \in DOMAIN conns
  /\ \A i \in DOMAIN conns : conns[i] = s.on => i = s.slot /\ s.array = array

CallTracked(s) ==
  /\ s.got < Size
  /\ s.pc \in OnLink => s.on \in DOMAIN links
  /\ s.pc = "replacing" => SiteTracked(s)

\* Every connection has one slot at most.
OneSlotEach ==
  /\ \A i \in DOMAIN conns : conns[i] \in DOMAIN links
  /\ \A i, j \in DOMAIN conns : conns[i] = conns[j] => i = j

Slots ==
  /\ OneSlotEach /\ NeverPartlyFilled /\ DeadIsGone
  /\ \A c \in Callers : CallTracked(call[c])
  /\ \A r \in repairs : /\ r.array <= array
                        /\ r.array = array => r.slot \in DOMAIN conns

\* The callers whose agent has not answered yet.
Busy == {c \in Callers : call[c].pc \in Active}
Counted ==
  /\ IsFiniteSet(Busy)
  /\ stats.errors <= stats.totalCalls
  /\ stats.totalCalls + Cardinality(Busy) <= begun.calls

DrainsCounted ==
  array + (IF draining THEN 1 ELSE 0) <= begun.drains /\ begun.drains <= MaxDrains

PoolInv == /\ Typed /\ Slots /\ PayingMeansInFlight /\ BooksBalance
           /\ Counted /\ DrainsCounted

-----------------------------------------------------------------------------
\* Slots stay tracked when the pool only gains connections that are new, nothing
\* found dead is in it, and the callers that move are tracked.
LEMMA SlotsKept ==
  ASSUME Typed, Slots, UNCHANGED array, DOMAIN links \subseteq DOMAIN links',
         OneSlotEach', NeverPartlyFilled', DOMAIN conns \subseteq DOMAIN conns',
         \A i \in DOMAIN conns' : conns'[i] \in DOMAIN links =>
                                    i \in DOMAIN conns /\ conns'[i] = conns[i],
         \A d \in Callers : call'[d] = call[d] \/ CallTracked(call[d])',
         \A j \in buried' : j \in buried \/ j \notin Members(conns'),
         \A r \in repairs' : \/ r \in repairs
                             \/ r.array = array /\ r.slot \in DOMAIN conns
  PROVE  Slots'
<1>1. \A d \in Callers : CallTracked(call[d])'
  <2> SUFFICES ASSUME NEW d \in Callers, call'[d] = call[d] PROVE CallTracked(call[d])'
    OBVIOUS
  <2>1. CallTracked(call[d]) /\ call[d] \in CallState
    BY DEF Slots, Typed
  <2>2. call[d].pc = "replacing" => SiteTracked(call[d])'
    BY <2>1 DEF CallTracked, SiteTracked, OnLink
  <2> QED
    BY <2>1, <2>2 DEF CallTracked
<1>2. DeadIsGone'
  <2>1. \A j \in buried : j \notin Members(conns')
    BY DEF Typed, Slots, DeadIsGone, Members
  <2> QED
    BY <2>1 DEF DeadIsGone
<1>3. \A r \in repairs' : r.array <= array /\ (r.array = array => r.slot \in DOMAIN conns')
  BY DEF Slots, Typed
<1> QED
  BY <1>1, <1>2, <1>3 DEF Slots

\* One caller's step moves it in or out of Busy; the counts follow.
LEMMA CountKept ==
  ASSUME Typed, Counted, NEW c \in Callers,
         \A d \in Callers : d # c => call'[d] = call[d],
         stats' \in [totalCalls : Nat, errors : Nat], begun' \in [calls : Nat, checks : Nat, drains : Nat],
         stats'.errors + stats.totalCalls <= stats.errors + stats'.totalCalls,
         stats'.totalCalls + (IF call'[c].pc \in Active THEN 1 ELSE 0) + begun.calls
           <= stats.totalCalls + (IF call[c].pc \in Active THEN 1 ELSE 0) + begun'.calls
  PROVE  Counted'
<1> DEFINE Rest == Busy \ {c}
<1>1. IsFiniteSet(Rest) /\ Cardinality(Rest) \in Nat
  BY FS_RemoveElement, FS_CardinalityType DEF Counted
<1>2. /\ Busy = IF call[c].pc \in Active THEN Rest \cup {c} ELSE Rest
      /\ Busy' = IF call'[c].pc \in Active THEN Rest \cup {c} ELSE Rest
  BY DEF Busy
<1>3. IsFiniteSet(Rest \cup {c}) /\ Cardinality(Rest \cup {c}) = Cardinality(Rest) + 1
  BY <1>1, FS_AddElement
<1>4. Cardinality(Busy) = Cardinality(Rest) + (IF call[c].pc \in Active THEN 1 ELSE 0)
  <2>1. CASE call[c].pc \in Active
    BY <1>2, <1>3, <2>1
  <2>2. CASE call[c].pc \notin Active
    <3>1. Busy = Rest
      BY <1>2, <2>2
    <3>2. Cardinality(Busy) = Cardinality(Rest)
      BY <3>1
    <3>3. Cardinality(Rest) + 0 = Cardinality(Rest)
      BY <1>1
    <3> QED
      BY <2>2, <3>2, <3>3
  <2> QED
    BY <2>1, <2>2
<1>5. /\ IsFiniteSet(Busy')
      /\ Cardinality(Busy') = Cardinality(Rest) + (IF call'[c].pc \in Active THEN 1 ELSE 0)
  BY <1>1, <1>2, <1>3
<1>6. stats'.errors <= stats'.totalCalls
  BY DEF Counted, Typed
<1>7. stats'.totalCalls + Cardinality(Busy') <= begun'.calls
  <2> DEFINE w == IF call[c].pc \in Active THEN 1 ELSE 0
             v == IF call'[c].pc \in Active THEN 1 ELSE 0
             r == Cardinality(Rest)
  <2>1. w \in Nat /\ v \in Nat /\ r \in Nat
    BY <1>1
  <2>2. stats.totalCalls + (r + w) <= begun.calls
    BY <1>4 DEF Counted
  <2>3. stats'.totalCalls + v + begun.calls <= stats.totalCalls + w + begun'.calls
    OBVIOUS
  <2>4. /\ stats.totalCalls \in Nat /\ stats'.totalCalls \in Nat
        /\ begun.calls \in Nat /\ begun'.calls \in Nat
    BY DEF Typed
  <2>5. Cardinality(Busy') = r + v
    BY <1>5
  <2> HIDE DEF w, v, r
  <2>6. stats'.totalCalls + (r + v) <= begun'.calls
    BY <2>1, <2>2, <2>3, <2>4
  <2> QED
    BY <2>5, <2>6
<1> QED
  BY <1>5, <1>6, <1>7 DEF Counted

\* Nothing is counted when no caller moves.
LEMMA CountStays ==
  ASSUME Counted, UNCHANGED <<call, stats>>, begun'.calls = begun.calls
  PROVE  Counted'
<1>1. Busy' = Busy
  BY DEF Busy
<1> QED
  BY <1>1 DEF Counted

\* A connection pays for the caller that fetches through it.
LEMMA PayingKept ==
  ASSUME Typed, PayingMeansInFlight, NEW c \in Callers,
         \A d \in Callers : d # c => call'[d] = call[d],
         \A k \in DOMAIN links' : links'[k].status = "paying" =>
            \/ call'[c].pc = "fetching" /\ call'[c].on = k
            \/ /\ k \in DOMAIN links /\ links[k].status = "paying"
               /\ ~(call[c].pc = "fetching" /\ call[c].on = k)
  PROVE  PayingMeansInFlight'
<1> SUFFICES ASSUME NEW k \in DOMAIN links', links'[k].status = "paying"
             PROVE  \E d \in Callers : call'[d].pc = "fetching" /\ call'[d].on = k
  BY DEF PayingMeansInFlight
<1>1. CASE call'[c].pc = "fetching" /\ call'[c].on = k
  BY <1>1
<1>2. CASE ~(call'[c].pc = "fetching" /\ call'[c].on = k)
  <2>1. PICK d \in Callers : call[d].pc = "fetching" /\ call[d].on = k
    BY <1>2 DEF PayingMeansInFlight
  <2>2. d # c
    BY <1>2, <2>1
  <2> QED
    BY <2>1, <2>2
<1> QED
  BY <1>1, <1>2

-----------------------------------------------------------------------------
\* What a step of caller c may do to everything but the pool's array.
CallerMoves(c) ==
  /\ call' \in [Callers -> CallState] /\ \A d \in Callers : d # c => call'[d] = call[d]
  /\ links' \in Seq(Link) /\ DOMAIN links \subseteq DOMAIN links'
  /\ \A k \in DOMAIN links' :
       /\ links'[k].status = "paying" =>
            \/ call'[c].pc = "fetching" /\ call'[c].on = k
            \/ /\ k \in DOMAIN links /\ links[k].status = "paying"
               /\ ~(call[c].pc = "fetching" /\ call[c].on = k)
       /\ links'[k].open =>
            links'[k].balance + links'[k].settled = links'[k].deposited
  /\ stats' \in [totalCalls : Nat, errors : Nat]
  /\ begun' \in [calls : Nat, checks : Nat, drains : Nat] /\ begun'.drains = begun.drains
  /\ stats'.errors + stats.totalCalls <= stats.errors + stats'.totalCalls
  /\ stats'.totalCalls + (IF call'[c].pc \in Active THEN 1 ELSE 0) + begun.calls
       <= stats.totalCalls + (IF call[c].pc \in Active THEN 1 ELSE 0) + begun'.calls

\* What it may do to the pool's array.
PoolGains ==
  /\ conns' \in Seq(Nat) /\ DOMAIN conns \subseteq DOMAIN conns'
  /\ OneSlotEach' /\ NeverPartlyFilled'
  /\ \A i \in DOMAIN conns' : conns'[i] \in DOMAIN links =>
                                i \in DOMAIN conns /\ conns'[i] = conns[i]

LEMMA CallerKeeps ==
  ASSUME PoolInv, NEW c \in Callers, CallerMoves(c), PoolGains,
         UNCHANGED <<array, repairs, shutdown>>, cursor' \in Nat, direct' \in BOOLEAN,
         CallTracked(call[c])', buried' \subseteq DOMAIN links',
         \A j \in buried' : j \in buried \/ j \notin Members(conns')
  PROVE  PoolInv'
<1>1. Typed'
  BY DEF PoolInv, Typed, CallerMoves, PoolGains, shutdown
<1>2. Slots'
  BY SlotsKept DEF PoolInv, CallerMoves, PoolGains
<1>3. PayingMeansInFlight'
  BY PayingKept DEF PoolInv, CallerMoves
<1>4. BooksBalance'
  BY DEF BooksBalance, CallerMoves
<1>5. Counted'
  BY CountKept DEF PoolInv, CallerMoves
<1>6. DrainsCounted'
  BY DEF PoolInv, DrainsCounted, CallerMoves, shutdown
<1> QED
  BY <1>1, <1>2, <1>3, <1>4, <1>5, <1>6 DEF PoolInv

-----------------------------------------------------------------------------
\* A fresh link is open, connected, and its books balance.
LEMMA FreshLink == Fresh \in Link /\ Idle \in CallState
  BY PoolAssumption DEF Fresh, Link, Statuses, Idle, CallState

\* The first free position of a sequence is the one appended.
LEMMA IndexFound ==
  ASSUME NEW pool, NEW k \in Members(pool)
  PROVE  IndexOf(pool, k) \in DOMAIN pool /\ pool[IndexOf(pool, k)] = k
  BY DEF Members, IndexOf

\* What a caller keeps when conn.call has answered: nothing, or the slot of the
\* dead connection it is about to replace.
Turned(c, ls) ==
  /\ call' \in [Callers -> CallState] /\ \A d \in Callers : d # c => call'[d] = call[d]
  /\ call'[c].got = 0 /\ call'[c].pc # "filling"
  /\ call'[c].pc \in OnLink => call'[c].on \in DOMAIN ls
  /\ call'[c].pc = "replacing" =>
       /\ call'[c].array = array /\ call'[c].slot \in DOMAIN conns'
       /\ conns'[call'[c].slot] = call'[c].on
  /\ buried' \subseteq buried \cup DOMAIN ls
  /\ \A j \in buried' : j \in buried \/ j \notin Members(conns')
  /\ links' \in Seq(Link) /\ DOMAIN links' = DOMAIN ls
  /\ \A j \in DOMAIN ls :
       /\ links'[j].open = ls[j].open /\ links'[j].balance = ls[j].balance
       /\ links'[j].settled = ls[j].settled /\ links'[j].deposited = ls[j].deposited
       /\ links'[j].status = "paying" =>
            \/ ls[j].status = "paying"
            \/ call'[c].pc = "fetching" /\ call'[c].on = j
  /\ stats' \in [totalCalls : Nat, errors : Nat]
  /\ stats'.errors + stats.totalCalls <= stats.errors + stats'.totalCalls
  /\ stats'.totalCalls + (IF call'[c].pc \in Active THEN 1 ELSE 0)
       = stats.totalCalls + 1

LEMMA AnswerTurns ==
  ASSUME Typed, NEW c \in Callers, NEW ls \in Seq(Link), NEW k \in DOMAIN ls,
         NEW ok \in BOOLEAN, conns' \in Seq(Nat), Answered(c, k, ok, ls)
  PROVE  Turned(c, ls) /\ call'[c].pc \in {"idle", "replacing"}
<1> USE FreshLink
<1>1. /\ links' = ls /\ stats' = [totalCalls |-> stats.totalCalls + 1,
                                  errors |-> stats.errors + (IF ok THEN 0 ELSE 1)]
  BY DEF Answered
<1>2. /\ stats' \in [totalCalls : Nat, errors : Nat]
      /\ stats'.errors + stats.totalCalls <= stats.errors + stats'.totalCalls
      /\ stats'.totalCalls = stats.totalCalls + 1
  BY <1>1 DEF Typed
<1>3. k \in Nat
  BY DEF Typed
<1>4. CASE ls[k].status = "error" /\ k \in Members(conns')
  <2> PICK i \in DOMAIN conns' : i = IndexOf(conns', k) /\ conns'[i] = k
    <3>1. IndexOf(conns', k) \in DOMAIN conns' /\ conns'[IndexOf(conns', k)] = k
      BY <1>4 DEF Members, IndexOf
    <3> QED
      BY <3>1
  <2>0. i \in Nat
    OBVIOUS
  <2> DEFINE x == [Idle EXCEPT !.pc = "replacing", !.on = k, !.array = array, !.slot = i]
  <2>1. call' = [call EXCEPT ![c] = x] /\ UNCHANGED buried
    BY <1>4 DEF Answered
  <2>2. /\ x \in CallState /\ x.pc = "replacing" /\ x.got = 0 /\ x.on = k
        /\ x.array = array /\ x.slot = i
    BY <1>3, <2>0 DEF Idle, CallState, OnLink, Typed
  <2>3. call'[c] = x /\ call' \in [Callers -> CallState]
        /\ \A d \in Callers : d # c => call'[d] = call[d]
    BY <2>1, <2>2 DEF Typed
  <2> QED
    BY <1>1, <1>2, <2>1, <2>2, <2>3 DEF Turned, OnLink, Active
<1>5. CASE ~(ls[k].status = "error" /\ k \in Members(conns'))
  <2>1. /\ call' = [call EXCEPT ![c] = Idle]
        /\ buried' \subseteq buried \cup {k}
        /\ k \in buried' => k \in buried \/ k \notin Members(conns')
    BY <1>5 DEF Answered
  <2>2. call'[c] = Idle /\ call' \in [Callers -> CallState]
        /\ \A d \in Callers : d # c => call'[d] = call[d]
    BY <2>1 DEF Typed
  <2> QED
    BY <1>1, <1>2, <2>1, <2>2 DEF Turned, OnLink, Active, Idle, Typed
<1> QED
  BY <1>4, <1>5

LEMMA DispatchTurns ==
  ASSUME Typed, NEW c \in Callers, NEW ls \in Seq(Link), conns' \in Seq(Nat),
         conns' # <<>>, \A i \in DOMAIN conns' : conns'[i] \in DOMAIN ls,
         Dispatch(c, ls)
  PROVE  Turned(c, ls) /\ cursor' \in Nat
<1> DEFINE n == Len(conns')
           i == (cursor % n) + 1
<1>1. n \in Nat /\ n > 0 /\ cursor \in Nat
  BY DEF Typed
<1>2. i \in 1..n /\ cursor' \in Nat
  BY <1>1 DEF Dispatch
<1> PICK k \in DOMAIN ls : k = conns'[i]
  BY <1>2
<1>3. k \in Nat /\ ls[k] \in Link
  OBVIOUS
<1>4. CASE Answered(c, k, FALSE, ls)
  BY <1>2, <1>3, <1>4, AnswerTurns
<1>5. ASSUME NEW p \in {"funding", "fetching"}, UNCHANGED <<stats, buried>>,
             call' = [call EXCEPT ![c] = [Idle EXCEPT !.pc = p, !.on = k]],
             links' = ls \/ (p = "fetching" /\ links' = [ls EXCEPT ![k].status = "paying"])
      PROVE  Turned(c, ls)
  <2>1. [Idle EXCEPT !.pc = p, !.on = k] \in CallState
    BY <1>3 DEF Idle, CallState, OnLink
  <2>2. /\ call' \in [Callers -> CallState] /\ \A d \in Callers : d # c => call'[d] = call[d]
        /\ call'[c].pc = p /\ call'[c].on = k /\ call'[c].got = 0
    BY <1>5, <2>1 DEF Typed, Idle
  <2>3. links' \in Seq(Link) /\ DOMAIN links' = DOMAIN ls
    <3>1. [ls[k] EXCEPT !.status = "paying"] \in Link
      BY <1>3 DEF Link, Statuses
    <3> QED
      BY <1>3, <1>5, <3>1
  <2>4. \A j \in DOMAIN ls :
       /\ links'[j].open = ls[j].open /\ links'[j].balance = ls[j].balance
       /\ links'[j].settled = ls[j].settled /\ links'[j].deposited = ls[j].deposited
       /\ links'[j].status = "paying" =>
            \/ ls[j].status = "paying"
            \/ call'[c].pc = "fetching" /\ call'[c].on = j
    <3>1. CASE links' = ls
      BY <3>1
    <3>2. CASE p = "fetching" /\ links' = [ls EXCEPT ![k].status = "paying"]
      <4>1. \A j \in DOMAIN ls : ls[j] \in Link
        OBVIOUS
      <4> QED
        BY <1>3, <2>2, <3>2, <4>1 DEF Link
    <3> QED
      BY <1>5, <3>1, <3>2
  <2> QED
    <3>1. p \in Active /\ p # "filling" /\ p # "replacing"
      BY DEF Active
    <3>2. stats'.totalCalls + (IF call'[c].pc \in Active THEN 1 ELSE 0)
            = stats.totalCalls + 1
      BY <1>5, <2>2, <3>1
    <3>3. /\ stats' \in [totalCalls : Nat, errors : Nat]
          /\ stats'.errors + stats.totalCalls <= stats.errors + stats'.totalCalls
      BY <1>5 DEF Typed
    <3>4. buried' \subseteq buried \cup DOMAIN ls /\ \A j \in buried' : j \in buried
      BY <1>5
    <3> QED
      BY <2>2, <2>3, <2>4, <3>1, <3>2, <3>3, <3>4 DEF Turned
<1> QED
  BY <1>2, <1>4, <1>5 DEF Dispatch

-----------------------------------------------------------------------------
\* The pool's array stays, or a fill extends it, or a replacement overwrites a slot.
LEMMA SamePool ==
  ASSUME PoolInv, UNCHANGED conns, DOMAIN links \subseteq DOMAIN links'
  PROVE  PoolGains
  BY DEF PoolInv, Slots, Typed, PoolGains, OneSlotEach, NeverPartlyFilled

LEMMA PoolExtended ==
  ASSUME PoolInv, conns' = conns \o [i \in 1..Size |-> Len(links) + i],
         DOMAIN links' = 1..(Len(links) + Size)
  PROVE  PoolGains /\ conns' # <<>>
<1>1. conns \in Seq(Nat) /\ links \in Seq(Link) /\ Size \in Nat \ {0} /\ OneSlotEach
  BY PoolAssumption DEF PoolInv, Typed, Slots
<1> PICK m \in Nat : m = Len(conns) /\ DOMAIN conns = 1..m
  BY <1>1
<1> PICK l \in Nat : l = Len(links) /\ DOMAIN links = 1..l
  BY <1>1
<1> DEFINE new == [i \in 1..Size |-> l + i]
<1>2. new \in Seq(Nat) /\ Len(new) = Size /\ \A i \in 1..Size : new[i] = l + i
  BY <1>1
<1>3. conns' = conns \o new
  OBVIOUS
<1> HIDE DEF new
<1>4. /\ conns' \in Seq(Nat) /\ Len(conns') = m + Size
      /\ \A i \in 1..m : conns'[i] = conns[i]
      /\ \A i \in (m + 1)..(m + Size) : conns'[i] = l + (i - m)
  BY <1>1, <1>2, <1>3
<1>5. DOMAIN conns' = 1..(m + Size)
  BY <1>1, <1>4
<1>6. \A i \in 1..m : conns[i] \in 1..l
  BY <1>1 DEF OneSlotEach
<1>7. OneSlotEach'
  <2>1. ASSUME NEW i \in DOMAIN conns' PROVE conns'[i] \in DOMAIN links'
    <3>1. CASE i \in 1..m
      BY <1>1, <1>4, <1>6, <3>1
    <3>2. CASE i \in (m + 1)..(m + Size)
      BY <1>1, <1>4, <3>2
    <3> QED
      BY <1>1, <1>5, <3>1, <3>2
  <2>2. ASSUME NEW i \in DOMAIN conns', NEW j \in DOMAIN conns', conns'[i] = conns'[j]
        PROVE  i = j
    <3>1. CASE i \in 1..m /\ j \in 1..m
      BY <1>1, <1>4, <2>2, <3>1 DEF OneSlotEach
    <3>2. CASE i \in (m + 1)..(m + Size) /\ j \in (m + 1)..(m + Size)
      BY <1>1, <1>4, <2>2, <3>2
    <3>3. CASE i \in 1..m /\ j \in (m + 1)..(m + Size)
      BY <1>1, <1>4, <1>6, <2>2, <3>3
    <3>4. CASE i \in (m + 1)..(m + Size) /\ j \in 1..m
      BY <1>1, <1>4, <1>6, <2>2, <3>4
    <3> QED
      BY <1>1, <1>5, <3>1, <3>2, <3>3, <3>4
  <2> QED
    BY <2>1, <2>2 DEF OneSlotEach
<1>8. NeverPartlyFilled' /\ conns' # <<>>
  <2>1. Len(conns') >= Size /\ Len(conns') # 0
    BY <1>1, <1>4
  <2> QED
    BY <2>1 DEF NeverPartlyFilled
<1>9. \A i \in DOMAIN conns' : conns'[i] \in DOMAIN links =>
                                i \in DOMAIN conns /\ conns'[i] = conns[i]
  <2> SUFFICES ASSUME NEW i \in DOMAIN conns', conns'[i] \in 1..l
               PROVE  i \in 1..m /\ conns'[i] = conns[i]
    OBVIOUS
  <2>1. CASE i \in (m + 1)..(m + Size)
    BY <1>1, <1>4, <2>1
  <2> QED
    BY <1>1, <1>4, <1>5, <2>1
<1>10. DOMAIN conns \subseteq DOMAIN conns'
  BY <1>1, <1>5
<1> QED
  BY <1>4, <1>7, <1>8, <1>9, <1>10 DEF PoolGains

\* A replacement is new, and goes to a slot of the array this.conns denotes or
\* nowhere; the connection it replaces is then out of the pool.
LEMMA PutGains ==
  ASSUME PoolInv, NEW site, Put(site), site.array = array => site.slot \in DOMAIN conns
  PROVE  /\ PoolGains
         /\ links' \in Seq(Link) /\ DOMAIN links' = DOMAIN links \cup {Len(links) + 1}
         /\ links'[Len(links) + 1] = Fresh
         /\ \A k \in DOMAIN links : links'[k] = links[k]
         /\ site.array = array => conns'[site.slot] \notin DOMAIN links
<1>1. conns \in Seq(Nat) /\ links \in Seq(Link) /\ OneSlotEach
  BY DEF PoolInv, Typed, Slots
<1>2. /\ links' \in Seq(Link) /\ DOMAIN links' = DOMAIN links \cup {Len(links) + 1}
      /\ links'[Len(links) + 1] = Fresh
      /\ \A k \in DOMAIN links : links'[k] = links[k]
  BY <1>1, FreshLink DEF Put
<1>3. CASE site.array = array
  <2> PICK slot \in DOMAIN conns : slot = site.slot
    BY <1>3
  <2>1. conns' = [conns EXCEPT ![slot] = Len(links) + 1]
    BY <1>3 DEF Put
  <2>2. /\ Len(links) + 1 \in Nat /\ Len(links) + 1 \notin DOMAIN links
        /\ Len(links) + 1 \in DOMAIN links'
    BY <1>1, <1>2
  <2>3. /\ conns' \in Seq(Nat) /\ DOMAIN conns' = DOMAIN conns /\ Len(conns') = Len(conns)
        /\ conns'[slot] = Len(links) + 1
        /\ \A i \in DOMAIN conns : i # slot => conns'[i] = conns[i]
    BY <1>1, <2>1, <2>2
  <2>4. OneSlotEach'
    <3>1. \A i \in DOMAIN conns : i # slot => conns'[i] \in DOMAIN links
      BY <1>1, <2>3 DEF OneSlotEach
    <3>2. \A i \in DOMAIN conns' : conns'[i] \in DOMAIN links'
      BY <1>2, <2>2, <2>3, <3>1
    <3>3. ASSUME NEW i \in DOMAIN conns, NEW j \in DOMAIN conns, conns'[i] = conns'[j]
          PROVE  i = j
      <4>1. CASE i # slot /\ j # slot
        <5>1. conns[i] = conns[j]
          BY <2>3, <3>3, <4>1
        <5> QED
          BY <1>1, <5>1 DEF OneSlotEach
      <4>2. CASE i = slot \/ j = slot
        BY <2>2, <2>3, <3>1, <3>3, <4>2
      <4> QED
        BY <4>1, <4>2
    <3> QED
      BY <2>3, <3>2, <3>3 DEF OneSlotEach
  <2>5. NeverPartlyFilled'
    <3>1. conns # <<>> /\ Len(conns) >= Size
      BY <1>1 DEF PoolInv, Slots, NeverPartlyFilled
    <3> QED
      BY <2>3, <3>1 DEF NeverPartlyFilled
  <2> QED
    BY <1>2, <2>2, <2>3, <2>4, <2>5 DEF PoolGains
<1>4. CASE site.array # array
  BY <1>2, <1>4, SamePool DEF Put
<1> QED
  BY <1>3, <1>4

\* conn.call has answered, or waits for a refund or a response.
LEMMA TurnKeeps ==
  ASSUME PoolInv, NEW c \in Callers, NEW ls \in Seq(Link), Turned(c, ls), PoolGains,
         DOMAIN links \subseteq DOMAIN ls,
         \A k \in DOMAIN ls :
           /\ ls[k].status = "paying" =>
                /\ k \in DOMAIN links /\ links[k].status = "paying"
                /\ ~(call[c].pc = "fetching" /\ call[c].on = k)
           /\ ls[k].open => ls[k].balance + ls[k].settled = ls[k].deposited,
         UNCHANGED <<array, repairs, shutdown>>, cursor' \in Nat, direct' \in BOOLEAN,
         begun' \in [calls : Nat, checks : Nat, drains : Nat],
         begun'.drains = begun.drains,
         begun.calls + 1 <= begun'.calls + (IF call[c].pc \in Active THEN 1 ELSE 0)
  PROVE  PoolInv'
<1>1. CallTracked(call[c])'
  <2>1. call'[c].got < Size
    BY PoolAssumption DEF Turned
  <2>2. ASSUME call'[c].pc = "replacing" PROVE SiteTracked(call[c])'
    <3>1. /\ call'[c].array = array' /\ call'[c].slot \in DOMAIN conns'
          /\ conns'[call'[c].slot] = call'[c].on
      BY <2>2 DEF Turned
    <3>2. \A i \in DOMAIN conns' : conns'[i] = call'[c].on => i = call'[c].slot
      BY <3>1 DEF PoolGains, OneSlotEach
    <3>3. array' <= array'
      BY DEF PoolInv, Typed
    <3> QED
      BY <3>1, <3>2, <3>3 DEF SiteTracked
  <2> QED
    BY <2>1, <2>2 DEF CallTracked, Turned
<1>2. stats'.totalCalls + (IF call'[c].pc \in Active THEN 1 ELSE 0) + begun.calls
        <= stats.totalCalls + (IF call[c].pc \in Active THEN 1 ELSE 0) + begun'.calls
  <2> DEFINE w == IF call[c].pc \in Active THEN 1 ELSE 0
             v == IF call'[c].pc \in Active THEN 1 ELSE 0
  <2>1. /\ stats.totalCalls \in Nat /\ stats'.totalCalls \in Nat
        /\ begun.calls \in Nat /\ begun'.calls \in Nat
    BY DEF PoolInv, Typed, Turned
  <2>2. w \in Nat /\ v \in Nat /\ stats'.totalCalls + v = stats.totalCalls + 1
        /\ begun.calls + 1 <= begun'.calls + w
    BY DEF Turned
  <2> HIDE DEF w, v
  <2>3. stats'.totalCalls + v + begun.calls <= stats.totalCalls + w + begun'.calls
    BY <2>1, <2>2
  <2> QED
    BY <2>3 DEF w, v
<1>3. CallerMoves(c)
  BY <1>2 DEF CallerMoves, Turned
<1>4. buried' \subseteq DOMAIN links' /\ \A j \in buried' : j \in buried \/ j \notin Members(conns')
  BY DEF Turned, PoolInv, Typed
<1> QED
  BY <1>1, <1>3, <1>4, CallerKeeps

-----------------------------------------------------------------------------
(* One lemma for each action.                                              *)

LEMMA LinksTyped ==
  ASSUME PoolInv
  PROVE  /\ \A k \in DOMAIN links : links[k] \in Link
         /\ \A k \in DOMAIN links : links[k].open =>
              links[k].balance + links[k].settled = links[k].deposited
         /\ \A c \in Callers : call[c] \in CallState /\ CallTracked(call[c])
         /\ \A j \in buried : j \notin Members(conns)
  BY DEF PoolInv, Typed, BooksBalance, Slots, DeadIsGone

\* A caller whose call begins, or whose fill goes on.
LEMMA FillMoves ==
  ASSUME PoolInv, NEW c \in Callers, NEW x \in CallState, x.pc = "filling", x.got < Size,
         call' = [call EXCEPT ![c] = x], call[c].pc # "fetching",
         UNCHANGED <<conns, array, repairs, shutdown, direct, cursor, stats, links, buried>>,
         begun' \in [calls : Nat, checks : Nat, drains : Nat], begun'.drains = begun.drains,
         begun.calls + 1 <= begun'.calls + (IF call[c].pc \in Active THEN 1 ELSE 0)
  PROVE  PoolInv'
<1>1. /\ call' \in [Callers -> CallState] /\ \A d \in Callers : d # c => call'[d] = call[d]
      /\ call'[c] = x
  BY DEF PoolInv, Typed
<1>2. CallTracked(call[c])'
  BY <1>1 DEF CallTracked, OnLink
<1>3. stats'.totalCalls + (IF call'[c].pc \in Active THEN 1 ELSE 0) + begun.calls
        <= stats.totalCalls + (IF call[c].pc \in Active THEN 1 ELSE 0) + begun'.calls
  <2> DEFINE w == IF call[c].pc \in Active THEN 1 ELSE 0
  <2>1. /\ w \in Nat /\ (IF call'[c].pc \in Active THEN 1 ELSE 0) = 1
        /\ begun.calls \in Nat /\ begun'.calls \in Nat /\ stats.totalCalls \in Nat
        /\ begun.calls + 1 <= begun'.calls + w
    BY <1>1 DEF Active, PoolInv, Typed
  <2> HIDE DEF w
  <2>2. stats.totalCalls + 1 + begun.calls <= stats.totalCalls + w + begun'.calls
    BY <2>1
  <2> QED
    BY <2>1, <2>2 DEF w
<1>4. CallerMoves(c)
  BY <1>1, <1>3, LinksTyped DEF CallerMoves, PoolInv, Typed
<1>5. PoolGains
  BY SamePool
<1> QED
  BY <1>2, <1>4, <1>5, LinksTyped, CallerKeeps DEF PoolInv, Typed, Members

LEMMA CallKeeps ==
  ASSUME PoolInv, NEW c \in Callers, Call(c)
  PROVE  PoolInv'
<1>1. /\ call[c].pc = "idle" /\ begun' = [begun EXCEPT !.calls = @ + 1]
      /\ UNCHANGED <<conns, array, repairs, shutdown, direct>>
  BY DEF Call
<1>2. begun \in [calls : Nat, checks : Nat, drains : Nat]
  BY DEF PoolInv, Typed
<1>3. /\ begun' \in [calls : Nat, checks : Nat, drains : Nat]
      /\ begun'.drains = begun.drains /\ begun'.calls = begun.calls + 1
  BY <1>1, <1>2
<1>4. begun.calls + 1 <= begun'.calls + (IF call[c].pc \in Active THEN 1 ELSE 0)
  BY <1>1, <1>2, <1>3 DEF Active
<1>5. CASE conns = <<>>
  <2> DEFINE x == [Idle EXCEPT !.pc = "filling"]
  <2>1. /\ call' = [call EXCEPT ![c] = x]
        /\ UNCHANGED <<cursor, stats, links, buried>>
    BY <1>5 DEF Call
  <2>2. x \in CallState /\ x.pc = "filling" /\ x.got < Size
    BY PoolAssumption DEF Idle, CallState
  <2> QED
    BY <1>1, <1>3, <1>4, <2>1, <2>2, FillMoves
<1>6. CASE conns # <<>>
  <2>1. /\ links \in Seq(Link) /\ conns' \in Seq(Nat) /\ conns' # <<>>
        /\ \A i \in DOMAIN conns' : conns'[i] \in DOMAIN links
    BY <1>1, <1>6 DEF PoolInv, Typed, Slots, OneSlotEach
  <2>2. Turned(c, links) /\ cursor' \in Nat
    BY <1>6, <2>1, DispatchTurns DEF PoolInv, Call
  <2>3. PoolGains
    BY <1>1, <2>2, SamePool DEF Turned
  <2>4. direct' \in BOOLEAN
    BY <1>1 DEF PoolInv, Typed
  <2>5. \A k \in DOMAIN links :
           /\ links[k].status = "paying" =>
                /\ k \in DOMAIN links /\ links[k].status = "paying"
                /\ ~(call[c].pc = "fetching" /\ call[c].on = k)
           /\ links[k].open =>
                links[k].balance + links[k].settled = links[k].deposited
    BY <1>1, LinksTyped
  <2> QED
    BY <1>1, <1>3, <1>4, <2>1, <2>2, <2>3, <2>4, <2>5, TurnKeeps
<1> QED
  BY <1>5, <1>6

LEMMA FillOpenedKeeps ==
  ASSUME PoolInv, NEW c \in Callers, FillOpened(c)
  PROVE  PoolInv'
<1>1. /\ call[c].pc = "filling" /\ call[c] \in CallState
      /\ UNCHANGED <<array, repairs, shutdown, begun, direct>>
  BY LinksTyped DEF FillOpened, others
<1>2. /\ begun' \in [calls : Nat, checks : Nat, drains : Nat] /\ direct' \in BOOLEAN
      /\ begun'.drains = begun.drains
      /\ begun.calls + 1 <= begun'.calls + (IF call[c].pc \in Active THEN 1 ELSE 0)
  BY <1>1 DEF Active, PoolInv, Typed
<1>3. CASE call[c].got + 1 < Size
  <2> DEFINE x == [call[c] EXCEPT !.got = @ + 1]
  <2>1. call' = [call EXCEPT ![c] = x] /\ UNCHANGED <<conns, cursor, stats, links, buried>>
    BY <1>3 DEF FillOpened
  <2>2. x \in CallState /\ x.pc = "filling" /\ x.got < Size
    BY <1>1, <1>3 DEF CallState
  <2> QED
    BY <1>1, <1>2, <2>1, <2>2, FillMoves
<1>4. CASE ~(call[c].got + 1 < Size)
  <2> DEFINE new == [i \in 1..Size |-> Fresh]
             ls == links \o new
  <2>1. conns' = conns \o [i \in 1..Size |-> Len(links) + i] /\ Dispatch(c, ls)
    BY <1>4 DEF FillOpened
  <2>2. /\ links \in Seq(Link) /\ Size \in Nat
        /\ new \in Seq(Link) /\ Len(new) = Size
        /\ \A i \in 1..Size : new[i] = Fresh
    <3>1. Size \in Nat
      BY PoolAssumption
    <3> QED
      BY <3>1, FreshLink DEF PoolInv, Typed
  <2> HIDE DEF new
  <2>3. /\ ls \in Seq(Link) /\ DOMAIN ls = 1..(Len(links) + Size)
        /\ DOMAIN links \subseteq DOMAIN ls
        /\ \A k \in DOMAIN ls : (k \in DOMAIN links /\ ls[k] = links[k]) \/ ls[k] = Fresh
    BY <2>2
  <2> HIDE DEF ls
  <2>4. DOMAIN links' = DOMAIN ls
    BY <2>1 DEF Dispatch, Answered
  <2>5. PoolGains /\ conns' # <<>> /\ conns' \in Seq(Nat)
    BY <2>1, <2>3, <2>4, PoolExtended DEF PoolGains
  <2>6. \A i \in DOMAIN conns' : conns'[i] \in DOMAIN ls
    BY <2>4, <2>5 DEF PoolGains, OneSlotEach
  <2>7. Turned(c, ls) /\ cursor' \in Nat
    BY <2>1, <2>3, <2>5, <2>6, DispatchTurns DEF PoolInv
  <2>8. /\ Fresh.status = "connected" /\ Fresh.balance + Fresh.settled = Fresh.deposited
    BY PoolAssumption DEF Fresh
  <2>9. \A k \in DOMAIN ls :
           /\ ls[k].status = "paying" =>
                /\ k \in DOMAIN links /\ links[k].status = "paying"
                /\ ~(call[c].pc = "fetching" /\ call[c].on = k)
           /\ ls[k].open => ls[k].balance + ls[k].settled = ls[k].deposited
    BY <1>1, <2>3, <2>8, LinksTyped
  <2> QED
    BY <1>1, <1>2, <2>3, <2>5, <2>7, <2>9, TurnKeeps
<1> QED
  BY <1>3, <1>4

\* A call that gives up, and nothing else changes.
LEMMA GiveUpKeeps ==
  ASSUME PoolInv, NEW c \in Callers, call[c].pc # "fetching",
         call' = [call EXCEPT ![c] = Idle],
         UNCHANGED <<conns, cursor, stats, links, buried, others>>
  PROVE  PoolInv'
<1>1. /\ call' \in [Callers -> CallState] /\ \A d \in Callers : d # c => call'[d] = call[d]
      /\ call'[c] = Idle
  BY FreshLink DEF PoolInv, Typed
<1>2. CallTracked(call[c])'
  BY <1>1, PoolAssumption DEF CallTracked, OnLink, Idle
<1>3. CallerMoves(c)
  BY <1>1, LinksTyped DEF CallerMoves, PoolInv, Typed, Active, Idle, others
<1> QED
  BY <1>2, <1>3, SamePool, LinksTyped, CallerKeeps
  DEF PoolInv, Typed, Members, others

\* A refund or an opening fails.
LEMMA RejectsKeeps ==
  ASSUME PoolInv, NEW c \in Callers, Rejects(c)
  PROVE  PoolInv'
<1>1. call[c].pc # "fetching"
  BY DEF Rejects, Awaited
<1> QED
  BY <1>1, GiveUpKeeps DEF Rejects

\* One link of a caller changes, its books balanced, and the caller goes on.
LEMMA LinkMoves ==
  ASSUME PoolInv, NEW c \in Callers, NEW k \in DOMAIN links, k = call[c].on,
         NEW link \in Link, links' = [links EXCEPT ![k] = link],
         link.open => link.balance + link.settled = link.deposited,
         NEW p \in {"fetching", "reading"}, call' = [call EXCEPT ![c].pc = p],
         link.status = "paying" => p = "fetching", call[c].pc \in Active,
         UNCHANGED <<conns, cursor, stats, buried, array, repairs, shutdown, begun>>,
         direct' \in BOOLEAN
  PROVE  PoolInv'
<1>1. /\ call \in [Callers -> CallState] /\ links \in Seq(Link) /\ CallTracked(call[c])
  BY LinksTyped DEF PoolInv, Typed
<1>2. /\ call' \in [Callers -> CallState] /\ \A d \in Callers : d # c => call'[d] = call[d]
      /\ call'[c].pc = p /\ call'[c].on = k /\ call'[c].got = call[c].got
  BY <1>1 DEF CallState, OnLink
<1>3. /\ links' \in Seq(Link) /\ DOMAIN links' = DOMAIN links /\ links'[k] = link
      /\ \A j \in DOMAIN links : j # k => links'[j] = links[j]
  BY <1>1
<1>4. CallTracked(call[c])'
  BY <1>1, <1>2, <1>3 DEF CallTracked
<1>5. \A j \in DOMAIN links' :
       /\ links'[j].status = "paying" =>
            \/ call'[c].pc = "fetching" /\ call'[c].on = j
            \/ /\ j \in DOMAIN links /\ links[j].status = "paying"
               /\ ~(call[c].pc = "fetching" /\ call[c].on = j)
       /\ links'[j].open =>
            links'[j].balance + links'[j].settled = links'[j].deposited
  BY <1>2, <1>3, LinksTyped
<1>6. CallerMoves(c)
  BY <1>2, <1>3, <1>5 DEF CallerMoves, PoolInv, Typed, Active
<1> QED
  BY <1>3, <1>4, <1>6, SamePool, LinksTyped, CallerKeeps DEF PoolInv, Typed, Members

\* A refund credits the books of a link, and a price debits them.
LEMMA Credited ==
  ASSUME NEW x \in Link, x.balance + x.settled = x.deposited, NEW a \in Nat, NEW y,
         y = [x EXCEPT !.balance = @ + a, !.deposited = @ + a, !.status = "paying"]
  PROVE  y \in Link /\ y.status = "paying" /\ y.balance + y.settled = y.deposited
<1>1. /\ y.balance = x.balance + a /\ y.settled = x.settled
      /\ y.deposited = x.deposited + a /\ y.status = "paying"
  BY DEF Link
<1>2. x.balance \in Int /\ x.settled \in Nat /\ x.deposited \in Nat
  BY DEF Link
<1>3. y \in Link
  <2>1. y.balance \in Int /\ y.settled \in Nat /\ y.deposited \in Nat
    BY <1>1, <1>2
  <2>2. y = [status |-> y.status, open |-> x.open, balance |-> y.balance,
             settled |-> y.settled, deposited |-> y.deposited]
    BY DEF Link
  <2> QED
    BY <1>1, <2>1, <2>2 DEF Link, Statuses
<1> QED
  BY <1>1, <1>2, <1>3

LEMMA Debited ==
  ASSUME NEW x \in Link, x.open => x.balance + x.settled = x.deposited, NEW a \in Nat,
         NEW y, y = [x EXCEPT !.status = "connected", !.settled = @ + a, !.balance = @ - a]
  PROVE  /\ y \in Link /\ y.status = "connected"
         /\ y.open => y.balance + y.settled = y.deposited
<1>1. /\ y.balance = x.balance - a /\ y.settled = x.settled + a /\ y.open = x.open
      /\ y.deposited = x.deposited /\ y.status = "connected"
  BY DEF Link
<1>2. x.balance \in Int /\ x.settled \in Nat /\ x.deposited \in Nat
  BY DEF Link
<1>3. y \in Link
  <2>1. y.balance \in Int /\ y.settled \in Nat /\ y.deposited \in Nat
    BY <1>1, <1>2
  <2>2. y = [status |-> y.status, open |-> x.open, balance |-> y.balance,
             settled |-> y.settled, deposited |-> y.deposited]
    BY DEF Link
  <2> QED
    BY <1>1, <2>1, <2>2 DEF Link, Statuses
<1> QED
  BY <1>1, <1>2, <1>3

\* A refund has arrived, at a channel that may have been closed.
LEMMA FundedKeeps ==
  ASSUME PoolInv, NEW c \in Callers, Funded(c)
  PROVE  PoolInv'
<1>1. PICK k \in DOMAIN links : k = call[c].on
  BY LinksTyped DEF Funded, CallTracked, OnLink
<1>2. call[c].pc = "funding" /\ UNCHANGED <<conns, cursor, stats, buried, others>>
  BY DEF Funded
<1>3. CASE links[k].open
  <2> DEFINE link == [links[k] EXCEPT !.balance = @ + RefundAmount,
                                      !.deposited = @ + RefundAmount, !.status = "paying"]
  <2>1. links[k] \in Link /\ RefundAmount \in Nat /\ links \in Seq(Link)
    BY LinksTyped, PoolAssumption DEF PoolInv, Typed
  <2>2. /\ link \in Link /\ link.status = "paying"
        /\ link.balance + link.settled = link.deposited
    BY <1>3, <2>1, LinksTyped, Credited
  <2>3. links' = [links EXCEPT ![k] = link] /\ call' = [call EXCEPT ![c].pc = "fetching"]
    BY <1>1, <1>3, <2>1 DEF Funded, Link
  <2> HIDE DEF link
  <2> QED
    BY <1>1, <1>2, <2>2, <2>3, LinkMoves DEF others, Active, PoolInv, Typed
<1>4. CASE ~links[k].open
  <2>1. call' = [call EXCEPT ![c] = Idle] /\ UNCHANGED links
    BY <1>1, <1>4 DEF Funded
  <2> QED
    BY <1>2, <2>1, GiveUpKeeps
<1> QED
  BY <1>3, <1>4

\* A response has come, and the price moves if the channel is still there.
LEMMA FetchedKeeps ==
  ASSUME PoolInv, NEW c \in Callers, Fetched(c)
  PROVE  PoolInv'
<1>1. PICK k \in DOMAIN links : k = call[c].on
  BY LinksTyped DEF Fetched, Response, CallTracked, OnLink
<1> DEFINE debit == IF links[k].open THEN Price ELSE 0
           link == [links[k] EXCEPT !.status = "connected", !.settled = @ + debit,
                                    !.balance = @ - debit]
<1>2. links[k] \in Link /\ debit \in Nat /\ links \in Seq(Link)
  BY LinksTyped, PoolAssumption DEF PoolInv, Typed
<1>3. links' = [links EXCEPT ![k] = link]
  <2>1. links' = [links EXCEPT ![k].status = "connected", ![k].settled = @ + debit,
                               ![k].balance = @ - debit]
    BY <1>1 DEF Fetched, Response
  <2> HIDE DEF debit
  <2> QED
    BY <1>2, <2>1 DEF Link
<1>4. link \in Link /\ link.status = "connected"
      /\ (link.open => link.balance + link.settled = link.deposited)
  <2>1. links[k].open => links[k].balance + links[k].settled = links[k].deposited
    BY LinksTyped
  <2> HIDE DEF debit
  <2> QED
    BY <1>2, <2>1, Debited
<1> HIDE DEF link
<1>5. /\ call' = [call EXCEPT ![c].pc = "reading"] /\ call[c].pc \in Active
      /\ UNCHANGED <<conns, cursor, stats, buried, array, repairs, shutdown, begun>>
      /\ direct' \in BOOLEAN
  BY DEF Fetched, Response, DirectPay, Active, PoolInv, Typed
<1> QED
  BY <1>1, <1>3, <1>4, <1>5, LinkMoves

\* The agent has answered a caller that waited for it.
LEMMA AnsweredKeeps ==
  ASSUME PoolInv, NEW c \in Callers, call[c].pc \in {"fetching", "reading"},
         NEW ok \in BOOLEAN, NEW ls,
         \/ ls = Broken(call[c].on)
         \/ ls = links /\ call[c].pc = "reading",
         Answered(c, call[c].on, ok, ls), UNCHANGED <<conns, cursor>>,
         UNCHANGED <<array, repairs, shutdown, begun>>, direct' \in BOOLEAN
  PROVE  PoolInv'
<1>1. PICK k \in DOMAIN links : k = call[c].on
  BY LinksTyped DEF CallTracked, OnLink
<1>2. links \in Seq(Link) /\ \A j \in DOMAIN links : links[j] \in Link
  BY LinksTyped DEF PoolInv, Typed
<1>3. /\ ls \in Seq(Link) /\ DOMAIN ls = DOMAIN links
      /\ \A j \in DOMAIN ls :
           /\ ls[j].status = "paying" =>
                /\ j \in DOMAIN links /\ links[j].status = "paying"
                /\ ~(call[c].pc = "fetching" /\ call[c].on = j)
           /\ ls[j].open => ls[j].balance + ls[j].settled = ls[j].deposited
  <2>1. CASE ls = links /\ call[c].pc = "reading"
    BY <1>2, <2>1, LinksTyped
  <2>2. CASE ls = Broken(call[c].on)
    <3> DEFINE link == [links[k] EXCEPT !.status = "error"]
    <3>1. /\ link \in Link /\ link.status = "error" /\ link.open = links[k].open
          /\ link.balance = links[k].balance /\ link.settled = links[k].settled
          /\ link.deposited = links[k].deposited
      BY <1>2 DEF Link, Statuses
    <3>2. ls = [links EXCEPT ![k] = link]
      BY <1>1, <2>2 DEF Broken
    <3> HIDE DEF link
    <3>3. /\ ls \in Seq(Link) /\ DOMAIN ls = DOMAIN links /\ ls[k] = link
          /\ \A j \in DOMAIN links : j # k => ls[j] = links[j]
      BY <1>2, <3>1, <3>2
    <3> QED
      BY <1>1, <3>1, <3>3, LinksTyped
  <2> QED
    BY <2>1, <2>2
<1>4. Turned(c, ls)
  BY <1>1, <1>3, AnswerTurns DEF PoolInv, Typed
<1>5. PoolGains
  BY <1>3, <1>4, SamePool DEF Turned
<1>6. /\ begun' \in [calls : Nat, checks : Nat, drains : Nat] /\ cursor' \in Nat
      /\ begun'.drains = begun.drains
      /\ begun.calls + 1 <= begun'.calls + (IF call[c].pc \in Active THEN 1 ELSE 0)
  BY DEF Active, PoolInv, Typed
<1> QED
  BY <1>3, <1>4, <1>5, <1>6, TurnKeeps

LEMMA FetchThrowsKeeps ==
  ASSUME PoolInv, NEW c \in Callers, FetchThrows(c)
  PROVE  PoolInv'
<1>1. direct' \in BOOLEAN
  BY DEF FetchThrows, DirectPay, PoolInv, Typed
<1> QED
  BY <1>1, AnsweredKeeps DEF FetchThrows, DirectPay

LEMMA BodyReadKeeps ==
  ASSUME PoolInv, NEW c \in Callers, BodyRead(c)
  PROVE  PoolInv'
<1>1. direct' \in BOOLEAN
  BY DEF BodyRead, others, PoolInv, Typed
<1> QED
  BY <1>1, AnsweredKeeps DEF BodyRead, others

\* The replacement a call waited for is in its slot, or nowhere.
LEMMA ReplacedKeeps ==
  ASSUME PoolInv, NEW c \in Callers, Replaced(c)
  PROVE  PoolInv'
<1>1. /\ call[c].pc = "replacing" /\ call' = [call EXCEPT ![c] = Idle]
      /\ buried' = buried \cup {call[c].on} /\ Put(call[c])
      /\ UNCHANGED <<cursor, stats, others>>
  BY DEF Replaced
<1>2. SiteTracked(call[c]) /\ call[c].on \in DOMAIN links
  BY <1>1, LinksTyped DEF CallTracked, OnLink
<1>3. /\ call' \in [Callers -> CallState] /\ \A d \in Callers : d # c => call'[d] = call[d]
      /\ call'[c] = Idle
  BY <1>1, FreshLink DEF PoolInv, Typed
<1>4. CallTracked(call[c])'
  BY <1>3, PoolAssumption DEF CallTracked, OnLink, Idle
<1>5. /\ PoolGains
      /\ links' \in Seq(Link) /\ DOMAIN links' = DOMAIN links \cup {Len(links) + 1}
      /\ links'[Len(links) + 1] = Fresh
      /\ \A k \in DOMAIN links : links'[k] = links[k]
      /\ call[c].array = array => conns'[call[c].slot] \notin DOMAIN links
  BY <1>1, <1>2, PutGains DEF SiteTracked
<1>6. \A k \in DOMAIN links' :
       /\ links'[k].status = "paying" =>
            \/ call'[c].pc = "fetching" /\ call'[c].on = k
            \/ /\ k \in DOMAIN links /\ links[k].status = "paying"
               /\ ~(call[c].pc = "fetching" /\ call[c].on = k)
       /\ links'[k].open =>
            links'[k].balance + links'[k].settled = links'[k].deposited
  <2>1. /\ Fresh.status = "connected" /\ Fresh.balance + Fresh.settled = Fresh.deposited
    BY PoolAssumption DEF Fresh
  <2> QED
    BY <1>1, <1>5, <2>1, LinksTyped
<1>7. CallerMoves(c)
  BY <1>1, <1>3, <1>5, <1>6 DEF CallerMoves, PoolInv, Typed, Active, Idle, others
<1>8. call[c].on \notin Members(conns')
  <2> SUFFICES ASSUME NEW i \in DOMAIN conns', conns'[i] = call[c].on PROVE FALSE
    BY DEF Members
  <2>1. i \in DOMAIN conns /\ conns[i] = call[c].on
    BY <1>2, <1>5 DEF PoolGains
  <2>2. i = call[c].slot /\ call[c].array = array
    BY <1>2, <2>1 DEF SiteTracked
  <2> QED
    BY <1>2, <1>5, <2>2
<1> QED
  BY <1>1, <1>2, <1>4, <1>5, <1>7, <1>8, CallerKeeps DEF PoolInv, Typed, others

-----------------------------------------------------------------------------
(* Health checks and drains.                                               *)

\* A step of no caller, which takes connections out of no slot.
LEMMA QuietKeeps ==
  ASSUME PoolInv, Typed', UNCHANGED <<call, stats, buried, array>>,
         begun'.calls = begun.calls, PoolGains, DOMAIN links \subseteq DOMAIN links',
         \A k \in DOMAIN links' :
           /\ links'[k].status = "paying" =>
                k \in DOMAIN links /\ links[k].status = "paying"
           /\ links'[k].open =>
                links'[k].balance + links'[k].settled = links'[k].deposited,
         \A r \in repairs' : \/ r \in repairs
                             \/ r.array = array /\ r.slot \in DOMAIN conns,
         DrainsCounted'
  PROVE  PoolInv'
<1>1. Slots'
  BY SlotsKept DEF PoolInv, PoolGains
<1>2. PayingMeansInFlight'
  BY DEF PoolInv, PayingMeansInFlight
<1>3. BooksBalance'
  BY DEF BooksBalance
<1>4. Counted'
  BY CountStays DEF PoolInv
<1> QED
  BY <1>1, <1>2, <1>3, <1>4 DEF PoolInv

\* The health timer fires: dead slots of the present array wait for a new link.
LEMMA HealthCheckKeeps ==
  ASSUME PoolInv, HealthCheck
  PROVE  PoolInv'
<1> PICK dead \in SUBSET DOMAIN conns :
      /\ begun' = [begun EXCEPT !.checks = @ + 1]
      /\ repairs' = repairs \cup
           {[check |-> begun.checks, array |-> array, slot |-> i] : i \in dead}
  BY DEF HealthCheck
<1>1. UNCHANGED <<conns, array, cursor, stats, links, call, shutdown, buried, direct>>
  BY DEF HealthCheck
<1>2. /\ begun' \in [calls : Nat, checks : Nat, drains : Nat]
      /\ begun'.calls = begun.calls /\ begun'.drains = begun.drains
  <2>1. begun \in [calls : Nat, checks : Nat, drains : Nat]
    BY DEF PoolInv, Typed
  <2> QED
    BY <2>1
<1>3. \A i \in dead : i \in Nat
  BY DEF PoolInv, Typed
<1>4. Typed'
  <2>1. repairs' \subseteq [check : Nat, array : Nat, slot : Nat]
    BY <1>3 DEF PoolInv, Typed
  <2> QED
    BY <1>1, <1>2, <2>1 DEF PoolInv, Typed, shutdown
<1>5. DrainsCounted'
  BY <1>1, <1>2 DEF PoolInv, DrainsCounted, shutdown
<1>6. PoolGains
  BY <1>1, SamePool
<1>7. \A r \in repairs' : r \in repairs \/ (r.array = array /\ r.slot \in DOMAIN conns)
  OBVIOUS
<1> QED
  BY <1>1, <1>2, <1>4, <1>5, <1>6, <1>7, LinksTyped, QuietKeeps

\* A replacement of a health check arrives, or fails and is ignored.
LEMMA RepairedKeeps ==
  ASSUME PoolInv, Repaired
  PROVE  PoolInv'
<1> PICK r \in repairs : repairs' = repairs \ {r} /\ (Put(r) \/ UNCHANGED <<conns, links>>)
  BY DEF Repaired
<1>1. UNCHANGED <<array, cursor, stats, call, shutdown, begun, buried, direct>>
  BY DEF Repaired
<1>2. DrainsCounted'
  BY <1>1 DEF PoolInv, DrainsCounted, shutdown
<1>3. CASE Put(r)
  <2>1. r.array = array => r.slot \in DOMAIN conns
    BY DEF PoolInv, Slots
  <2>2. /\ PoolGains
        /\ links' \in Seq(Link) /\ DOMAIN links' = DOMAIN links \cup {Len(links) + 1}
        /\ links'[Len(links) + 1] = Fresh
        /\ \A k \in DOMAIN links : links'[k] = links[k]
    BY <1>3, <2>1, PutGains
  <2>3. Typed'
    BY <1>1, <2>2 DEF PoolInv, Typed, PoolGains, shutdown
  <2>4. Fresh.status = "connected" /\ Fresh.balance + Fresh.settled = Fresh.deposited
    BY PoolAssumption DEF Fresh
  <2>5. \A k \in DOMAIN links' :
           /\ links'[k].status = "paying" =>
                k \in DOMAIN links /\ links[k].status = "paying"
           /\ links'[k].open =>
                links'[k].balance + links'[k].settled = links'[k].deposited
    BY <2>2, <2>4, LinksTyped
  <2> QED
    BY <1>1, <1>2, <2>2, <2>3, <2>5, QuietKeeps
<1>4. CASE UNCHANGED <<conns, links>>
  <2>1. Typed' /\ PoolGains
    BY <1>1, <1>4, SamePool DEF PoolInv, Typed, shutdown
  <2> QED
    BY <1>1, <1>2, <1>4, <2>1, LinksTyped, QuietKeeps
<1> QED
  BY <1>3, <1>4

LEMMA DrainKeeps ==
  ASSUME PoolInv, Drain
  PROVE  PoolInv'
<1>1. /\ ~draining /\ begun.drains < MaxDrains /\ begun' = [begun EXCEPT !.drains = @ + 1]
      /\ timer' = FALSE /\ draining' = TRUE /\ closing' \subseteq Members(conns)
      /\ UNCHANGED <<conns, array, cursor, stats, links, call, repairs, buried, direct>>
  BY DEF Drain
<1>2. /\ begun' \in [calls : Nat, checks : Nat, drains : Nat]
      /\ begun'.calls = begun.calls /\ begun'.drains = begun.drains + 1
  <2>1. begun \in [calls : Nat, checks : Nat, drains : Nat]
    BY DEF PoolInv, Typed
  <2> QED
    BY <1>1, <2>1
<1>3. closing' \subseteq DOMAIN links
  BY <1>1 DEF PoolInv, Slots, OneSlotEach, Members
<1>4. Typed'
  BY <1>1, <1>2, <1>3 DEF PoolInv, Typed
<1>5. DrainsCounted'
  <2>1. array \in Nat /\ begun.drains \in Nat /\ MaxDrains \in Nat
    BY PoolAssumption DEF PoolInv, Typed
  <2>2. array + 0 <= begun.drains
    BY <1>1 DEF PoolInv, DrainsCounted
  <2>3. array' + 1 <= begun'.drains /\ begun'.drains <= MaxDrains
    BY <1>1, <1>2, <2>1, <2>2
  <2> QED
    BY <1>1, <2>3 DEF DrainsCounted
<1>6. PoolGains
  BY <1>1, SamePool
<1> QED
  BY <1>1, <1>2, <1>4, <1>5, <1>6, LinksTyped, QuietKeeps

LEMMA ClosedKeeps ==
  ASSUME PoolInv, Closed
  PROVE  PoolInv'
<1> PICK k \in closing :
      /\ closing' = closing \ {k}
      /\ \/ links' = [links EXCEPT ![k].open = FALSE, ![k].status = "closed"]
         \/ UNCHANGED links
  BY DEF Closed
<1>1. UNCHANGED <<conns, array, cursor, stats, timer, call, repairs, draining,
                  begun, buried, direct>>
  BY DEF Closed
<1>2. links \in Seq(Link) /\ k \in DOMAIN links /\ links[k] \in Link
  BY DEF PoolInv, Typed
<1>3. /\ links' \in Seq(Link) /\ DOMAIN links' = DOMAIN links
      /\ \A j \in DOMAIN links : \/ links'[j] = links[j]
                                 \/ links'[j].status = "closed" /\ ~links'[j].open
  <2>1. CASE links' = [links EXCEPT ![k].open = FALSE, ![k].status = "closed"]
    <3> DEFINE link == [links[k] EXCEPT !.open = FALSE, !.status = "closed"]
    <3>1. link \in Link /\ link.status = "closed" /\ ~link.open
      BY <1>2 DEF Link, Statuses
    <3>2. links' = [links EXCEPT ![k] = link]
      BY <1>2, <2>1 DEF Link
    <3> HIDE DEF link
    <3> QED
      BY <1>2, <3>1, <3>2
  <2> QED
    BY <1>2, <2>1
<1>4. Typed' /\ PoolGains
  BY <1>1, <1>3, SamePool DEF PoolInv, Typed
<1>5. DrainsCounted'
  BY <1>1 DEF PoolInv, DrainsCounted
<1>6. \A j \in DOMAIN links' :
        /\ links'[j].status = "paying" => j \in DOMAIN links /\ links[j].status = "paying"
        /\ links'[j].open =>
             links'[j].balance + links'[j].settled = links'[j].deposited
  BY <1>3, LinksTyped
<1> QED
  BY <1>1, <1>3, <1>4, <1>5, <1>6, QuietKeeps

\* The pool denotes a new, empty array: whoever still waits has the old one.
LEMMA DrainedKeeps ==
  ASSUME PoolInv, Drained
  PROVE  PoolInv'
<1>1. /\ draining /\ draining' = FALSE /\ conns' = <<>> /\ array' = array + 1
      /\ UNCHANGED <<cursor, stats, timer, links, call, repairs, closing, begun,
                     buried, direct>>
  BY DEF Drained, Empty
<1>2. Typed'
  <2>1. conns' \in Seq(Nat) /\ array' \in Nat
    BY <1>1 DEF PoolInv, Typed
  <2> QED
    BY <1>1, <2>1 DEF PoolInv, Typed
<1>3. DOMAIN conns' = {} /\ Members(conns') = {}
  BY <1>1 DEF Members
<1>4. \A c \in Callers : CallTracked(call[c])'
  <2> TAKE c \in Callers
  <2>1. CallTracked(call[c]) /\ call[c] \in CallState /\ array \in Nat
    BY LinksTyped DEF PoolInv, Typed
  <2>2. call[c].pc = "replacing" => SiteTracked(call[c])'
    BY <1>1, <1>3, <2>1 DEF CallTracked, SiteTracked, CallState, OnLink
  <2> QED
    BY <1>1, <2>1, <2>2 DEF CallTracked
<1>5. \A r \in repairs' : r.array <= array' /\ r.array # array'
  BY <1>1 DEF PoolInv, Slots, Typed
<1>6. Slots'
  BY <1>1, <1>3, <1>4, <1>5 DEF Slots, OneSlotEach, NeverPartlyFilled, DeadIsGone
<1>7. PayingMeansInFlight' /\ BooksBalance' /\ Counted'
  BY <1>1, CountStays DEF PoolInv, PayingMeansInFlight, BooksBalance
<1>8. DrainsCounted'
  BY <1>1 DEF PoolInv, DrainsCounted, Typed
<1> QED
  BY <1>2, <1>6, <1>7, <1>8 DEF PoolInv

LEMMA InitPool == Init => PoolInv
<1> SUFFICES ASSUME Init PROVE PoolInv
  OBVIOUS
<1>1. /\ Size \in Nat \ {0} /\ MaxDrains \in Nat
      /\ Fresh.status = "connected" /\ Fresh.balance + Fresh.settled = Fresh.deposited
  BY PoolAssumption DEF Fresh
<1>2. /\ conns \in Seq(Nat) /\ links \in Seq(Link) /\ DOMAIN conns = 1..Size
      /\ DOMAIN links = 1..Size /\ Len(conns) = Size
      /\ \A i \in 1..Size : conns[i] = i /\ links[i] = Fresh
  BY <1>1, FreshLink DEF Init
<1>3. call \in [Callers -> CallState] /\ \A c \in Callers : call[c] = Idle
  BY FreshLink DEF Init
<1>4. Typed
  <2>1. /\ begun \in [calls : Nat, checks : Nat, drains : Nat]
        /\ stats \in [totalCalls : Nat, errors : Nat]
    BY DEF Init
  <2> QED
    BY <1>2, <1>3, <2>1 DEF Init, Typed
<1>5. Slots
  BY <1>1, <1>2, <1>3
  DEF Init, Slots, OneSlotEach, NeverPartlyFilled, DeadIsGone, CallTracked, OnLink, Idle
<1>6. PayingMeansInFlight /\ BooksBalance
  BY <1>1, <1>2 DEF PayingMeansInFlight, BooksBalance
<1>7. Counted
  <2>1. Busy = {}
    BY <1>3 DEF Busy, Active, Idle
  <2> QED
    BY <2>1, FS_EmptySet DEF Init, Counted
<1>8. DrainsCounted
  BY <1>1 DEF Init, DrainsCounted
<1> QED
  BY <1>4, <1>5, <1>6, <1>7, <1>8 DEF PoolInv

LEMMA NextPool == PoolInv /\ [Next]_vars => PoolInv'
<1> SUFFICES ASSUME PoolInv, [Next]_vars PROVE PoolInv'
  OBVIOUS
<1>1. CASE UNCHANGED vars
  <2>1. Typed' /\ PoolGains /\ DrainsCounted'
    BY <1>1, SamePool DEF vars, shutdown, PoolInv, Typed, DrainsCounted
  <2> QED
    BY <1>1, <2>1, LinksTyped, QuietKeeps DEF vars, shutdown
<1> QED
  BY <1>1, CallKeeps, FillOpenedKeeps, RejectsKeeps, FundedKeeps, FetchedKeeps,
     FetchThrowsKeeps, BodyReadKeeps, ReplacedKeeps, HealthCheckKeeps,
     RepairedKeeps, DrainKeeps, ClosedKeeps, DrainedKeeps DEF Next

\* The inductive invariant holds throughout.
THEOREM PoolInvariance == Spec => []PoolInv
  BY InitPool, NextPool, PTL DEF Spec

-----------------------------------------------------------------------------
\* Slots, statuses and statistics stay right around every await, for any number
\* of callers: no connection found dead comes back, none stays "paying" when its
\* caller has gone, and no call is counted twice.
THEOREM PoolSafeTheorem == Spec => []PoolSafe
<1>1. ASSUME PoolInv PROVE PoolSafe
  <2>1. TypeOK
    <3>1. array \in 0..MaxDrains
      BY <1>1, PoolAssumption DEF PoolInv, Typed, DrainsCounted
    <3>2. \A k \in DOMAIN links :
            links[k] \in [status : Statuses, open : BOOLEAN, balance : Int,
                          settled : Nat, deposited : Nat]
      BY <1>1, LinksTyped DEF Link
    <3>3. \A c \in Callers :
            /\ call[c].pc \in {"idle", "filling", "funding", "fetching", "reading",
                               "replacing"}
            /\ call[c].pc \notin {"idle", "filling"} => call[c].on \in DOMAIN links
            /\ call[c].got < Size
      <4> TAKE c \in Callers
      <4>1. call[c] \in CallState /\ CallTracked(call[c])
        BY <1>1, LinksTyped
      <4> QED
        BY <4>1 DEF CallState, CallTracked, OnLink
    <3> QED
      BY <1>1, <3>1, <3>2, <3>3 DEF TypeOK, PoolInv, Typed, Slots, OneSlotEach
  <2>2. CountedOnce
    BY <1>1 DEF PoolInv, Counted, Busy, Active, CountedOnce
  <2> QED
    BY <1>1, <2>1, <2>2 DEF PoolInv, Slots, PoolSafe
<1> QED
  BY <1>1, PoolInvariance, PTL

\* A failed opening, a drain and a concurrent fill never leave a partly filled
\* pool.
THEOREM NeverPartlyFilledTheorem == Spec => []NeverPartlyFilled
  BY PoolInvariance, PTL DEF PoolInv, Slots

\* What an open channel's books say is what was put in.
THEOREM BooksBalanceTheorem == Spec => []BooksBalance
  BY PoolInvariance, PTL DEF PoolInv

=============================================================================
