--------------------------- MODULE SchedulerProofs ---------------------------
(***************************************************************************)
(* Proofs about Scheduler, for any number of callers, names and            *)
(* registrations, for both stores, with and without faults.                *)
(***************************************************************************)
EXTENDS Scheduler, TLAPS

\* The next firing is a time.
LEMMA NextFireType == \A p \in Nat \ {0}, t \in Nat : NextFire(p, t) \in Nat
BY DEF NextFire

LEMMA TypeInit == Init => TypeOK
<1> SUFFICES ASSUME Init PROVE TypeOK
  OBVIOUS
<1>1. clock \in Nat /\ regCount \in 0 .. MaxRegs
  BY BoundsAssumption DEF Init
<1>2. /\ objects \in [Regs -> [period : Nat \ {0}, nextRun : Times]]
      /\ store \in [Names -> Regs \cup {0}]
      /\ claims \subseteq Names \X Times
  BY DEF Init, Times
<1>3. /\ pc \in [Tickers -> {"idle"}]
      /\ due \in [Tickers -> SUBSET Item]
      /\ current \in [Tickers -> Item \cup {NoItem}]
      /\ mark \in [Tickers -> [reg : Regs, now : Nat] \cup {NoMark}]
  BY DEF Init
<1>4. dispatched \in Seq(Item)
  BY DEF Init
<1> QED
  BY <1>1, <1>2, <1>3, <1>4 DEF TypeOK

LEMMA TypeStep == TypeOK /\ [Next]_vars => TypeOK'
<1> SUFFICES ASSUME TypeOK, [Next]_vars PROVE TypeOK'
  OBVIOUS
<1> USE DEF TypeOK, Times, clients, ticks
<1>1. CASE UNCHANGED vars
  BY <1>1 DEF vars
<1>2. CASE Advance
  BY <1>2 DEF Advance
<1>3. ASSUME NEW n \in Names, NEW p \in Periods, Register(n, p) PROVE TypeOK'
  <2>1. p \in Nat \ {0} /\ NextFire(p, clock) \in Nat
    BY PeriodsAssumption, NextFireType
  <2>2. regCount + 1 \in Regs /\ regCount' \in 0 .. MaxRegs
    <3>1. regCount \in 0 .. MaxRegs /\ regCount < MaxRegs /\ regCount' = regCount + 1
      BY <1>3 DEF Register
    <3> HIDE DEF TypeOK
    <3> QED BY <3>1, BoundsAssumption DEF Regs
  <2> QED BY <1>3, <2>1, <2>2 DEF Register
<1>4. ASSUME NEW n \in Names, Unregister(n) PROVE TypeOK'
  BY <1>4 DEF Unregister
<1>5. ASSUME NEW t \in Tickers, TickStart(t) PROVE TypeOK'
  <2> DEFINE new == {[name |-> n, reg |-> store[n], fire |-> NextRun(n)] :
                        n \in {m \in Names : IsDue(m)}}
  <2>1. \A n \in Names : IsDue(n) => store[n] \in Regs /\ NextRun(n) \in Nat
    BY DEF IsDue, Registered, NextRun
  <2>2. new \subseteq Item
    BY <2>1 DEF Item
  <2>3. due' = [due EXCEPT ![t] = new]
    BY <1>5 DEF TickStart
  <2> HIDE DEF new
  <2> QED BY <1>5, <2>2, <2>3 DEF TickStart
<1>6. ASSUME NEW t \in Tickers, TickEnd(t) PROVE TypeOK'
  BY <1>6 DEF TickEnd
<1>7. ASSUME NEW t \in Tickers, NEW item \in due[t], TickClaim(t, item)
      PROVE  TypeOK'
  <2>1. item \in Item /\ FireTime(item) \in Nat /\ item.name \in Names
    BY DEF Item, FireTime
  <2>2. [item EXCEPT !.fire = FireTime(item)] \in Item
    BY <2>1 DEF Item
  <2> HIDE DEF TypeOK
  <2>3. CASE Claimable(item.name, FireTime(item))
    <3>1. /\ claims' = claims \cup {<<item.name, FireTime(item)>>}
          /\ current' = [current EXCEPT ![t] = [item EXCEPT !.fire = FireTime(item)]]
          /\ pc' = [pc EXCEPT ![t] = "dispatch"]
          /\ due' = [due EXCEPT ![t] = @ \ {item}]
          /\ UNCHANGED <<clock, clients, mark, dispatched>>
      BY <1>7, <2>3 DEF TickClaim
    <3>2. claims' \subseteq Names \X Times
      BY <2>1, <3>1 DEF TypeOK
    <3>3. /\ current' \in [Tickers -> Item \cup {NoItem}]
          /\ due' \in [Tickers -> SUBSET Item]
          /\ pc' \in [Tickers -> {"idle", "loop", "dispatch", "mark", "put"}]
      BY <2>2, <3>1 DEF TypeOK
    <3>4. \A u \in Tickers :
             /\ pc'[u] \in {"dispatch", "mark", "put"} => current'[u] \in Item
             /\ pc'[u] = "put" => mark[u] # NoMark
      BY <2>2, <3>1 DEF TypeOK
    <3> QED BY <3>1, <3>2, <3>3, <3>4 DEF TypeOK
  <2>4. CASE ~Claimable(item.name, FireTime(item))
    BY <1>7, <2>4 DEF TickClaim, TypeOK
  <2> QED BY <2>3, <2>4
<1>8. ASSUME NEW t \in Tickers, Dispatch(t) PROVE TypeOK'
  BY <1>8 DEF Dispatch
<1>9. ASSUME NEW t \in Tickers, DispatchRaises(t) PROVE TypeOK'
  BY <1>9 DEF DispatchRaises
<1>10. ASSUME NEW t \in Tickers, MarkAbsent(t) PROVE TypeOK'
  BY <1>10 DEF MarkAbsent
<1>11. ASSUME NEW t \in Tickers, MarkGet(t) PROVE TypeOK'
  <2>1. current[t].name \in Names
    BY <1>11 DEF MarkGet, Item
  <2>2. store[current[t].name] \in Regs /\ store[current[t].name] # 0
    BY <1>11, <2>1 DEF MarkGet, Registered
  <2>3. [reg |-> store[current[t].name], now |-> clock] # NoMark
    BY <2>2 DEF NoMark
  <2> QED BY <1>11, <2>2, <2>3 DEF MarkGet
<1>12. ASSUME NEW t \in Tickers, MarkPut(t) PROVE TypeOK'
  <2>1. mark[t].reg \in Regs /\ mark[t].now \in Nat /\ current[t].name \in Names
    BY <1>12 DEF MarkPut, Item
  <2>2. Advanced(t) \in Nat
    BY <2>1, NextFireType DEF Advanced
  <2> QED BY <1>12, <2>1, <2>2 DEF MarkPut
<1>13. ASSUME NEW t \in Tickers, Crash(t) PROVE TypeOK'
  BY <1>13 DEF Crash
<1> QED
  BY <1>1, <1>2, <1>3, <1>4, <1>5, <1>6, <1>7, <1>8, <1>9, <1>10, <1>11,
     <1>12, <1>13
  DEF Next, Client, TickerStep

\* The state of the scheduler always has its type; in particular mark_ran
\* never writes a schedule it did not read.
THEOREM TypeCorrect == Spec => []TypeOK
BY TypeInit, TypeStep, PTL DEF Spec

-----------------------------------------------------------------------------
(* At most one dispatch for each fire time.  The claim is made before the   *)
(* dispatch and never withdrawn, so every dispatch made or about to be made *)
(* owns its claim.                                                          *)

Key(item) == <<item.name, item.fire>>

ClaimInv ==
    /\ \A i \in DOMAIN dispatched : Key(dispatched[i]) \in claims
    /\ \A t \in Tickers : pc[t] = "dispatch" =>
          /\ Key(current[t]) \in claims
          /\ \A i \in DOMAIN dispatched : Key(dispatched[i]) # Key(current[t])
    /\ \A t, u \in Tickers :
          pc[t] = "dispatch" /\ pc[u] = "dispatch"
          /\ Key(current[t]) = Key(current[u]) => t = u
    /\ \A i, j \in DOMAIN dispatched :
          Key(dispatched[i]) = Key(dispatched[j]) => i = j

LEMMA ClaimStep == TypeOK /\ ClaimInv /\ [Next]_vars => ClaimInv'
<1> SUFFICES ASSUME TypeOK, ClaimInv, [Next]_vars PROVE ClaimInv'
  OBVIOUS
<1> USE DEF ClaimInv, clients, ticks
<1>1. /\ pc \in [Tickers -> {"idle", "loop", "dispatch", "mark", "put"}]
      /\ current \in [Tickers -> Item \cup {NoItem}]
      /\ dispatched \in Seq(Item)
  BY DEF TypeOK
<1>2. CASE UNCHANGED vars \/ Advance
  BY <1>2 DEF vars, Advance
<1>3. ASSUME NEW n \in Names, Unregister(n) \/ \E p \in Periods : Register(n, p)
      PROVE  ClaimInv'
  BY <1>3 DEF Register, Unregister
<1>4. ASSUME NEW t \in Tickers,
             TickStart(t) \/ TickEnd(t) \/ DispatchRaises(t) \/ MarkAbsent(t)
             \/ MarkGet(t) \/ MarkPut(t) \/ Crash(t)
      PROVE  ClaimInv'
  <2>1. /\ claims' = claims /\ dispatched' = dispatched
        /\ \A u \in Tickers : pc'[u] = "dispatch" =>
              u # t /\ pc[u] = "dispatch" /\ current'[u] = current[u]
    BY <1>1, <1>4 DEF TickStart, TickEnd, DispatchRaises, MarkAbsent, MarkGet,
                      MarkPut, Crash
  <2> QED BY <2>1
<1>5. ASSUME NEW t \in Tickers, NEW item \in due[t], TickClaim(t, item)
      PROVE  ClaimInv'
  <2> DEFINE new == [item EXCEPT !.fire = FireTime(item)]
             k == <<item.name, FireTime(item)>>
  <2>1. CASE ~Claimable(item.name, FireTime(item))
    BY <1>5, <2>1 DEF TickClaim
  <2>2. CASE Claimable(item.name, FireTime(item))
    <3>1. k \notin claims /\ claims' = claims \cup {k} /\ dispatched' = dispatched
      BY <1>5, <2>2 DEF TickClaim, Claimable
    <3>2. /\ pc' = [pc EXCEPT ![t] = "dispatch"]
          /\ current' = [current EXCEPT ![t] = new]
      BY <1>5, <2>2 DEF TickClaim
    <3>3. Key(new) = k
      BY DEF Key, TypeOK, Item
    <3> HIDE DEF new, k
    <3>4. /\ current'[t] = new /\ pc'[t] = "dispatch"
          /\ \A u \in Tickers : u # t => pc'[u] = pc[u] /\ current'[u] = current[u]
      BY <1>1, <3>2
    <3> QED BY <3>1, <3>3, <3>4
  <2> QED BY <2>1, <2>2
<1>6. ASSUME NEW t \in Tickers, Dispatch(t) PROVE ClaimInv'
  <2> DEFINE m == Len(dispatched)
  <2>1. /\ claims' = claims /\ current' = current
        /\ pc[t] = "dispatch" /\ pc'[t] = "mark"
        /\ \A u \in Tickers : u # t => pc'[u] = pc[u]
    BY <1>1, <1>6 DEF Dispatch
  <2>2. current[t] \in Item
    BY <2>1 DEF TypeOK
  <2>3. /\ m \in Nat
        /\ DOMAIN dispatched = 1 .. m
        /\ DOMAIN dispatched' = 1 .. (m + 1)
        /\ \A i \in 1 .. m : dispatched'[i] = dispatched[i]
        /\ dispatched'[m + 1] = current[t]
    BY <1>1, <1>6, <2>2 DEF Dispatch
  <2> HIDE DEF m
  <2>4. \A i \in 1 .. (m + 1) : i \in 1 .. m \/ i = m + 1
    BY <2>3
  <2> QED BY <2>1, <2>3, <2>4
<1> QED
  BY <1>2, <1>3, <1>4, <1>5, <1>6 DEF Next, Client, TickerStep

\* A fire time is dispatched at most once, for any number of concurrent
\* callers, with either store, with failing dispatches and crashes.
THEOREM AtMostOnceHolds == Spec => []AtMostOnce
<1>1. Init => ClaimInv
  BY DEF Init, ClaimInv
<1>2. ClaimInv => AtMostOnce
  BY DEF ClaimInv, AtMostOnce, Key
<1> QED
  BY <1>1, <1>2, ClaimStep, TypeCorrect, PTL DEF Spec
-----------------------------------------------------------------------------
(* With the database store nothing is dispatched early: what a tick holds   *)
(* is a copy that was due when it was read, and time does not go back.      *)

DueInv ==
    /\ \A t \in Tickers : \A item \in due[t] : item.fire <= clock
    /\ \A t \in Tickers : pc[t] = "dispatch" => current[t].fire <= clock
    /\ NeverEarly

LEMMA DueStep ==
    ASSUME Aliased = FALSE
    PROVE  TypeOK /\ DueInv /\ [Next]_vars => DueInv'
<1> SUFFICES ASSUME TypeOK, DueInv, [Next]_vars PROVE DueInv'
  OBVIOUS
<1> USE DEF DueInv, NeverEarly, clients, ticks
<1>1. /\ clock \in Nat
      /\ pc \in [Tickers -> {"idle", "loop", "dispatch", "mark", "put"}]
      /\ due \in [Tickers -> SUBSET Item]
      /\ current \in [Tickers -> Item \cup {NoItem}]
      /\ dispatched \in Seq(Item)
  BY DEF TypeOK
<1>2. CASE UNCHANGED vars
  BY <1>2 DEF vars
<1>3. CASE Advance
  <2>1. \A x \in Nat : x <= clock => x <= clock'
    BY <1>1, <1>3 DEF Advance
  <2>2. /\ \A t \in Tickers : \A item \in due[t] : item.fire \in Nat
        /\ \A t \in Tickers : pc[t] = "dispatch" => current[t].fire \in Nat
        /\ \A i \in DOMAIN dispatched : dispatched[i].fire \in Nat
    <3>1. \A item \in Item : item.fire \in Nat
      BY DEF Item, Times
    <3>2. /\ \A t \in Tickers : due[t] \subseteq Item
          /\ \A t \in Tickers : pc[t] = "dispatch" => current[t] \in Item
          /\ \A i \in DOMAIN dispatched : dispatched[i] \in Item
      BY DEF TypeOK
    <3> QED BY <3>1, <3>2
  <2> QED BY <1>3, <2>1, <2>2 DEF Advance
<1>4. ASSUME NEW n \in Names, Unregister(n) \/ \E p \in Periods : Register(n, p)
      PROVE  DueInv'
  BY <1>4 DEF Register, Unregister
<1>5. ASSUME NEW t \in Tickers, TickStart(t) PROVE DueInv'
  <2>1. \A item \in due'[t] : item.fire <= clock
    BY <1>1, <1>5 DEF TickStart, IsDue
  <2>2. /\ \A u \in Tickers : u # t => due'[u] = due[u] /\ pc'[u] = pc[u]
        /\ pc'[t] = "loop"
        /\ UNCHANGED <<clock, current, dispatched>>
    BY <1>1, <1>5 DEF TickStart
  <2> QED BY <2>1, <2>2
<1>6. ASSUME NEW t \in Tickers,
             TickEnd(t) \/ DispatchRaises(t) \/ MarkAbsent(t) \/ MarkGet(t)
             \/ MarkPut(t) \/ Crash(t)
      PROVE  DueInv'
  <2>1. /\ clock' = clock /\ dispatched' = dispatched
        /\ \A u \in Tickers : due'[u] \subseteq due[u]
        /\ \A u \in Tickers : pc'[u] = "dispatch" =>
              pc[u] = "dispatch" /\ current'[u] = current[u]
    BY <1>1, <1>6 DEF TickEnd, DispatchRaises, MarkAbsent, MarkGet, MarkPut, Crash
  <2> QED BY <2>1
<1>7. ASSUME NEW t \in Tickers, NEW item \in due[t], TickClaim(t, item)
      PROVE  DueInv'
  <2>1. FireTime(item) = item.fire /\ item \in Item /\ item.fire <= clock
    BY <1>1 DEF FireTime
  <2>2. [item EXCEPT !.fire = FireTime(item)].fire <= clock
    BY <2>1 DEF Item
  <2>3. /\ clock' = clock /\ dispatched' = dispatched
        /\ \A u \in Tickers : due'[u] \subseteq due[u]
        /\ \A u \in Tickers : pc'[u] = "dispatch" =>
              \/ pc[u] = "dispatch" /\ current'[u] = current[u]
              \/ current'[u] = [item EXCEPT !.fire = FireTime(item)]
    BY <1>1, <1>7 DEF TickClaim
  <2> QED BY <2>2, <2>3
<1>8. ASSUME NEW t \in Tickers, Dispatch(t) PROVE DueInv'
  <2> DEFINE m == Len(dispatched)
  <2>1. /\ clock' = clock /\ current' = current /\ due' = due
        /\ pc[t] = "dispatch"
        /\ \A u \in Tickers : pc'[u] = "dispatch" => pc[u] = "dispatch"
    BY <1>1, <1>8 DEF Dispatch
  <2>2. current[t] \in Item
    BY <2>1 DEF TypeOK
  <2>3. /\ DOMAIN dispatched = 1 .. m
        /\ DOMAIN dispatched' = 1 .. (m + 1)
        /\ \A i \in 1 .. m : dispatched'[i] = dispatched[i]
        /\ dispatched'[m + 1] = current[t]
        /\ \A i \in 1 .. (m + 1) : i \in 1 .. m \/ i = m + 1
    BY <1>1, <1>8, <2>2 DEF Dispatch
  <2> HIDE DEF m
  <2> QED BY <2>1, <2>3
<1> QED
  BY <1>2, <1>3, <1>4, <1>5, <1>6, <1>7, <1>8 DEF Next, Client, TickerStep

\* With the database store nothing is dispatched before its fire time, for
\* any number of callers and whatever clients do meanwhile.
THEOREM NeverEarlyHolds ==
    ASSUME Aliased = FALSE
    PROVE  Spec => []NeverEarly
<1>1. Init => DueInv
  BY DEF Init, DueInv, NeverEarly
<1>2. TypeOK /\ DueInv /\ [Next]_vars => DueInv'
  BY DueStep
<1>3. DueInv => NeverEarly
  BY DEF DueInv
<1> QED
  BY <1>1, <1>2, <1>3, TypeCorrect, PTL DEF Spec

-----------------------------------------------------------------------------
(* next_run moves forward only, as long as one registration is all there    *)
(* is: of the callers that hold an item only one has claimed the fire time  *)
(* that stands, and nobody else can claim one before it has marked.         *)

Working(t) == pc[t] \in {"dispatch", "mark", "put"}

\* What holds of the only registration, which was made under the name n.
Lone(n) ==
    /\ store[n] \in {0, 1} /\ \A m \in Names : m # n => store[m] = 0
    /\ objects[1].nextRun <= NextFire(objects[1].period, clock)
    /\ \A t \in Tickers : \A item \in due[t] :
          /\ item.name = n /\ item.reg = 1
          /\ item.fire = objects[1].nextRun \/ <<n, item.fire>> \in claims
    /\ \A t \in Tickers : Working(t) =>
          /\ current[t].name = n /\ current[t].fire = objects[1].nextRun
          /\ <<n, objects[1].nextRun>> \in claims
    /\ \A t, u \in Tickers : Working(t) /\ Working(u) => t = u
    /\ \A t \in Tickers : pc[t] = "put" =>
          /\ mark[t].reg = 1 /\ mark[t].now <= clock
          /\ objects[1].nextRun <= NextFire(objects[1].period, mark[t].now)

LoneInv ==
    /\ regCount = 0 => /\ \A n \in Names : store[n] = 0
                       /\ \A t \in Tickers : due[t] = {} /\ ~Working(t)
    /\ regCount = 1 => \E n \in Names : Lone(n)

\* The later the time, the later the next firing.
LEMMA NextFireMonotone ==
    ASSUME NEW p \in Nat \ {0}, NEW a \in Nat, NEW b \in Nat, a <= b
    PROVE  NextFire(p, a) <= NextFire(p, b)
<1> DEFINE x == a \div p
           y == b \div p
<1>1. /\ x \in Nat /\ y \in Nat
      /\ p * x <= a /\ a < p * x + p /\ p * y <= b /\ b < p * y + p
  OBVIOUS
<1>2. NextFire(p, a) = (x + 1) * p /\ NextFire(p, b) = (y + 1) * p
  BY DEF NextFire
<1> HIDE DEF x, y
<1>3. ~(y < x)
  <2> SUFFICES ASSUME y < x PROVE FALSE
    OBVIOUS
  <2>1. p * (y + 1) <= p * x
    BY <1>1
  <2>2. p * y + p = p * (y + 1)
    BY <1>1
  <2> QED BY <1>1, <2>1, <2>2
<1>4. x + 1 <= y + 1
  BY <1>1, <1>3
<1>5. (x + 1) * p <= (y + 1) * p
  BY <1>1, <1>4
<1> QED BY <1>2, <1>5

\* One caller's step, or the clock's, or a removal, while there is one
\* registration.
LEMMA LoneStep ==
    ASSUME TypeOK, NEW n \in Names, Lone(n), regCount = 1, [Next]_vars, regCount' = 1
    PROVE  Lone(n)' /\ objects'[1].nextRun >= objects[1].nextRun
<1> DEFINE next == objects[1].nextRun
           period == objects[1].period
<1>1. /\ 1 \in Regs /\ clock \in Nat
      /\ period \in Nat \ {0} /\ next \in Nat
      /\ store \in [Names -> Regs \cup {0}]
      /\ objects \in [Regs -> [period : Nat \ {0}, nextRun : Nat]]
      /\ pc \in [Tickers -> {"idle", "loop", "dispatch", "mark", "put"}]
      /\ due \in [Tickers -> SUBSET Item]
      /\ current \in [Tickers -> Item \cup {NoItem}]
      /\ mark \in [Tickers -> [reg : Regs, now : Nat] \cup {NoMark}]
      /\ NextFire(period, clock) \in Nat
  <2>1. 1 \in Regs
    BY BoundsAssumption DEF TypeOK, Regs
  <2>2. period \in Nat \ {0} /\ next \in Nat /\ clock \in Nat
    BY <2>1 DEF TypeOK, Times
  <2>3. NextFire(period, clock) \in Nat
    BY <2>2, NextFireType
  <2> QED BY <2>1, <2>2, <2>3 DEF TypeOK, Times
<1>2. CASE UNCHANGED vars
  <2>1. UNCHANGED <<clock, regCount, objects, store, claims, pc, due, current, mark>>
    BY <1>2 DEF vars, clients, ticks
  <2>2. Lone(n)'
    BY <2>1 DEF Lone, Working, NextFire
  <2> QED BY <1>1, <2>1, <2>2
<1>3. CASE Advance
  <2>1. /\ UNCHANGED <<regCount, objects, store, claims, pc, due, current, mark>>
        /\ clock' = clock + 1
    BY <1>3 DEF Advance, clients, ticks
  <2>2. clock' \in Nat /\ clock <= clock'
    BY <1>1, <2>1
  <2>3. NextFire(period, clock') \in Nat /\ NextFire(period, clock) <= NextFire(period, clock')
    <3>1. PICK c \in Nat : c = clock'
      BY <2>2
    <3>2. NextFire(period, c) \in Nat /\ NextFire(period, clock) <= NextFire(period, c)
      BY <1>1, <2>2, <3>1, NextFireType, NextFireMonotone
    <3> QED BY <3>1, <3>2
  <2>4. objects'[1].nextRun <= NextFire(objects'[1].period, clock')
    BY <1>1, <2>1, <2>3 DEF Lone
  <2>5. \A t \in Tickers : pc[t] = "put" => mark[t].now <= clock'
    <3> SUFFICES ASSUME NEW t \in Tickers, pc[t] = "put" PROVE mark[t].now <= clock'
      OBVIOUS
    <3>1. mark[t].now \in Nat /\ mark[t].now <= clock
      BY <1>1 DEF Lone, TypeOK
    <3> QED BY <1>1, <2>2, <3>1
  <2>6. Lone(n)'
    BY <2>1, <2>4, <2>5 DEF Lone, Working, NextFire
  <2> QED BY <1>1, <2>1, <2>6
<1>4. ASSUME NEW m \in Names, Unregister(m)
      PROVE  Lone(n)' /\ objects'[1].nextRun >= objects[1].nextRun
  <2>1. /\ UNCHANGED <<clock, regCount, objects, claims, pc, due, current, mark>>
        /\ store' = [store EXCEPT ![m] = 0]
    BY <1>4 DEF Unregister, ticks
  <2>2. \A k \in Names : store'[k] = IF k = m THEN 0 ELSE store[k]
    BY <1>1, <2>1
  <2>3. Lone(n)'
    BY <2>1, <2>2 DEF Lone, Working, NextFire
  <2> QED BY <1>1, <2>1, <2>3
<1>5. ASSUME NEW m \in Names, NEW p \in Periods, Register(m, p)
      PROVE  FALSE
  <2>1. regCount' = regCount + 1
    BY <1>5 DEF Register
  <2> QED BY <2>1
<1>6. ASSUME NEW t \in Tickers, TickStart(t)
      PROVE  Lone(n)' /\ objects'[1].nextRun >= objects[1].nextRun
  <2>1. /\ UNCHANGED <<clock, regCount, objects, store, claims, current, mark>>
        /\ pc[t] = "idle" /\ pc' = [pc EXCEPT ![t] = "loop"]
        /\ \A u \in Tickers : u # t => due'[u] = due[u]
    BY <1>1, <1>6 DEF TickStart, clients
  <2>2. \A item \in due'[t] : item.name = n /\ item.reg = 1 /\ item.fire = next
    <3>1. due'[t] = {[name |-> m, reg |-> store[m], fire |-> NextRun(m)] :
                       m \in {m \in Names : IsDue(m)}}
      BY <1>1, <1>6 DEF TickStart
    <3>2. \A m \in Names : IsDue(m) => m = n /\ store[m] = 1 /\ NextRun(m) = next
      BY DEF Lone, IsDue, Registered, NextRun
    <3> HIDE DEF next
    <3> QED BY <3>1, <3>2
  <2>3. pc'[t] = "loop" /\ \A u \in Tickers : u # t => pc'[u] = pc[u]
    BY <1>1, <2>1
  <2>4. \A u \in Tickers : \A item \in due'[u] :
            /\ item.name = n /\ item.reg = 1
            /\ item.fire = objects'[1].nextRun \/ <<n, item.fire>> \in claims'
    BY <2>1, <2>2 DEF Lone
  <2>5. Lone(n)'
    BY <2>1, <2>3, <2>4 DEF Lone, Working, NextFire
  <2> QED BY <1>1, <2>1, <2>5
\* The steps that end an item, or a tick, without marking.
<1>7. ASSUME NEW t \in Tickers,
             TickEnd(t) \/ DispatchRaises(t) \/ MarkAbsent(t) \/ Crash(t)
      PROVE  Lone(n)' /\ objects'[1].nextRun >= objects[1].nextRun
  <2>1. /\ UNCHANGED <<clock, regCount, objects, store, claims>>
        /\ \A u \in Tickers : due'[u] \subseteq due[u]
        /\ ~Working(t)' /\ pc'[t] # "put"
        /\ \A u \in Tickers : u # t =>
              pc'[u] = pc[u] /\ current'[u] = current[u] /\ mark'[u] = mark[u]
    BY <1>1, <1>7 DEF TickEnd, DispatchRaises, MarkAbsent, Crash, Working, clients
  <2>2. Lone(n)'
    BY <2>1 DEF Lone, Working, NextFire
  <2> QED BY <1>1, <2>1, <2>2
<1>8. ASSUME NEW t \in Tickers, NEW item \in due[t], TickClaim(t, item)
      PROVE  Lone(n)' /\ objects'[1].nextRun >= objects[1].nextRun
  <2>1. /\ UNCHANGED <<clock, regCount, objects, store, mark>>
        /\ pc[t] = "loop" /\ \A u \in Tickers : due'[u] \subseteq due[u]
    BY <1>1, <1>8 DEF TickClaim, clients
  <2>2. CASE ~Claimable(item.name, FireTime(item))
    <3>1. UNCHANGED <<claims, current, pc>>
      BY <1>8, <2>2 DEF TickClaim
    <3>2. Lone(n)'
      BY <2>1, <3>1 DEF Lone, Working, NextFire
    <3> QED BY <1>1, <2>1, <3>2
  <2>3. CASE Claimable(item.name, FireTime(item))
    \* What may be claimed is the fire time that stands.
    <3>1. item \in Item /\ item.name = n /\ FireTime(item) = next
          /\ <<n, next>> \notin claims
      BY <1>1, <2>3 DEF Lone, Claimable, FireTime
    <3>2. \A u \in Tickers : ~Working(u)
      BY <3>1 DEF Lone
    <3>3. /\ claims' = claims \cup {<<n, next>>}
          /\ pc' = [pc EXCEPT ![t] = "dispatch"]
          /\ current' = [current EXCEPT ![t] = [item EXCEPT !.fire = next]]
      BY <1>8, <2>3, <3>1 DEF TickClaim
    <3>4. current'[t].name = n /\ current'[t].fire = next
      BY <1>1, <3>1, <3>3 DEF Item
    <3>5. \A u \in Tickers : Working(u)' => u = t /\ pc'[u] = "dispatch"
      BY <1>1, <3>2, <3>3 DEF Working
    <3> HIDE DEF next, period
    <3>6. objects[1].nextRun = next
      BY DEF next
    <3>7. \A u \in Tickers : pc'[u] = "put" => Working(u)'
      BY DEF Working
    <3>8. \A u \in Tickers : \A i \in due'[u] : 
              /\ i.name = n /\ i.reg = 1
              /\ i.fire = objects[1].nextRun \/ <<n, i.fire>> \in claims'
      BY <2>1, <3>3 DEF Lone
    <3>9. /\ \A u \in Tickers : Working(u)' =>
                /\ current'[u].name = n /\ current'[u].fire = objects[1].nextRun
                /\ <<n, objects[1].nextRun>> \in claims'
          /\ \A u, v \in Tickers : Working(u)' /\ Working(v)' => u = v
          /\ \A u \in Tickers : pc'[u] # "put"
      BY <3>3, <3>4, <3>5, <3>6, <3>7
    <3>10. Lone(n)'
      BY <2>1, <3>8, <3>9 DEF Lone, NextFire
    <3> QED BY <1>1, <2>1, <3>10 DEF next
  <2> QED BY <2>2, <2>3
<1>9. ASSUME NEW t \in Tickers, Dispatch(t)
      PROVE  Lone(n)' /\ objects'[1].nextRun >= objects[1].nextRun
  <2>1. /\ UNCHANGED <<clock, regCount, objects, store, claims, due, current, mark>>
        /\ pc[t] = "dispatch" /\ pc' = [pc EXCEPT ![t] = "mark"]
    BY <1>9 DEF Dispatch, clients
  <2>2. pc'[t] = "mark" /\ \A u \in Tickers : u # t => pc'[u] = pc[u]
    BY <1>1, <2>1
  <2>3. Lone(n)'
    BY <2>1, <2>2 DEF Lone, Working, NextFire
  <2> QED BY <1>1, <2>1, <2>3
<1>10. ASSUME NEW t \in Tickers, MarkGet(t)
       PROVE  Lone(n)' /\ objects'[1].nextRun >= objects[1].nextRun
  <2>1. /\ UNCHANGED <<clock, regCount, objects, store, claims, due, current>>
        /\ pc[t] = "mark" /\ pc' = [pc EXCEPT ![t] = "put"]
        /\ \A u \in Tickers : u # t => mark'[u] = mark[u]
        /\ mark'[t] = [reg |-> store[current[t].name], now |-> clock]
        /\ store[current[t].name] # 0
    BY <1>1, <1>10 DEF MarkGet, clients, Registered
  <2>2. mark'[t].reg = 1 /\ mark'[t].now = clock
    BY <2>1 DEF Lone, Working
  <2>3. pc'[t] = "put" /\ \A u \in Tickers : u # t => pc'[u] = pc[u]
    BY <1>1, <2>1
  <2>4. ASSUME NEW u \in Tickers, pc'[u] = "put"
        PROVE  /\ mark'[u].reg = 1 /\ mark'[u].now <= clock
               /\ next <= NextFire(period, mark'[u].now)
    <3>1. CASE u = t
      BY <1>1, <2>2, <3>1 DEF Lone
    <3>2. CASE u # t
      BY <2>1, <2>3, <2>4, <3>2 DEF Lone
    <3> QED BY <3>1, <3>2
  <2>5. Lone(n)'
    BY <2>1, <2>3, <2>4 DEF Lone, Working, NextFire
  <2> QED BY <1>1, <2>1, <2>5
\* The caller that has claimed the fire time that stands moves it on, and
\* leaves its claim behind for those who hold an item with that fire time.
<1>11. ASSUME NEW t \in Tickers, MarkPut(t)
       PROVE  Lone(n)' /\ objects'[1].nextRun >= objects[1].nextRun
  <2>1. /\ UNCHANGED <<clock, regCount, claims, due>>
        /\ pc[t] = "put" /\ pc' = [pc EXCEPT ![t] = "loop"]
        /\ \A u \in Tickers : u # t => mark'[u] = mark[u] /\ current'[u] = current[u]
    BY <1>1, <1>11 DEF MarkPut
  <2>2. /\ Working(t) /\ mark[t].reg = 1 /\ current[t].name = n
        /\ mark[t].now \in Nat /\ mark[t].now <= clock
        /\ next <= NextFire(period, mark[t].now) /\ <<n, next>> \in claims
    BY <2>1 DEF Lone, Working, TypeOK
  <2>3. PICK f \in Nat : f = Advanced(t) /\ f = NextFire(period, mark[t].now)
    BY <1>1, <2>2, NextFireType DEF Advanced
  <2>4. /\ objects'[1].nextRun = f /\ objects'[1].period = period
        /\ store'[n] = 1 /\ \A m \in Names : m # n => store'[m] = store[m]
    BY <1>1, <1>11, <2>2, <2>3 DEF MarkPut
  <2>5. next <= f /\ f <= NextFire(period, clock)
    BY <1>1, <2>2, <2>3, NextFireMonotone
  <2>6. \A u \in Tickers : ~Working(u)' /\ pc'[u] # "put"
    BY <1>1, <2>1, <2>2 DEF Lone, Working
  <2>7. \A u \in Tickers : \A item \in due'[u] :
            item.name = n /\ item.reg = 1 /\ <<n, item.fire>> \in claims'
    BY <2>1, <2>2 DEF Lone
  <2>8. objects'[1].nextRun <= NextFire(objects'[1].period, clock')
    BY <2>1, <2>4, <2>5
  <2>9. store'[n] \in {0, 1} /\ \A m \in Names : m # n => store'[m] = 0
    BY <2>4 DEF Lone
  <2>10. Lone(n)'
    BY <2>6, <2>7, <2>8, <2>9 DEF Lone
  <2> QED BY <1>1, <2>4, <2>5, <2>10
<1> QED
  BY <1>2, <1>3, <1>4, <1>5, <1>6, <1>7, <1>8, <1>9, <1>10, <1>11
  DEF Next, Client, TickerStep

LEMMA LoneInvStep == TypeOK /\ LoneInv /\ [Next]_vars => LoneInv'
<1> SUFFICES ASSUME TypeOK, LoneInv, [Next]_vars PROVE LoneInv'
  OBVIOUS
<1>1. /\ regCount \in Nat /\ clock \in Nat
      /\ store \in [Names -> Regs \cup {0}]
      /\ objects \in [Regs -> [period : Nat \ {0}, nextRun : Nat]]
      /\ pc \in [Tickers -> {"idle", "loop", "dispatch", "mark", "put"}]
      /\ due \in [Tickers -> SUBSET Item]
  BY BoundsAssumption DEF TypeOK, Times
\* A registration takes the count on.
<1>2. ASSUME NEW m \in Names, NEW p \in Periods, Register(m, p)
      PROVE  LoneInv'
  <2>1. /\ regCount' = regCount + 1 /\ regCount < MaxRegs
        /\ objects' = [objects EXCEPT ![regCount + 1] =
                          [period |-> p, nextRun |-> NextFire(p, clock)]]
        /\ store' = [store EXCEPT ![m] = regCount + 1]
        /\ UNCHANGED <<clock, claims, pc, due, current, mark>>
    BY <1>2 DEF Register, ticks
  <2>2. CASE regCount = 0
    <3>1. 1 \in Regs /\ regCount' = 1
      BY <1>1, <2>1, <2>2, BoundsAssumption DEF Regs
    <3>2. objects'[1].nextRun = NextFire(p, clock) /\ objects'[1].period = p
      BY <1>1, <2>1, <2>2, <3>1
    <3>3. NextFire(p, clock) \in Nat
      BY <1>1, PeriodsAssumption, NextFireType
    <3>4. store'[m] = 1 /\ \A k \in Names : k # m => store'[k] = 0
      BY <1>1, <2>1, <2>2 DEF LoneInv
    <3>5. \A t \in Tickers : due'[t] = {} /\ ~Working(t)'
      BY <2>1, <2>2 DEF LoneInv, Working
    <3>6. objects'[1].nextRun <= NextFire(objects'[1].period, clock')
      <4>1. NextFire(p, clock) <= NextFire(p, clock)
        BY <3>3
      <4> QED BY <2>1, <3>2, <4>1
    <3>7. Lone(m)'
      BY <3>4, <3>5, <3>6 DEF Lone, Working
    <3> QED BY <3>1, <3>7 DEF LoneInv
  <2>3. CASE regCount # 0
    <3>1. regCount + 1 # 0 /\ regCount + 1 # 1
      BY <1>1, <2>3
    <3> QED BY <2>1, <3>1 DEF LoneInv
  <2> QED BY <2>2, <2>3
<1>3. CASE ~\E m \in Names, p \in Periods : Register(m, p)
  <2>1. regCount' = regCount
    BY <1>3 DEF Next, vars, clients, Client, TickerStep, Advance, Unregister, TickStart,
       TickEnd, TickClaim, Dispatch, DispatchRaises, MarkAbsent, MarkGet, MarkPut, Crash
  <2>2. CASE regCount = 1
    BY <2>1, <2>2, LoneStep DEF LoneInv
  \* Without a registration nothing is due.
  <2>3. CASE regCount = 0
    <3>1. /\ \A n \in Names : store[n] = 0
          /\ \A t \in Tickers : due[t] = {} /\ ~Working(t)
      BY <2>3 DEF LoneInv
    <3>2. \A n \in Names : ~IsDue(n) /\ ~Registered(n)
      BY <3>1 DEF IsDue, Registered
    <3>3. CASE UNCHANGED vars \/ Advance
      BY <2>1, <2>3, <3>1, <3>3 DEF vars, Advance, clients, ticks, LoneInv, Working
    <3>4. ASSUME NEW m \in Names, Unregister(m) PROVE FALSE
      BY <3>2, <3>4 DEF Unregister
    <3>5. ASSUME NEW t \in Tickers, TickStart(t) \/ TickEnd(t) PROVE LoneInv'
      <4>1. /\ store' = store /\ \A u \in Tickers : due'[u] = {}
            /\ \A u \in Tickers : pc'[u] = pc[u] \/ pc'[u] \in {"loop", "idle"}
        BY <1>1, <3>1, <3>2, <3>5 DEF TickStart, TickEnd, clients
      <4> QED BY <2>1, <2>3, <3>1, <4>1 DEF LoneInv, Working
    <3>6. ASSUME NEW t \in Tickers,
                 (\E item \in due[t] : TickClaim(t, item)) \/ Dispatch(t)
                 \/ DispatchRaises(t) \/ MarkAbsent(t) \/ MarkGet(t) \/ MarkPut(t)
                 \/ Crash(t)
          PROVE  FALSE
      BY <3>1, <3>6 DEF Dispatch, DispatchRaises, MarkAbsent, MarkGet, MarkPut,
         Crash, Working
    <3> QED BY <1>3, <3>3, <3>4, <3>5, <3>6 DEF Next, Client, TickerStep
  <2>4. CASE regCount # 0 /\ regCount # 1
    BY <2>1, <2>4 DEF LoneInv
  <2> QED BY <2>2, <2>3, <2>4
<1> QED BY <1>2, <1>3

\* While a schedule is the only registration, no mark_ran puts its next_run
\* back, for any number of callers, with either store, with failing
\* dispatches, crashes and removals.
THEOREM OnlyForwardHolds == Spec => OnlyForward
<1>1. Init => LoneInv
  BY DEF Init, LoneInv, Working
<1> DEFINE Forward ==
        \A n \in Names :
            store[n] # 0 /\ store'[n] = store[n] /\ regCount = 1 /\ regCount' = 1
            => objects'[store[n]].nextRun >= objects[store[n]].nextRun
<1>2. TypeOK /\ LoneInv /\ [Next]_vars => [Forward]_vars
  <2> SUFFICES ASSUME TypeOK, LoneInv, [Next]_vars, NEW n \in Names,
                      store[n] # 0, regCount = 1, regCount' = 1
               PROVE  objects'[store[n]].nextRun >= objects[store[n]].nextRun
    OBVIOUS
  <2>1. PICK m \in Names : Lone(m)
    BY DEF LoneInv
  <2>2. store[n] = 1
    BY <2>1 DEF Lone
  <2>3. objects'[1].nextRun >= objects[1].nextRun
    BY <2>1, LoneStep
  <2> QED BY <2>2, <2>3
<1> QED
  BY <1>1, <1>2, LoneInvStep, TypeCorrect, PTL DEF Spec, OnlyForward
=============================================================================
