------------------------------ MODULE Scheduler ------------------------------
(***************************************************************************)
(* WorkflowScheduler (scheduler.py) over a schedule store and an           *)
(* idempotency store, with clients that register and remove schedules and  *)
(* several callers of dispatch_due at once: request threads of             *)
(* POST /schedules/run-due and the Celery-beat task.                       *)
(*                                                                         *)
(* Each register() makes one ScheduledWorkflow, identified here by the     *)
(* number of the registration; store says which one a name stands for.     *)
(* Aliased tells the two stores apart: InMemoryScheduleStore hands out the *)
(* objects it holds, so that a tick sees next_run change under its hands;  *)
(* DatabaseScheduleStore hands out copies.                                 *)
(***************************************************************************)
EXTENDS Integers, Sequences

CONSTANTS
    Names,          \* schedule names
    Periods,        \* cron expressions, as the period with which they fire
    Tickers,        \* concurrent callers of dispatch_due
    Aliased,        \* TRUE: in-memory store, FALSE: database store
    ClientOps,      \* what clients do besides the first register()
    Faults,         \* what goes wrong during a tick
    MaxRegs,        \* bound on the number of registrations
    MaxTime         \* bound on the clock

ASSUME PeriodsAssumption == Periods \subseteq Nat \ {0}

ASSUME AliasedAssumption == Aliased \in BOOLEAN

ASSUME OpsAssumption ==
    /\ ClientOps \subseteq {"register again", "unregister"}
    /\ Faults \subseteq {"dispatch raises", "crash"}

ASSUME BoundsAssumption == MaxRegs \in Nat /\ MaxTime \in Nat

VARIABLES
    clock,
    regCount,       \* registrations so far
    objects,        \* registration -> its ScheduledWorkflow
    store,          \* name -> registration, 0 if there is none
    claims,         \* the idempotency store's claims
    pc,             \* per ticker: where dispatch_due is
    due,            \* per ticker: the rest of the list due() returned
    current,        \* per ticker: name, definition and fire time at hand
    mark,           \* per ticker: mark_ran's sched and now
    dispatched      \* history of all dispatches

clients == <<regCount, objects, store>>
ticks   == <<pc, due, current, mark>>
vars    == <<clock, clients, claims, ticks, dispatched>>

Regs == 1 .. MaxRegs

Times == Nat

\* croniter's get_next: the first firing strictly after the given time.
NextFire(period, t) == (t \div period + 1) * period

NoItem == [name |-> "", reg |-> 0, fire |-> 0]

NoMark == [reg |-> 0, now |-> 0]

Registered(n) == store[n] # 0

NextRun(n) == objects[store[n]].nextRun

\* Faulty variant of IsDue: the comparison is dropped.
AlwaysDue(n) == Registered(n)

\* The filter of due().
IsDue(n) == Registered(n) /\ NextRun(n) <= clock

-----------------------------------------------------------------------------
Init ==
    /\ clock = 0
    /\ regCount = 0
    /\ objects = [r \in Regs |-> [period |-> 1, nextRun |-> 0]]
    /\ store = [n \in Names |-> 0]
    /\ claims = {}
    /\ pc = [t \in Tickers |-> "idle"]
    /\ due = [t \in Tickers |-> {}]
    /\ current = [t \in Tickers |-> NoItem]
    /\ mark = [t \in Tickers |-> NoMark]
    /\ dispatched = <<>>

Advance ==
    /\ clock < MaxTime
    /\ clock' = clock + 1
    /\ UNCHANGED <<clients, claims, ticks, dispatched>>

\* POST /schedules with a valid cron expression: register().
Register(n, p) ==
    /\ regCount < MaxRegs
    /\ ~Registered(n) \/ "register again" \in ClientOps
    /\ regCount' = regCount + 1
    /\ objects' = [objects EXCEPT ![regCount + 1] =
                      [period |-> p, nextRun |-> NextFire(p, clock)]]
    /\ store' = [store EXCEPT ![n] = regCount + 1]
    /\ UNCHANGED <<clock, claims, ticks, dispatched>>

\* DELETE /schedules/{name}: unregister().
Unregister(n) ==
    /\ "unregister" \in ClientOps
    /\ Registered(n)
    /\ store' = [store EXCEPT ![n] = 0]
    /\ UNCHANGED <<clock, regCount, objects, claims, ticks, dispatched>>

-----------------------------------------------------------------------------
(* dispatch_due of ticker t.                                                *)

\* due(): the list of schedules whose time has come.
TickStart(t) ==
    /\ pc[t] = "idle"
    /\ due' = [due EXCEPT ![t] =
                  {[name |-> n, reg |-> store[n], fire |-> NextRun(n)] :
                      n \in {m \in Names : IsDue(m)}}]
    /\ pc' = [pc EXCEPT ![t] = "loop"]
    /\ UNCHANGED <<clock, clients, claims, current, mark, dispatched>>

TickEnd(t) ==
    /\ pc[t] = "loop"
    /\ due[t] = {}
    /\ pc' = [pc EXCEPT ![t] = "idle"]
    /\ UNCHANGED <<clock, clients, claims, due, current, mark, dispatched>>

\* sched.next_run as the loop reads it.
FireTime(item) == IF Aliased THEN objects[item.reg].nextRun ELSE item.fire

\* Faulty variant of Claimable: the claim store is not asked.
ClaimableAlways(n, fire) == TRUE

\* Faulty variant of Claimable: the key of a claim lacks the fire time.
ClaimableByName(n, fire) == \A claim \in claims : claim[1] # n

\* idempotency.claim() returns True.
Claimable(n, fire) == <<n, fire>> \notin claims

TickClaim(t, item) ==
    /\ pc[t] = "loop"
    /\ item \in due[t]
    /\ due' = [due EXCEPT ![t] = @ \ {item}]
    /\ IF Claimable(item.name, FireTime(item))
       THEN /\ claims' = claims \cup {<<item.name, FireTime(item)>>}
            /\ current' = [current EXCEPT ![t] =
                              [item EXCEPT !.fire = FireTime(item)]]
            /\ pc' = [pc EXCEPT ![t] = "dispatch"]
       ELSE UNCHANGED <<claims, current, pc>>
    /\ UNCHANGED <<clock, clients, mark, dispatched>>

\* dispatch(sched.yaml_definition) returns: the workflow ran or was queued.
Dispatch(t) ==
    /\ pc[t] = "dispatch"
    /\ dispatched' = Append(dispatched, current[t])
    /\ pc' = [pc EXCEPT ![t] = "mark"]
    /\ UNCHANGED <<clock, clients, claims, due, current, mark>>

\* dispatch() raises (lock conflict, broker or database failure): the
\* exception ends dispatch_due and with it the rest of the list.
DispatchRaises(t) ==
    /\ pc[t] = "dispatch"
    /\ "dispatch raises" \in Faults
    /\ pc' = [pc EXCEPT ![t] = "idle"]
    /\ due' = [due EXCEPT ![t] = {}]
    /\ current' = [current EXCEPT ![t] = NoItem]
    /\ UNCHANGED <<clock, clients, claims, mark, dispatched>>

\* mark_ran() of a schedule that was removed in the meantime.
MarkAbsent(t) ==
    /\ pc[t] = "mark"
    /\ ~Registered(current[t].name)
    /\ pc' = [pc EXCEPT ![t] = "loop"]
    /\ current' = [current EXCEPT ![t] = NoItem]
    /\ UNCHANGED <<clock, clients, claims, due, mark, dispatched>>

\* mark_ran(): now and store.get(name).
MarkGet(t) ==
    /\ pc[t] = "mark"
    /\ Registered(current[t].name)
    /\ mark' = [mark EXCEPT ![t] = [reg |-> store[current[t].name], now |-> clock]]
    /\ pc' = [pc EXCEPT ![t] = "put"]
    /\ UNCHANGED <<clock, clients, claims, due, current, dispatched>>

Advanced(t) == NextFire(objects[mark[t].reg].period, mark[t].now)

\* mark_ran(): next_run and store.put(sched).
MarkPut(t) ==
    /\ pc[t] = "put"
    /\ objects' = [objects EXCEPT ![mark[t].reg].nextRun = Advanced(t)]
    /\ store' = [store EXCEPT ![current[t].name] = mark[t].reg]
    /\ pc' = [pc EXCEPT ![t] = "loop"]
    /\ current' = [current EXCEPT ![t] = NoItem]
    /\ mark' = [mark EXCEPT ![t] = NoMark]
    /\ UNCHANGED <<clock, regCount, claims, due, dispatched>>

\* The process dies with something left to do (a death after the last item
\* cannot be told from TickEnd); the database keeps the schedules and the
\* claims.
Crash(t) ==
    /\ "crash" \in Faults
    /\ ~Aliased
    /\ pc[t] \in {"dispatch", "mark", "put"} \/ due[t] # {}
    /\ pc' = [pc EXCEPT ![t] = "idle"]
    /\ due' = [due EXCEPT ![t] = {}]
    /\ current' = [current EXCEPT ![t] = NoItem]
    /\ mark' = [mark EXCEPT ![t] = NoMark]
    /\ UNCHANGED <<clock, clients, claims, dispatched>>

-----------------------------------------------------------------------------
Client == \E n \in Names : Unregister(n) \/ \E p \in Periods : Register(n, p)

TickerStep(t) ==
    \/ TickStart(t) \/ TickEnd(t)
    \/ \E item \in due[t] : TickClaim(t, item)
    \/ Dispatch(t) \/ DispatchRaises(t)
    \/ MarkAbsent(t) \/ MarkGet(t) \/ MarkPut(t)

Next == Advance \/ Client \/ \E t \in Tickers : TickerStep(t) \/ Crash(t)

Spec == Init /\ [][Next]_vars

\* Time passes, a tick that began goes on, and ticks are called again and
\* again, by an external cron or by Celery beat.  Clients and crashes owe
\* nothing.
FairSpec == Spec /\ WF_vars(Advance) /\ \A t \in Tickers : WF_vars(TickerStep(t))

-----------------------------------------------------------------------------
(* Properties.                                                              *)

\* A schedule that due() returned.
Item == [name : Names, reg : Regs, fire : Times]

\* The variables have the shape the program gives them.
TypeOK ==
    /\ clock \in Nat
    /\ regCount \in 0 .. MaxRegs
    /\ objects \in [Regs -> [period : Nat \ {0}, nextRun : Times]]
    /\ store \in [Names -> Regs \cup {0}]
    /\ claims \subseteq Names \X Times
    /\ pc \in [Tickers -> {"idle", "loop", "dispatch", "mark", "put"}]
    /\ due \in [Tickers -> SUBSET Item]
    /\ current \in [Tickers -> Item \cup {NoItem}]
    /\ \A t \in Tickers : pc[t] \in {"dispatch", "mark", "put"} => current[t] \in Item
    /\ mark \in [Tickers -> [reg : Regs, now : Nat] \cup {NoMark}]
    /\ \A t \in Tickers : pc[t] = "put" => mark[t] # NoMark
    /\ dispatched \in Seq(Item)

\* However many callers tick at once, whatever they read before others
\* changed it, and whether or not dispatches fail and processes die, a fire
\* time of a schedule is dispatched at most once.
AtMostOnce ==
    \A i, j \in DOMAIN dispatched :
        /\ dispatched[i].name = dispatched[j].name
        /\ dispatched[i].fire = dispatched[j].fire
        => i = j

\* Nothing is dispatched before its time.
NeverEarly == \A i \in DOMAIN dispatched : dispatched[i].fire <= clock

\* A fire time that is claimed and that no caller is at work on any more.
Orphaned(n) ==
    /\ <<n, NextRun(n)>> \in claims
    /\ ~\E t \in Tickers : /\ pc[t] \in {"dispatch", "mark", "put"}
                           /\ current[t].name = n
                           /\ current[t].fire = NextRun(n)

\* Unless processes crash for ever, a schedule does not stay due for ever,
\* whatever clients and other callers do, but for one reason: its fire time
\* was claimed by a caller whose dispatch failed, or that died, or that a
\* registration or an earlier mark_ran has moved the schedule back to.
OnlyOrphansStayDue ==
    <>[][\A t \in Tickers : ~Crash(t)]_vars =>
        \A n \in Names : IsDue(n) ~> (~IsDue(n) \/ Orphaned(n))

\* "Dispatch due workflows once per scheduled fire time" (scheduler.py:164):
\* a schedule that is due is dispatched, or removed, in the end.
DueAdvances == \A n \in Names : IsDue(n) ~> ~IsDue(n)

\* While a schedule is the only registration ever made, its next_run moves
\* forward only: the mark_ran of a caller that was overtaken never puts it
\* back.  (With a second registration of the name it may, see the README.)
OnlyForward ==
    [][\A n \in Names :
          store[n] # 0 /\ store'[n] = store[n] /\ regCount = 1 /\ regCount' = 1
          => objects'[store[n]].nextRun >= objects[store[n]].nextRun]_vars
=============================================================================
