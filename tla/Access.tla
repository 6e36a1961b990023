------------------------------- MODULE Access -------------------------------
(***************************************************************************)
(* LocalRateLimiter and AuthPolicy (auth.py) behind _check_access, with    *)
(* which every handler of the API begins (main.py).                        *)
(*                                                                         *)
(* allow() reads the clock and decides under its lock: one step.  A bucket *)
(* is an API key that the policy knows, or else the client's address.      *)
(***************************************************************************)
EXTENDS Integers, Sequences

CONSTANTS
    ApiKeys,        \* the keys of the policy ...
    Roles,          \* ... and their roles, 1 (viewer) to 3 (admin)
    Required,       \* WORKFLOW_AUTH_REQUIRED
    Clients,        \* addresses of clients
    Limit,          \* WORKFLOW_RATE_LIMIT; there is no limiter unless > 0
    Window,         \* WORKFLOW_RATE_LIMIT_WINDOW_SECONDS
    MaxTime         \* bound on the clock

Buckets == ApiKeys \cup Clients

ASSUME LimitAssumption == Limit \in Nat \ {0}

ASSUME WindowAssumption == Window \in Nat /\ MaxTime \in Nat

ASSUME PolicyAssumption ==
    /\ ApiKeys \cap Clients = {}
    /\ Roles \in [ApiKeys -> 1 .. 3]
    /\ Required \in BOOLEAN

VARIABLES
    now,            \* monotonic()
    start,          \* per bucket: the start of its window ...
    count,          \* ... and the requests admitted in it; 0: no bucket yet
    admitted        \* history, per bucket: every admission and its window

accessVars == <<now, start, count, admitted>>

Bucket(key, client) == IF key \in ApiKeys THEN key ELSE client

\* There is no bucket, or its window has ended.
Expired(b) == count[b] = 0 \/ now - start[b] >= Window

\* Faulty variant of WindowStart: the new window begins with the old one.
WindowStartKept(b) == IF count[b] = 0 THEN now ELSE start[b]

WindowStart(b) == IF Expired(b) THEN now ELSE start[b]

Used(b) == IF Expired(b) THEN 0 ELSE count[b]

HasRoom(b) == Used(b) < Limit

AccessInit ==
    /\ now = 0
    /\ start = [b \in Buckets |-> 0]
    /\ count = [b \in Buckets |-> 0]
    /\ admitted = [b \in Buckets |-> <<>>]

\* allow() returns True.
Admit(b) ==
    /\ HasRoom(b)
    /\ start' = [start EXCEPT ![b] = WindowStart(b)]
    /\ count' = [count EXCEPT ![b] = Used(b) + 1]
    /\ admitted' = [admitted EXCEPT ![b] =
                       Append(@, [at |-> now, window |-> WindowStart(b)])]
    /\ UNCHANGED now

\* allow() returns False: 429.
Limited(b) == ~HasRoom(b) /\ UNCHANGED accessVars

\* authorize()
Authorized(key, role) == Required => key \in ApiKeys /\ Roles[key] >= role

TimePasses ==
    /\ now < MaxTime
    /\ now' = now + 1
    /\ UNCHANGED <<start, count, admitted>>

AccessNext == TimePasses \/ \E b \in Buckets : Admit(b) \/ Limited(b)

AccessSpec == AccessInit /\ [][AccessNext]_accessVars

-----------------------------------------------------------------------------
(* Properties.                                                              *)

\* An admission and the window it was counted in.
Admission == [at : Nat, window : Nat]

\* The variables have the shape the limiter gives them.
AccessTypeOK ==
    /\ now \in Nat
    /\ start \in [Buckets -> Nat]
    /\ count \in [Buckets -> 0 .. Limit]
    /\ admitted \in [Buckets -> Seq(Admission)]

\* The windows are fixed, not sliding, so that more than the limit may be
\* admitted within the length of a window: but less than twice as many, for
\* a window begins with its first admission.
WindowBound ==
    \A b \in Buckets : \A i \in DOMAIN admitted[b] :
        LET j == i + 2 * Limit - 1
        IN  j \in DOMAIN admitted[b] =>
                admitted[b][j].at - admitted[b][i].at >= Window

\* A bucket is refused only when it has used up the limit within the last
\* window length: a client that keeps to the limit is never refused.
LimitedOnlyWhenBusy ==
    \A b \in Buckets : Used(b) >= Limit =>
        LET n == Len(admitted[b])
        IN  n >= Limit /\ now - admitted[b][n - Limit + 1].at < Window

\* The limiter neither lets a burst through nor punishes a client that keeps
\* to the limit.
LimiterSound == WindowBound /\ LimitedOnlyWhenBusy
=============================================================================
