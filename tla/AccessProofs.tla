---------------------------- MODULE AccessProofs ----------------------------
(***************************************************************************)
(* The rate limiter, for every limit, window and set of clients: what      *)
(* Access states of it holds in every behaviour of AccessSpec.             *)
(***************************************************************************)
EXTENDS Access, TLAPS

-----------------------------------------------------------------------------
(* The inductive invariant.  A history is divided into windows, of which    *)
(* the last one is the one in the bucket.                                   *)

\* Every admission falls into its window, and windows follow one another.
InWindow(h) ==
    \A i \in 1 .. Len(h) :
        /\ h[i].window <= h[i].at
        /\ h[i].at <= h[i].window + Window
        /\ \A j \in 1 .. Len(h) : i <= j => h[i].window <= h[j].window

\* An admission opens its window or shares it with the one before.
Opens(h) ==
    \A i \in 1 .. Len(h) :
        \/ h[i].at = h[i].window
        \/ i > 1 /\ h[i - 1].window = h[i].window

\* A window has no more admissions than the limit: the one that comes
\* Limit places later belongs to a later window.
Apart(h) ==
    \A i \in 1 .. Len(h) :
        i + Limit \in 1 .. Len(h) =>
            h[i].window + Window <= h[i + Limit].window

\* The bucket counts the admissions of the last window.
Counts(h, s, c) ==
    /\ c <= Len(h)
    /\ c = 0 => Len(h) = 0
    /\ \A i \in 1 .. Len(h) :
          /\ i > Len(h) - c => h[i].window = s
          /\ i <= Len(h) - c => h[i].window + Window <= s

AccessInv ==
    /\ AccessTypeOK
    /\ \A b \in Buckets :
          /\ InWindow(admitted[b])
          /\ Opens(admitted[b])
          /\ Apart(admitted[b])
          /\ Counts(admitted[b], start[b], count[b])
          /\ start[b] <= now

USE LimitAssumption, WindowAssumption

-----------------------------------------------------------------------------
(* What an admission does to the history of its bucket.                     *)

\* The window an admission is counted in does not begin before the bucket's.
LEMMA WindowMoves ==
    ASSUME AccessInv, NEW b \in Buckets
    PROVE  /\ WindowStart(b) \in Nat
           /\ start[b] <= WindowStart(b)
           /\ WindowStart(b) <= now
           /\ now <= WindowStart(b) + Window
           /\ Expired(b) => WindowStart(b) = now
           /\ Expired(b) /\ count[b] # 0 => start[b] + Window <= now
           /\ ~Expired(b) => WindowStart(b) = start[b] /\ count[b] # 0
           /\ Used(b) \in 0 .. Limit
BY DEF AccessInv, AccessTypeOK, WindowStart, Expired, Used

\* The four parts about the history hold of the longer one.
LEMMA AppendKeeps ==
    ASSUME NEW h \in Seq(Admission), NEW s \in Nat, NEW c \in 0 .. Limit,
           NEW a \in Nat, NEW w \in Nat, NEW d \in Nat,
           InWindow(h), Opens(h), Apart(h), Counts(h, s, c),
           w <= a, a <= w + Window, d < Limit,
           \/ w = a /\ d = 0 /\ (c = 0 \/ s + Window <= w)
           \/ w = s /\ d = c /\ c # 0
    PROVE  LET g == Append(h, [at |-> a, window |-> w])
           IN  InWindow(g) /\ Opens(g) /\ Apart(g) /\ Counts(g, w, d + 1)
<1> DEFINE g == Append(h, [at |-> a, window |-> w])
           n == Len(h)
<1>1. n \in Nat /\ Len(g) = n + 1
  OBVIOUS
<1>2. \A i \in 1 .. n : g[i] = h[i] /\ h[i] \in Admission
  OBVIOUS
<1>3. g[n + 1].at = a /\ g[n + 1].window = w
  OBVIOUS
<1>4. \A i \in 1 .. n : h[i].at \in Nat /\ h[i].window \in Nat
  BY <1>2 DEF Admission
<1>5. \A i \in 1 .. n : h[i].window <= s
  BY <1>1, <1>4 DEF Counts
<1>6. \A i \in 1 .. n : h[i].window <= w
  <2>1. CASE w = s
    BY <2>1, <1>5
  <2>2. CASE c = 0
    BY <2>2, <1>1 DEF Counts
  <2>3. CASE s + Window <= w
    BY <2>3, <1>1, <1>4, <1>5
  <2> QED BY <2>1, <2>2, <2>3
<1> HIDE DEF g, n
<1>7. InWindow(g)
  <2>1. ASSUME NEW i \in 1 .. n + 1
        PROVE  /\ g[i].window <= g[i].at
               /\ g[i].at <= g[i].window + Window
    <3>1. CASE i \in 1 .. n
      BY <3>1, <1>2 DEF InWindow, n
    <3>2. CASE i = n + 1
      BY <3>2, <1>3
    <3> QED BY <3>1, <3>2, <1>1
  <2>2. ASSUME NEW i \in 1 .. n + 1, NEW j \in 1 .. n + 1, i <= j
        PROVE  g[i].window <= g[j].window
    <3>1. CASE j \in 1 .. n
      <4>1. i \in 1 .. n
        BY <3>1, <2>2, <1>1
      <4> QED BY <4>1, <3>1, <2>2, <1>2 DEF InWindow, n
    <3>2. CASE i \in 1 .. n /\ j = n + 1
      BY <3>2, <1>2, <1>3, <1>6 DEF n
    <3>3. CASE i = n + 1 /\ j = n + 1
      BY <3>3, <1>3
    <3> QED BY <3>1, <3>2, <3>3, <2>2, <1>1
  <2> QED BY <2>1, <2>2, <1>1 DEF InWindow
<1>8. Opens(g)
  <2>1. ASSUME NEW i \in 1 .. n
        PROVE  g[i].at = g[i].window \/ (i > 1 /\ g[i - 1].window = g[i].window)
    <3>1. h[i].at = h[i].window \/ (i > 1 /\ h[i - 1].window = h[i].window)
      BY <1>1, <2>1 DEF Opens, n
    <3>2. i > 1 => i - 1 \in 1 .. n
      BY <1>1
    <3> QED BY <3>1, <3>2, <1>2
  <2>2. w = a \/ (n + 1 > 1 /\ g[n].window = w)
    <3>1. CASE w = a
      BY <3>1
    <3>2. CASE w = s /\ c # 0
      <4>1. n \in 1 .. n /\ n > n - c
        BY <3>2, <1>1 DEF Counts, n
      <4>2. h[n].window = s
        BY <4>1 DEF Counts, n
      <4> QED BY <4>1, <4>2, <3>2, <1>1, <1>2
    <3> QED BY <3>1, <3>2
  <2>3. \A i \in 1 .. n + 1 : i \in 1 .. n \/ i = n + 1
    BY <1>1
  <2>4. n + 1 - 1 = n
    BY <1>1
  <2> QED BY <2>1, <2>2, <2>3, <2>4, <1>1, <1>3 DEF Opens
<1>9. Apart(g)
  <2>1. ASSUME NEW i \in 1 .. n, i + Limit \in 1 .. n
        PROVE  g[i].window + Window <= g[i + Limit].window
    BY <2>1, <1>2 DEF Apart, n
  <2>2. ASSUME NEW i \in 1 .. n, i + Limit = n + 1
        PROVE  g[i].window + Window <= w
    <3>1. CASE w = s /\ d = c
      <4>1. i <= n - c
        BY <3>1, <2>2, <1>1
      <4> QED BY <4>1, <3>1, <1>2 DEF Counts, n
    <3>2. CASE c = 0
      BY <3>2, <1>1 DEF Counts, n
    <3>3. CASE s + Window <= w
      BY <3>3, <1>1, <1>2, <1>4, <1>5
    <3> QED BY <3>1, <3>2, <3>3
  <2>3. ASSUME NEW i \in 1 .. n + 1, i + Limit \in 1 .. n + 1
        PROVE  i \in 1 .. n /\ (i + Limit \in 1 .. n \/ i + Limit = n + 1)
    BY <2>3, <1>1
  <2> QED BY <2>1, <2>2, <2>3, <1>1, <1>3 DEF Apart
<1>10. Counts(g, w, d + 1)
  <2>1. d + 1 <= n + 1 /\ d + 1 # 0
    BY <1>1 DEF Counts, n
  <2>2. ASSUME NEW i \in 1 .. n, i > n - d
        PROVE  g[i].window = w
    BY <2>2, <1>1, <1>2 DEF Counts, n
  <2>3. ASSUME NEW i \in 1 .. n, i <= n - d
        PROVE  g[i].window + Window <= w
    <3>1. CASE w = s /\ d = c
      BY <3>1, <2>3, <1>2 DEF Counts, n
    <3>2. CASE c = 0
      BY <3>2, <1>1 DEF Counts, n
    <3>3. CASE s + Window <= w
      BY <3>3, <1>1, <1>2, <1>4, <1>5
    <3> QED BY <3>1, <3>2, <3>3
  <2>4. \A i \in 1 .. n + 1 : i \in 1 .. n \/ i = n + 1
    BY <1>1
  <2>5. n + 1 > n - d /\ n + 1 - (d + 1) = n - d
    BY <1>1
  <2> QED BY <2>1, <2>2, <2>3, <2>4, <2>5, <1>1, <1>3 DEF Counts
<1> QED BY <1>7, <1>8, <1>9, <1>10 DEF g

-----------------------------------------------------------------------------
(* The invariant is inductive.                                              *)

LEMMA InitInv == AccessInit => AccessInv
BY DEF AccessInit, AccessInv, AccessTypeOK, InWindow, Opens, Apart, Counts

\* An admission keeps the invariant: the other buckets are not touched.
LEMMA AdmitInv ==
    ASSUME AccessInv, NEW b \in Buckets, Admit(b)
    PROVE  AccessInv'
<1> DEFINE g == Append(admitted[b], [at |-> now, window |-> WindowStart(b)])
<1>1. /\ admitted[b] \in Seq(Admission)
      /\ start[b] \in Nat /\ count[b] \in 0 .. Limit /\ now \in Nat
      /\ InWindow(admitted[b]) /\ Opens(admitted[b]) /\ Apart(admitted[b])
      /\ Counts(admitted[b], start[b], count[b])
  BY DEF AccessInv, AccessTypeOK
<1>2. /\ WindowStart(b) \in Nat /\ WindowStart(b) <= now
      /\ now <= WindowStart(b) + Window
      /\ Used(b) \in Nat /\ Used(b) < Limit
  BY WindowMoves DEF Admit, HasRoom
<1>3. \/ /\ WindowStart(b) = now /\ Used(b) = 0
         /\ count[b] = 0 \/ start[b] + Window <= WindowStart(b)
      \/ WindowStart(b) = start[b] /\ Used(b) = count[b] /\ count[b] # 0
  BY WindowMoves DEF Used
<1>4. InWindow(g) /\ Opens(g) /\ Apart(g) /\ Counts(g, WindowStart(b), Used(b) + 1)
  BY <1>1, <1>2, <1>3, AppendKeeps
<1>5. g \in Seq(Admission)
  BY <1>1, <1>2 DEF Admission
<1>6. /\ admitted' = [admitted EXCEPT ![b] = g]
      /\ start' = [start EXCEPT ![b] = WindowStart(b)]
      /\ count' = [count EXCEPT ![b] = Used(b) + 1]
      /\ now' = now
  BY DEF Admit
<1> HIDE DEF g
<1>7. AccessTypeOK'
  BY <1>2, <1>5, <1>6 DEF AccessInv, AccessTypeOK
<1>8. ASSUME NEW x \in Buckets
      PROVE  /\ InWindow(admitted'[x])
             /\ Opens(admitted'[x])
             /\ Apart(admitted'[x])
             /\ Counts(admitted'[x], start'[x], count'[x])
             /\ start'[x] <= now'
  <2>1. CASE x = b
    <3>1. admitted'[x] = g /\ start'[x] = WindowStart(b) /\ count'[x] = Used(b) + 1
      BY <2>1, <1>6 DEF AccessInv, AccessTypeOK
    <3> QED BY <3>1, <1>2, <1>4, <1>6
  <2>2. CASE x # b
    <3>1. admitted'[x] = admitted[x] /\ start'[x] = start[x] /\ count'[x] = count[x]
      BY <2>2, <1>6 DEF AccessInv, AccessTypeOK
    <3> QED BY <3>1, <1>6 DEF AccessInv
  <2> QED BY <2>1, <2>2
<1>9. \A x \in Buckets : 
         /\ InWindow(admitted[x])'
         /\ Opens(admitted[x])'
         /\ Apart(admitted[x])'
         /\ Counts(admitted[x], start[x], count[x])'
         /\ (start[x] <= now)'
  BY <1>8 DEF InWindow, Opens, Apart, Counts
<1> QED BY <1>7, <1>9 DEF AccessInv

\* A clock that advances touches no bucket.
LEMMA TickInv ==
    ASSUME AccessInv, TimePasses
    PROVE  AccessInv'
<1>1. AccessTypeOK'
  BY DEF AccessInv, AccessTypeOK, TimePasses
<1>2. \A b \in Buckets : start'[b] <= now'
  BY DEF AccessInv, AccessTypeOK, TimePasses
<1> QED BY <1>1, <1>2 DEF AccessInv, TimePasses, InWindow, Opens, Apart, Counts

\* Nothing but an admission and the clock changes the state.
LEMMA StepInv == AccessInv /\ [AccessNext]_accessVars => AccessInv'
<1> SUFFICES ASSUME AccessInv, [AccessNext]_accessVars
             PROVE  AccessInv'
  OBVIOUS
<1>1. CASE TimePasses
  BY <1>1, TickInv
<1>2. ASSUME NEW b \in Buckets, Admit(b)
      PROVE  AccessInv'
  BY <1>2, AdmitInv
<1>3. CASE UNCHANGED accessVars
  BY <1>3 DEF accessVars, AccessInv, AccessTypeOK, InWindow, Opens, Apart, Counts
<1> QED BY <1>1, <1>2, <1>3 DEF AccessNext, Limited

\* AccessInv holds in every reachable state of the limiter.
THEOREM AccessInvariant == AccessSpec => []AccessInv
<1> QED BY InitInv, StepInv, PTL DEF AccessSpec

-----------------------------------------------------------------------------
(* What follows from it.                                                    *)

\* The limiter's variables keep their shape; in particular no bucket counts
\* more admissions than the limit.
THEOREM AccessTypeCorrect == AccessSpec => []AccessTypeOK
<1>1. AccessInv => AccessTypeOK
  BY DEF AccessInv
<1> QED BY <1>1, AccessInvariant, PTL

\* 2 * Limit consecutive admissions of a bucket spread over the length of a
\* window at least, whatever the limit, the window and the arrival times.
THEOREM AtMostTwice == AccessSpec => []WindowBound
<1>1. AccessInv => WindowBound
  <2> SUFFICES ASSUME AccessInv, NEW b \in Buckets,
                      NEW i \in DOMAIN admitted[b],
                      i + 2 * Limit - 1 \in DOMAIN admitted[b]
               PROVE  admitted[b][i + 2 * Limit - 1].at - admitted[b][i].at >= Window
    BY DEF WindowBound
  <2> DEFINE h == admitted[b]
             m == i + Limit - 1
             j == i + 2 * Limit - 1
  <2>1. h \in Seq(Admission) /\ InWindow(h) /\ Opens(h) /\ Apart(h)
    BY DEF AccessInv, AccessTypeOK
  <2>2. ASSUME NEW k \in 1 .. Len(h)
        PROVE  h[k].at \in Nat /\ h[k].window \in Nat
    <3>1. h[k] \in Admission
      BY <2>1
    <3> QED BY <3>1 DEF Admission
  <2>3. Len(h) \in Nat /\ DOMAIN h = 1 .. Len(h)
    BY <2>1
  <2>4. /\ i \in 1 .. Len(h) /\ m \in 1 .. Len(h) /\ j \in 1 .. Len(h)
        /\ j = m + Limit /\ i \in Int
        /\ i + Limit \in 1 .. Len(h) /\ i + Limit <= j
    BY <2>3
  <2> HIDE DEF h, m, j
  <2> SUFFICES h[j].at - h[i].at >= Window
    BY DEF h, j
  <2>5. h[j].window <= h[j].at /\ h[i].at <= h[i].window + Window
    BY <2>1, <2>4 DEF InWindow
  <2>6. h[m].window + Window <= h[j].window
    BY <2>1, <2>4 DEF Apart
  <2>7. /\ h[i].at \in Nat /\ h[i].window \in Nat
        /\ h[j].at \in Nat /\ h[j].window \in Nat
        /\ h[m].window \in Nat /\ h[i + Limit].window \in Nat
    BY <2>2, <2>4
  <2>8. CASE h[i].at = h[i].window
    <3>1. h[i].window + Window <= h[i + Limit].window
      BY <2>1, <2>4 DEF Apart
    <3>2. h[i + Limit].window <= h[j].window
      BY <2>1, <2>4 DEF InWindow
    <3> QED BY <2>8, <3>1, <3>2, <2>5, <2>7
  <2>9. CASE i > 1 /\ h[i - 1].window = h[i].window
    <3>1. i - 1 \in 1 .. Len(h) /\ (i - 1) + Limit = m
      BY <2>9, <2>3, <2>4 DEF m
    <3>2. h[i - 1].window + Window <= h[m].window
      BY <3>1, <2>1, <2>4 DEF Apart
    <3>3. h[i].window + Window <= h[m].window
      BY <2>9, <3>2
    <3> QED BY <3>3, <2>5, <2>6, <2>7
  <2> QED BY <2>1, <2>4, <2>8, <2>9 DEF Opens
<1> QED BY <1>1, AccessInvariant, PTL

\* A bucket that has no room has had Limit admissions less than a window
\* length ago.
THEOREM RefusedOnlyWhenBusy == AccessSpec => []LimitedOnlyWhenBusy
<1>1. AccessInv => LimitedOnlyWhenBusy
  <2> SUFFICES ASSUME AccessInv, NEW b \in Buckets, Used(b) >= Limit
               PROVE  LET n == Len(admitted[b])
                      IN  /\ n >= Limit
                          /\ now - admitted[b][n - Limit + 1].at < Window
    BY DEF LimitedOnlyWhenBusy
  <2> DEFINE h == admitted[b]
             n == Len(h)
             i == n - Limit + 1
  <2>1. /\ h \in Seq(Admission) /\ InWindow(h) /\ Counts(h, start[b], count[b])
        /\ count[b] \in 0 .. Limit /\ start[b] \in Nat /\ now \in Nat
    BY DEF AccessInv, AccessTypeOK
  <2>2. n \in Nat
    BY <2>1
  <2>3. count[b] = Limit /\ now - start[b] < Window
    BY <2>1 DEF Used, Expired
  <2> HIDE DEF h
  <2>4. n >= Limit
    BY <2>1, <2>3 DEF Counts
  <2>5. i \in 1 .. n /\ i > n - count[b]
    BY <2>2, <2>3, <2>4
  <2>6. h[i].window = start[b] /\ h[i].window <= h[i].at /\ h[i].at \in Nat
    <3>1. h[i] \in Admission
      BY <2>1, <2>5
    <3> QED BY <3>1, <2>1, <2>5 DEF Counts, InWindow, Admission
  <2>7. now - h[i].at < Window
    BY <2>1, <2>3, <2>6
  <2> QED BY <2>4, <2>7 DEF h
<1> QED BY <1>1, AccessInvariant, PTL

\* The limiter lets at most twice the limit through in a window length and
\* refuses a bucket only that has used up its limit within one.
THEOREM LimiterIsSound == AccessSpec => []LimiterSound
<1>1. WindowBound /\ LimitedOnlyWhenBusy => LimiterSound
  BY DEF LimiterSound
<1> QED BY <1>1, AtMostTwice, RefusedOnlyWhenBusy, PTL
=============================================================================
