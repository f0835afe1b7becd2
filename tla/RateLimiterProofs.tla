-------------------------- MODULE RateLimiterProofs --------------------------
(***************************************************************************)
(* Proofs about the rate limiter, for every number of threads, clients and *)
(* addresses, every limit, window and bound on how long a thread is held   *)
(* up between reading the clock and taking the lock.                       *)
(***************************************************************************)
EXTENDS RateLimiter, Integers, WellFoundedInduction, TLAPS

\* Retry-After is a number of whole seconds, more than the wait it is made from.
LEMMA SecondsCoverWait ==
  ASSUME NEW wait \in Nat, NEW d \in Nat \ {0}
  PROVE  /\ wait \div d + 1 \in Nat
         /\ (wait \div d + 1) * d \in Nat
         /\ wait < (wait \div d + 1) * d
  <1>1. wait \div d \in Int /\ wait \div d >= 0
    OBVIOUS
  <1>2. wait < (wait \div d + 1) * d
    OBVIOUS
  <1> DEFINE s == wait \div d + 1
  <1>3. s \in Nat
    BY <1>1
  <1>4. s * d \in Nat
    <2> HIDE DEF s
    <2> QED
      BY <1>3
  <1> QED
    BY <1>2, <1>3, <1>4

\* Types, and a bounded deque: every reachable state of the limiter.
THEOREM LimiterTypeCorrect == Spec => []TypeOK
  <1> USE LimiterAssumption
  <1>1. Init => TypeOK
    BY DEF Init, TypeOK, PC
  <1>2. TypeOK /\ [Next]_vars => TypeOK'
    <2> SUFFICES ASSUME TypeOK, [Next]_vars PROVE TypeOK'
      OBVIOUS
    <2> USE DEF TypeOK, PC, deque
    <2>1. CASE Tick
      BY <2>1 DEF Tick
    <2>2. ASSUME NEW t \in Threads, NEW c \in Clients, Arrive(t, c) PROVE TypeOK'
      BY <2>2 DEF Arrive
    <2>3. ASSUME NEW t \in Threads, Admit(t) PROVE TypeOK'
      <3> DEFINE k == KeyOf[who[t]]
      <3>1. k \in Addresses /\ stamp[t] \in Nat
        BY <2>3 DEF Admit
      <3>2. PICK p \in 0 .. Len(admitted[k]) :
              HasRoom(k, p) /\ popped' = [popped EXCEPT ![k] = p]
        BY <2>3 DEF Admit
      <3>3. admitted' = [admitted EXCEPT ![k] = Append(@, stamp[t])]
        BY <2>3 DEF Admit
      <3>4. admitted'[k] = Append(admitted[k], stamp[t]) /\ popped'[k] = p
        BY <3>1, <3>2, <3>3
      <3>5. admitted' \in [Addresses -> Seq(Nat)] /\ popped' \in [Addresses -> Nat]
        BY <3>1, <3>2, <3>3
      <3>6. \A a \in Addresses : /\ popped'[a] <= Len(admitted'[a])
                                 /\ Len(admitted'[a]) <= popped'[a] + Limit
        BY <3>1, <3>2, <3>3, <3>4 DEF HasRoom
      <3>7. promise' \in [Clients -> Nat \cup {None}]
        BY <2>3 DEF Admit
      <3>8. /\ pc' \in [Threads -> PC] /\ stamp' \in [Threads -> Nat]
            /\ who' \in [Threads -> Clients \cup {None}]
            /\ \A u \in Threads : pc'[u] # "idle" => who'[u] \in Clients
            /\ clock' \in Nat
        BY <2>3 DEF Admit, Idle
      <3> QED
        BY <3>5, <3>6, <3>7, <3>8
    <2>4. ASSUME NEW t \in Threads, Refuse(t) PROVE TypeOK'
      BY <2>4 DEF Refuse, PrunesTo
    <2>5. ASSUME NEW t \in Threads, ReadClockForRetry(t) PROVE TypeOK'
      BY <2>5 DEF ReadClockForRetry
    <2>6. ASSUME NEW t \in Threads, SendRetryAfter(t) PROVE TypeOK'
      <3> DEFINE k == HostOf[who[t]]
                 left(p) == admitted[k][p + 1] + Window
                 wait(p) == IF p = Len(admitted[k]) \/ left(p) < stamp[t]
                              THEN 0 ELSE left(p) - stamp[t]
      <3>1. k \in Addresses /\ who[t] \in Clients
        BY <2>6 DEF SendRetryAfter
      <3>2. PICK p \in 0 .. Len(admitted[k]) :
              /\ PrunesTo(k, stamp[t], p)
              /\ popped' = [popped EXCEPT ![k] = p]
              /\ promise' = [promise EXCEPT ![who[t]] =
                               stamp[t] + RetryAfterSeconds(wait(p)) * TicksPerSec]
        BY <2>6 DEF SendRetryAfter
      <3>3. wait(p) \in Nat
        <4>1. CASE p = Len(admitted[k])
          BY <4>1
        <4>2. CASE p # Len(admitted[k])
          <5>1. admitted[k] \in Seq(Nat) /\ p + 1 \in 1 .. Len(admitted[k])
            BY <3>1, <4>2
          <5>2. admitted[k][p + 1] \in Nat
            BY <5>1
          <5> DEFINE oldest == admitted[k][p + 1]
          <5>3. left(p) = oldest + Window
            OBVIOUS
          <5>4. oldest \in Nat /\ Window \in Nat /\ stamp[t] \in Nat
            BY <5>2
          <5> HIDE DEF left, oldest, TypeOK, LimiterAssumption
          <5>5. left(p) \in Nat
            BY <5>3, <5>4
          <5> QED
            BY <5>4, <5>5
        <4> QED
          BY <4>1, <4>2
      <3> DEFINE ticks == RetryAfterSeconds(wait(p)) * TicksPerSec
      <3>4. ticks \in Nat
        <4> HIDE DEF wait
        <4> QED
          BY <3>3, SecondsCoverWait DEF RetryAfterSeconds
      <3>5. promise' = [promise EXCEPT ![who[t]] = stamp[t] + ticks]
        BY <3>2
      <3>6. promise' \in [Clients -> Nat \cup {None}]
        <4> HIDE DEF ticks
        <4> QED
          BY <3>1, <3>4, <3>5
      <3>7. popped' \in [Addresses -> Nat]
        BY <3>1, <3>2
      <3>8. \A a \in Addresses : /\ popped'[a] <= Len(admitted[a])
                                 /\ Len(admitted[a]) <= popped'[a] + Limit
        BY <3>1, <3>2 DEF PrunesTo
      <3> QED
        BY <2>6, <3>6, <3>7, <3>8 DEF SendRetryAfter, Idle
    <2>7. ASSUME NEW k \in Addresses, Remaining(k) PROVE TypeOK'
      BY <2>7 DEF Remaining, PrunesTo
    <2>8. ASSUME NEW k \in Addresses, Reset(k) PROVE TypeOK'
      BY <2>8 DEF Reset
    <2>9. CASE UNCHANGED vars
      BY <2>9 DEF vars
    <2> QED
      BY <2>1, <2>2, <2>3, <2>4, <2>5, <2>6, <2>7, <2>8, <2>9 DEF Next
  <1> QED
    BY <1>1, <1>2, PTL DEF Spec

-----------------------------------------------------------------------------
\* What an Admit, and every other pruning, does to the deques.
LEMMA AdmitEffect ==
  ASSUME TypeOK, NEW t \in Threads, Admit(t)
  PROVE  LET k == KeyOf[who[t]] IN
         \E p \in popped[k] .. Len(admitted[k]) :
           /\ k \in Addresses /\ pc[t] = "stamped" /\ stamp[t] \in Nat
           /\ PrunesTo(k, stamp[t], p)
           /\ Len(admitted[k]) < p + Limit
           /\ popped' = [popped EXCEPT ![k] = p]
           /\ admitted' = [admitted EXCEPT ![k] = Append(@, stamp[t])]
  <1> DEFINE k == KeyOf[who[t]]
  <1>1. k \in Addresses /\ pc[t] = "stamped" /\ stamp[t] \in Nat
    BY LimiterAssumption DEF TypeOK, Admit
  <1>2. PICK p \in 0 .. Len(admitted[k]) :
          PrunesTo(k, stamp[t], p) /\ HasRoom(k, p) /\ popped' = [popped EXCEPT ![k] = p]
    BY DEF Admit
  <1>3. p \in popped[k] .. Len(admitted[k])
    BY <1>2 DEF PrunesTo
  <1>4. Len(admitted[k]) < p + Limit
    BY <1>1, <1>2, <1>3, LimiterAssumption DEF HasRoom, TypeOK
  <1>5. admitted' = [admitted EXCEPT ![k] = Append(@, stamp[t])]
    BY DEF Admit
  <1> QED
    BY <1>1, <1>2, <1>3, <1>4, <1>5

\* A pruning step on k at the clock value now.
Prunes(k, now) ==
  /\ UNCHANGED <<clock, admitted>>
  /\ \E p \in popped[k] .. Len(admitted[k]) :
       PrunesTo(k, now, p) /\ popped' = [popped EXCEPT ![k] = p]

LEMMA RefusePrunes ==
  ASSUME NEW t \in Threads, Refuse(t)
  PROVE  Prunes(KeyOf[who[t]], stamp[t])
  BY DEF Refuse, Prunes, PrunesTo

LEMMA SendPrunes ==
  ASSUME NEW t \in Threads, SendRetryAfter(t)
  PROVE  Prunes(HostOf[who[t]], stamp[t])
  BY DEF SendRetryAfter, Prunes, PrunesTo

LEMMA RemainingPrunes ==
  ASSUME NEW k \in Addresses, Remaining(k)
  PROVE  Prunes(k, clock)
  BY DEF Remaining, Prunes, PrunesTo

\* The least number of a set of them, from the well-foundedness of their order.
LEMMA LeastNatural ==
  ASSUME NEW T, T \subseteq Nat, T # {}
  PROVE  \E x \in T : \A y \in T : x <= y
  <1> DEFINE R == OpToRel(<, Nat)
  <1>1. IsWellFoundedOn(R, Nat)
    BY NatLessThanWellFounded
  <1>2. PICK x \in T : \A y \in T : ~(<<y, x>> \in R)
    <2> HIDE DEF R
    <2> QED
      BY <1>1, WFMin
  <1>3. ASSUME NEW y \in T, y < x PROVE <<y, x>> \in R
    <2> DEFINE s == <<y, x>>
    <2>1. s \in Nat \X Nat /\ s[1] < s[2]
      BY <1>3
    <2> HIDE DEF s
    <2>2. s \in OpToRel(<, Nat)
      BY <2>1, Zenon DEF OpToRel
    <2> QED
      BY <2>2 DEF s
  <1>4. \A y \in T : ~(y < x)
    <2> HIDE DEF R
    <2> QED
      BY <1>2, <1>3
  <1> HIDE DEF R
  <1> QED
    BY <1>4

\* The loop of _prune ends at exactly one place, whatever order the stamps are in: the
\* locked section of allow has one outcome.
THEOREM PruningEndsOnce ==
  ASSUME TypeOK, NEW k \in Addresses, NEW now \in Nat
  PROVE  \E p \in popped[k] .. Len(admitted[k]) :
           /\ PrunesTo(k, now, p)
           /\ \A q \in popped[k] .. Len(admitted[k]) : PrunesTo(k, now, q) => q = p
  <1> DEFINE n == Len(admitted[k])
             Stops(p) == p < n => admitted[k][p + 1] + Window >= now
             T == {p \in popped[k] .. n : Stops(p)}
  <1>1. n \in Nat /\ popped[k] \in Nat /\ popped[k] <= n /\ Window \in Nat
    BY LimiterAssumption DEF TypeOK
  <1>2. \A i \in 1 .. n : admitted[k][i] \in Nat
    BY DEF TypeOK
  <1>3. PICK p \in T : \A q \in T : p <= q
    <2>1. T \subseteq Nat /\ n \in T
      BY <1>1
    <2> HIDE DEF T
    <2> QED
      BY <2>1, LeastNatural
  <1>4. p \in popped[k] .. n /\ p \in Nat
    BY <1>1
  <1>5. ASSUME NEW i \in InDeque(k), i <= p PROVE admitted[k][i] + Window < now
    <2>1. i \in Nat /\ i - 1 \in popped[k] .. n /\ i - 1 < p /\ i \in 1 .. n
      BY <1>1, <1>4, <1>5 DEF InDeque
    <2>2. i - 1 \notin T
      BY <1>3, <1>4, <2>1
    <2>3. ~(admitted[k][i] + Window >= now)
      BY <2>1, <2>2
    <2> QED
      BY <1>1, <1>2, <2>1, <2>3
  <1>6. PrunesTo(k, now, p)
    BY <1>3, <1>4, <1>5 DEF PrunesTo
  <1>7. ASSUME NEW q \in popped[k] .. n, PrunesTo(k, now, q) PROVE q = p
    <2>1. q \in Nat /\ q \in T
      BY <1>1, <1>7 DEF PrunesTo
    <2>2. ~(p < q)
      <3> SUFFICES ASSUME p < q PROVE FALSE
        OBVIOUS
      <3>1. p + 1 \in InDeque(k) /\ p + 1 <= q /\ p < n /\ p + 1 \in 1 .. n
        BY <1>1, <1>4, <2>1 DEF InDeque
      <3>2. admitted[k][p + 1] + Window < now
        BY <1>7, <3>1 DEF PrunesTo
      <3>3. admitted[k][p + 1] + Window >= now
        BY <1>6, <3>1 DEF PrunesTo
      <3> QED
        BY <1>1, <1>2, <3>1, <3>2, <3>3
    <2> QED
      BY <1>3, <1>4, <2>1, <2>2
  <1> QED
    BY <1>4, <1>6, <1>7

\* The stamps' part of LimiterInv.
StampsInv ==
  /\ BudgetKept
  /\ \A k \in Addresses : \A i \in DOMAIN admitted[k] :
       /\ admitted[k][i] <= clock
       /\ i <= popped[k] => admitted[k][i] + Window < clock

LEMMA PruningKeepsStamps ==
  ASSUME TypeOK, StampsInv, NEW k \in Addresses, NEW now \in Nat, now <= clock,
         Prunes(k, now)
  PROVE  StampsInv'
  <1>1. BudgetKept'
    BY DEF Prunes, StampsInv, BudgetKept
  <1>2. PICK p \in popped[k] .. Len(admitted[k]) :
          PrunesTo(k, now, p) /\ popped' = [popped EXCEPT ![k] = p]
    BY DEF Prunes
  <1>3. popped'[k] = p /\ \A a \in Addresses \ {k} : popped'[a] = popped[a]
    BY <1>2 DEF TypeOK
  <1>4. \A i \in DOMAIN admitted[k] : i <= p => admitted[k][i] + Window < clock
    <2> SUFFICES ASSUME NEW i \in DOMAIN admitted[k], i <= p
                 PROVE  admitted[k][i] + Window < clock
      OBVIOUS
    <2>1. i \in 1 .. Len(admitted[k]) /\ admitted[k][i] \in Nat /\ popped[k] \in Nat
      BY DEF TypeOK
    <2>2. CASE i <= popped[k]
      BY <2>2 DEF StampsInv
    <2>3. CASE popped[k] < i
      <3>1. i \in InDeque(k)
        BY <2>1, <2>3 DEF InDeque
      <3>2. admitted[k][i] + Window < now
        BY <1>2, <3>1 DEF PrunesTo
      <3> QED
        BY <2>1, <3>2, LimiterAssumption DEF TypeOK
    <2> QED
      BY <2>1, <2>2, <2>3
  <1> QED
    BY <1>1, <1>3, <1>4 DEF Prunes, StampsInv

\* No thread acts on a clock value older than MaxStall.
ThreadsInv ==
  \A t \in Threads :
    /\ stamp[t] <= clock
    /\ pc[t] \in {"stamped", "retrying"} => clock <= stamp[t] + MaxStall

LEMMA LateAtMostMaxStall == TypeOK /\ ThreadsInv /\ [Next]_vars => ThreadsInv'
  <1> SUFFICES ASSUME TypeOK, ThreadsInv, [Next]_vars PROVE ThreadsInv'
    OBVIOUS
  <1>1. clock \in Nat /\ stamp \in [Threads -> Nat] /\ pc \in [Threads -> PC] /\ MaxStall \in Nat
    BY LimiterAssumption DEF TypeOK
  <1>2. CASE Tick
    BY <1>1, <1>2 DEF Tick, ThreadsInv
  <1>3. ASSUME NEW t \in Threads,
               /\ clock' = clock /\ stamp'[t] = clock
               /\ \A u \in Threads \ {t} : stamp'[u] = stamp[u] /\ pc'[u] = pc[u]
        PROVE  ThreadsInv'
    BY <1>1, <1>3 DEF ThreadsInv
  <1>4. ASSUME NEW t \in Threads, NEW c \in Clients, Arrive(t, c) PROVE ThreadsInv'
    BY <1>1, <1>3, <1>4 DEF Arrive
  <1>5. ASSUME NEW t \in Threads, ReadClockForRetry(t) PROVE ThreadsInv'
    BY <1>1, <1>3, <1>5 DEF ReadClockForRetry
  <1>6. ASSUME NEW t \in Threads, Idle(t), clock' = clock PROVE ThreadsInv'
    <2>1. /\ stamp'[t] = 0 /\ pc'[t] = "idle"
          /\ \A u \in Threads \ {t} : stamp'[u] = stamp[u] /\ pc'[u] = pc[u]
      BY <1>1, <1>6 DEF Idle
    <2> QED
      BY <1>1, <1>6, <2>1 DEF ThreadsInv
  <1>7. ASSUME NEW t \in Threads, Admit(t) \/ SendRetryAfter(t) PROVE ThreadsInv'
    BY <1>6, <1>7 DEF Admit, SendRetryAfter
  <1>8. ASSUME NEW t \in Threads, Refuse(t) PROVE ThreadsInv'
    <2>1. /\ clock' = clock /\ stamp' = stamp /\ pc'[t] = "refused"
          /\ \A u \in Threads \ {t} : pc'[u] = pc[u]
      BY <1>1, <1>8 DEF Refuse
    <2> QED
      BY <1>1, <2>1 DEF ThreadsInv
  <1>9. ASSUME UNCHANGED vars \/ \E k \in Addresses : Remaining(k) \/ Reset(k)
        PROVE  ThreadsInv'
    <2>1. UNCHANGED <<clock, pc, stamp>>
      BY <1>9 DEF vars, Remaining, Reset
    <2> QED
      BY <2>1 DEF ThreadsInv
  <1> QED
    BY <1>2, <1>4, <1>5, <1>7, <1>8, <1>9 DEF Next

LEMMA AdmitKeepsBudget ==
  ASSUME TypeOK, LimiterInv, NEW t \in Threads, Admit(t)
  PROVE  StampsInv'
  <1> DEFINE k == KeyOf[who[t]]
             s == stamp[t]
             log == admitted[k]
             n == Len(log)
  <1>1. PICK p \in popped[k] .. n :
          /\ k \in Addresses /\ pc[t] = "stamped" /\ s \in Nat
          /\ PrunesTo(k, s, p)
          /\ n < p + Limit
          /\ popped' = [popped EXCEPT ![k] = p]
          /\ admitted' = [admitted EXCEPT ![k] = Append(@, s)]
    BY AdmitEffect
  <1>2. clock' = clock /\ clock \in Nat /\ s <= clock /\ clock <= s + MaxStall
    BY <1>1 DEF Admit, LimiterInv, TypeOK
  <1>3. /\ popped'[k] = p /\ admitted'[k] = Append(log, s)
        /\ \A a \in Addresses \ {k} : popped'[a] = popped[a] /\ admitted'[a] = admitted[a]
    BY <1>1 DEF TypeOK
  <1>4. /\ log \in Seq(Nat) /\ n \in Nat /\ popped[k] \in Nat /\ DOMAIN log = 1 .. n
        /\ \A i \in 1 .. n : log[i] \in Nat
    BY <1>1 DEF TypeOK
  <1>5. p \in Nat /\ p <= n /\ s \in Nat /\ n < p + Limit
    BY <1>1, <1>4
  <1>6. /\ \A i \in 1 .. n : /\ log[i] <= clock
                             /\ i <= popped[k] => log[i] + Window < clock
        /\ \A i, j \in 1 .. n : i + Limit <= j => log[i] + Window < log[j] + MaxStall
    BY <1>1, <1>4 DEF LimiterInv, BudgetKept
  <1>7. \A i \in 1 .. n : popped[k] < i /\ i <= p => log[i] + Window < s
    BY <1>1, <1>4 DEF PrunesTo, InDeque
  <1>8. /\ DOMAIN admitted'[k] = 1 .. n + 1 /\ admitted'[k][n + 1] = s
        /\ \A i \in 1 .. n : admitted'[k][i] = log[i]
    BY <1>1, <1>3, <1>4
  <1>w. Limit \in Nat \ {0} /\ Window \in Nat /\ MaxStall \in Nat
    BY LimiterAssumption
  <1> HIDE DEF k, s, log, n
  <1>9. ASSUME NEW i \in 1 .. n, i <= p PROVE log[i] + Window < clock
    <2>1. log[i] + Window \in Nat
      BY <1>4, <1>w
    <2>2. CASE i <= popped[k]
      BY <1>6, <2>2
    <2>3. CASE popped[k] < i
      <3>1. log[i] + Window < s
        BY <1>7, <1>9, <2>3
      <3> HIDE DEF BudgetKept
      <3> QED
        BY <1>2, <1>5, <2>1, <3>1
    <2> QED
      BY <1>4, <2>2, <2>3
  <1>10. \A i, j \in 1 .. n + 1 : i + Limit <= j =>
           admitted'[k][i] + Window < admitted'[k][j] + MaxStall
    <2> SUFFICES ASSUME NEW i \in 1 .. n + 1, NEW j \in 1 .. n + 1, i + Limit <= j
                 PROVE  admitted'[k][i] + Window < admitted'[k][j] + MaxStall
      OBVIOUS
    <2>1. i \in 1 .. n /\ log[i] \in Nat /\ admitted'[k][i] = log[i]
      BY <1>4, <1>8, <1>w
    <2>2. CASE j \in 1 .. n
      BY <1>6, <1>8, <2>1, <2>2
    <2>3. CASE j = n + 1
      <3>1. i <= p
        BY <1>4, <1>5, <1>w, <2>1, <2>3
      <3>2. log[i] + Window < clock
        BY <1>9, <2>1, <3>1
      <3>3. admitted'[k][j] = s
        BY <1>8, <2>3
      <3> QED
        BY <1>2, <1>5, <1>w, <2>1, <3>2, <3>3
    <2> QED
      BY <1>4, <2>2, <2>3
  <1>11. BudgetKept'
    BY <1>3, <1>8, <1>10 DEF BudgetKept, LimiterInv
  <1>12. \A i \in 1 .. n + 1 : /\ admitted'[k][i] <= clock
                               /\ i <= p => admitted'[k][i] + Window < clock
    <2> SUFFICES ASSUME NEW i \in 1 .. n + 1
                 PROVE  /\ admitted'[k][i] <= clock
                        /\ i <= p => admitted'[k][i] + Window < clock
      OBVIOUS
    <2>1. CASE i \in 1 .. n
      BY <1>6, <1>8, <1>9, <2>1
    <2>2. CASE i = n + 1
      BY <1>2, <1>4, <1>5, <1>8, <2>2
    <2> QED
      BY <1>4, <2>1, <2>2
  <1> QED
    BY <1>2, <1>3, <1>8, <1>11, <1>12 DEF StampsInv, LimiterInv

\* The stamps of a key may be out of order, but only by what a thread may be
\* late, and what was popped is out of the window: the invariant of the budget.
THEOREM LimiterInvCorrect == Spec => []LimiterInv
  <1>1. Init => LimiterInv
    BY LimiterAssumption DEF Init, LimiterInv, BudgetKept
  <1>2. TypeOK /\ LimiterInv /\ [Next]_vars => LimiterInv'
    <2> SUFFICES ASSUME TypeOK, LimiterInv, [Next]_vars PROVE StampsInv'
      BY LateAtMostMaxStall DEF LimiterInv, StampsInv, ThreadsInv
    <2>1. StampsInv
      BY DEF LimiterInv, StampsInv
    <2>2. CASE Tick
      BY <2>1, <2>2, LimiterAssumption DEF Tick, StampsInv, BudgetKept, TypeOK, deque
    <2>3. ASSUME NEW t \in Threads, \/ \E c \in Clients : Arrive(t, c)
                                    \/ ReadClockForRetry(t)
          PROVE  StampsInv'
      BY <2>1, <2>3 DEF Arrive, ReadClockForRetry, deque, StampsInv, BudgetKept
    <2>4. ASSUME NEW t \in Threads, Admit(t) PROVE StampsInv'
      BY <2>4, AdmitKeepsBudget
    <2>5. ASSUME NEW t \in Threads, Refuse(t) PROVE StampsInv'
      <3>1. who[t] \in Clients /\ stamp[t] \in Nat /\ stamp[t] <= clock
        BY <2>5 DEF Refuse, TypeOK, LimiterInv
      <3>2. KeyOf[who[t]] \in Addresses
        BY <3>1, LimiterAssumption
      <3> QED
        BY <2>1, <2>5, <3>1, <3>2, RefusePrunes, PruningKeepsStamps
    <2>6. ASSUME NEW t \in Threads, SendRetryAfter(t) PROVE StampsInv'
      <3>1. who[t] \in Clients /\ stamp[t] \in Nat /\ stamp[t] <= clock
        BY <2>6 DEF SendRetryAfter, TypeOK, LimiterInv
      <3>2. HostOf[who[t]] \in Addresses
        BY <3>1, LimiterAssumption
      <3> QED
        BY <2>1, <2>6, <3>1, <3>2, SendPrunes, PruningKeepsStamps
    <2>7. ASSUME NEW k \in Addresses, Remaining(k) PROVE StampsInv'
      <3>1. clock \in Nat /\ clock <= clock
        BY DEF TypeOK
      <3> QED
        BY <2>1, <2>7, <3>1, RemainingPrunes, PruningKeepsStamps
    <2>8. ASSUME NEW k \in Addresses, Reset(k) PROVE StampsInv'
      BY <2>1, <2>8 DEF Reset, StampsInv, BudgetKept, TypeOK
    <2>9. CASE UNCHANGED vars
      BY <2>1, <2>9 DEF vars, StampsInv, BudgetKept
    <2> QED
      BY <2>2, <2>3, <2>4, <2>5, <2>6, <2>7, <2>8, <2>9 DEF Next
  <1> QED
    BY <1>1, <1>2, LimiterTypeCorrect, PTL DEF Spec

\* Any request and the Limit-th one after it are more than Window - MaxStall
\* apart, however the threads are scheduled.
THEOREM BudgetHolds == Spec => []BudgetKept
  <1>1. LimiterInv => BudgetKept
    BY DEF LimiterInv
  <1> QED
    BY <1>1, LimiterInvCorrect, PTL
-----------------------------------------------------------------------------
\* Pruning keeps the promises made: it leaves the deque as it is, or not full.
LEMMA PruningKeepsRetryInv ==
  ASSUME TypeOK, RetryInv, NEW k \in Addresses, NEW now \in Nat, Prunes(k, now),
         NEW c \in Clients, promise'[c] = promise[c]
  PROVE  (KeyOf[c] = HostOf[c] /\ promise'[c] # None
            /\ Len(admitted'[KeyOf[c]]) = popped'[KeyOf[c]] + Limit) =>
         admitted'[KeyOf[c]][popped'[KeyOf[c]] + 1] + Window < promise'[c]
  <1> DEFINE a == KeyOf[c]
  <1>1. a \in Addresses
    BY LimiterAssumption
  <1>2. /\ Len(admitted[a]) \in Nat /\ popped[a] \in Nat /\ Limit \in Nat
        /\ Len(admitted[a]) <= popped[a] + Limit
    BY <1>1, LimiterAssumption DEF TypeOK
  <1>3. admitted' = admitted /\ popped'[a] \in Nat /\ popped[a] <= popped'[a]
    BY <1>1, <1>2 DEF Prunes, TypeOK
  <1>4. CASE popped'[a] = popped[a]
    BY <1>3, <1>4 DEF RetryInv
  <1>5. CASE popped[a] < popped'[a]
    <2>1. Len(admitted[a]) # popped'[a] + Limit
      BY <1>2, <1>3, <1>5
    <2> QED
      BY <1>3, <2>1
  <1> QED
    BY <1>2, <1>3, <1>4, <1>5

\* A Retry-After sent now covers the leftmost stamp of the deque it was read from.
LEMMA SentPromiseCovers ==
  ASSUME TypeOK, NEW t \in Threads, SendRetryAfter(t)
  PROVE  LET c == who[t]
             k == HostOf[c]
         IN  /\ c \in Clients /\ k \in Addresses
             /\ \A d \in Clients \ {c} : promise'[d] = promise[d]
             /\ Len(admitted'[k]) = popped'[k] + Limit =>
                  admitted'[k][popped'[k] + 1] + Window < promise'[c]
  <1> DEFINE c == who[t]
             k == HostOf[c]
             left(p) == admitted[k][p + 1] + Window
             wait(p) == IF p = Len(admitted[k]) \/ left(p) < stamp[t]
                          THEN 0 ELSE left(p) - stamp[t]
  <1>0. c \in Clients
    BY DEF TypeOK, SendRetryAfter
  <1>1. c \in Clients /\ k \in Addresses
    BY <1>0, LimiterAssumption
  <1>2. PICK p \in 0 .. Len(admitted[k]) :
          /\ PrunesTo(k, stamp[t], p)
          /\ popped' = [popped EXCEPT ![k] = p]
          /\ promise' = [promise EXCEPT ![c] =
                           stamp[t] + RetryAfterSeconds(wait(p)) * TicksPerSec]
    BY DEF SendRetryAfter
  <1>3. admitted' = admitted /\ popped'[k] = p
    BY <1>1, <1>2 DEF SendRetryAfter, TypeOK
  <1>4. \A d \in Clients \ {c} : promise'[d] = promise[d]
    BY <1>1, <1>2 DEF TypeOK
  <1>5. ASSUME Len(admitted[k]) = p + Limit
        PROVE  left(p) < promise'[c]
    <2>1. p + 1 \in 1 .. Len(admitted[k]) /\ p # Len(admitted[k])
      BY <1>1, <1>2, <1>5, LimiterAssumption DEF TypeOK
    <2>2. admitted[k][p + 1] \in Nat /\ stamp[t] \in Nat /\ Window \in Nat
      BY <1>1, <2>1, LimiterAssumption DEF TypeOK
    <2>3. left(p) >= stamp[t] /\ left(p) \in Nat
      BY <1>2, <2>1, <2>2 DEF PrunesTo
    <2>4. wait(p) = left(p) - stamp[t] /\ wait(p) \in Nat
      BY <2>1, <2>2, <2>3
    <2>5. promise'[c] = stamp[t] + RetryAfterSeconds(wait(p)) * TicksPerSec
      BY <1>1, <1>2 DEF TypeOK
    <2> DEFINE ticks == RetryAfterSeconds(wait(p)) * TicksPerSec
    <2> HIDE DEF wait, left
    <2>6. ticks \in Nat /\ wait(p) < ticks
      BY <2>4, SecondsCoverWait, LimiterAssumption DEF RetryAfterSeconds
    <2>7. promise'[c] = stamp[t] + ticks
      BY <2>5
    <2> HIDE DEF ticks
    <2> QED
      BY <2>2, <2>3, <2>4, <2>6, <2>7
  <1> QED
    BY <1>1, <1>3, <1>4, <1>5

\* The invariant behind the Retry-After guarantee.
LEMMA RetryInvHolds == Spec => []RetryInv
  <1>1. Init => RetryInv
    BY DEF Init, RetryInv
  <1>2. TypeOK /\ RetryInv /\ [Next]_vars => RetryInv'
    <2> SUFFICES ASSUME TypeOK, RetryInv, [Next]_vars PROVE RetryInv'
      OBVIOUS
    <2>1. ASSUME UNCHANGED <<admitted, popped, promise>> PROVE RetryInv'
      BY <2>1 DEF RetryInv
    <2>2. CASE Tick \/ UNCHANGED vars
      BY <2>1, <2>2 DEF Tick, vars, deque
    <2>3. ASSUME NEW t \in Threads, \/ \E c \in Clients : Arrive(t, c)
                                    \/ ReadClockForRetry(t)
          PROVE  RetryInv'
      BY <2>1, <2>3 DEF Arrive, ReadClockForRetry, deque
    <2>4. ASSUME NEW t \in Threads, Admit(t) PROVE RetryInv'
      <3>1. PICK k \in Addresses :
              /\ \A a \in Addresses \ {k} : popped'[a] = popped[a] /\ admitted'[a] = admitted[a]
              /\ promise' = [c \in Clients |-> IF KeyOf[c] = k THEN None ELSE promise[c]]
        BY <2>4, AdmitEffect DEF Admit, TypeOK
      <3> QED
        BY <3>1, LimiterAssumption DEF RetryInv
    <2>5. ASSUME NEW t \in Threads, Refuse(t) PROVE RetryInv'
      <3>1. KeyOf[who[t]] \in Addresses /\ stamp[t] \in Nat /\ promise' = promise
        BY <2>5, LimiterAssumption DEF Refuse, TypeOK
      <3> QED
        BY <2>5, <3>1, RefusePrunes, PruningKeepsRetryInv DEF RetryInv
    <2>6. ASSUME NEW k \in Addresses, Remaining(k) PROVE RetryInv'
      <3>1. clock \in Nat /\ promise' = promise
        BY <2>6 DEF Remaining, TypeOK
      <3> QED
        BY <2>6, <3>1, RemainingPrunes, PruningKeepsRetryInv DEF RetryInv
    <2>7. ASSUME NEW k \in Addresses, Reset(k) PROVE RetryInv'
      <3>1. /\ Len(admitted'[k]) = 0 /\ popped'[k] = 0 /\ promise' = promise
            /\ \A a \in Addresses \ {k} : popped'[a] = popped[a] /\ admitted'[a] = admitted[a]
        BY <2>7 DEF Reset, TypeOK
      <3> QED
        BY <3>1, LimiterAssumption DEF RetryInv
    <2>8. ASSUME NEW t \in Threads, SendRetryAfter(t) PROVE RetryInv'
      <3>1. HostOf[who[t]] \in Addresses /\ stamp[t] \in Nat
        BY <2>8, SentPromiseCovers DEF TypeOK
      <3>2. Prunes(HostOf[who[t]], stamp[t])
        BY <2>8, SendPrunes
      <3> QED
        BY <2>8, <3>1, <3>2, SentPromiseCovers, PruningKeepsRetryInv DEF RetryInv
    <2> QED
      BY <2>2, <2>3, <2>4, <2>5, <2>6, <2>7, <2>8 DEF Next
  <1> QED
    BY <1>1, <1>2, LimiterTypeCorrect, PTL DEF Spec

\* A client that connects directly and waits as long as Retry-After said is not
\* refused again unless a request with its address was admitted meanwhile.
THEOREM DirectRetryWorks == Spec => DirectRetrySuffices
  <1> DEFINE Kept == \A t \in Threads : BrokenPromise(t) => KeyOf[who[t]] # HostOf[who[t]]
  <1>1. TypeOK /\ RetryInv /\ [Next]_vars => [Kept]_vars
    <2> SUFFICES ASSUME TypeOK, RetryInv, [Next]_vars,
                        NEW t \in Threads, BrokenPromise(t), KeyOf[who[t]] = HostOf[who[t]]
                 PROVE  FALSE
      OBVIOUS
    <2> DEFINE c == who[t]
               k == KeyOf[c]
    <2>1. pc[t] = "stamped" /\ pc'[t] = "refused"
      BY DEF BrokenPromise
    <2>2. Refuse(t)
      <3>1. ~UNCHANGED pc
        BY <2>1
      <3>2. ASSUME NEW u \in Threads, NEW d \in Clients, Arrive(u, d) PROVE FALSE
        BY <2>1, <3>2 DEF Arrive, TypeOK
      <3>3. ASSUME NEW u \in Threads, Admit(u) \/ SendRetryAfter(u) PROVE FALSE
        BY <2>1, <3>3 DEF Admit, SendRetryAfter, Idle, TypeOK
      <3>4. ASSUME NEW u \in Threads, ReadClockForRetry(u) PROVE FALSE
        BY <2>1, <3>4 DEF ReadClockForRetry, TypeOK
      <3>5. ASSUME NEW u \in Threads, Refuse(u) PROVE u = t
        BY <2>1, <3>5 DEF Refuse, TypeOK
      <3>6. Next
        BY <3>1 DEF vars
      <3> QED
        BY <3>1, <3>2, <3>3, <3>4, <3>5, <3>6 DEF Next, Tick, Remaining, Reset
    <2>3. c \in Clients /\ k \in Addresses
      BY <2>1, LimiterAssumption DEF TypeOK
    <2>4. PICK p \in popped[k] .. Len(admitted[k]) : PrunesTo(k, stamp[t], p) /\ ~HasRoom(k, p)
      BY <2>2 DEF Refuse, PrunesTo
    <2>5. /\ Len(admitted[k]) \in Nat /\ popped[k] \in Nat /\ Limit \in Nat \ {0}
          /\ Len(admitted[k]) <= popped[k] + Limit
          /\ stamp[t] \in Nat /\ Window \in Nat
      BY <2>3, LimiterAssumption DEF TypeOK
    <2>6. p = popped[k] /\ Len(admitted[k]) = popped[k] + Limit /\ p < Len(admitted[k])
      BY <2>4, <2>5 DEF HasRoom
    <2>7. admitted[k][p + 1] + Window >= stamp[t]
      BY <2>4, <2>6 DEF PrunesTo
    <2>8. promise[c] \in Nat /\ stamp[t] >= promise[c] /\ promise[c] # None
      BY <2>3 DEF BrokenPromise, TypeOK
    <2>9. admitted[k][p + 1] + Window < promise[c]
      BY <2>3, <2>6, <2>8 DEF RetryInv
    <2>10. admitted[k][p + 1] \in Nat
      <3>1. p + 1 \in 1 .. Len(admitted[k])
        BY <2>5, <2>6
      <3> QED
        BY <2>3, <3>1 DEF TypeOK
    <2> DEFINE oldest == admitted[k][p + 1]
    <2> HIDE DEF c, k, Kept
    <2>11. /\ oldest \in Nat /\ Window \in Nat /\ stamp[t] \in Nat /\ promise[c] \in Nat
           /\ oldest + Window >= stamp[t] /\ stamp[t] >= promise[c]
           /\ oldest + Window < promise[c]
      BY <2>5, <2>7, <2>8, <2>9, <2>10
    <2> HIDE DEF oldest
    <2> QED
      BY <2>11
  <1> QED
    BY <1>1, LimiterTypeCorrect, RetryInvHolds, PTL DEF Spec, DirectRetrySuffices
=============================================================================
