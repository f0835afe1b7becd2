----------------------------- MODULE RateLimiter -----------------------------
(***************************************************************************)
(* The per-IP sliding-window limiter of the backend, as the threads of the *)
(* pool that runs the sync dependencies use it, and the 429 handler that   *)
(* computes Retry-After.  A thread reads the clock before it takes the     *)
(* lock, and may be held up in between.                                    *)
(*                                                                         *)
(* The deque of a key is kept as the list of all stamps ever appended and  *)
(* the number popped from its left end: what is left is the deque.         *)
(***************************************************************************)
EXTENDS Naturals, Sequences

CONSTANTS
  Threads,      \* threads that can serve requests at the same time
  Clients,      \* clients
  Addresses,    \* keys of the limiter: addresses of clients and proxies
  KeyOf,        \* KeyOf[c]: what _client_ip finds (X-Forwarded-For first)
  HostOf,       \* HostOf[c]: the peer address of c's connections
  Limit,        \* requests per window
  Window,       \* window length, in ticks
  TicksPerSec,  \* ticks of the monotonic clock per second
  MaxStall,     \* bound: ticks from reading the clock to the locked section
  MaxClock,     \* bound on the clock
  None

ASSUME LimiterAssumption ==
  /\ KeyOf \in [Clients -> Addresses] /\ HostOf \in [Clients -> Addresses]
  /\ Limit \in Nat \ {0} /\ Window \in Nat /\ TicksPerSec \in Nat \ {0}
  /\ MaxStall \in Nat /\ MaxClock \in Nat
  /\ None \notin Nat /\ None \notin Clients

VARIABLES
  clock,     \* the monotonic clock
  admitted,  \* admitted[k]: the stamps appended to the deque of k, in order
  popped,    \* popped[k]: how many of them were popped from the left
  pc,        \* what each thread is doing
  who,       \* the client a busy thread serves
  stamp,     \* the clock value a busy thread read
  promise    \* promise[c]: when the last Retry-After sent to c ends, or None;
             \* void once a request with c's key is admitted

vars  == <<clock, admitted, popped, pc, who, stamp, promise>>
deque == <<admitted, popped>>

PC == {"idle", "stamped", "refused", "retrying"}

Init ==
  /\ clock = 0
  /\ admitted = [k \in Addresses |-> <<>>]
  /\ popped = [k \in Addresses |-> 0]
  /\ pc = [t \in Threads |-> "idle"]
  /\ who = [t \in Threads |-> None]
  /\ stamp = [t \in Threads |-> 0]
  /\ promise = [c \in Clients |-> None]

\* The request of thread t is over for the limiter.
Idle(t) ==
  /\ pc' = [pc EXCEPT ![t] = "idle"]
  /\ who' = [who EXCEPT ![t] = None]
  /\ stamp' = [stamp EXCEPT ![t] = 0]

InDeque(k) == popped[k] + 1 .. Len(admitted[k])

\* Time passes, while no thread between clock and lock is held up for too long.
Tick ==
  /\ clock < MaxClock
  /\ \A t \in Threads : pc[t] \in {"stamped", "retrying"} => clock < stamp[t] + MaxStall
  /\ clock' = clock + 1
  /\ UNCHANGED <<deque, pc, who, stamp, promise>>

\* rate_limit_dependency and the first line of allow: key and clock are read.
Arrive(t, c) ==
  /\ pc[t] = "idle"
  /\ pc' = [pc EXCEPT ![t] = "stamped"]
  /\ who' = [who EXCEPT ![t] = c]
  /\ stamp' = [stamp EXCEPT ![t] = clock]
  /\ UNCHANGED <<clock, deque, promise>>

\* Mutant: a stamp on the edge of the window is pruned too.
PrunesToInclusive(k, now, p) ==
  /\ p \in popped[k] .. Len(admitted[k])
  /\ \A i \in InDeque(k) : i <= p => admitted[k][i] + Window <= now
  /\ p < Len(admitted[k]) => admitted[k][p + 1] + Window > now

\* _prune: pops from the left as long as the leftmost stamp is before the cutoff,
\* so a late stamp shields older ones behind it.
PrunesTo(k, now, p) ==
  /\ p \in popped[k] .. Len(admitted[k])
  /\ \A i \in InDeque(k) : i <= p => admitted[k][i] + Window < now
  /\ p < Len(admitted[k]) => admitted[k][p + 1] + Window >= now

\* Mutant: one too many.
HasRoomForOneMore(k, p) == Len(admitted[k]) - p <= Limit
\* What is left after pruning up to p is below the limit.
HasRoom(k, p) == Len(admitted[k]) - p < Limit

\* The locked section of allow.
Admit(t) ==
  LET k == KeyOf[who[t]] IN
  /\ pc[t] = "stamped"
  /\ \E p \in 0 .. Len(admitted[k]) :
       /\ PrunesTo(k, stamp[t], p)
       /\ HasRoom(k, p)
       /\ popped' = [popped EXCEPT ![k] = p]
  /\ admitted' = [admitted EXCEPT ![k] = Append(@, stamp[t])]
  /\ promise' = [c \in Clients |-> IF KeyOf[c] = k THEN None ELSE promise[c]]
  /\ Idle(t)
  /\ UNCHANGED clock

Refuse(t) ==
  LET k == KeyOf[who[t]] IN
  /\ pc[t] = "stamped"
  /\ \E p \in 0 .. Len(admitted[k]) :
       /\ PrunesTo(k, stamp[t], p)
       /\ ~HasRoom(k, p)
       /\ popped' = [popped EXCEPT ![k] = p]
  /\ pc' = [pc EXCEPT ![t] = "refused"]
  /\ UNCHANGED <<clock, admitted, who, stamp, promise>>

\* The 429 handler calls retry_after, which reads the clock ...
ReadClockForRetry(t) ==
  /\ pc[t] = "refused"
  /\ pc' = [pc EXCEPT ![t] = "retrying"]
  /\ stamp' = [stamp EXCEPT ![t] = clock]
  /\ UNCHANGED <<clock, deque, who, promise>>

\* Mutant: the header is the truncated number of seconds.
RetryAfterTruncated(wait) == wait \div TicksPerSec
\* Retry-After: str(int(retry) + 1).
RetryAfterSeconds(wait) == wait \div TicksPerSec + 1

\* ... prunes under the lock and takes the oldest stamp that is left, in the
\* deque of the connection's host.
SendRetryAfter(t) ==
  LET k == HostOf[who[t]] IN
  /\ pc[t] = "retrying"
  /\ \E p \in 0 .. Len(admitted[k]) :
       LET left == admitted[k][p + 1] + Window
           wait == IF p = Len(admitted[k]) \/ left < stamp[t] THEN 0 ELSE left - stamp[t]
       IN  /\ PrunesTo(k, stamp[t], p)
           /\ popped' = [popped EXCEPT ![k] = p]
           /\ promise' = [promise EXCEPT ![who[t]] =
                            stamp[t] + RetryAfterSeconds(wait) * TicksPerSec]
  /\ Idle(t)
  /\ UNCHANGED <<clock, admitted>>

\* remaining: prunes and counts.
Remaining(k) ==
  /\ \E p \in 0 .. Len(admitted[k]) :
       PrunesTo(k, clock, p) /\ popped' = [popped EXCEPT ![k] = p]
  /\ UNCHANGED <<clock, admitted, pc, who, stamp, promise>>

\* reset: forgets the key.
Reset(k) ==
  /\ admitted' = [admitted EXCEPT ![k] = <<>>]
  /\ popped' = [popped EXCEPT ![k] = 0]
  /\ UNCHANGED <<clock, pc, who, stamp, promise>>

Next ==
  \/ Tick
  \/ \E t \in Threads :
       \/ \E c \in Clients : Arrive(t, c)
       \/ Admit(t)
       \/ Refuse(t)
       \/ ReadClockForRetry(t)
       \/ SendRetryAfter(t)
  \/ \E k \in Addresses : Remaining(k) \/ Reset(k)

Spec == Init /\ [][Next]_vars

-----------------------------------------------------------------------------
\* Types; and of every key at most Limit stamps are in its deque.
TypeOK ==
  /\ clock \in Nat
  /\ admitted \in [Addresses -> Seq(Nat)]
  /\ popped \in [Addresses -> Nat]
  /\ pc \in [Threads -> PC]
  /\ who \in [Threads -> Clients \cup {None}]
  /\ stamp \in [Threads -> Nat]
  /\ promise \in [Clients -> Nat \cup {None}]
  /\ \A t \in Threads : pc[t] # "idle" => who[t] \in Clients
  /\ \A k \in Addresses : /\ popped[k] <= Len(admitted[k])
                          /\ Len(admitted[k]) <= popped[k] + Limit

\* The budget: of the requests of a key, any one and the Limit-th after it carry
\* stamps more than Window - MaxStall apart, so no window of that length admits
\* more than Limit.  With threads that are never held up it is the full window.
BudgetKept ==
  \A k \in Addresses : \A i, j \in DOMAIN admitted[k] :
    i + Limit <= j => admitted[k][i] + Window < admitted[k][j] + MaxStall

\* A request refused although its client waited as long as Retry-After said and
\* no request with its key was admitted since.
BrokenPromise(t) ==
  /\ pc[t] = "stamped" /\ pc'[t] = "refused"
  /\ promise[who[t]] # None /\ stamp[t] >= promise[who[t]]

\* A client that connects directly and waits for Retry-After is not refused
\* again, whatever the other threads do meanwhile.
DirectRetrySuffices ==
  [][\A t \in Threads :
       BrokenPromise(t) => KeyOf[who[t]] # HostOf[who[t]]]_vars

\* What BudgetKept rests on: whatever was popped is out of the window for good,
\* and no thread carries a stamp older than MaxStall.
LimiterInv ==
  /\ BudgetKept
  /\ \A k \in Addresses : \A i \in DOMAIN admitted[k] :
       /\ admitted[k][i] <= clock
       /\ i <= popped[k] => admitted[k][i] + Window < clock
  /\ \A t \in Threads :
       /\ stamp[t] <= clock
       /\ pc[t] \in {"stamped", "retrying"} => clock <= stamp[t] + MaxStall

\* What DirectRetrySuffices rests on: a promise covers the leftmost stamp of a
\* full deque, and only an admission, which voids it, can fill the deque again.
RetryInv ==
  \A c \in Clients :
    LET k == KeyOf[c] IN
    (k = HostOf[c] /\ promise[c] # None /\ Len(admitted[k]) = popped[k] + Limit) =>
      admitted[k][popped[k] + 1] + Window < promise[c]
=============================================================================
