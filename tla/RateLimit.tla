------------------------------ MODULE RateLimit ------------------------------
(***************************************************************************)
(* churust-ratelimit: the GCRA table shared by every request of the server. *)
(* A request reads the clock, then waits for the table's lock, so requests  *)
(* reach the table with readings that are out of order and out of date.     *)
(*                                                                         *)
(* A key is its digest: keys that collide under the table's seed share one  *)
(* bucket and are one key here.  Requests whose key function answers None   *)
(* never reach the table.  One unit of time is any fraction of a second.    *)
(***************************************************************************)
EXTENDS Integers, FiniteSets

CONSTANTS
  Key,        \* digests of rate-limit keys
  Thread,     \* concurrent requests
  Emission,   \* spacing of two conforming requests
  Tolerance,  \* how far ahead of its schedule a key may run
  MaxKeys,    \* max_keys
  Start,      \* the clock when the first request arrives
  None,       \* no key
  MaxClock    \* bound on the clock

ASSUME KeyFinite == IsFiniteSet(Key)
ASSUME TimesAreNat == /\ Emission \in Nat /\ Tolerance \in Nat
                      /\ Start \in Nat /\ MaxClock \in Nat
ASSUME MaxKeysPositive == MaxKeys \in Nat \ {0}
ASSUME NoneIsNoKey == None \notin Key

VARIABLES
  clock,   \* Instant::now
  tat,     \* Table.tat; Absent when the key has no entry
  asking,  \* the key a request waits to be checked for
  now,     \* the clock reading it took before taking the lock
  \* History, which the code does not keep: a window of admissions of each key.
  first,   \* the reading of the admission the window starts with, or Absent
  last,    \* the reading of the latest admission of the window
  cost     \* Emission times the number of admissions in it

window == <<first, last, cost>>
rlVars == <<clock, tat, asking, now, window>>

Absent == -1

Tracked == {k \in Key : tat[k] # Absent}

RlTypeOK ==
  /\ clock \in Nat
  /\ tat \in [Key -> Nat \cup {Absent}]
  /\ asking \in [Thread -> Key \cup {None}]
  /\ now \in [Thread -> Nat]
  /\ first \in [Key -> Nat \cup {Absent}]
  /\ last \in [Key -> Nat]
  /\ cost \in [Key -> Nat]

RlInit ==
  /\ clock = Start
  /\ tat = [k \in Key |-> Absent]
  /\ asking = [t \in Thread |-> None] /\ now = [t \in Thread |-> Start]
  /\ first = [k \in Key |-> Absent]
  /\ last = [k \in Key |-> 0] /\ cost = [k \in Key |-> 0]

-----------------------------------------------------------------------------
(* Table::prune, as the set of key sets it may leave: entries that expire   *)
(* at the same moment are evicted in any order.                             *)

Unexpired(n) == {k \in Tracked : tat[k] > n}

\* Mutant: the eviction stops at the cap, which leaves no room to insert.
Target_cap == MaxKeys

Target == (MaxKeys * 9) \div 10

Survivors(n) ==
  LET unexpired == Unexpired(n) IN
  IF Cardinality(unexpired) < MaxKeys THEN {unexpired}
  ELSE {s \in SUBSET unexpired : /\ Cardinality(s) = Target
                                 /\ \A k \in s, l \in unexpired \ s : tat[l] <= tat[k]}

Pruned(n) == IF Cardinality(Tracked) >= MaxKeys THEN Survivors(n) ELSE {Tracked}

-----------------------------------------------------------------------------
(* RateLimit::check.                                                        *)

\* A key without an entry is on schedule.
Schedule(left, k, n) == IF k \in left THEN tat[k] ELSE n

\* checked_sub: below the origin of the clock there is nothing to subtract.
Earliest(s, n) == IF s >= Tolerance THEN s - Tolerance ELSE n

\* Mutant: a key ahead of its schedule is put back on it.
Later_reading(a, b) == b

Later(a, b) == IF a > b THEN a ELSE b

Rejected(left, k, n) == n < Earliest(Schedule(left, k, n), n)

\* An admission advances the key's schedule by one emission interval.
Entry(left, k, n) == Later(Schedule(left, k, n), n) + Emission

\* The window of an admitted key goes on, or starts again with this admission;
\* a key whose entry was dropped starts afresh.
Record(left, k, n) ==
  \E restart \in BOOLEAN :
    LET fresh == restart \/ k \notin left \/ first[k] = Absent IN
    /\ first' = [x \in Key |-> IF x = k THEN (IF fresh THEN n ELSE first[k])
                               ELSE IF x \in left THEN first[x] ELSE Absent]
    /\ last' = [last EXCEPT ![k] = n]
    /\ cost' = [cost EXCEPT ![k] = IF fresh THEN Emission ELSE @ + Emission]

Admit(left, k, n) ==
  /\ ~Rejected(left, k, n)
  /\ tat' = [x \in Key |-> IF x = k THEN Entry(left, k, n)
                           ELSE IF x \in left THEN tat[x] ELSE Absent]
  /\ Record(left, k, n)

Reject(left, k, n) ==
  /\ Rejected(left, k, n)
  /\ tat' = [x \in Key |-> IF x \in left THEN tat[x] ELSE Absent]
  /\ first' = [x \in Key |-> IF x \in left THEN first[x] ELSE Absent]
  /\ UNCHANGED <<last, cost>>

\* The reading is taken before the lock.
ReadClock(t, k) ==
  /\ asking[t] = None
  /\ asking' = [asking EXCEPT ![t] = k]
  /\ now' = [now EXCEPT ![t] = clock]
  /\ UNCHANGED <<clock, tat, window>>

Check(t) ==
  /\ asking[t] # None
  /\ \E left \in Pruned(now[t]) :
       \/ Admit(left, asking[t], now[t])
       \/ Reject(left, asking[t], now[t])
  /\ asking' = [asking EXCEPT ![t] = None]
  /\ UNCHANGED <<clock, now>>

Tick == /\ clock < MaxClock /\ clock' = clock + 1
        /\ UNCHANGED <<tat, asking, now, window>>

RlNext == \/ \E t \in Thread : Check(t) \/ \E k \in Key : ReadClock(t, k)
          \/ Tick

RlSpec == RlInit /\ [][RlNext]_rlVars

-----------------------------------------------------------------------------
\* The documented memory bound: the table never outgrows max_keys, however
\* many keys are in flight and however stale the reading that pruned it.
TableBounded == Cardinality(Tracked) <= MaxKeys

\* A key is never further ahead of the clock than its tolerance and the one
\* request it was last granted: being refused costs a client nothing, so one
\* that stops asking is admitted again after at most that long.
TatBounded == \A k \in Tracked : tat[k] <= clock + Tolerance + Emission

\* What the table costs: memory for max_keys entries, and no client more than
\* its own requests.
TableKept == TableBounded /\ TatBounded

\* The rate: whatever the order the readings arrive in, n admissions of one key
\* that were decided between two of its readings, its entry kept all along,
\* satisfy (n - 1) * Emission <= elapsed + Tolerance.
RateConforms ==
  \A k \in Key : first[k] # Absent => cost[k] - Emission <= (last[k] - first[k]) + Tolerance

\* What makes these inductive: no reading is ahead of the clock, and the
\* schedule of a key has been charged for every admission of its window.
ReadingsPast  == \A t \in Thread : now[t] <= clock
WindowCharged ==
  \A k \in Key : first[k] # Absent => k \in Tracked /\ first[k] + cost[k] <= tat[k]
RlIInv == /\ RlTypeOK /\ ReadingsPast /\ TableBounded /\ TatBounded
          /\ WindowCharged /\ RateConforms
=============================================================================
