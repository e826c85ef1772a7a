------------------------------ MODULE IpLimiter ------------------------------
(***************************************************************************)
(* The in-memory per-IP limiter of every worker process.                   *)
(*                                                                         *)
(* A request is served in one step: the middleware runs it on the event    *)
(* loop without an await, and under a lock.  The clock is read twice on    *)
(* the way, for the window and, later, for the pruning.  A timestamp in    *)
(* the table stands with its place among the admissions of its key, which  *)
(* is the order of the list; `log` remembers all admissions and is not     *)
(* part of the program.                                                    *)
(***************************************************************************)
EXTENDS Integers, FiniteSets

CONSTANTS
  Workers,        \* processes: each has a table of its own
  Ips,            \* client addresses
  Limit,          \* RATE_LIMIT_IP_PER_MINUTE
  Window,         \* _WINDOW_SECONDS
  PruneInterval,  \* _PRUNE_INTERVAL_SECONDS
  Lag,            \* longest time between the two readings of the clock
  MaxTime         \* bound on the clock

ASSUME LimiterAssumption ==
  /\ Limit \in Nat
  /\ Window \in Nat
  /\ PruneInterval \in Nat
  /\ Lag \in 0 .. Window
  /\ MaxTime \in Nat

VARIABLES
  clock,      \* time.monotonic()
  tracked,    \* keys of _ip_timestamps
  stamps,     \* its lists; empty for what is not tracked
  lastPrune,  \* _last_prune
  log,        \* every admission of each key
  verdict     \* the latest key served and its answer

vars == <<clock, tracked, stamps, lastPrune, log, verdict>>

Keys == Workers \X Ips
Admissions == [n : Nat, at : Nat]

SW == INSTANCE SlidingWindow

\* Plausible bugs, each in place of the definition it is named after when
\* the properties are put to the test: the first entry of a list is taken
\* for the last one, nothing is found to prune.
IsLastFirst(a, S) == a \in S /\ \A b \in S : b.n >= a.n
ExpiredNever(w, t) == {}

\* The last entry of a list.
IsLast(a, S) == a \in S /\ \A b \in S : b.n <= a.n

\* What _prune_expired removes from the table of worker w at time t.
Expired(w, t) ==
  {k \in tracked : k[1] = w /\ (stamps[k] = {}
                                \/ \E a \in stamps[k] : IsLast(a, stamps[k]) /\ a.at < t - Window)}

PruneDue(w, t) == t - lastPrune[w] >= PruneInterval
Forgotten(w, t) == IF PruneDue(w, t) THEN Expired(w, t) ELSE {}

\* The timestamps of k after those outside of the window are dropped.
Fresh(k) == {a \in stamps[k] : a.at > clock - Window}

-----------------------------------------------------------------------------

Init ==
  /\ clock \in 0 .. MaxTime
  /\ tracked = {}
  /\ stamps = [k \in Keys |-> {}]
  /\ lastPrune = [w \in Workers |-> 0]
  /\ log = [k \in Keys |-> {}]
  /\ verdict = <<>>

\* The pruning, at time t, and what the request leaves in the entry of its key.
Serve(k, t, kept, answer) ==
  /\ tracked' = (tracked \ Forgotten(k[1], t)) \cup {k}
  /\ stamps' = [j \in Keys |->
       IF j = k THEN kept ELSE IF j \in Forgotten(k[1], t) THEN {} ELSE stamps[j]]
  /\ lastPrune' = [lastPrune EXCEPT ![k[1]] = IF PruneDue(k[1], t) THEN t ELSE @]
  /\ verdict' = <<k, answer>>
  /\ clock' = t

\* Plausible bugs, likewise: the count is compared with > instead of >=, a
\* refused request is recorded as well.
AdmitOffByOne(k) ==
  \E t \in SW!Later :
    /\ k \in tracked \ Forgotten(k[1], t)
    /\ Cardinality(Fresh(k)) <= Limit
    /\ Serve(k, t, Fresh(k) \cup {SW!Admission(k)}, "admitted")
    /\ log' = [log EXCEPT ![k] = @ \cup {SW!Admission(k)}]

RefuseAndRecord(k) ==
  \E t \in SW!Later :
    /\ k \in tracked \ Forgotten(k[1], t)
    /\ Cardinality(Fresh(k)) >= Limit
    /\ Serve(k, t, Fresh(k) \cup {SW!Admission(k)}, "refused")
    /\ UNCHANGED log

\* The address is not in the table, or has just been pruned from it: the
\* request passes whatever the limit is.
AdmitUnknown(k) ==
  \E t \in SW!Later :
    /\ k \notin tracked \ Forgotten(k[1], t)
    /\ Serve(k, t, {SW!Admission(k)}, "admitted")
    /\ log' = [log EXCEPT ![k] = @ \cup {SW!Admission(k)}]

\* The address has had fewer than Limit requests within the window.
Admit(k) ==
  \E t \in SW!Later :
    /\ k \in tracked \ Forgotten(k[1], t)
    /\ Cardinality(Fresh(k)) < Limit
    /\ Serve(k, t, Fresh(k) \cup {SW!Admission(k)}, "admitted")
    /\ log' = [log EXCEPT ![k] = @ \cup {SW!Admission(k)}]

\* 429; the refused request is not recorded.
Refuse(k) ==
  \E t \in SW!Later :
    /\ k \in tracked \ Forgotten(k[1], t)
    /\ Cardinality(Fresh(k)) >= Limit
    /\ Serve(k, t, Fresh(k), "refused")
    /\ UNCHANGED log

Tick ==
  /\ clock < MaxTime
  /\ clock' = clock + 1
  /\ UNCHANGED <<tracked, stamps, lastPrune, log, verdict>>

Next == Tick \/ \E k \in Keys : AdmitUnknown(k) \/ Admit(k) \/ Refuse(k)

Spec == Init /\ [][Next]_vars

-----------------------------------------------------------------------------
\* Properties.

\* Every variable keeps its shape, and only tracked keys have timestamps.
TypeOK ==
  /\ clock \in 0 .. MaxTime
  /\ tracked \subseteq Keys
  /\ stamps \in [Keys -> SUBSET Admissions]
  /\ \A k \in Keys \ tracked : stamps[k] = {}
  /\ lastPrune \in [Workers -> 0 .. MaxTime]
  /\ log \in [Keys -> SUBSET Admissions]
  /\ verdict \in {<<>>} \cup (Keys \X {"admitted", "refused"})

\* Neither dropping old timestamps nor pruning whole entries ever forgets an
\* admission that still counts, and the table holds nothing that was not one.
RecentRemembered ==
  \A k \in Keys :
    /\ stamps[k] \subseteq log[k]
    /\ SW!Since(log[k], Window) \subseteq stamps[k]

\* The table does not grow with every address ever seen: after a pruning
\* only addresses admitted since the window before it are left.
OnlyRecentTracked ==
  \A k \in tracked : \E a \in stamps[k] : a.at >= lastPrune[k[1]] - Window

\* No address is admitted more than Limit times within a window, in one
\* worker, as long as the limit is not 0: an address that is not in the table
\* passes without a look at the limit.
IpLimitHolds ==
  \A k \in Keys : Cardinality(SW!Since(log[k], Window - Lag)) <= Limit

\* The limiter implements the sliding window: who is refused and who is not
\* depends on the admissions of the window alone, never on the pruning.
ImplementsSlidingWindow == SW!Spec
=============================================================================
