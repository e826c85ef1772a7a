---------------------------- MODULE SlidingWindow ----------------------------
(***************************************************************************)
(* What a rate limiter promises: of the requests that share a key, at most *)
(* Limit are admitted in any stretch of Window seconds, and one is refused *)
(* only when Limit have been.  The bookkeeping of a request may last up to *)
(* Lag, and a limiter that looks at the clock twice meanwhile can count in *)
(* a window that is shorter by as much.                                    *)
(***************************************************************************)
EXTENDS Integers, FiniteSets

CONSTANTS
  Keys,     \* whom a limit applies to
  Limit,    \* admissions per window
  Window,   \* length of the window
  Lag,      \* longest time that serving one request takes
  MaxTime   \* bound on the clock

VARIABLES
  clock,    \* the current time
  log,      \* every admission of each key: its number and its time
  verdict   \* the latest key served and its answer

slidingVars == <<clock, log, verdict>>

\* The admissions among S in the last d seconds.
Since(S, d) == {a \in S : a.at > clock - d}

Later == {t \in clock .. clock + Lag : t <= MaxTime}
Admission(k) == [n |-> Cardinality(log[k]) + 1, at |-> clock]

Init ==
  /\ clock \in 0 .. MaxTime
  /\ log = [k \in Keys |-> {}]
  /\ verdict = <<>>

Tick ==
  /\ clock < MaxTime
  /\ clock' = clock + 1
  /\ UNCHANGED <<log, verdict>>

Admit(k) ==
  /\ Cardinality(Since(log[k], Window - Lag)) < Limit
  /\ log' = [log EXCEPT ![k] = @ \cup {Admission(k)}]
  /\ verdict' = <<k, "admitted">>
  /\ clock' \in Later

Refuse(k) ==
  /\ Cardinality(Since(log[k], Window)) >= Limit
  /\ verdict' = <<k, "refused">>
  /\ clock' \in Later
  /\ UNCHANGED log

Next == Tick \/ \E k \in Keys : Admit(k) \/ Refuse(k)

Spec == Init /\ [][Next]_slidingVars
=============================================================================
