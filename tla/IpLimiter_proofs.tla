-------------------------- MODULE IpLimiter_proofs --------------------------
(***************************************************************************)
(* The per-IP limiter never forgets an admission that still counts, and    *)
(* with a positive limit it implements the sliding window.                 *)
(***************************************************************************)
EXTENDS IpLimiter, FiniteSetTheorems, TLAPS

\* Admissions are numbered in the order of their times, none of which is in
\* the future.  This makes the last entry of a list the newest.
Numbered ==
  \A k \in Keys :
    /\ IsFiniteSet(log[k])
    /\ \A a \in log[k] : a.n \in 1 .. Cardinality(log[k]) /\ a.at <= clock
    /\ \A a, b \in log[k] : a.n <= b.n => a.at <= b.at

IInv == TypeOK /\ Numbered /\ RecentRemembered

\* The abstract module's cardinality is this one's.
LEMMA SameCardinality == \A S : SW!Cardinality(S) = Cardinality(S)
  BY Zenon DEF SW!Cardinality, Cardinality

\* The length of the window, the times of the steps and the keys are what
\* the arithmetic below needs to know.
LEMMA Basics ==
  ASSUME IInv, NEW k \in Keys, NEW t \in SW!Later
  PROVE  /\ k[1] \in Workers
         /\ clock \in Nat /\ t \in Nat /\ Window \in Nat /\ Lag \in Nat
         /\ clock <= t /\ t <= clock + Lag /\ t <= MaxTime
         /\ \A a \in log[k] : a.at \in Nat /\ a.n \in Nat
         /\ \A a \in stamps[k] : a.at \in Nat /\ a.n \in Nat
  BY LimiterAssumption DEF IInv, TypeOK, SW!Later, Keys, Admissions

\* What is not in the table once it has been pruned at time t has no
\* admission that still counts at t.
LEMMA ForgottenIsOld ==
  ASSUME IInv, NEW k \in Keys, NEW t \in SW!Later,
         k \notin tracked \ Forgotten(k[1], t)
  PROVE  \A b \in log[k] : ~ (b.at > t - Window)
<1> SUFFICES ASSUME NEW b \in log[k], b.at > t - Window
             PROVE  FALSE
  OBVIOUS
<1>1. b \in stamps[k]
  <2>1. b.at > clock - Window
    BY Basics
  <2> QED BY <2>1 DEF IInv, RecentRemembered, SW!Since
<1>2. k \in Forgotten(k[1], t)
  BY <1>1 DEF IInv, TypeOK
<1>3. PICK a \in stamps[k] : IsLast(a, stamps[k]) /\ a.at < t - Window
  BY <1>1, <1>2 DEF Forgotten, Expired
<1>4. b.n <= a.n /\ a \in log[k]
  BY <1>1, <1>3 DEF IsLast, IInv, RecentRemembered
<1>5. b.at <= a.at
  BY <1>4 DEF IInv, Numbered
<1> QED BY <1>3, <1>4, <1>5, Basics

\* A new admission keeps the numbering.
LEMMA AdmissionNumbered ==
  ASSUME IInv, NEW k \in Keys, NEW t \in SW!Later, clock' = t,
         log' = [log EXCEPT ![k] = @ \cup {SW!Admission(k)}]
  PROVE  Numbered' /\ log' \in [Keys -> SUBSET Admissions]
<1> DEFINE new == SW!Admission(k)
           c == Cardinality(log[k])
<1>1. IsFiniteSet(log[k]) /\ c \in Nat
  BY FS_CardinalityType DEF IInv, Numbered
<1>2. new.n = c + 1 /\ new.at = clock /\ new \in Admissions
  BY <1>1, Basics, SameCardinality DEF SW!Admission, Admissions
<1>3. new \notin log[k]
  BY <1>1, <1>2 DEF IInv, Numbered
<1>4. IsFiniteSet(log[k] \cup {new}) /\ Cardinality(log[k] \cup {new}) = c + 1
  BY <1>1, <1>3, FS_AddElement
<1>5. log' \in [Keys -> SUBSET Admissions]
  BY <1>2 DEF IInv, TypeOK
<1>6. log'[k] = log[k] \cup {new} /\ \A j \in Keys \ {k} : log'[j] = log[j]
  BY DEF IInv, TypeOK
<1> HIDE DEF new, c
<1>7. Numbered'
  <2> SUFFICES ASSUME NEW j \in Keys
               PROVE  /\ IsFiniteSet(log'[j])
                      /\ \A a \in log'[j] : a.n \in 1 .. Cardinality(log'[j]) /\ a.at <= t
                      /\ \A a, b \in log'[j] : a.n <= b.n => a.at <= b.at
    BY DEF Numbered
  <2>1. CASE j = k
    <3>1. \A a \in log[k] : a.n \in 1 .. c /\ a.at <= clock
      BY DEF IInv, Numbered, c
    <3>2. \A a, b \in log[k] : a.n <= b.n => a.at <= b.at
      BY DEF IInv, Numbered
    <3>3. IsFiniteSet(log'[j]) /\ Cardinality(log'[j]) = c + 1
      BY <2>1, <1>4, <1>6
    <3>4. \A a \in log'[j] : a \in log[k] \/ a = new
      BY <2>1, <1>6
    <3>5. \A a \in log'[j] : a.n \in 1 .. c + 1 /\ a.at <= t
      BY <3>1, <3>4, <1>1, <1>2, Basics
    <3>6. \A a, b \in log'[j] : a.n <= b.n => a.at <= b.at
      BY <3>1, <3>2, <3>4, <1>1, <1>2, Basics
    <3> QED BY <3>3, <3>5, <3>6
  <2>2. CASE j # k
    <3>1. \A a \in log[j] : a.at <= clock
      BY DEF IInv, Numbered
    <3> QED BY <2>2, <3>1, <1>6, Basics DEF IInv, Numbered
  <2> QED BY <2>1, <2>2
<1> QED BY <1>5, <1>7

\* A request that leaves in the entry of its key what the log has of it since
\* the window, and nothing else, keeps the table in accordance with the log.
LEMMA ServeRemembers ==
  ASSUME IInv, NEW k \in Keys, NEW t \in SW!Later, NEW kept, NEW answer \in {"admitted", "refused"},
         Serve(k, t, kept, answer),
         log' \in [Keys -> SUBSET Admissions],
         \A j \in Keys \ {k} : log'[j] = log[j],
         kept \subseteq log'[k],
         \A a \in log'[k] : a.at > t - Window => a \in kept
  PROVE  TypeOK' /\ RecentRemembered'
<1>1. clock' = t /\ t \in 0 .. MaxTime
  BY Basics, LimiterAssumption DEF Serve
<1>2. stamps'[k] = kept /\ \A j \in Keys \ {k} :
        stamps'[j] = IF j \in Forgotten(k[1], t) THEN {} ELSE stamps[j]
  BY DEF Serve
<1>3. tracked' = (tracked \ Forgotten(k[1], t)) \cup {k}
  BY DEF Serve
<1>4. TypeOK'
  <2>1. stamps' \in [Keys -> SUBSET Admissions]
    BY DEF Serve, IInv, TypeOK
  <2>2. tracked' \subseteq Keys /\ \A j \in Keys \ tracked' : stamps'[j] = {}
    BY <1>2, <1>3 DEF IInv, TypeOK
  <2>3. lastPrune' \in [Workers -> 0 .. MaxTime]
    BY <1>1 DEF Serve, IInv, TypeOK
  <2>4. verdict' \in {<<>>} \cup (Keys \X {"admitted", "refused"})
    BY DEF Serve
  <2> QED BY <1>1, <2>1, <2>2, <2>3, <2>4 DEF TypeOK
<1>5. RecentRemembered'
  <2> SUFFICES ASSUME NEW j \in Keys
               PROVE  /\ stamps'[j] \subseteq log'[j]
                      /\ \A a \in log'[j] : a.at > t - Window => a \in stamps'[j]
    BY <1>1 DEF RecentRemembered, SW!Since
  <2>1. CASE j = k
    BY <2>1, <1>2
  <2>2. CASE j # k /\ j \in Forgotten(k[1], t)
    <3>1. j[1] = k[1]
      BY <2>2 DEF Forgotten, Expired
    <3>2. \A b \in log[j] : ~ (b.at > t - Window)
      BY <2>2, <3>1, ForgottenIsOld
    <3> QED BY <2>2, <3>2, <1>2
  <2>3. CASE j # k /\ j \notin Forgotten(k[1], t)
    <3>1. log'[j] = log[j] /\ stamps'[j] = stamps[j]
      BY <2>3, <1>2
    <3>2. \A a \in log[j] : a.at > t - Window => a.at > clock - Window
      BY Basics
    <3> QED BY <3>1, <3>2 DEF IInv, RecentRemembered, SW!Since
  <2> QED BY <2>1, <2>2, <2>3
<1> QED BY <1>4, <1>5

\* The entry of an address that is new or pruned starts with its admission.
LEMMA AdmitUnknownInv ==
  ASSUME IInv, NEW k \in Keys, AdmitUnknown(k)
  PROVE  IInv'
<1>1. PICK t \in SW!Later :
        /\ k \notin tracked \ Forgotten(k[1], t)
        /\ Serve(k, t, {SW!Admission(k)}, "admitted")
        /\ log' = [log EXCEPT ![k] = @ \cup {SW!Admission(k)}]
  BY DEF AdmitUnknown
<1>2. Numbered' /\ log' \in [Keys -> SUBSET Admissions]
  BY <1>1, AdmissionNumbered DEF Serve
<1>3. log'[k] = log[k] \cup {SW!Admission(k)} /\ \A j \in Keys \ {k} : log'[j] = log[j]
  BY <1>1 DEF IInv, TypeOK
<1>4. \A a \in log'[k] : a.at > t - Window => a \in {SW!Admission(k)}
  BY <1>1, <1>3, ForgottenIsOld
<1>5. TypeOK' /\ RecentRemembered'
  BY <1>1, <1>2, <1>3, <1>4, ServeRemembers
<1> QED BY <1>2, <1>5 DEF IInv

\* An admission is added to what the window has left of the entry.
LEMMA AdmitInv ==
  ASSUME IInv, NEW k \in Keys, Admit(k)
  PROVE  IInv'
<1>1. PICK t \in SW!Later :
        /\ Serve(k, t, Fresh(k) \cup {SW!Admission(k)}, "admitted")
        /\ log' = [log EXCEPT ![k] = @ \cup {SW!Admission(k)}]
  BY DEF Admit
<1>2. Numbered' /\ log' \in [Keys -> SUBSET Admissions]
  BY <1>1, AdmissionNumbered DEF Serve
<1>3. log'[k] = log[k] \cup {SW!Admission(k)} /\ \A j \in Keys \ {k} : log'[j] = log[j]
  BY <1>1 DEF IInv, TypeOK
<1>4. Fresh(k) \subseteq log[k]
  BY DEF Fresh, IInv, RecentRemembered
<1>5. \A a \in log[k] : a.at > t - Window => a \in Fresh(k)
  <2>1. \A a \in log[k] : a.at > t - Window => a.at > clock - Window
    BY Basics
  <2> QED BY <2>1 DEF Fresh, IInv, RecentRemembered, SW!Since
<1>6. TypeOK' /\ RecentRemembered'
  BY <1>1, <1>2, <1>3, <1>4, <1>5, ServeRemembers
<1> QED BY <1>2, <1>6 DEF IInv

\* A refusal only drops what has left the window.
LEMMA RefuseInv ==
  ASSUME IInv, NEW k \in Keys, Refuse(k)
  PROVE  IInv'
<1>1. PICK t \in SW!Later : Serve(k, t, Fresh(k), "refused") /\ log' = log
  BY DEF Refuse
<1>2. clock' = t
  BY <1>1 DEF Serve
<1>3. Numbered'
  <2>1. \A j \in Keys : \A a \in log[j] : a.at <= t
    BY Basics DEF IInv, Numbered
  <2> QED BY <1>1, <1>2, <2>1 DEF IInv, Numbered
<1>4. Fresh(k) \subseteq log[k]
  BY DEF Fresh, IInv, RecentRemembered
<1>5. \A a \in log[k] : a.at > t - Window => a \in Fresh(k)
  <2>1. \A a \in log[k] : a.at > t - Window => a.at > clock - Window
    BY Basics
  <2> QED BY <2>1 DEF Fresh, IInv, RecentRemembered, SW!Since
<1>6. log' \in [Keys -> SUBSET Admissions]
  BY <1>1 DEF IInv, TypeOK
<1>7. TypeOK' /\ RecentRemembered'
  BY <1>1, <1>4, <1>5, <1>6, ServeRemembers
<1> QED BY <1>3, <1>7 DEF IInv

\* The passing of time makes fewer admissions count.
LEMMA TickInv ==
  ASSUME IInv, Tick
  PROVE  IInv'
<1>1. clock \in Nat /\ clock' = clock + 1 /\ clock' \in 0 .. MaxTime /\ Window \in Nat
  BY LimiterAssumption DEF IInv, TypeOK, Tick
<1>2. \A k \in Keys : \A a \in log[k] : a.at \in Nat
  BY DEF IInv, TypeOK, Admissions
<1>3. TypeOK'
  BY <1>1 DEF IInv, TypeOK, Tick
<1>4. Numbered'
  BY <1>1, <1>2 DEF IInv, Numbered, Tick
<1>5. RecentRemembered'
  BY <1>1, <1>2 DEF IInv, RecentRemembered, SW!Since, Tick
<1> QED BY <1>3, <1>4, <1>5 DEF IInv

\* The inductive invariant holds of every reachable state.
THEOREM InvariantHolds == Spec => []IInv
<1>1. Init => IInv
  <2> SUFFICES ASSUME Init PROVE IInv
    OBVIOUS
  <2>1. TypeOK
    BY LimiterAssumption DEF Init, TypeOK
  <2>2. Numbered
    BY FS_EmptySet DEF Init, Numbered
  <2>3. RecentRemembered
    BY DEF Init, RecentRemembered, SW!Since
  <2> QED BY <2>1, <2>2, <2>3 DEF IInv
<1>2. IInv /\ [Next]_vars => IInv'
  <2> SUFFICES ASSUME IInv, [Next]_vars PROVE IInv'
    OBVIOUS
  <2>1. CASE Tick
    BY <2>1, TickInv
  <2>2. ASSUME NEW k \in Keys, AdmitUnknown(k) \/ Admit(k) \/ Refuse(k)
        PROVE  IInv'
    BY <2>2, AdmitUnknownInv, AdmitInv, RefuseInv
  <2>3. CASE UNCHANGED vars
    BY <2>3 DEF vars, IInv, TypeOK, Numbered, RecentRemembered, SW!Since
  <2> QED BY <2>1, <2>2, <2>3 DEF Next
<1> QED BY <1>1, <1>2, PTL DEF Spec

\* Type correctness of the limiter's table.
THEOREM TypeCorrect == Spec => []TypeOK
<1>1. IInv => TypeOK
  BY DEF IInv
<1> QED BY <1>1, InvariantHolds, PTL

\* No admission that still counts is ever dropped or pruned from the table.
THEOREM NeverForgets == Spec => []RecentRemembered
<1>1. IInv => RecentRemembered
  BY DEF IInv
<1> QED BY <1>1, InvariantHolds, PTL
-----------------------------------------------------------------------------
\* Refinement of the sliding window.

\* Who is not in the table has had no admission in the shorter window.
LEMMA AdmitUnknownRefines ==
  ASSUME IInv, Limit > 0, NEW k \in Keys, AdmitUnknown(k)
  PROVE  SW!Admit(k)
<1>1. PICK t \in SW!Later :
        /\ k \notin tracked \ Forgotten(k[1], t)
        /\ Serve(k, t, {SW!Admission(k)}, "admitted")
        /\ log' = [log EXCEPT ![k] = @ \cup {SW!Admission(k)}]
  BY DEF AdmitUnknown
<1>2. SW!Since(log[k], Window - Lag) = {}
  <2>1. \A a \in log[k] : a.at > clock - (Window - Lag) => a.at > t - Window
    BY Basics
  <2> QED BY <1>1, <2>1, ForgottenIsOld DEF SW!Since
<1>3. SW!Cardinality(SW!Since(log[k], Window - Lag)) < Limit
  BY <1>2, SameCardinality, FS_EmptySet
<1> QED BY <1>1, <1>3 DEF SW!Admit, Serve

\* Who is admitted from the table has room in the shorter window too.
LEMMA AdmitRefines ==
  ASSUME IInv, NEW k \in Keys, Admit(k)
  PROVE  SW!Admit(k)
<1>1. PICK t \in SW!Later :
        /\ Cardinality(Fresh(k)) < Limit
        /\ Serve(k, t, Fresh(k) \cup {SW!Admission(k)}, "admitted")
        /\ log' = [log EXCEPT ![k] = @ \cup {SW!Admission(k)}]
  BY DEF Admit
<1>2. SW!Since(log[k], Window - Lag) \subseteq Fresh(k)
  <2>1. \A a \in log[k] : a.at > clock - (Window - Lag) => a.at > clock - Window
    BY Basics
  <2> QED BY <2>1 DEF SW!Since, Fresh, IInv, RecentRemembered
<1>3. IsFiniteSet(Fresh(k))
  BY FS_Subset DEF Fresh, IInv, RecentRemembered, Numbered
<1>4. Cardinality(SW!Since(log[k], Window - Lag)) < Limit
  <2> DEFINE n == Cardinality(Fresh(k))
             m == Cardinality(SW!Since(log[k], Window - Lag))
  <2>1. m <= n /\ m \in Nat /\ n \in Nat
    BY <1>2, <1>3, FS_Subset, FS_CardinalityType
  <2>2. n < Limit
    BY <1>1
  <2> QED BY <2>1, <2>2, LimiterAssumption
<1> QED BY <1>1, <1>4, SameCardinality DEF SW!Admit, Serve

\* Who is refused has used up the window.
LEMMA RefuseRefines ==
  ASSUME IInv, NEW k \in Keys, Refuse(k)
  PROVE  SW!Refuse(k)
<1>1. PICK t \in SW!Later :
        Cardinality(Fresh(k)) >= Limit /\ Serve(k, t, Fresh(k), "refused") /\ log' = log
  BY DEF Refuse
<1>2. Fresh(k) = SW!Since(log[k], Window)
  BY DEF SW!Since, Fresh, IInv, RecentRemembered
<1> QED BY <1>1, <1>2, SameCardinality DEF SW!Refuse, Serve

\* With a positive limit, the limiter implements the sliding window: no
\* pruning, and no address that is new to the table, lets a request through
\* that the window would refuse, or the other way round.
THEOREM Refinement ==
  ASSUME Limit > 0
  PROVE  Spec => ImplementsSlidingWindow
<1>1. Init => SW!Init
  BY DEF Init, SW!Init
<1>2. IInv /\ [Next]_vars => [SW!Next]_(SW!slidingVars)
  <2> SUFFICES ASSUME IInv, [Next]_vars
               PROVE  [SW!Next]_(SW!slidingVars)
    OBVIOUS
  <2>1. CASE Tick
    BY <2>1 DEF Tick, SW!Tick, SW!Next
  <2>2. ASSUME NEW k \in Keys, AdmitUnknown(k) \/ Admit(k) \/ Refuse(k)
        PROVE  SW!Next
    BY <2>2, AdmitUnknownRefines, AdmitRefines, RefuseRefines DEF SW!Next
  <2>3. CASE UNCHANGED vars
    BY <2>3 DEF vars, SW!slidingVars
  <2> QED BY <2>1, <2>2, <2>3 DEF Next
<1> QED BY <1>1, <1>2, InvariantHolds, PTL DEF Spec, ImplementsSlidingWindow, SW!Spec

-----------------------------------------------------------------------------

\* Time only takes admissions out of a window.
LEMMA WindowShrinks ==
  ASSUME IInv, NEW k \in Keys, NEW t \in Nat, clock <= t, clock' = t,
         log'[k] = log[k], Cardinality(SW!Since(log[k], Window - Lag)) <= Limit
  PROVE  Cardinality(SW!Since(log[k], Window - Lag)') <= Limit
<1> DEFINE old == SW!Since(log[k], Window - Lag)
           new == {a \in log[k] : a.at > t - (Window - Lag)}
<1>1. SW!Since(log[k], Window - Lag)' = new
  BY DEF SW!Since
<1>2. new \subseteq old
  BY LimiterAssumption DEF SW!Since, IInv, TypeOK, Admissions
<1>3. IsFiniteSet(old)
  BY FS_Subset DEF SW!Since, IInv, Numbered
<1>4. Cardinality(new) <= Cardinality(old) /\ Cardinality(new) \in Nat /\ Cardinality(old) \in Nat
  BY <1>2, <1>3, FS_Subset, FS_CardinalityType
<1> HIDE DEF new
<1> QED BY <1>1, <1>4, LimiterAssumption

\* An admission the sliding window allows keeps within the limit.
LEMMA AdmitKeepsLimit ==
  ASSUME IInv, NEW k \in Keys, SW!Admit(k)
  PROVE  Cardinality(SW!Since(log[k], Window - Lag)') <= Limit
<1> DEFINE old == SW!Since(log[k], Window - Lag)
           more == old \cup {SW!Admission(k)}
           new == SW!Since(log[k], Window - Lag)'
<1>1. clock' \in SW!Later /\ log'[k] = log[k] \cup {SW!Admission(k)}
  BY DEF SW!Admit, IInv, TypeOK
<1>2. new \subseteq more
  BY <1>1, Basics DEF SW!Since
<1>3. IsFiniteSet(old)
  BY FS_Subset DEF SW!Since, IInv, Numbered
<1>4. /\ IsFiniteSet(more)
      /\ Cardinality(more) =
           IF SW!Admission(k) \in old THEN Cardinality(old) ELSE Cardinality(old) + 1
  BY <1>3, FS_AddElement
<1>5. Cardinality(old) < Limit
  BY SameCardinality DEF SW!Admit
<1> HIDE DEF new, more, old
<1>6. Cardinality(old) \in Nat /\ Cardinality(more) \in Nat
  BY <1>3, <1>4, FS_CardinalityType
<1>7. Cardinality(new) <= Cardinality(more) /\ Cardinality(new) \in Nat
  BY <1>2, <1>4, <1>6, FS_Subset, FS_CardinalityType
<1>8. Cardinality(new) <= Limit
  BY <1>4, <1>5, <1>6, <1>7, LimiterAssumption
<1> QED BY <1>8 DEF new

\* With a positive limit, no worker admits an address more than Limit times
\* in a window, whatever it has pruned.
THEOREM LimitHolds ==
  ASSUME Limit > 0
  PROVE  Spec => []IpLimitHolds
<1>1. Init => IpLimitHolds
  <2> SUFFICES ASSUME Init, NEW k \in Keys
               PROVE  Cardinality(SW!Since(log[k], Window - Lag)) <= Limit
    BY DEF IpLimitHolds
  <2>1. SW!Since(log[k], Window - Lag) = {}
    BY DEF Init, SW!Since
  <2> QED BY <2>1, FS_EmptySet, LimiterAssumption
<1>2. IInv /\ IpLimitHolds /\ [Next]_vars => IpLimitHolds'
  <2> SUFFICES ASSUME IInv, IpLimitHolds, [Next]_vars, NEW k \in Keys
               PROVE  Cardinality(SW!Since(log[k], Window - Lag)') <= Limit
    BY DEF IpLimitHolds
  <2>1. Cardinality(SW!Since(log[k], Window - Lag)) <= Limit
    BY DEF IpLimitHolds
  <2>2. clock' \in Nat /\ clock <= clock' /\ clock \in Nat
    BY LimiterAssumption
    DEF IInv, TypeOK, Next, Tick, AdmitUnknown, Admit, Refuse, Serve, SW!Later, vars
  <2>3. CASE log'[k] = log[k]
    BY <2>1, <2>2, <2>3, WindowShrinks
  <2>4. CASE log'[k] # log[k]
    <3>1. PICK j \in Keys : AdmitUnknown(j) \/ Admit(j)
      BY <2>4 DEF Next, Tick, Refuse, vars
    <3>2. j = k
      BY <2>4, <3>1 DEF AdmitUnknown, Admit, IInv, TypeOK
    <3> QED BY <3>1, <3>2, AdmitUnknownRefines, AdmitRefines, AdmitKeepsLimit
  <2> QED BY <2>3, <2>4
<1> QED BY <1>1, <1>2, InvariantHolds, PTL DEF Spec
-----------------------------------------------------------------------------
\* The size of the table.

\* A list that is not empty has a last entry, and nothing was pruned in the
\* future.
ListsEnd == \A k \in Keys : stamps[k] # {} => \E a \in stamps[k] : IsLast(a, stamps[k])
PrunedInPast == \A w \in Workers : lastPrune[w] <= clock

TableInv == OnlyRecentTracked /\ ListsEnd /\ PrunedInPast

\* What the window leaves of a list has its last entry, unless it is empty.
LEMMA FreshEnds ==
  ASSUME IInv, TableInv, NEW k \in Keys, Fresh(k) # {}
  PROVE  \E a \in Fresh(k) : IsLast(a, stamps[k])
<1>1. PICK b \in Fresh(k) : b \in stamps[k] /\ b.at > clock - Window
  BY DEF Fresh
<1>2. PICK a \in stamps[k] : IsLast(a, stamps[k])
  BY <1>1 DEF TableInv, ListsEnd
<1>3. a \in log[k] /\ b \in log[k] /\ b.n <= a.n
  BY <1>1, <1>2 DEF IsLast, IInv, RecentRemembered
<1>4. b.at <= a.at
  BY <1>3 DEF IInv, Numbered
<1>5. a.at \in Nat /\ b.at \in Nat /\ clock \in Nat /\ Window \in Nat
  BY <1>3, LimiterAssumption DEF IInv, TypeOK, Admissions
<1> QED BY <1>1, <1>2, <1>4, <1>5 DEF Fresh

\* An admission is the last entry of any part of the log with it.
LEMMA AdmissionEnds ==
  ASSUME IInv, NEW k \in Keys, NEW S \in SUBSET log[k]
  PROVE  /\ SW!Admission(k).at = clock
         /\ IsLast(SW!Admission(k), S \cup {SW!Admission(k)})
<1> DEFINE c == Cardinality(log[k])
<1>1. c \in Nat /\ \A b \in log[k] : b.n \in 1 .. c
  BY FS_CardinalityType DEF IInv, Numbered
<1>2. SW!Admission(k).n = c + 1 /\ SW!Admission(k).at = clock
  BY SameCardinality DEF SW!Admission
<1> QED BY <1>1, <1>2 DEF IsLast

\* A request leaves a table whose entries all have been in use since the
\* window before the latest pruning, provided its own entry is so.
LEMMA ServeKeepsTable ==
  ASSUME IInv, TableInv, NEW k \in Keys, NEW t \in SW!Later, NEW kept, NEW answer,
         Serve(k, t, kept, answer),
         NEW a \in kept, IsLast(a, kept), a.at \in Nat,
         a.at >= clock - Window, PruneDue(k[1], t) => a.at >= t - Window
  PROVE  TableInv'
<1>1. /\ clock \in Nat /\ t \in Nat /\ clock <= t /\ Window \in Nat /\ k[1] \in Workers
      /\ clock' = t
  BY Basics DEF Serve
<1>2. lastPrune \in [Workers -> Nat]
  BY DEF IInv, TypeOK
<1>3. lastPrune' = [lastPrune EXCEPT ![k[1]] = IF PruneDue(k[1], t) THEN t ELSE @]
  BY DEF Serve
<1>4. \A w \in Workers :
        lastPrune'[w] = IF w = k[1] /\ PruneDue(w, t) THEN t ELSE lastPrune[w]
  BY <1>2, <1>3
<1>5. PrunedInPast'
  BY <1>1, <1>2, <1>4 DEF PrunedInPast, TableInv
<1>6. stamps'[k] = kept /\ \A j \in Keys \ {k} :
        stamps'[j] = IF j \in Forgotten(k[1], t) THEN {} ELSE stamps[j]
  BY DEF Serve
<1>7. ListsEnd'
  BY <1>6 DEF ListsEnd, IsLast, TableInv
<1>8. tracked' = (tracked \ Forgotten(k[1], t)) \cup {k} /\ tracked \subseteq Keys
  BY DEF Serve, IInv, TypeOK
<1>9. OnlyRecentTracked'
  <2> SUFFICES ASSUME NEW j \in tracked'
               PROVE  \E b \in stamps'[j] : b.at >= lastPrune'[j[1]] - Window
    BY DEF OnlyRecentTracked
  <2>1. CASE j = k
    <3>1. lastPrune[k[1]] <= clock /\ lastPrune[k[1]] \in Nat
      BY <1>1, <1>2 DEF TableInv, PrunedInPast
    <3>2. a.at >= lastPrune'[k[1]] - Window
      BY <1>1, <1>4, <3>1
    <3> QED BY <2>1, <3>2, <1>6
  <2>2. CASE j # k
    <3>1. j \in tracked /\ j \in Keys /\ j \notin Forgotten(k[1], t) /\ j[1] \in Workers
      BY <1>8, <2>2 DEF Keys
    <3>2. stamps'[j] = stamps[j]
      BY <1>6, <2>2, <3>1
    <3>3. PICK b \in stamps[j] : b.at >= lastPrune[j[1]] - Window
      BY <3>1 DEF TableInv, OnlyRecentTracked
    <3>4. CASE ~ (j[1] = k[1] /\ PruneDue(k[1], t))
      BY <1>4, <3>1, <3>2, <3>3, <3>4
    <3>5. CASE j[1] = k[1] /\ PruneDue(k[1], t)
      <4>1. j \notin Expired(k[1], t)
        BY <3>1, <3>5 DEF Forgotten
      <4>2. PICK c \in stamps[j] : IsLast(c, stamps[j])
        BY <3>1, <3>3 DEF TableInv, ListsEnd
      <4>3. ~ (c.at < t - Window)
        BY <3>1, <3>5, <4>1, <4>2 DEF Expired
      <4>4. c.at \in Nat
        BY <3>1 DEF IInv, TypeOK, Admissions
      <4>5. lastPrune'[j[1]] = t
        BY <1>4, <3>1, <3>5
      <4>6. c.at >= t - Window
        BY <1>1, <4>3, <4>4
      <4> QED BY <3>2, <4>5, <4>6
    <3> QED BY <3>4, <3>5
  <2> QED BY <2>1, <2>2
<1> QED BY <1>5, <1>7, <1>9 DEF TableInv

\* With a positive limit the table does not grow with every address ever seen:
\* a refusal never leaves an empty list behind, and after a pruning only
\* addresses that were admitted since the window before it are left.
THEOREM TableStaysSmall ==
  ASSUME Limit > 0
  PROVE  Spec => []OnlyRecentTracked
<1>1. Init => TableInv
  BY DEF Init, TableInv, OnlyRecentTracked, ListsEnd, PrunedInPast
<1>2. IInv /\ TableInv /\ [Next]_vars => TableInv'
  <2> SUFFICES ASSUME IInv, TableInv, [Next]_vars
               PROVE  TableInv'
    OBVIOUS
  <2>1. CASE Tick
    <3>1. clock \in Nat /\ clock' = clock + 1 /\ lastPrune \in [Workers -> Nat]
      BY <2>1 DEF Tick, IInv, TypeOK
    <3> QED BY <2>1, <3>1
            DEF Tick, TableInv, OnlyRecentTracked, ListsEnd, PrunedInPast, IsLast
  <2>2. ASSUME NEW k \in Keys, AdmitUnknown(k) \/ Admit(k)
        PROVE  TableInv'
    <3> DEFINE new == SW!Admission(k)
    <3>1. PICK t \in SW!Later, S \in SUBSET log[k] : Serve(k, t, S \cup {new}, "admitted")
      <4>1. CASE AdmitUnknown(k)
        <5>1. PICK t \in SW!Later : Serve(k, t, {new}, "admitted")
          BY <4>1 DEF AdmitUnknown
        <5>2. {new} = {} \cup {new}
          OBVIOUS
        <5> QED BY <5>1, <5>2
      <4>2. CASE Admit(k)
        <5>1. Fresh(k) \subseteq log[k]
          BY DEF Fresh, IInv, RecentRemembered
        <5> QED BY <4>2, <5>1 DEF Admit
      <4> QED BY <2>2, <4>1, <4>2
    <3>2. new.at = clock /\ IsLast(new, S \cup {new})
      BY AdmissionEnds
    <3>3. /\ clock \in Nat /\ t \in Nat /\ Window \in Nat /\ Lag \in 0 .. Window
          /\ t <= clock + Lag
      BY Basics, LimiterAssumption
    <3>4. new.at >= clock - Window /\ new.at >= t - Window
      BY <3>2, <3>3
    <3> HIDE DEF new
    <3>5. new \in S \cup {new} /\ new.at \in Nat
      BY <3>2, <3>3
    <3> QED BY <3>1, <3>2, <3>4, <3>5, ServeKeepsTable
  <2>3. ASSUME NEW k \in Keys, Refuse(k)
        PROVE  TableInv'
    <3>1. PICK t \in SW!Later :
            /\ k \in tracked \ Forgotten(k[1], t)
            /\ Cardinality(Fresh(k)) >= Limit
            /\ Serve(k, t, Fresh(k), "refused")
      BY <2>3 DEF Refuse
    <3>2. Fresh(k) # {}
      BY <3>1, FS_EmptySet, LimiterAssumption
    <3>3. PICK a \in Fresh(k) : IsLast(a, stamps[k])
      BY <3>2, FreshEnds
    <3>4. IsLast(a, Fresh(k)) /\ a \in stamps[k] /\ a.at > clock - Window
      BY <3>3 DEF IsLast, Fresh
    <3>5. a.at \in Nat /\ clock \in Nat /\ t \in Nat /\ Window \in Nat
      BY <3>4, Basics
    <3>6. PruneDue(k[1], t) => a.at >= t - Window
      <4>1. PruneDue(k[1], t) => ~ (a.at < t - Window)
        BY <3>1, <3>3, <3>4 DEF Forgotten, Expired
      <4> QED BY <3>5, <4>1
    <3>7. a.at >= clock - Window
      BY <3>4, <3>5
    <3> QED BY <3>1, <3>3, <3>4, <3>5, <3>6, <3>7, ServeKeepsTable
  <2>4. CASE UNCHANGED vars
    BY <2>4 DEF vars, TableInv, OnlyRecentTracked, ListsEnd, PrunedInPast, IsLast
  <2> QED BY <2>1, <2>2, <2>3, <2>4 DEF Next
<1>3. TableInv => OnlyRecentTracked
  BY DEF TableInv
<1> QED BY <1>1, <1>2, <1>3, InvariantHolds, PTL DEF Spec
=============================================================================
