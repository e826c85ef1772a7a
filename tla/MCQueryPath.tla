----------------------------- MODULE MCQueryPath -----------------------------
(***************************************************************************)
(* Instances of QueryPath for TLC: every call belongs to session s1, but   *)
(* for q3, which belongs to s2 where there are two sessions.               *)
(***************************************************************************)
EXTENDS QueryPath, TLC

CONSTANTS q3, s1, s2

MCSessionOf == [r \in Requests |-> IF r = q3 /\ s2 \in Sessions THEN s2 ELSE s1]

\* Calls of one session are interchangeable: no definition tells them apart.
OfOneSession == Permutations({r \in Requests : MCSessionOf[r] = s1})
=============================================================================
