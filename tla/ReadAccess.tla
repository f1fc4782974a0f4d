------------------------------ MODULE ReadAccess ------------------------------
(***************************************************************************)
(* What every read of the HTTP API shares: the gateways on which the caller *)
(* holds a role at this moment (rows of public.user_gateways), and the one  *)
(* deadline of the request in progress (context.WithTimeout in the prepare  *)
(* functions).  Roles are given and taken by other requests at any time,    *)
(* between any two statements of a read.                                    *)
(***************************************************************************)
EXTENDS Integers, Sequences, FiniteSets

CONSTANT Gateways

VARIABLES
    members,    \* gateways on which the caller has a user_gateways row
    expired     \* the context of the request in progress has ended

accessVars == <<members, expired>>

AccessInit == members \in SUBSET Gateways /\ expired = FALSE

\* JOIN public.user_gateways ug ON ug.gateway_id = ... AND ug.user_id = $actor
Authorized(g) == g \in members

\* ORDER BY: the elements of S in the order R, a set of pairs <<y, x>> in which
\* y does not come after x.
OrderBy(S, R) ==
    [k \in 1..Cardinality(S) |->
        CHOOSE x \in S : Cardinality({y \in S : <<y, x>> \in R}) = k]
Ascending(S) == {p \in S \X S : p[1] <= p[2]}
\* LIMIT n
Limit(s, n) == SubSeq(s, 1, IF Len(s) < n THEN Len(s) ELSE n)

\* Another request assigns the caller to a gateway, or removes them from it.
GainRole(g) == g \notin members /\ members' = members \cup {g} /\ UNCHANGED expired
LoseRole(g) == g \in members /\ members' = members \ {g} /\ UNCHANGED expired

\* The query timeout runs out, or the client hangs up.
Expire == ~expired /\ expired' = TRUE /\ UNCHANGED members
=============================================================================
