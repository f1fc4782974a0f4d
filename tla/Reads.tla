--------------------------------- MODULE Reads ---------------------------------
(***************************************************************************)
(* The read side of the HTTP API: the history of a sensor (History) and the *)
(* pages and details of the twins (TwinReads), seen by one client that has  *)
(* one request in progress at a time, while batches are stored, entities    *)
(* provisioned and roles changed around it.                                 *)
(*                                                                          *)
(* A client either reads history or twins.  The two kinds of request share  *)
(* the roles and the deadline and no other state, so only what a request of *)
(* the client's kind can observe changes around it.                         *)
(***************************************************************************)
EXTENDS History, TwinReads

VARIABLE client     \* the kind of requests the client makes

readsVars == <<accessVars, historyVars, twinVars, client>>

ReadsInit == AccessInit /\ HistoryInit /\ TwinInit /\ client \in {"history", "twins"}

NoRequest == read = Idle /\ req = Quiet

Ask ==
    \/ client = "history" /\ \E q \in HistoryRequests : AskHistory(q)
    \/ /\ client = "twins"
       /\ \/ \E kind \in {"list", "relationships", "inventory"} :
                \E f \in WalkFilters(kind), n \in Limits : StartWalk(kind, f, n)
          \/ walk # NoWalk /\ \E f \in WalkFilters(walk.kind), n \in Limits : AskPage(f, n)
          \/ \E e \in Entities : AskDetail(e) \/ AskState(e)

Answering ==
    IF client = "history" THEN ResolveHistory \/ ReadRaw \/ ReadBuckets \/ CloseHistory
    ELSE \/ ResolveSource \/ PlatformAdminMiddleware \/ CheckAdmin \/ SendPage
         \/ PrepareDetail \/ GetDetail \/ PrepareState \/ GetState
         \/ CloseTwin

\* What other requests and the broker do meanwhile.
Elsewhere ==
    IF client = "history" THEN \E w \in Rows : StoreRow(w)
    ELSE (\E e \in Entities : ProvisionTwin(e)) \/ SetAdmin

\* The caller's roles change, and the deadline of a request passes.
Observed == IF client = "history" THEN {Gateway} ELSE Gateways
RolesAndTime ==
    \/ \E g \in Observed : GainRole(g) /\ UNCHANGED <<historyVars, twinVars>>
    \/ \E g \in Observed : LoseRole(g) /\ Forget(g) /\ UNCHANGED <<historyVars, present, admin, req>>
    \/ ~NoRequest /\ Expire /\ UNCHANGED <<historyVars, twinVars>>

ReadsNext ==
    /\ \/ Ask \/ Answering \/ Elsewhere
       \/ RolesAndTime
    /\ client' = client
    /\ IF client = "history" THEN UNCHANGED twinVars ELSE UNCHANGED historyVars

ReadsSpec == ReadsInit /\ [][ReadsNext]_readsVars

-----------------------------------------------------------------------------
\* A request about one gateway is answered by the caller's role at its last
\* statement, not by the one it was resolved with: data needs the role then, and
\* "not found" is never said to a caller who has it.
AnswersFollowMembership ==
    [][/\ (read.phase \in {"query", "fallback"} /\ read'.phase = "done") =>
            /\ read'.outcome = "ok" => Gateway \in members
            /\ read'.outcome = "not_found" => Gateway \notin members
       /\ (req.phase \in {"detail", "state"} /\ req'.phase = "done") =>
            /\ req'.outcome = "ok" => GatewayOf[req.entity] \in members
            /\ req'.outcome = "not_found" => GatewayOf[req.entity] \notin members
       /\ (req.phase = "page" /\ req.kind = "relationships" /\ req'.phase = "done") =>
            /\ req'.outcome = "ok" => req.filter.gateway \in members
            /\ req'.outcome = "not_found" => req.filter.gateway \notin members]_readsVars
=============================================================================
