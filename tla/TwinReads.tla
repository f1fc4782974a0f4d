------------------------------- MODULE TwinReads -------------------------------
(***************************************************************************)
(* The paged and the single-entity reads of the HTTP API: the list of       *)
(* digital twins, the sensors of a gateway (the relationship page of its    *)
(* detail), the detail of a sensor, the state of a twin, and the            *)
(* administrator's inventory of gateways.                                   *)
(*                                                                          *)
(* A page is one statement: the first limit + 1 rows after the cursor, in C *)
(* collation.  A client walks the pages by following the next link, with    *)
(* any limit, and repeats a page that failed.  Entities are provisioned and *)
(* roles change between the pages.  Nothing in the program deletes an       *)
(* entity.                                                                  *)
(***************************************************************************)
EXTENDS ReadAccess, Functions

CONSTANTS
    Entities,       \* entity identifiers, numbered in C collation order
    GatewayOf,      \* entity -> the gateway it belongs to
    TypeOf,         \* entity -> "Gateway" or "Sensor"
    Existing,       \* the entities provisioned before the first read
    Filters,        \* the list filters clients use: [gateway, type]
    Limits,         \* the page limits clients ask for
    MaxLimit,       \* cfg: the largest page limit
    Absent             \* no filter; no cursor; no request

VARIABLES
    present,    \* provisioned entities
    admin,      \* the caller is a platform administrator
    walk,       \* what the client has of the pages it is walking through
    req         \* the request in progress

twinVars == <<present, admin, walk, req>>

ASSUME TwinAssumption ==
    /\ Entities \subseteq Nat /\ IsFiniteSet(Entities) /\ Existing \subseteq Entities
    /\ \A e \in Entities : GatewayOf[e] \in Gateways /\ TypeOf[e] \in {"Gateway", "Sensor"}
    /\ \A e \in Existing : \E p \in Existing :
            TypeOf[p] = "Gateway" /\ GatewayOf[p] = GatewayOf[e]
    /\ \A f \in Filters : f.gateway \in Gateways \cup {Absent}
                            /\ f.type \in {"Gateway", "Sensor", Absent}
    /\ Limits \subseteq Nat /\ MaxLimit \in Nat \ {0}
    /\ Absent \notin [key : Entities,
                     filter : Filters \cup [gateway : Gateways, type : {"Sensor"}] \cup {Absent}]

Quiet == [phase |-> "idle"]
NoWalk == [kind |-> "none"]

TwinInit ==
    /\ present = Existing
    /\ admin \in BOOLEAN
    /\ walk = NoWalk
    /\ req = Quiet

-----------------------------------------------------------------------------
\* WHERE e.gateway_id = ... AND e.entity_type = ...
Selected(f) ==
    {e \in Entities : f.gateway \in {Absent, GatewayOf[e]} /\ f.type \in {Absent, TypeOf[e]}}
\* The rows a walk runs over.  The inventory reads public.gateways without
\* regard to membership; the other two join public.user_gateways.
Visible(kind, f) ==
    {e \in Selected(f) \cap present : kind = "inventory" \/ Authorized(GatewayOf[e])}

\* The filters that a walk of this kind may have.
WalkFilters(kind) ==
    CASE kind = "list" -> Filters
      [] kind = "relationships" -> [gateway : Gateways, type : {"Sensor"}]
      [] OTHER -> {[gateway |-> Absent, type |-> "Gateway"]}

\* The cursor of a next link: the last key of the page, with the filters it was
\* made under (list) or the source gateway (relationships); a bare key in the
\* inventory.  The encoding is versioned, canonical JSON: it loses nothing.
EncodeListCursor(f, key) == [key |-> key, filter |-> f]
EncodeRelationshipCursor(f, key) == [key |-> key, filter |-> f]

\* The cursor must have been made under the filters of the request it comes with.
ValidateListCursor(c, f) == c.filter = f /\ c.key \in Selected(f)
DecodeRelationshipCursor(c) ==
    TypeOf[c.key] = "Sensor" /\ GatewayOf[c.key] = c.filter.gateway
ValidateRelationshipCursor(c, f) == DecodeRelationshipCursor(c) /\ c.filter.gateway = f.gateway

\* ORDER BY ... COLLATE "C" LIMIT limit + 1
After(S, c) == {e \in S : c = Absent \/ e > c.key}
Fetch(S, c, n) == Limit(OrderBy(After(S, c), Ascending(After(S, c))), n)

\* The page and its next cursor.
NextCursor(kind, f, key) ==
    CASE kind = "list" -> EncodeListCursor(f, key)
      [] kind = "relationships" -> EncodeRelationshipCursor(f, key)
      [] OTHER -> [key |-> key, filter |-> Absent]
Page(kind, f, fetched, limit) ==
    IF Len(fetched) > limit
    THEN [items |-> SubSeq(fetched, 1, limit), next |-> NextCursor(kind, f, fetched[limit])]
    ELSE [items |-> fetched, next |-> Absent]
MutReadPage(r) == Page(r.kind, r.filter, Fetch(Visible(r.kind, r.filter), r.after, r.limit), r.limit)
ReadPage(r) == Page(r.kind, r.filter, Fetch(Visible(r.kind, r.filter), r.after, r.limit + 1), r.limit)

-----------------------------------------------------------------------------
\* Requests for pages.  The client starts a walk, or follows the next link; it
\* may also present the cursor together with other filters, which is refused.
ParsePage(limit, validCursor) ==
    IF limit \notin 1..MaxLimit THEN "invalid_request"
    ELSE IF ~validCursor THEN "invalid_cursor"
    ELSE "ok"
ParseTwinListQuery(f, limit, c) == ParsePage(limit, c = Absent \/ ValidateListCursor(c, f))
ParseTwinDetailQuery(f, limit, c) ==
    ParsePage(limit, c = Absent \/ ValidateRelationshipCursor(c, f))
listAdminGateways(limit) == ParsePage(limit, TRUE)
Refused(kind, f, limit, c) ==
    CASE kind = "list" -> ParseTwinListQuery(f, limit, c)
      [] kind = "relationships" -> ParseTwinDetailQuery(f, limit, c)
      [] OTHER -> listAdminGateways(limit)

\* An inventory request passes the middleware before its handler parses it.
FirstPhase(kind, refusal) ==
    CASE kind = "inventory" -> "middleware"
      [] kind # "inventory" /\ refusal # "ok" -> "done"
      [] kind = "list" /\ refusal = "ok" -> "page"
      [] kind = "relationships" /\ refusal = "ok" -> "resolve"

Request(kind, f, limit, c) ==
    LET refusal == Refused(kind, f, limit, c) IN
    req' = [phase |-> FirstPhase(kind, refusal), kind |-> kind, filter |-> f,
            limit |-> limit, after |-> c, outcome |-> refusal]

StartWalk(kind, f, limit) ==
    /\ req = Quiet
    /\ f \in WalkFilters(kind)
    /\ walk' = [kind |-> kind, filter |-> f, next |-> Absent, seen |-> <<>>,
                over |-> FALSE, throughout |-> Visible(kind, f)]
    /\ Request(kind, f, limit, Absent)
    /\ expired' = FALSE
    /\ UNCHANGED <<members, present, admin>>

AskPage(f, limit) ==
    /\ req = Quiet
    /\ walk # NoWalk /\ ~walk.over
    /\ f \in WalkFilters(walk.kind)
    /\ f = walk.filter \/ walk.next # Absent
    /\ Request(walk.kind, f, limit, walk.next)
    /\ expired' = FALSE
    /\ UNCHANGED <<members, present, admin, walk>>

End(outcome) == req' = [req EXCEPT !.phase = "done", !.outcome = outcome]

\* ResolveEntity of the source gateway of a relationship page.
ResolveEntity(e) == e \in present /\ Authorized(GatewayOf[e])
SourceOf(f) == {e \in Entities : TypeOf[e] = "Gateway" /\ GatewayOf[e] = f.gateway}
ResolveSource ==
    /\ req.phase = "resolve" /\ req.kind = "relationships"
    /\ IF expired THEN End("service_unavailable")
       ELSE IF ~\E e \in SourceOf(req.filter) : ResolveEntity(e) THEN End("not_found")
       ELSE req' = [req EXCEPT !.phase = "page"]
    /\ UNCHANGED <<accessVars, present, admin, walk>>

\* The middleware of the admin routes looks the role up, with a timer of its own;
\* then the handler parses.
PlatformAdminMiddleware ==
    /\ req.phase = "middleware"
    /\ IF expired THEN End("service_unavailable")
       ELSE IF ~admin THEN End("forbidden")
       ELSE req' = [req EXCEPT !.phase = IF req.outcome = "ok" THEN "admin" ELSE "done"]
    /\ UNCHANGED <<accessVars, present, admin, walk>>

\* ListAdminGateways asks for the role again, in a statement of its own.
CheckAdmin ==
    /\ req.phase = "admin"
    /\ IF expired THEN End("service_unavailable")
       ELSE IF ~admin THEN End("forbidden")
       ELSE req' = [req EXCEPT !.phase = "page"]
    /\ UNCHANGED <<accessVars, present, admin, walk>>

\* The statement of the page.  getGatewayDetail checks the membership again;
\* a list without any authorized gateway is an empty page.
SendPage ==
    /\ req.phase = "page"
    /\ LET page == ReadPage(req) IN
       IF expired THEN End("service_unavailable") /\ UNCHANGED walk
       ELSE IF req.kind = "relationships" /\ ~Authorized(req.filter.gateway)
       THEN End("not_found") /\ UNCHANGED walk
       ELSE /\ End("ok")
            /\ walk' = [walk EXCEPT !.seen = @ \o page.items, !.next = page.next,
                                    !.over = page.next = Absent]
    /\ UNCHANGED <<accessVars, present, admin>>

-----------------------------------------------------------------------------
\* The detail of a sensor is two calls of the service, GetTwinDetail and
\* GetTwinState, under one deadline; each resolves the entity and then reads it.
AskEntity(route, e) ==
    /\ req = Quiet
    /\ req' = [phase |-> "resolve", kind |-> route, entity |-> e, outcome |-> "ok"]
    /\ expired' = FALSE
    /\ UNCHANGED <<members, present, admin, walk>>
AskDetail(e) == TypeOf[e] = "Sensor" /\ AskEntity("detail", e)
\* The state alone: /state, and the detail with format=simplified.
AskState(e) == AskEntity("state", e)

\* One statement of the two calls.  Every one of them joins user_gateways.
MutReadEntity(e) == e \in present
ReadEntity(e) == ResolveEntity(e)
Stage(from, to, found) ==
    /\ req.phase = from /\ req.kind \in {"detail", "state"}
    /\ IF expired THEN End("service_unavailable")
       ELSE IF ~found THEN End("not_found")
       ELSE req' = [req EXCEPT !.phase = to]
    /\ UNCHANGED <<accessVars, present, admin, walk>>
PrepareDetail ==
    Stage("resolve", IF req.kind = "detail" THEN "detail" ELSE "state", ResolveEntity(req.entity))
GetDetail == Stage("detail", "resolve_state", ReadEntity(req.entity))
PrepareState == Stage("resolve_state", "state", ResolveEntity(req.entity))
GetState == Stage("state", "done", ReadEntity(req.entity))

CloseTwin == req.phase = "done" /\ req' = Quiet /\ UNCHANGED <<accessVars, present, admin, walk>>

-----------------------------------------------------------------------------
\* Other requests: a gateway or a sensor is provisioned with its twin, its state
\* and its relationship in one transaction; the caller's role changes.
ProvisionTwin(e) ==
    /\ e \in Entities \ present
    /\ TypeOf[e] = "Sensor" => SourceOf([gateway |-> GatewayOf[e]]) \cap present # {}
    /\ present' = present \cup {e}
    /\ UNCHANGED <<accessVars, admin, walk, req>>

SetAdmin == admin' = ~admin /\ UNCHANGED <<accessVars, present, walk, req>>

\* The client no longer sees the entities of a gateway it lost.
Forget(g) ==
    walk' = IF walk.kind \in {"none", "inventory"} THEN walk
            ELSE [walk EXCEPT !.throughout = {e \in @ : GatewayOf[e] # g}]

-----------------------------------------------------------------------------
\* A walk that came to its end has shown every entity that was there and visible
\* from its first request to its last, each exactly once and in order, whatever
\* was provisioned, granted or taken away meanwhile, whatever limits the pages
\* had, and although failed pages were asked for again.
WalkIsComplete ==
    walk # NoWalk =>
        /\ \A i \in 1..Len(walk.seen) - 1 : walk.seen[i] < walk.seen[i + 1]
        /\ Range(walk.seen) \subseteq Selected(walk.filter)
        /\ walk.over => walk.throughout \subseteq Range(walk.seen)
=============================================================================
