------------------------------- MODULE Registry -------------------------------
(***************************************************************************)
(* The registry of one gateway in PostgreSQL: who administers the platform, *)
(* who is a member of the gateway, the gateway and its sensors, and the     *)
(* digital-twin graph that mirrors them.  The transactions that change it   *)
(* (provisioning, metadata patches, membership and platform-role changes,   *)
(* account creation) run concurrently with each other and with the storing  *)
(* of telemetry, under READ COMMITTED and row locks.                        *)
(*                                                                          *)
(* One action is one SQL statement: it waits for the row locks it takes,    *)
(* reads the rows as last committed, and decides.  A transaction's writes   *)
(* become visible at its commit, together.  Units, descriptions of sensors, *)
(* full names and timestamps that no guard reads are left out.              *)
(***************************************************************************)
EXTENDS Naturals

CONSTANTS
    Users,            \* user identifiers
    Sensors,          \* sensor identifiers of the gateway
    Names,            \* names and descriptions
    Procs,            \* database sessions
    Requests,         \* the requests that may arrive (records with a field kind)
    Admins,           \* the platform administrators at the start
    Owner,            \* the owner of a gateway that exists at the start
    OldName,          \* the name of every entity that exists at the start
    MaxTransactions,  \* bound on the number of requests served
    None              \* no row, or a value that is not supplied

VARIABLES
    profiles,     \* set of users with an account
    admins,       \* table platform_admins
    members,      \* table user_gateways: Users -> role or "none"
    gateway,      \* row of gateways, or None
    gatewayTwin,  \* row of twin_entities for the gateway, or None
    sensors,      \* Sensors -> name or None
    twins,        \* Sensors -> row of twin_entities or None
    locks,        \* row locks held: set of [proc, row, mode]
    tx,           \* Procs -> the transaction of the session
    now,          \* the database clock
    begun         \* requests served so far

tables == <<profiles, admins, members, gateway, gatewayTwin, sensors, twins>>
vars == <<profiles, admins, members, gateway, gatewayTwin, sensors, twins,
          locks, tx, now, begun>>

-----------------------------------------------------------------------------
\* The requests the services let through to the database.
ProvisionGatewayRequests ==
    [kind : {"provision_gateway"}, actor : Users, owner : Users, name : Names,
     desc : Names \cup {None}]
ProvisionSensorRequests ==
    [kind : {"provision_sensor"}, route : {"admin", "owner", "either"}, actor : Users,
     sensor : Sensors, name : Names]
\* A patch of nothing is refused; a sensor patch always names.
PatchGatewayRequests ==
    {r \in [kind : {"patch_gateway"}, actor : Users, name : Names \cup {None},
            desc : Names \cup {None}] : r.name # None \/ r.desc # None}
PatchSensorRequests ==
    [kind : {"patch_sensor"}, actor : Users, sensor : Sensors, name : Names]
UpdateUserRequests ==
    [kind : {"update_user"}, actor : Users, target : Users, role : {"platform_admin", "user"}]
\* Ownership is never assigned, only transferred.
AssignRequests ==
    [kind : {"assign"}, actor : Users, target : Users, role : {"operator", "viewer"}]
RemoveRequests == [kind : {"remove"}, actor : Users, target : Users]
TransferRequests == [kind : {"transfer"}, actor : Users, target : Users]
CreateUserRequests == [kind : {"create_user"}, actor : Users, target : Users]
PersistRequests == [kind : {"persist"}, sensor : Sensors]

ASSUME RequestsAssumption ==
    Requests \subseteq UNION {
        ProvisionGatewayRequests, ProvisionSensorRequests, PatchGatewayRequests,
        PatchSensorRequests, UpdateUserRequests, AssignRequests, RemoveRequests,
        TransferRequests, CreateUserRequests, PersistRequests}

ASSUME NamesAssumption ==
    /\ Owner \in Users /\ OldName \in Names
    /\ None \notin Names
    /\ None \notin [name : Names, desc : Names \cup {None}]
    /\ None \notin [name : Names, at : Nat]

Idle(answer) ==
    [pc |-> "idle", req |-> None, admin |-> FALSE, name |-> None, desc |-> None,
     sensor |-> None, write |-> FALSE, stamp |-> 0, answer |-> answer]

Init ==
    /\ profiles = Admins \cup {Owner}
    /\ admins = Admins
    /\ \E exists \in BOOLEAN, there \in SUBSET Sensors :
        /\ there # {} => exists
        /\ members = [u \in Users |-> IF exists /\ u = Owner THEN "owner" ELSE "none"]
        /\ gateway = IF exists THEN [name |-> OldName, desc |-> None] ELSE None
        /\ gatewayTwin = IF exists THEN [name |-> OldName, at |-> 0] ELSE None
        /\ sensors = [s \in Sensors |-> IF s \in there THEN OldName ELSE None]
        /\ twins = [s \in Sensors |->
                        IF s \in there THEN [name |-> OldName, at |-> 0] ELSE None]
    /\ locks = {}
    /\ tx = [p \in Procs |-> Idle("none")]
    /\ now = 1
    /\ begun = 0

-----------------------------------------------------------------------------
\* Row locks.  KeyShare is what a foreign key takes on the row it refers to,
\* Share and Update are FOR SHARE and FOR UPDATE; an uncommitted INSERT keeps
\* a second INSERT of the same key waiting like an Update lock.
Conflicts(a, b) ==
    {a, b} \in {{"Update"}, {"Update", "Share"}, {"Update", "KeyShare"}}

GatewayRow == <<"gateway">>
GatewayTwinRow == <<"gateway twin">>
Exists(row) ==
    CASE row = GatewayRow -> gateway # None
      [] row = GatewayTwinRow -> gatewayTwin # None
      [] row[1] = "sensor" -> sensors[row[2]] # None
      [] row[1] = "twin" -> twins[row[2]] # None
      [] row[1] = "member" -> members[row[2]] # "none"
      [] row[1] = "profile" -> row[2] \in profiles
      [] row[1] = "admin" -> row[2] \in admins

\* A SELECT locks only rows it finds, an INSERT only a key nobody has.
Select(row, mode) == IF Exists(row) THEN {<<row, mode>>} ELSE {}
InsertOf(row) == IF Exists(row) THEN {} ELSE {<<row, "Update">>}

Owners == {u \in Users : members[u] = "owner"}
\* A count of one.
ExactlyOne(S) == \E u \in S : S = {u}

\* How the gateway row is locked.  The admin-or-owner route and the sensor
\* patch take FOR SHARE because telemetry refers to the gateway while it holds
\* a sensor row; everything that changes the gateway or its members excludes
\* all others.
MutExclusive(r) == "Update"
MutShared(r) == "Share"
GatewayMode(r) ==
    IF r.kind = "patch_sensor" \/ (r.kind = "provision_sensor" /\ r.route = "either")
    THEN "Share" ELSE "Update"

\* The row locks each statement of each transaction takes, in their order.
ProvisionGatewayLocks(pc, r) ==
    CASE pc = "claim" -> InsertOf(GatewayRow)
      [] pc = "own" -> Select(<<"profile", r.owner>>, "KeyShare")
      [] pc = "verify" -> Select(GatewayRow, "Update")
      [] OTHER -> {}

ProvisionSensorLocks(pc, r) ==
    CASE pc = "gateway" -> Select(GatewayRow, GatewayMode(r))
      [] pc = "member" -> Select(<<"member", r.actor>>, "Share")
      [] OTHER -> {}

SensorGraphLocks(pc, r) ==
    CASE pc = "insert" -> InsertOf(<<"sensor", r.sensor>>)
      [] pc = "relate" -> Select(GatewayTwinRow, "KeyShare")
      [] pc = "sensor" -> Select(<<"sensor", r.sensor>>, "Update")
      [] OTHER -> {}

PatchGatewayLocks(pc, r) ==
    CASE pc = "gateway" -> Select(GatewayRow, GatewayMode(r))
      [] pc = "twin" -> Select(GatewayTwinRow, "Update")
      [] OTHER -> {}

PatchSensorLocks(pc, r) ==
    CASE pc = "gateway" -> Select(GatewayRow, GatewayMode(r))
      [] pc = "member" -> Select(<<"member", r.actor>>, "Share")
      [] pc = "sensor" -> Select(<<"sensor", r.sensor>>, "Update")
      [] pc = "twin" -> Select(<<"twin", r.sensor>>, "Update")
      [] OTHER -> {}

\* The granted_by column refers to the account of the administrator who grants.
UpdateUserLocks(pc, r) ==
    CASE pc = "profile" -> Select(<<"profile", r.target>>, "Update")
      [] pc = "grant" /\ r.target \notin admins ->
            InsertOf(<<"admin", r.target>>) \cup Select(<<"profile", r.actor>>, "KeyShare")
      [] pc = "demote" -> Select(<<"admin", r.target>>, "Update")
      [] OTHER -> {}

\* Inserting a membership takes the account it refers to.
MembershipLocks(pc, r) ==
    CASE pc = "gateway" -> Select(GatewayRow, GatewayMode(r))
      [] pc = "member" -> Select(<<"member", r.target>>, "Update")
      [] pc = "enrol" ->
            InsertOf(<<"member", r.target>>) \cup Select(<<"profile", r.target>>, "KeyShare")
      [] OTHER -> {}

TransferLocks(pc, r) ==
    CASE pc = "owners" -> UNION {Select(<<"member", u>>, "Update") : u \in Owners}
      [] pc = "promote" -> Select(<<"member", r.target>>, "Update")
      [] OTHER -> MembershipLocks(pc, r)

\* The ledger row refers to the gateway, the temporal value to the twin.
PersistLocks(pc, r) ==
    CASE pc = "sensor" -> Select(<<"sensor", r.sensor>>, "Update")
      [] pc = "ledger" -> Select(GatewayRow, "KeyShare")
      [] pc = "temporal" -> Select(<<"twin", r.sensor>>, "KeyShare")
      [] OTHER -> {}

\* The row locks the next statement of a session takes.
Wants(p) ==
    LET pc == tx[p].pc
        r == tx[p].req
    IN IF pc = "idle" THEN {}
       ELSE CASE r.kind = "provision_gateway" -> ProvisionGatewayLocks(pc, r)
              [] r.kind = "provision_sensor" ->
                    ProvisionSensorLocks(pc, r) \cup SensorGraphLocks(pc, r)
              [] r.kind = "patch_gateway" -> PatchGatewayLocks(pc, r)
              [] r.kind = "patch_sensor" -> PatchSensorLocks(pc, r)
              [] r.kind = "update_user" -> UpdateUserLocks(pc, r)
              [] r.kind \in {"assign", "remove"} -> MembershipLocks(pc, r)
              [] r.kind = "transfer" -> TransferLocks(pc, r)
              [] r.kind = "persist" -> PersistLocks(pc, r)
              [] OTHER -> {}

\* The sessions whose locks the next statement of p has to wait for.
WaitsFor(p) ==
    {l.proc : l \in {m \in locks :
        /\ m.proc # p
        /\ \E w \in Wants(p) : w[1] = m.row /\ Conflicts(w[2], m.mode)}}

-----------------------------------------------------------------------------
\* Begin a request.  Only an owner-route provisioning and the storing of
\* telemetry ask nothing about the platform role.
Begin(p, r) ==
    /\ tx[p].pc = "idle"
    /\ begun < MaxTransactions
    /\ begun' = begun + 1
    /\ tx' = [tx EXCEPT ![p] = [Idle("none") EXCEPT
            !.req = r, !.stamp = now,
            !.pc = CASE r.kind = "persist" -> "sensor"
                     [] r.kind = "provision_sensor" /\ r.route = "owner" -> "gateway"
                     [] OTHER -> "check"]]
    /\ UNCHANGED <<tables, locks, now>>

\* End the transaction of p: its locks go.
Ends(p, answer) ==
    /\ tx' = [tx EXCEPT ![p] = Idle(answer)]
    /\ locks' = {l \in locks : l.proc # p}
    /\ UNCHANGED <<tables, now, begun>>

\* Run the statement at pc: take its locks once nobody stands in the way.
At(p, pc) == tx[p].pc = pc /\ WaitsFor(p) = {}

Continue(p, t) ==
    /\ tx' = [tx EXCEPT ![p] = t]
    /\ locks' = locks \cup {[proc |-> p, row |-> w[1], mode |-> w[2]] : w \in Wants(p)}
    /\ UNCHANGED <<tables, now, begun>>

To(p, pc) == [tx[p] EXCEPT !.pc = pc]

\* Either the statement found what it needs and the transaction goes on, or
\* the transaction is rolled back with this answer.
Require(p, condition, answer, t) ==
    IF condition THEN Continue(p, t) ELSE Ends(p, answer)

-----------------------------------------------------------------------------
\* The platform-role lookup; it takes no lock.  Two routes go on without the
\* role and ask for ownership instead.
Check(p) ==
    LET r == tx[p].req
        isAdmin == r.actor \in admins
        ownerMay == r.kind = "patch_sensor" \/ (r.kind = "provision_sensor" /\ r.route = "either")
    IN /\ At(p, "check")
       /\ Require(p, isAdmin \/ ownerMay, "forbidden",
            [tx[p] EXCEPT !.admin = isAdmin,
                !.pc = CASE r.kind = "provision_gateway" -> "known owner"
                         [] r.kind = "update_user" -> "profile"
                         [] r.kind = "create_user" -> "provider"
                         [] OTHER -> "gateway"])

\* Lock the gateway and read its metadata.
LockGateway(p) ==
    LET r == tx[p].req
        asOwner == ~tx[p].admin /\ ~(r.kind = "provision_sensor" /\ r.route = "admin")
    IN /\ At(p, "gateway")
       /\ IF gateway = None THEN Ends(p, "not_found")
          ELSE Continue(p, [tx[p] EXCEPT
                !.name = gateway.name, !.desc = gateway.desc,
                !.pc = CASE r.kind = "provision_sensor" -> IF asOwner THEN "member" ELSE "parent"
                         [] r.kind = "patch_sensor" -> IF asOwner THEN "member" ELSE "sensor"
                         [] r.kind = "patch_gateway" -> "twin"
                         [] r.kind = "remove" -> "member"
                         [] OTHER -> "known target"])

\* Does the account exist to which a membership is given?  No lock: accounts
\* are never removed.
KnownTarget(p) ==
    /\ At(p, "known target")
    /\ Require(p, tx[p].req.target \in profiles, "not_found",
               To(p, IF tx[p].req.kind = "assign" THEN "member" ELSE "owners"))

\* The membership the caller acts on: must be the owner's own for the sensor
\* routes, must not be the owner's for a change of role.
MutAnyMember(p) ==
    LET r == tx[p].req
    IN /\ At(p, "member")
       /\ CASE r.kind \in {"provision_sensor", "patch_sensor"} ->
                Require(p, members[r.actor] # "none", "forbidden",
                        To(p, IF r.kind = "patch_sensor" THEN "sensor" ELSE "parent"))
            [] r.kind = "assign" ->
                Require(p, members[r.target] # "owner", "owner_transfer_required",
                        IF members[r.target] = "none" THEN To(p, "enrol")
                        ELSE [To(p, "commit") EXCEPT !.write = members[r.target] # r.role])
            [] r.kind = "remove" ->
                Require(p, members[r.target] # "owner", "owner_transfer_required",
                        [To(p, "commit") EXCEPT !.write = members[r.target] # "none"])
MutOwnerToo(p) ==
    LET r == tx[p].req
    IN /\ At(p, "member")
       /\ CASE r.kind \in {"provision_sensor", "patch_sensor"} ->
                Require(p, members[r.actor] = "owner",
                        IF members[r.actor] = "none" THEN "not_found" ELSE "forbidden",
                        To(p, IF r.kind = "patch_sensor" THEN "sensor" ELSE "parent"))
            [] r.kind = "assign" ->
                Continue(p,
                        IF members[r.target] = "none" THEN To(p, "enrol")
                        ELSE [To(p, "commit") EXCEPT !.write = members[r.target] # r.role])
            [] r.kind = "remove" ->
                Require(p, members[r.target] # "owner", "owner_transfer_required",
                        [To(p, "commit") EXCEPT !.write = members[r.target] # "none"])
LockMember(p) ==
    LET r == tx[p].req
    IN /\ At(p, "member")
       /\ CASE r.kind \in {"provision_sensor", "patch_sensor"} ->
                Require(p, members[r.actor] = "owner",
                        IF members[r.actor] = "none" THEN "not_found" ELSE "forbidden",
                        To(p, IF r.kind = "patch_sensor" THEN "sensor" ELSE "parent"))
            [] r.kind = "assign" ->
                Require(p, members[r.target] # "owner", "owner_transfer_required",
                        IF members[r.target] = "none" THEN To(p, "enrol")
                        ELSE [To(p, "commit") EXCEPT !.write = members[r.target] # r.role])
            [] r.kind = "remove" ->
                Require(p, members[r.target] # "owner", "owner_transfer_required",
                        [To(p, "commit") EXCEPT !.write = members[r.target] # "none"])

\* TransferGatewayOwner: lock the owner rows; there must be exactly one.
LockOwners(p) ==
    /\ At(p, "owners")
    /\ Require(p, ExactlyOne(Owners), "inconsistent",
               IF Owners = {tx[p].req.target} THEN To(p, "commit") ELSE To(p, "promote"))

\* Lock the new owner's membership, or find that there is none.
Promote(p) ==
    /\ At(p, "promote")
    /\ Continue(p, IF members[tx[p].req.target] = "none" THEN To(p, "enrol")
                   ELSE To(p, "count"))

\* Insert a membership row: its foreign key takes the account's row.
Enrol(p) ==
    /\ At(p, "enrol")
    /\ Continue(p, IF tx[p].req.kind = "transfer" THEN To(p, "count")
                   ELSE [To(p, "commit") EXCEPT !.write = TRUE])

-----------------------------------------------------------------------------
\* ProvisionGateway: the owner's account, then INSERT ... ON CONFLICT DO
\* NOTHING, which waits for a rival's INSERT of the same gateway.
KnownOwner(p) ==
    /\ At(p, "known owner")
    /\ Require(p, tx[p].req.owner \in profiles, "not_found", To(p, "claim"))

Claim(p) ==
    /\ At(p, "claim")
    /\ Continue(p, To(p, IF gateway = None THEN "own" ELSE "verify"))

Own(p) ==
    /\ At(p, "own")
    /\ Continue(p, [To(p, "commit") EXCEPT !.write = TRUE])

\* verifyGatewayRetry: the same metadata, one owner and the same, the graph.
VerifyGateway(p) ==
    /\ At(p, "verify")
    /\ Require(p, gateway.name = tx[p].req.name /\ gateway.desc = tx[p].req.desc,
               "conflict", To(p, "verify owner"))

VerifyOwner(p) ==
    /\ At(p, "verify owner")
    /\ IF ~ExactlyOne(Owners) THEN Ends(p, "inconsistent")
       ELSE Require(p, tx[p].req.owner \in Owners, "conflict", To(p, "verify graph"))

VerifyGraph(p) ==
    /\ At(p, "verify graph")
    /\ Require(p, gatewayTwin # None /\ gatewayTwin.name = tx[p].req.name,
               "inconsistent", To(p, "commit"))

\* The gateway's twin must carry the name read with the gateway: the sensor
\* routes and the sensor patch, which hold the gateway row by now.
Parent(p) ==
    /\ At(p, "parent")
    /\ Require(p, gatewayTwin # None /\ gatewayTwin.name = tx[p].name, "inconsistent",
               To(p, IF tx[p].req.kind = "patch_sensor" THEN "twin" ELSE "insert"))

\* executeSensorGraphProvisioning: create the sensor with its twin, state and
\* hasSensor relationship, or verify the one that is there.
InsertSensor(p) ==
    /\ At(p, "insert")
    /\ Continue(p, To(p, IF sensors[tx[p].req.sensor] = None THEN "relate" ELSE "sensor"))

Relate(p) ==
    /\ At(p, "relate")
    /\ Require(p, twins[tx[p].req.sensor] = None, "inconsistent",
               [To(p, "commit") EXCEPT !.write = TRUE])

\* Lock the sensor: verifySensorRetry, PatchSensorMetadata and the telemetry
\* transaction.
LockSensor(p) ==
    LET r == tx[p].req
        name == sensors[r.sensor]
    IN /\ At(p, "sensor")
       /\ IF name = None THEN Ends(p, "not_found")
          ELSE IF r.kind = "provision_sensor" /\ name # r.name THEN Ends(p, "conflict")
          ELSE Continue(p, [tx[p] EXCEPT !.sensor = name,
                !.pc = IF r.kind = "patch_sensor" THEN "parent" ELSE "graph"])

\* The sensor's twin and relationship: a replay compares the name, telemetry
\* only asks for the rows.
Graph(p) ==
    LET r == tx[p].req
        twin == twins[r.sensor]
        persist == r.kind = "persist"
    IN /\ At(p, "graph")
       /\ Require(p, gatewayTwin # None /\ twin # None /\ (persist \/ twin.name = r.name),
                  "inconsistent", To(p, IF persist THEN "ledger" ELSE "commit"))

\* The telemetry transaction's inserts: the ledger refers to the gateway, the
\* temporal value to the sensor's twin.
Ledger(p) == At(p, "ledger") /\ Continue(p, To(p, "temporal"))
Temporal(p) == At(p, "temporal") /\ Continue(p, To(p, "commit"))

-----------------------------------------------------------------------------
\* The two patches: lock the twin, compare it with the row already locked, and
\* stop without a write when nothing changes.
Supplied(value, current) == IF value = None THEN current ELSE value

LockTwin(p) ==
    LET t == tx[p]
        r == t.req
        gatewayPatch == r.kind = "patch_gateway"
        twin == IF gatewayPatch THEN gatewayTwin ELSE twins[r.sensor]
        name == IF gatewayPatch THEN t.name ELSE t.sensor
        same == IF gatewayPatch
                THEN Supplied(r.name, t.name) = t.name /\ Supplied(r.desc, t.desc) = t.desc
                ELSE r.name = t.sensor
    IN /\ At(p, "twin")
       /\ Require(p, twin # None /\ twin.name = name, "inconsistent",
                  To(p, IF same THEN "commit" ELSE "update"))

\* The UPDATE statements; the twin's updated_at is the time of the statement.
MutUpdate(p) ==
    /\ At(p, "update")
    /\ tx' = [tx EXCEPT ![p].pc = "commit", ![p].write = TRUE]
    /\ now' = now + 1
    /\ UNCHANGED <<tables, locks, begun>>
Update(p) ==
    /\ At(p, "update")
    /\ tx' = [tx EXCEPT ![p].pc = "commit", ![p].write = TRUE, ![p].stamp = now]
    /\ now' = now + 1
    /\ UNCHANGED <<tables, locks, begun>>

\* UpdateUserProfileAndRole: lock the account, refuse to demote oneself, then
\* insert or delete the row of platform_admins.
MutLockProfile(p) ==
    LET r == tx[p].req
    IN /\ At(p, "profile")
       /\ Require(p, r.target \in profiles, "not_found",
                  To(p, IF r.role = "user" THEN "demote" ELSE "grant"))
LockProfile(p) ==
    LET r == tx[p].req
    IN /\ At(p, "profile")
       /\ IF r.target \in profiles /\ r.actor = r.target /\ r.role = "user"
          THEN Ends(p, "self_demotion")
          ELSE Require(p, r.target \in profiles, "not_found",
                       To(p, IF r.role = "user" THEN "demote" ELSE "grant"))

Grant(p) == At(p, "grant") /\ Continue(p, [To(p, "commit") EXCEPT !.write = TRUE])
Demote(p) == At(p, "demote") /\ Continue(p, [To(p, "commit") EXCEPT !.write = TRUE])

-----------------------------------------------------------------------------
\* CreateUser: the account is made by the authentication service, outside any
\* transaction; its answer may be lost after the account exists.
Provider(p) ==
    LET u == tx[p].req.target
    IN /\ At(p, "provider")
       /\ IF u \in profiles THEN Ends(p, "exists")
          ELSE /\ profiles' = profiles \cup {u}
               /\ \E pc \in {"confirm", "idle"} :
                    tx' = [tx EXCEPT ![p] = IF pc = "idle" THEN Idle("unknown") ELSE To(p, pc)]
               /\ UNCHANGED <<admins, members, gateway, gatewayTwin, sensors, twins,
                              locks, now, begun>>

\* VerifyCreatedUserProfile: the new account has no role anywhere.
Confirm(p) ==
    LET u == tx[p].req.target
    IN /\ At(p, "confirm")
       /\ Ends(p, IF u \in profiles /\ u \notin admins /\ members[u] = "none"
                  THEN "ok" ELSE "unverified")

-----------------------------------------------------------------------------
\* What each kind of transaction leaves in the tables.
WrittenMembers(r) ==
    CASE r.kind = "provision_gateway" -> [members EXCEPT ![r.owner] = "owner"]
      [] r.kind = "assign" -> [members EXCEPT ![r.target] = r.role]
      [] r.kind = "remove" -> [members EXCEPT ![r.target] = "none"]
      [] r.kind = "transfer" ->
            [u \in Users |-> IF u = r.target THEN "owner"
                             ELSE IF members[u] = "owner" THEN "viewer"
                             ELSE members[u]]
      [] OTHER -> members

WrittenAdmins(r) ==
    CASE r.kind = "update_user" /\ r.role = "user" -> admins \ {r.target}
      [] r.kind = "update_user" /\ r.role # "user" -> admins \cup {r.target}
      [] OTHER -> admins

WrittenGateway(r, stamp) ==
    CASE r.kind = "provision_gateway" ->
            /\ gateway' = [name |-> r.name, desc |-> r.desc]
            /\ gatewayTwin' = [name |-> r.name, at |-> stamp]
      [] r.kind = "patch_gateway" ->
            /\ gateway' = [name |-> Supplied(r.name, gateway.name),
                           desc |-> Supplied(r.desc, gateway.desc)]
            /\ gatewayTwin' = [name |-> Supplied(r.name, gatewayTwin.name), at |-> stamp]
      [] OTHER -> UNCHANGED <<gateway, gatewayTwin>>

WrittenSensors(r, stamp) ==
    IF r.kind \in {"provision_sensor", "patch_sensor"}
    THEN /\ sensors' = [sensors EXCEPT ![r.sensor] = r.name]
         /\ twins' = [twins EXCEPT ![r.sensor] = [name |-> r.name, at |-> stamp]]
    ELSE UNCHANGED <<sensors, twins>>

\* The last statement of a transfer counts the owners it is about to leave.
CountOwners(p) ==
    /\ At(p, "count")
    /\ Require(p, ExactlyOne({u \in Users : WrittenMembers(tx[p].req)[u] = "owner"}),
               "inconsistent", [To(p, "commit") EXCEPT !.write = TRUE])

\* COMMIT: everything the transaction wrote becomes visible.  The confirmation
\* may be lost on the way back.
Commit(p) ==
    /\ At(p, "commit")
    /\ \E answer \in {"ok", "unknown"} : tx' = [tx EXCEPT ![p] = Idle(answer)]
    /\ locks' = {l \in locks : l.proc # p}
    /\ LET t == tx[p] IN
        IF t.write
        THEN /\ members' = WrittenMembers(t.req)
             /\ admins' = WrittenAdmins(t.req)
             /\ WrittenGateway(t.req, t.stamp)
             /\ WrittenSensors(t.req, t.stamp)
        ELSE UNCHANGED <<members, admins, gateway, gatewayTwin, sensors, twins>>
    /\ UNCHANGED <<profiles, now, begun>>

\* Any statement may fail: a cancelled or timed-out request, a lost
\* connection, or the database choosing this session to break a deadlock.
Rollback(p) == tx[p].pc # "idle" /\ Ends(p, "error")

Finished ==
    /\ begun = MaxTransactions
    /\ \A p \in Procs : tx[p].pc = "idle"
    /\ UNCHANGED vars

Statement(p) ==
    \/ Check(p) \/ LockGateway(p) \/ KnownTarget(p) \/ LockMember(p) \/ LockOwners(p)
    \/ Promote(p) \/ Enrol(p) \/ KnownOwner(p) \/ Claim(p) \/ Own(p) \/ VerifyGateway(p)
    \/ VerifyOwner(p) \/ VerifyGraph(p) \/ Parent(p) \/ InsertSensor(p) \/ Relate(p)
    \/ LockSensor(p) \/ Graph(p) \/ Ledger(p) \/ Temporal(p) \/ LockTwin(p) \/ Update(p)
    \/ LockProfile(p) \/ Grant(p) \/ Demote(p) \/ Provider(p) \/ Confirm(p) \/ CountOwners(p)
    \/ Commit(p)

Next ==
    \/ \E p \in Procs : Statement(p) \/ Rollback(p)
    \/ \E p \in Procs, r \in Requests : Begin(p, r)
    \/ Finished

Spec == Init /\ [][Next]_vars

-----------------------------------------------------------------------------
\* A gateway that exists has exactly one owner, whatever assignments, removals,
\* transfers and provisionings interleave: no constraint of the schema says so,
\* only the locks on the gateway and membership rows keep it
\* (AssignGatewayUser, RemoveGatewayUser, TransferGatewayOwner).
OneOwner == gateway # None => ExactlyOne(Owners)

\* Nobody is told that the graph is inconsistent, or the ownership, while
\* patches and provisionings rename what the others compare: each comparison is
\* made under a lock that keeps both sides in step (ErrProvisioningInconsistent,
\* ErrGatewayOwnerInconsistent, ReasonResourceGraphIncomplete).
NoFalseInconsistency == \A p \in Procs : tx[p].answer # "inconsistent"

\* The sessions in S wait for each other and none of them can go on.
Deadlocked(S) == S # {} /\ \A p \in S : WaitsFor(p) \cap S # {}

\* Only the admin-only and owner-only sensor routes, which hold the gateway row
\* FOR UPDATE, can end in a deadlock with a telemetry transaction, and grants of
\* the platform role with each other; the admin-or-owner route and every other
\* operation take the rows in a common order (ProvisionSensorForAdminOrOwner
\* takes FOR SHARE for this).
OnlyOldRoutesDeadlock ==
    \A S \in SUBSET Procs :
        Deadlocked(S) => \E p \in S :
            \/ tx[p].req.kind = "provision_sensor" /\ tx[p].req.route # "either"
            \/ tx[p].pc = "grant"

\* The time a patch stores never goes back, although the patch that began
\* first may commit last (updated_at = statement_timestamp()).
UpdatedAtAdvances ==
    [][/\ gatewayTwin # None => gatewayTwin'.at >= gatewayTwin.at
       /\ \A s \in Sensors : twins[s] # None => twins'[s].at >= twins[s].at]_vars

\* A sensor created or renamed on the strength of ownership is written while
\* its author still owns the gateway: a transfer cannot slip between the check
\* and the commit (membership FOR SHARE).
WrittenByOwner ==
    [][\A p \in Procs :
        (/\ tx[p].pc = "commit" /\ tx'[p].answer # "error" /\ tx'[p].pc = "idle"
         /\ tx[p].write
         /\ tx[p].req.kind \in {"provision_sensor", "patch_sensor"}
         /\ ~tx[p].admin
         /\ ~(tx[p].req.kind = "provision_sensor" /\ tx[p].req.route = "admin"))
            => members[tx[p].req.actor] = "owner"]_vars

\* The last administrator can only be demoted by someone who has lost the role
\* since it was checked: the check takes no lock, and CheckSelfDemotion keeps
\* everyone else from emptying the table (UpdateUserProfileAndRole).
LastAdminFallsToALateDemotion ==
    [][(admins # {} /\ admins' = {}) =>
        \E p \in Procs : /\ tx[p].pc = "commit" /\ tx'[p].pc = "idle"
                         /\ tx[p].req.kind = "update_user"
                         /\ tx[p].req.actor \notin admins]_vars
=============================================================================
