-------------------------- MODULE Registry_proofs --------------------------
(***************************************************************************)
(* The registry for any number of users, sensors, sessions and requests:    *)
(* one owner, a graph nobody finds inconsistent, sensors written only by an *)
(* administrator or by the owner, times that never go back, and the last    *)
(* administrator.  All but the last rest on the row locks: what a           *)
(* transaction has read under a lock is still so when it commits.           *)
(***************************************************************************)
EXTENDS Registry, TLAPS

Steps == {"idle", "check", "gateway", "known target", "member", "owners", "promote", "enrol",
          "count", "known owner", "claim", "own", "verify", "verify owner", "verify graph",
          "parent", "insert", "relate", "sensor", "graph", "ledger", "temporal", "twin", "update",
          "profile", "grant", "demote", "provider", "confirm", "commit"}
Answers == {"none", "ok", "unknown", "error", "not_found", "forbidden", "owner_transfer_required",
            "conflict", "self_demotion", "exists", "unverified", "inconsistent"}
Transactions ==
    [pc : Steps, req : Requests \cup {None}, admin : BOOLEAN, name : Names \cup {None},
     desc : Names \cup {None}, sensor : Names \cup {None}, write : BOOLEAN, stamp : Nat,
     answer : Answers \ {"inconsistent"}]

\* The tables: types, one owner, and a graph in step with the rows it mirrors.
Typed ==
    /\ members \in [Users -> {"owner", "operator", "viewer", "none"}]
    /\ gateway \in [name : Names, desc : Names \cup {None}] \cup {None}
    /\ gatewayTwin \in [name : Names, at : Nat] \cup {None}
    /\ sensors \in [Sensors -> Names \cup {None}]
    /\ twins \in [Sensors -> [name : Names, at : Nat] \cup {None}]
    /\ now \in Nat
    /\ tx \in [Procs -> Transactions]

Owned == IF gateway = None THEN Owners = {} ELSE ExactlyOne(Owners)

Mirrored ==
    /\ gatewayTwin = None <=> gateway = None
    /\ gateway # None => gatewayTwin.name = gateway.name /\ gatewayTwin.at <= now
    /\ \A s \in Sensors :
        /\ twins[s] = None <=> sensors[s] = None
        /\ sensors[s] # None =>
               gateway # None /\ twins[s].name = sensors[s] /\ twins[s].at <= now

\* No two sessions hold conflicting locks on a row.
Exclusive ==
    \A l, m \in locks : l.proc # m.proc /\ l.row = m.row => ~Conflicts(l.mode, m.mode)

\* Which requests run which statements.
Legal(t) ==
    LET k == t.req.kind
    IN /\ t.pc # "idle" => t.req \in Requests
       /\ t.write => t.pc = "commit"
       /\ t.pc \in {"known owner", "claim", "own", "verify", "verify owner", "verify graph"} =>
              k = "provision_gateway"
       /\ t.pc \in {"known target", "enrol"} => k \in {"assign", "transfer"}
       /\ t.pc \in {"owners", "promote", "count"} => k = "transfer"
       /\ t.pc = "member" => k \in {"assign", "remove", "provision_sensor", "patch_sensor"}
       /\ t.pc \in {"insert", "relate"} => k = "provision_sensor"
       /\ t.pc = "parent" => k \in {"provision_sensor", "patch_sensor"}
       /\ t.pc = "sensor" => k \in {"provision_sensor", "patch_sensor", "persist"}
       /\ t.pc = "graph" => k \in {"provision_sensor", "persist"}
       /\ t.pc \in {"ledger", "temporal"} => k = "persist"
       /\ t.pc \in {"twin", "update"} => k \in {"patch_gateway", "patch_sensor"}
       /\ t.pc \in {"profile", "grant", "demote"} => k = "update_user"
       /\ t.pc = "grant" => t.req.role # "user"
       /\ t.pc \in {"provider", "confirm"} => k = "create_user"
       /\ t.pc = "gateway" => k \in {"provision_sensor", "patch_gateway", "patch_sensor", "assign",
                                     "remove", "transfer"}
       /\ t.pc = "check" => k # "persist"
       /\ t.pc = "commit" => k # "create_user"

\* The transactions that have locked the gateway row, and a sensor row.
OnGateway(t) ==
    \/ t.pc \in {"known target", "member", "owners", "promote", "enrol", "count", "own",
                 "verify owner", "verify graph", "parent", "insert", "relate", "twin", "update"}
    \/ t.pc \in {"sensor", "graph"} /\ t.req.kind # "persist"
    \/ t.pc = "commit" /\ t.req.kind \notin {"persist", "update_user"}
OnSensor(t) ==
    \/ t.pc \in {"relate", "graph", "commit"} /\ t.req.kind = "provision_sensor"
    \/ t.pc \in {"parent", "twin", "update", "commit"} /\ t.req.kind = "patch_sensor"

Lock(p, row, mode) == [proc |-> p, row |-> row, mode |-> mode]
Holds(p) ==
    /\ OnGateway(tx[p]) => Lock(p, GatewayRow, GatewayMode(tx[p].req)) \in locks
    /\ OnSensor(tx[p]) => Lock(p, <<"sensor", tx[p].req.sensor>>, "Update") \in locks

\* What a transaction that has locked the gateway knows of it.
KnowsGateway(t) ==
    LET k == t.req.kind
    IN /\ t.pc = "own" \/ (t.write /\ k = "provision_gateway") => gateway = None
       /\ t.pc = "verify" => gateway # None
       /\ OnGateway(t) /\ t.pc # "own" /\ ~(t.write /\ k = "provision_gateway") => gateway # None
       /\ t.pc \in {"verify owner", "verify graph"} => gateway.name = t.req.name
       /\ OnGateway(t) /\ k \in {"patch_gateway", "provision_sensor", "patch_sensor"} =>
              t.name = gateway.name
       /\ t.write /\ k = "patch_gateway" => gatewayTwin.at <= t.stamp

\* Acting on the strength of ownership, past the look at the membership.
AsOwner(t) ==
    /\ t.pc \in {"parent", "insert", "relate", "sensor", "graph", "twin", "update", "commit"}
    /\ t.req.kind \in {"provision_sensor", "patch_sensor"} /\ ~t.admin
    /\ ~(t.req.kind = "provision_sensor" /\ t.req.route = "admin")

\* ... and of its members.
KnowsMembers(t) ==
    LET k == t.req.kind
    IN /\ (t.pc = "enrol" /\ k = "assign") \/ (t.write /\ k \in {"assign", "remove"}) =>
              members[t.req.target] # "owner"
       /\ AsOwner(t) => members[t.req.actor] = "owner"

\* What a transaction knows of its sensor: while it has the row locked, and,
\* since no row is ever deleted, before.
KnowsSensor(t) ==
    LET k == t.req.kind
        name == sensors[t.req.sensor]
    IN /\ (t.pc = "relate" \/ t.write) /\ k = "provision_sensor" => name = None
       /\ t.pc = "sensor" /\ k = "provision_sensor" => name # None
       /\ t.pc = "graph" /\ k = "provision_sensor" => name = t.req.name
       /\ t.pc = "graph" /\ k = "persist" => name # None
       /\ OnSensor(t) /\ k = "patch_sensor" => name # None /\ t.sensor = name
       /\ t.write /\ k = "patch_sensor" => twins[t.req.sensor].at <= t.stamp

\* Nobody demotes themselves.
KnowsSelf(t) ==
    t.pc \in {"demote", "commit"} /\ t.req.kind = "update_user" /\ t.req.role = "user" =>
        t.req.actor # t.req.target

Knows(t) == KnowsGateway(t) /\ KnowsMembers(t) /\ KnowsSensor(t) /\ KnowsSelf(t)

Sound(p) == Legal(tx[p]) /\ Holds(p) /\ Knows(tx[p])

\* No transaction carries a time of the future.
Timely == \A p \in Procs : tx[p].stamp <= now

RegistryInv ==
    /\ Typed /\ Owned /\ Mirrored /\ Exclusive /\ Timely
    /\ \A p \in Procs : Sound(p)

-----------------------------------------------------------------------------
\* What the services let through, by its kind.
LEMMA RequestFields ==
    ASSUME NEW r \in Requests
    PROVE  /\ r.kind \in {"provision_gateway", "provision_sensor", "patch_gateway", "patch_sensor",
                          "update_user", "assign", "remove", "transfer", "create_user", "persist"}
           /\ r.kind = "provision_gateway" =>
                  r.owner \in Users /\ r.name \in Names /\ r.desc \in Names \cup {None}
           /\ r.kind = "provision_sensor" => r.sensor \in Sensors /\ r.name \in Names
           /\ r.kind = "patch_gateway" => r.name \in Names \cup {None} /\ r.desc \in Names \cup {None}
           /\ r.kind = "patch_sensor" => r.sensor \in Sensors /\ r.name \in Names
           /\ r.kind = "assign" => r.target \in Users /\ r.role \in {"operator", "viewer"}
           /\ r.kind \in {"remove", "transfer"} => r.target \in Users
           /\ r.kind = "persist" => r.sensor \in Sensors
  <1>1. \/ r \in ProvisionGatewayRequests \/ r \in ProvisionSensorRequests
        \/ r \in PatchGatewayRequests \/ r \in PatchSensorRequests \/ r \in UpdateUserRequests
        \/ r \in AssignRequests \/ r \in RemoveRequests \/ r \in TransferRequests
        \/ r \in CreateUserRequests \/ r \in PersistRequests
    BY RequestsAssumption
  <1>2. CASE r \in ProvisionGatewayRequests \/ r \in ProvisionSensorRequests
    BY <1>2 DEF ProvisionGatewayRequests, ProvisionSensorRequests
  <1>3. CASE r \in PatchGatewayRequests \/ r \in PatchSensorRequests
    BY <1>3 DEF PatchGatewayRequests, PatchSensorRequests
  <1>4. CASE r \in AssignRequests \/ r \in RemoveRequests \/ r \in TransferRequests
    BY <1>4 DEF AssignRequests, RemoveRequests, TransferRequests
  <1>5. CASE r \in UpdateUserRequests \/ r \in CreateUserRequests \/ r \in PersistRequests
    BY <1>5 DEF UpdateUserRequests, CreateUserRequests, PersistRequests
  <1> QED
    BY <1>1, <1>2, <1>3, <1>4, <1>5

\* The fields of a transaction.
LEMMA TransactionFields ==
    ASSUME NEW t \in Transactions
    PROVE  /\ t.pc \in Steps /\ t.req \in Requests \cup {None} /\ t.admin \in BOOLEAN
           /\ t.name \in Names \cup {None} /\ t.desc \in Names \cup {None}
           /\ t.sensor \in Names \cup {None} /\ t.write \in BOOLEAN /\ t.stamp \in Nat
           /\ t.answer \in Answers \ {"inconsistent"}
  BY DEF Transactions

\* An ended transaction owes nothing.
LEMMA IdleOwesNothing ==
    ASSUME NEW answer \in Answers \ {"inconsistent"}
    PROVE  /\ Idle(answer) \in Transactions
           /\ Idle(answer).pc = "idle" /\ ~Idle(answer).write /\ Idle(answer).stamp = 0
  BY DEF Idle, Transactions, Steps

LEMMA IdleIsSound ==
    ASSUME NEW t, t.pc = "idle", ~t.write
    PROVE  Legal(t) /\ ~OnGateway(t) /\ ~OnSensor(t) /\ Knows(t)
  <1>1. ~OnGateway(t) /\ ~OnSensor(t) /\ ~AsOwner(t)
    BY DEF OnGateway, OnSensor, AsOwner
  <1>2. Legal(t)
    BY DEF Legal
  <1>3. KnowsGateway(t) /\ KnowsMembers(t)
    BY <1>1 DEF KnowsGateway, KnowsMembers
  <1>4. KnowsSensor(t) /\ KnowsSelf(t)
    BY <1>1 DEF KnowsSensor, KnowsSelf
  <1> QED
    BY <1>1, <1>2, <1>3, <1>4 DEF Knows

\* The rows that decisions rest on.
deciding == <<members, gateway, gatewayTwin, sensors, twins>>

LEMMA KnowledgeStays ==
    ASSUME NEW q \in Procs, NEW t, tx'[q] = t, UNCHANGED deciding
    PROVE  /\ Legal(t) => Legal(tx[q])'
           /\ Knows(t) => Knows(tx[q])'
  <1>1. Legal(t) => Legal(tx[q])'
    BY DEF Legal
  <1>2. KnowsGateway(t) => KnowsGateway(tx[q])'
    BY DEF KnowsGateway, OnGateway, deciding
  <1>3. KnowsMembers(t) => KnowsMembers(tx[q])'
    BY DEF KnowsMembers, AsOwner, deciding
  <1>4. KnowsSensor(t) => KnowsSensor(tx[q])'
    BY DEF KnowsSensor, OnSensor, deciding
  <1>5. KnowsSelf(t) => KnowsSelf(tx[q])'
    BY DEF KnowsSelf
  <1> QED
    BY <1>1, <1>2, <1>3, <1>4, <1>5 DEF Knows

LEMMA LocksStay ==
    ASSUME NEW q \in Procs, Sound(q), tx'[q] = tx[q], \A l \in locks : l.proc = q => l \in locks'
    PROVE  Legal(tx[q])' /\ Holds(q)'
  <1>1. Legal(tx[q])'
    BY DEF Sound, Legal
  <1>2. Holds(q)'
    BY DEF Sound, Holds, OnGateway, OnSensor, Lock, GatewayMode, GatewayRow
  <1> QED
    BY <1>1, <1>2

\* A session that does nothing is not disturbed while the rows stay.
LEMMA OthersStay ==
    ASSUME NEW q \in Procs, Sound(q), UNCHANGED deciding, tx'[q] = tx[q],
           \A l \in locks : l.proc = q => l \in locks'
    PROVE  Sound(q)'
  <1>1. Legal(tx[q])' /\ Knows(tx[q])'
    <2>1. PICK t : t = tx[q]
      OBVIOUS
    <2> QED
      BY <2>1, KnowledgeStays DEF Sound
  <1> QED
    BY <1>1, LocksStay DEF Sound

\* A session whose transaction is over.
LEMMA OverIsSound ==
    ASSUME NEW p \in Procs, tx'[p].pc = "idle", ~tx'[p].write
    PROVE  Sound(p)'
  <1>1. (~OnGateway(tx[p]) /\ ~OnSensor(tx[p]) /\ ~AsOwner(tx[p]))'
    BY DEF OnGateway, OnSensor, AsOwner
  <1>2. Legal(tx[p])'
    BY DEF Legal
  <1>3. KnowsGateway(tx[p])' /\ KnowsMembers(tx[p])'
    BY <1>1 DEF KnowsGateway, KnowsMembers
  <1>4. KnowsSensor(tx[p])' /\ KnowsSelf(tx[p])'
    BY <1>1 DEF KnowsSensor, KnowsSelf
  <1> QED
    BY <1>1, <1>2, <1>3, <1>4 DEF Knows, Sound, Holds

-----------------------------------------------------------------------------
\* A transaction that ends, with what it leaves in the tables.
LEMMA OverKeeps ==
    ASSUME RegistryInv, NEW p \in Procs, NEW answer \in Answers \ {"inconsistent"},
           tx' = [tx EXCEPT ![p] = Idle(answer)], locks' = {l \in locks : l.proc # p}, now' = now,
           tx' \in [Procs -> Transactions] => Typed', Owned', Mirrored',
           \A q \in Procs \ {p} : tx'[q] = tx[q] => Knows(tx[q])'
    PROVE  RegistryInv'
  <1>1. tx \in [Procs -> Transactions] /\ Idle(answer) \in Transactions /\ now \in Nat
    BY IdleOwesNothing DEF RegistryInv, Typed
  <1>2. tx'[p] = Idle(answer) /\ \A q \in Procs \ {p} : tx'[q] = tx[q]
    BY <1>1
  <1>3. tx' \in [Procs -> Transactions]
    BY <1>1
  <1>4. Exclusive'
    BY DEF RegistryInv, Exclusive
  <1>5. Timely'
    <2>1. tx'[p].stamp = 0
      BY <1>2, IdleOwesNothing
    <2> QED
      BY <1>1, <1>2, <2>1 DEF RegistryInv, Timely
  <1>6. Sound(p)'
    BY <1>2, IdleOwesNothing, OverIsSound
  <1>7. ASSUME NEW q \in Procs \ {p}
        PROVE  Sound(q)'
    <2>1. tx'[q] = tx[q] /\ Sound(q) /\ \A l \in locks : l.proc = q => l \in locks'
      BY <1>2 DEF RegistryInv
    <2> QED
      BY <2>1, LocksStay DEF Sound
  <1> QED
    BY <1>3, <1>4, <1>5, <1>6, <1>7 DEF RegistryInv

\* ... in particular when it leaves them as they are.
LEMMA EndsUnwritten ==
    ASSUME RegistryInv, NEW p \in Procs, NEW answer \in Answers \ {"inconsistent"},
           tx' = [tx EXCEPT ![p] = Idle(answer)], locks' = {l \in locks : l.proc # p},
           UNCHANGED <<deciding, now>>
    PROVE  RegistryInv'
  <1>1. tx' \in [Procs -> Transactions] => Typed'
    BY DEF RegistryInv, Typed, deciding
  <1>2. Owned' /\ Mirrored'
    BY DEF RegistryInv, Owned, Owners, Mirrored, deciding
  <1>3. ASSUME NEW q \in Procs \ {p}, tx'[q] = tx[q]
        PROVE  Knows(tx[q])'
    <2>1. PICK t : t = tx[q]
      OBVIOUS
    <2> QED
      BY <1>3, <2>1, KnowledgeStays DEF RegistryInv, Sound
  <1> QED
    BY <1>1, <1>2, <1>3, OverKeeps

LEMMA EndsKeeps ==
    ASSUME RegistryInv, NEW p \in Procs, NEW answer \in Answers \ {"inconsistent"}, Ends(p, answer)
    PROVE  RegistryInv'
  BY EndsUnwritten DEF Ends, tables, deciding

\* A statement takes its locks and the transaction goes on as t.
LEMMA ContinueKeeps ==
    ASSUME RegistryInv, NEW p \in Procs, NEW t \in Transactions, WaitsFor(p) = {}, Continue(p, t),
           t.req = tx[p].req, t.stamp = tx[p].stamp, Legal(t), Knows(t),
           OnGateway(t) => OnGateway(tx[p]) \/ <<GatewayRow, GatewayMode(t.req)>> \in Wants(p),
           OnSensor(t) => OnSensor(tx[p]) \/ <<<<"sensor", t.req.sensor>>, "Update">> \in Wants(p)
    PROVE  RegistryInv'
  <1>1. /\ tx' = [tx EXCEPT ![p] = t]
        /\ locks' = locks \cup {[proc |-> p, row |-> w[1], mode |-> w[2]] : w \in Wants(p)}
        /\ UNCHANGED <<deciding, now>>
    BY DEF Continue, tables, deciding
  <1>2. tx'[p] = t /\ \A q \in Procs \ {p} : tx'[q] = tx[q]
    BY <1>1 DEF RegistryInv, Typed
  <1>3. Typed' /\ Owned' /\ Mirrored' /\ Timely'
    BY <1>1, <1>2 DEF RegistryInv, Typed, Owned, Owners, Mirrored, deciding, Timely
  <1>4. Exclusive'
    <2>1. ASSUME NEW m \in locks, m.proc # p, NEW w \in Wants(p), w[1] = m.row
          PROVE  ~Conflicts(w[2], m.mode) /\ ~Conflicts(m.mode, w[2])
      <3>1. ~Conflicts(w[2], m.mode)
        BY <2>1 DEF WaitsFor
      <3> QED
        BY <3>1 DEF Conflicts
    <2> QED
      BY <1>1, <2>1 DEF RegistryInv, Exclusive
  <1>5. Sound(p)'
    <2>1. Legal(tx[p])' /\ Knows(tx[p])'
      BY <1>1, <1>2, KnowledgeStays
    <2>2. ASSUME NEW row, NEW mode, Lock(p, row, mode) \in locks \/ <<row, mode>> \in Wants(p)
          PROVE  Lock(p, row, mode) \in locks'
      <3>1. CASE <<row, mode>> \in Wants(p)
        <4>1. <<row, mode>>[1] = row /\ <<row, mode>>[2] = mode
          OBVIOUS
        <4> QED
          BY <1>1, <3>1, <4>1 DEF Lock
      <3> QED
        BY <1>1, <2>2, <3>1
    <2>3. OnGateway(t) => Lock(p, GatewayRow, GatewayMode(t.req)) \in locks'
      BY <2>2 DEF RegistryInv, Sound, Holds
    <2>4. OnSensor(t) => Lock(p, <<"sensor", t.req.sensor>>, "Update") \in locks'
      BY <2>2 DEF RegistryInv, Sound, Holds
    <2> QED
      BY <1>2, <2>1, <2>3, <2>4 DEF Sound, Holds, OnGateway, OnSensor, GatewayMode, Lock, GatewayRow
  <1>6. ASSUME NEW q \in Procs \ {p}
        PROVE  Sound(q)'
    BY <1>1, <1>2, OthersStay DEF RegistryInv
  <1> QED
    BY <1>3, <1>4, <1>5, <1>6 DEF RegistryInv

-----------------------------------------------------------------------------
\* The transaction of a session that is not idle.
LEMMA Current ==
    ASSUME RegistryInv, NEW p \in Procs, NEW o, o = tx[p], o.pc # "idle"
    PROVE  /\ o \in Transactions /\ o.req \in Requests /\ Legal(o) /\ Knows(o)
           /\ o.write => o.pc = "commit"
  BY DEF RegistryInv, Typed, Sound, Legal

\* t is the transaction o at another statement, and perhaps with a write; it may
\* go on so if it has the locks and the knowledge that are due there.
Same(t, o) ==
    /\ t \in Transactions /\ t.req = o.req /\ t.admin = o.admin /\ t.name = o.name
    /\ t.desc = o.desc /\ t.sensor = o.sensor /\ t.stamp = o.stamp
Writing(p, write) == [To(p, "commit") EXCEPT !.write = write]
Due(p, o, t) ==
    /\ Legal(t) /\ Knows(t)
    /\ OnGateway(t) => OnGateway(o) \/ <<GatewayRow, GatewayMode(o.req)>> \in Wants(p)
    /\ OnSensor(t) => OnSensor(o) \/ <<<<"sensor", o.req.sensor>>, "Update">> \in Wants(p)

\* A session about to run a statement.
Runs(p, o) ==
    /\ o = tx[p] /\ o \in Transactions /\ o.req \in Requests /\ Legal(o) /\ Knows(o) /\ ~o.write
    /\ WaitsFor(p) = {}

LEMMA Proceeds ==
    ASSUME RegistryInv, NEW p \in Procs, NEW o, Runs(p, o), NEW t \in Transactions,
           t.req = o.req, t.stamp = o.stamp, Continue(p, t), Due(p, o, t)
    PROVE  RegistryInv'
  BY ContinueKeeps DEF Due, Runs

LEMMA MovesOn ==
    ASSUME RegistryInv, NEW p \in Procs, NEW o, Runs(p, o), NEW to \in Steps,
           Continue(p, To(p, to)),
           \A t : Same(t, o) /\ t.pc = to /\ ~t.write => Due(p, o, t)
    PROVE  RegistryInv'
  <1>1. PICK t : t = To(p, to)
    OBVIOUS
  <1>2. Same(t, o) /\ t.pc = to /\ ~t.write
    BY <1>1 DEF Transactions, Same, To, Runs
  <1> QED
    BY <1>1, <1>2, Proceeds DEF Same

LEMMA GoesToCommit ==
    ASSUME RegistryInv, NEW p \in Procs, NEW o, Runs(p, o), NEW write \in BOOLEAN,
           Continue(p, Writing(p, write)),
           \A t : Same(t, o) /\ t.pc = "commit" /\ (t.write <=> write) => Due(p, o, t)
    PROVE  RegistryInv'
  <1>1. PICK t : t = Writing(p, write)
    OBVIOUS
  <1>2. Same(t, o) /\ t.pc = "commit" /\ (t.write <=> write)
    BY <1>1 DEF Transactions, Steps, Same, To, Writing, Runs
  <1> QED
    BY <1>1, <1>2, Proceeds DEF Same

\* What the transactions on the gateway compare: one owner, a twin in step.
LEMMA GatewayInStep ==
    ASSUME RegistryInv, gateway # None
    PROVE  /\ ExactlyOne(Owners)
           /\ gatewayTwin # None /\ gatewayTwin.name = gateway.name /\ gatewayTwin.at <= now
           /\ gateway.name \in Names /\ gateway.desc \in Names \cup {None}
  BY NamesAssumption DEF RegistryInv, Owned, Mirrored, Typed

LEMMA SensorInStep ==
    ASSUME RegistryInv, NEW s \in Sensors
    PROVE  /\ twins[s] = None <=> sensors[s] = None
           /\ sensors[s] # None =>
                  gateway # None /\ twins[s].name = sensors[s] /\ twins[s].at <= now
           /\ sensors[s] \in Names \cup {None}
  BY DEF RegistryInv, Mirrored, Typed

LEMMA RowExists ==
    /\ Exists(GatewayRow) <=> gateway # None
    /\ \A s : Exists(<<"sensor", s>>) <=> sensors[s] # None
  <1>1. Exists(GatewayRow) <=> gateway # None
    BY DEF Exists, GatewayRow, GatewayTwinRow
  <1>2. ASSUME NEW s
        PROVE  Exists(<<"sensor", s>>) <=> sensors[s] # None
    BY DEF Exists, GatewayRow, GatewayTwinRow
  <1> QED
    BY <1>1, <1>2

-----------------------------------------------------------------------------
\* One lemma for the statements of a kind.  Those that read no row under a
\* lock they rely on later:
LEMMA PlainKeeps ==
    ASSUME RegistryInv, NEW p \in Procs, NEW o, Runs(p, o),
           \/ KnownTarget(p) \/ Promote(p) \/ KnownOwner(p) \/ Ledger(p) \/ Temporal(p)
           \/ Enrol(p) /\ o.req.kind = "transfer"
    PROVE  RegistryInv'
  <1>1. /\ o.pc \in {"known target", "promote", "known owner", "ledger", "temporal", "enrol"}
        /\ o.pc = "enrol" => o.req.kind = "transfer"
    BY DEF KnownTarget, Promote, KnownOwner, Ledger, Temporal, Enrol, At, Runs
  <1>2. PICK to \in Steps :
            /\ o.pc = "known target" => to = IF o.req.kind = "assign" THEN "member" ELSE "owners"
            /\ o.pc = "promote" => to \in {"enrol", "count"}
            /\ o.pc = "known owner" => to = "claim"
            /\ o.pc = "ledger" => to = "temporal"
            /\ o.pc = "temporal" => to = "commit"
            /\ o.pc = "enrol" => to = "count"
            /\ Continue(p, To(p, to)) \/ Ends(p, "not_found")
    BY DEF KnownTarget, Promote, KnownOwner, Ledger, Temporal, Enrol, At, Require, Steps, Runs
  <1>3. ASSUME NEW t, Same(t, o), t.pc = to, ~t.write
        PROVE  Due(p, o, t)
    <2>1. Legal(t)
      BY <1>1, <1>2, <1>3 DEF Same, Legal, Runs
    <2> QED
      BY <1>1, <1>2, <1>3, <2>1 DEF Due, Same, Knows, KnowsGateway, KnowsMembers, KnowsSensor,
         KnowsSelf, OnGateway, OnSensor, AsOwner, Runs, Legal
  <1> QED
    BY <1>1, <1>2, <1>3, MovesOn, EndsKeeps DEF Answers

\* Those that compare the gateway with its owner and its twin, and find them
\* in step:
LEMMA ComparesGatewayKeeps ==
    ASSUME RegistryInv, NEW p \in Procs, NEW o, Runs(p, o),
           LockOwners(p) \/ VerifyOwner(p) \/ VerifyGraph(p) \/ Parent(p)
    PROVE  RegistryInv'
  <1>1. o.pc \in {"owners", "verify owner", "verify graph", "parent"}
    BY DEF LockOwners, VerifyOwner, VerifyGraph, Parent, At, Runs
  <1>2. /\ gateway # None
        /\ o.pc = "verify graph" => gateway.name = o.req.name
        /\ o.pc = "parent" => gateway.name = o.name
    BY <1>1 DEF Legal, Knows, KnowsGateway, OnGateway, Runs
  <1>3. PICK to \in Steps :
            /\ o.pc = "owners" => to \in {"commit", "promote"}
            /\ o.pc = "verify owner" => to = "verify graph"
            /\ o.pc = "verify graph" => to = "commit"
            /\ o.pc = "parent" => to = IF o.req.kind = "patch_sensor" THEN "twin" ELSE "insert"
            /\ Continue(p, To(p, to)) \/ Ends(p, "conflict")
    BY <1>2, GatewayInStep DEF LockOwners, VerifyOwner, VerifyGraph, Parent, At, Require, Steps, Runs
  <1>4. ASSUME NEW t, Same(t, o), t.pc = to, ~t.write
        PROVE  Due(p, o, t)
    <2>1. Legal(t)
      BY <1>1, <1>3, <1>4 DEF Same, Legal, Runs
    <2>2. KnowsGateway(t)
      BY <1>1, <1>3, <1>4, <2>1 DEF Same, Legal, Knows, KnowsGateway, OnGateway, Runs
    <2>3. KnowsMembers(t)
      BY <1>1, <1>3, <1>4, <2>1 DEF Same, Legal, Knows, KnowsMembers, AsOwner, Runs
    <2>4. KnowsSensor(t) /\ KnowsSelf(t)
      BY <1>1, <1>3, <1>4, <2>1 DEF Same, Legal, Knows, KnowsSensor, KnowsSelf, OnSensor, Runs
    <2>5. /\ OnGateway(t) => OnGateway(o) \/ <<GatewayRow, GatewayMode(o.req)>> \in Wants(p)
          /\ OnSensor(t) => OnSensor(o) \/ <<<<"sensor", o.req.sensor>>, "Update">> \in Wants(p)
      BY <1>1, <1>3, <1>4, <2>1 DEF Same, Legal, OnGateway, OnSensor, Runs
    <2> QED
      BY <2>1, <2>2, <2>3, <2>4, <2>5 DEF Due, Knows
  <1> QED
    BY <1>1, <1>3, <1>4, MovesOn, EndsKeeps DEF Answers

\* Those that compare a sensor with its twin:
LEMMA GraphKeeps ==
    ASSUME RegistryInv, NEW p \in Procs, NEW o, Runs(p, o), Graph(p)
    PROVE  RegistryInv'
  <1>1. o.pc = "graph"
    BY DEF Graph, At, Runs
  <1>2. /\ o.req.sensor \in Sensors /\ sensors[o.req.sensor] # None
        /\ o.req.kind = "persist" \/ sensors[o.req.sensor] = o.req.name
    <2>1. Legal(o) /\ o.req \in Requests /\ Knows(o)
      BY DEF Runs
    <2>2. /\ o.req.sensor \in Sensors
          /\ o.req.kind # "persist" => o.req.name # None
      BY <1>1, <2>1, RequestFields, NamesAssumption DEF Legal
    <2> QED
      BY <1>1, <2>1, <2>2 DEF Legal, Knows, KnowsSensor
  <1>3. PICK to \in Steps : /\ to = IF o.req.kind = "persist" THEN "ledger" ELSE "commit"
                            /\ Continue(p, To(p, to))
    BY <1>2, SensorInStep, GatewayInStep DEF Graph, Require, Steps, Runs
  <1>4. ASSUME NEW t, Same(t, o), t.pc = to, ~t.write
        PROVE  Due(p, o, t)
    <2>1. Legal(t)
      BY <1>1, <1>3, <1>4 DEF Same, Legal, Runs
    <2>2. KnowsGateway(t)
      BY <1>1, <1>3, <1>4, <2>1 DEF Same, Legal, Knows, KnowsGateway, OnGateway, Runs
    <2>3. KnowsMembers(t)
      BY <1>1, <1>3, <1>4, <2>1 DEF Same, Legal, Knows, KnowsMembers, AsOwner, Runs
    <2>4. KnowsSensor(t) /\ KnowsSelf(t)
      BY <1>1, <1>3, <1>4, <2>1 DEF Same, Legal, Knows, KnowsSensor, KnowsSelf, OnSensor, Runs
    <2>5. /\ OnGateway(t) => OnGateway(o) \/ <<GatewayRow, GatewayMode(o.req)>> \in Wants(p)
          /\ OnSensor(t) => OnSensor(o) \/ <<<<"sensor", o.req.sensor>>, "Update">> \in Wants(p)
      BY <1>1, <1>3, <1>4, <2>1 DEF Same, Legal, OnGateway, OnSensor, Runs
    <2> QED
      BY <2>1, <2>2, <2>3, <2>4, <2>5 DEF Due, Knows
  <1> QED
    BY <1>1, <1>3, <1>4, MovesOn

LEMMA RelateWrites ==
    ASSUME RegistryInv, NEW p \in Procs, NEW o, Runs(p, o), Relate(p)
    PROVE  Continue(p, Writing(p, TRUE))
  <1>1. o.req.sensor \in Sensors /\ sensors[o.req.sensor] = None
    BY RequestFields DEF Legal, Knows, KnowsSensor, Relate, At, Runs
  <1> QED
    BY <1>1, SensorInStep DEF Relate, Require, Writing, Runs

\* Those that decide to write:
LEMMA WritesKeeps ==
    ASSUME RegistryInv, NEW p \in Procs, NEW o, Runs(p, o),
           \/ Own(p) \/ Grant(p) \/ Demote(p) \/ Relate(p)
           \/ Enrol(p) /\ o.req.kind # "transfer"
    PROVE  RegistryInv'
  <1>1. /\ o.pc \in {"own", "grant", "demote", "relate", "enrol"}
        /\ o.pc = "enrol" => o.req.kind # "transfer"
    BY DEF Own, Grant, Demote, Relate, Enrol, At, Runs
  <1>2. Continue(p, Writing(p, TRUE))
    BY RelateWrites DEF Own, Grant, Demote, Enrol, Writing, Runs
  <1>3. ASSUME NEW t, Same(t, o), t.pc = "commit", t.write
        PROVE  Due(p, o, t)
    <2>1. Legal(t)
      BY <1>1, <1>3 DEF Same, Legal, Runs
    <2>2. KnowsGateway(t)
      BY <1>1, <1>3, <2>1 DEF Same, Legal, Knows, KnowsGateway, OnGateway, Runs
    <2>3. KnowsMembers(t)
      BY <1>1, <1>3, <2>1 DEF Same, Legal, Knows, KnowsMembers, AsOwner, Runs
    <2>4. KnowsSensor(t) /\ KnowsSelf(t)
      BY <1>1, <1>3, <2>1 DEF Same, Legal, Knows, KnowsSensor, KnowsSelf, OnSensor, Runs
    <2>5. /\ OnGateway(t) => OnGateway(o) \/ <<GatewayRow, GatewayMode(o.req)>> \in Wants(p)
          /\ OnSensor(t) => OnSensor(o) \/ <<<<"sensor", o.req.sensor>>, "Update">> \in Wants(p)
      BY <1>1, <1>3, <2>1 DEF Same, Legal, OnGateway, OnSensor, Runs
    <2> QED
      BY <2>1, <2>2, <2>3, <2>4, <2>5 DEF Due, Knows
  <1> QED
    BY <1>1, <1>2, <1>3, GoesToCommit

\* The look at a membership:
LEMMA LockMemberMoves ==
    ASSUME RegistryInv, NEW p \in Procs, NEW o, Runs(p, o), LockMember(p),
           \/ o.req.kind \in {"provision_sensor", "patch_sensor"}
           \/ o.req.kind = "assign" /\ members[o.req.target] = "none"
    PROVE  RegistryInv'
  <1>1. o.pc = "member"
    BY DEF LockMember, At, Runs
  <1>2. PICK to \in Steps :
            /\ o.req.kind = "assign" => to = "enrol"
            /\ o.req.kind # "assign" => to = IF o.req.kind = "patch_sensor" THEN "sensor" ELSE "parent"
            /\ \/ Ends(p, "not_found") \/ Ends(p, "forbidden")
               \/ /\ o.req.kind # "assign" => members[o.req.actor] = "owner"
                  /\ Continue(p, To(p, to))
    BY DEF LockMember, Require, Steps, Runs
  <1>3. ASSUME NEW t, Same(t, o), t.pc = to, ~t.write,
               o.req.kind # "assign" => members[o.req.actor] = "owner"
        PROVE  Due(p, o, t)
    <2>1. Legal(t)
      BY <1>1, <1>2, <1>3 DEF Same, Legal, Runs
    <2>2. KnowsGateway(t)
      BY <1>1, <1>2, <1>3, <2>1 DEF Same, Legal, Knows, KnowsGateway, OnGateway, Runs
    <2>3. KnowsMembers(t)
      BY <1>1, <1>2, <1>3, <2>1 DEF Same, Legal, Knows, KnowsMembers, AsOwner, Runs
    <2>4. KnowsSensor(t) /\ KnowsSelf(t)
      BY <1>1, <1>2, <1>3, <2>1 DEF Same, Legal, Knows, KnowsSensor, KnowsSelf, OnSensor, Runs
    <2>5. /\ OnGateway(t) => OnGateway(o) \/ <<GatewayRow, GatewayMode(o.req)>> \in Wants(p)
          /\ OnSensor(t) => OnSensor(o) \/ <<<<"sensor", o.req.sensor>>, "Update">> \in Wants(p)
      BY <1>1, <1>2, <1>3, <2>1 DEF Same, Legal, OnGateway, OnSensor, Runs
    <2> QED
      BY <2>1, <2>2, <2>3, <2>4, <2>5 DEF Due, Knows
  <1> QED
    BY <1>1, <1>2, <1>3, MovesOn, EndsKeeps DEF Answers

LEMMA LockMemberDecides ==
    ASSUME RegistryInv, NEW p \in Procs, NEW o, Runs(p, o), LockMember(p),
           \/ o.req.kind = "remove"
           \/ o.req.kind = "assign" /\ members[o.req.target] # "none"
    PROVE  RegistryInv'
  <1>1. o.pc = "member"
    BY DEF LockMember, At, Runs
  <1>2. PICK write \in BOOLEAN :
            \/ Ends(p, "owner_transfer_required")
            \/ members[o.req.target] # "owner" /\ Continue(p, Writing(p, write))
    BY DEF LockMember, Require, Writing, Runs
  <1>3. ASSUME NEW t, Same(t, o), t.pc = "commit", t.write <=> write, members[o.req.target] # "owner"
        PROVE  Due(p, o, t)
    <2>1. Legal(t)
      BY <1>1, <1>3 DEF Same, Legal, Runs
    <2> QED
      BY <1>1, <1>3, <2>1 DEF Due, Same, Legal, Knows, KnowsGateway,
         KnowsMembers, KnowsSensor, KnowsSelf, OnGateway, OnSensor, AsOwner, Runs
  <1> QED
    BY <1>1, <1>2, <1>3, GoesToCommit, EndsKeeps DEF Answers

LEMMA LockMemberKeeps ==
    ASSUME RegistryInv, NEW p \in Procs, NEW o, Runs(p, o), LockMember(p)
    PROVE  RegistryInv'
  <1>1. o.req.kind \in {"assign", "remove", "provision_sensor", "patch_sensor"}
    BY DEF LockMember, At, Legal, Runs
  <1> QED
    BY <1>1, LockMemberMoves, LockMemberDecides

\* Those that take a lock the transaction relies on from then on:
LEMMA ClaimKeeps ==
    ASSUME RegistryInv, NEW p \in Procs, NEW o, Runs(p, o),
           Claim(p) \/ VerifyGateway(p) \/ InsertSensor(p)
    PROVE  RegistryInv'
  <1>1. o.pc \in {"claim", "verify", "insert"}
    BY DEF Claim, VerifyGateway, InsertSensor, At, Runs
  <1>2. PICK to \in Steps :
            /\ o.pc = "claim" => to = IF gateway = None THEN "own" ELSE "verify"
            /\ o.pc = "verify" => to = "verify owner"
            /\ o.pc = "insert" => to = IF sensors[o.req.sensor] = None THEN "relate" ELSE "sensor"
            /\ \/ Ends(p, "conflict")
               \/ /\ o.pc = "verify" => gateway.name = o.req.name
                  /\ Continue(p, To(p, to))
    BY DEF Claim, VerifyGateway, InsertSensor, At, Require, Steps, Runs
  <1>3. /\ to \in {"own", "verify owner"} => <<GatewayRow, GatewayMode(o.req)>> \in Wants(p)
        /\ to = "relate" => <<<<"sensor", o.req.sensor>>, "Update">> \in Wants(p)
    <2>1. /\ o.pc \in {"claim", "verify"} => o.req.kind = "provision_gateway"
          /\ o.pc = "insert" => o.req.kind = "provision_sensor"
          /\ o.pc = "verify" => gateway # None
      BY <1>1 DEF Legal, Knows, KnowsGateway, Runs
    <2> QED
      BY <1>1, <1>2, <2>1, RowExists DEF Wants, ProvisionGatewayLocks, ProvisionSensorLocks,
         SensorGraphLocks, InsertOf, Select, GatewayMode, Runs
  <1>4. ASSUME NEW t, Same(t, o), t.pc = to, ~t.write, o.pc = "verify" => gateway.name = o.req.name
        PROVE  Due(p, o, t)
    <2>1. Legal(t) /\ KnowsSelf(t) /\ KnowsSensor(t)
      BY <1>1, <1>2, <1>4 DEF Same, Legal, KnowsSelf, KnowsSensor, OnSensor, Runs
    <2>2. KnowsGateway(t) /\ KnowsMembers(t)
      BY <1>1, <1>2, <1>4 DEF Same, Legal, Knows, KnowsGateway, KnowsMembers, OnGateway, AsOwner, Runs
    <2> QED
      BY <1>1, <1>2, <1>3, <1>4, <2>1, <2>2 DEF Due, Knows, Same, OnGateway, OnSensor, Runs
  <1> QED
    BY <1>1, <1>2, <1>4, MovesOn, EndsKeeps DEF Answers

LEMMA LockProfileKeeps ==
    ASSUME RegistryInv, NEW p \in Procs, NEW o, Runs(p, o), LockProfile(p)
    PROVE  RegistryInv'
  <1>1. o.pc = "profile"
    BY DEF LockProfile, At, Runs
  <1>2. PICK to \in Steps :
            /\ to = IF o.req.role = "user" THEN "demote" ELSE "grant"
            /\ \/ Ends(p, "self_demotion") \/ Ends(p, "not_found")
               \/ /\ o.req.role = "user" => o.req.actor # o.req.target
                  /\ Continue(p, To(p, to))
    BY DEF LockProfile, Require, Steps, Runs
  <1>3. ASSUME NEW t, Same(t, o), t.pc = to, ~t.write, o.req.role = "user" => o.req.actor # o.req.target
        PROVE  Due(p, o, t)
    <2>1. Legal(t)
      BY <1>1, <1>2, <1>3 DEF Same, Legal, Runs
    <2> QED
      BY <1>1, <1>2, <1>3, <2>1 DEF Due, Same, Legal, Knows, KnowsGateway,
         KnowsMembers, KnowsSensor, KnowsSelf, OnGateway, OnSensor, AsOwner, Runs
  <1> QED
    BY <1>1, <1>2, <1>3, MovesOn, EndsKeeps DEF Answers

\* What a change of the members writes.
LEMMA MembersWritten ==
    ASSUME NEW r \in Requests
    PROVE  /\ r.kind = "provision_gateway" => WrittenMembers(r) = [members EXCEPT ![r.owner] = "owner"]
           /\ r.kind = "assign" => WrittenMembers(r) = [members EXCEPT ![r.target] = r.role]
           /\ r.kind = "remove" => WrittenMembers(r) = [members EXCEPT ![r.target] = "none"]
           /\ r.kind = "transfer" =>
                  /\ DOMAIN WrittenMembers(r) = Users
                  /\ WrittenMembers(r) = [u \in Users |-> WrittenMembers(r)[u]]
                  /\ \A u \in Users :
                       /\ u = r.target => WrittenMembers(r)[u] = "owner"
                       /\ u # r.target /\ members[u] = "owner" => WrittenMembers(r)[u] = "viewer"
                       /\ u # r.target /\ members[u] # "owner" => WrittenMembers(r)[u] = members[u]
           /\ r.kind \notin {"provision_gateway", "assign", "remove", "transfer"} =>
                  WrittenMembers(r) = members
  <1>1. r.kind = "transfer" =>
            WrittenMembers(r) = [u \in Users |-> IF u = r.target THEN "owner"
                                                 ELSE IF members[u] = "owner" THEN "viewer"
                                                 ELSE members[u]]
    BY Zenon DEF WrittenMembers
  <1>2. r.kind = "transfer" => \A u \in Users :
            /\ u = r.target => WrittenMembers(r)[u] = "owner"
            /\ u # r.target /\ members[u] = "owner" => WrittenMembers(r)[u] = "viewer"
            /\ u # r.target /\ members[u] # "owner" => WrittenMembers(r)[u] = members[u]
    BY <1>1
  <1>3. r.kind = "transfer" => /\ DOMAIN WrittenMembers(r) = Users
                               /\ WrittenMembers(r) = [u \in Users |-> WrittenMembers(r)[u]]
    BY <1>1
  <1> QED
    BY <1>2, <1>3 DEF WrittenMembers

\* A transfer counts one owner: the target.
LEMMA CountOwnersKeeps ==
    ASSUME RegistryInv, NEW p \in Procs, NEW o, Runs(p, o), CountOwners(p)
    PROVE  RegistryInv'
  <1>1. o.pc = "count"
    BY DEF CountOwners, At, Runs
  <1>2. o.req.kind = "transfer" /\ o.req.target \in Users
    BY <1>1, RequestFields DEF Legal, Runs
  <1>3. {u \in Users : WrittenMembers(o.req)[u] = "owner"} = {o.req.target}
    <2>1. \A u \in Users : WrittenMembers(o.req)[u] = "owner" <=> u = o.req.target
      BY <1>2, MembersWritten DEF Runs
    <2> QED
      BY <1>2, <2>1 DEF Runs
  <1>4. ExactlyOne({u \in Users : WrittenMembers(o.req)[u] = "owner"})
    BY <1>3 DEF ExactlyOne, Runs
  <1>5. Continue(p, Writing(p, TRUE))
    BY <1>4 DEF CountOwners, Require, Writing, Runs
  <1>6. ASSUME NEW t, Same(t, o), t.pc = "commit", t.write
        PROVE  Due(p, o, t)
    BY <1>1, <1>2, <1>6 DEF Due, Same, Legal, Knows, KnowsGateway, KnowsMembers,
       KnowsSensor, KnowsSelf, OnGateway, OnSensor, AsOwner, Runs
  <1> QED
    BY <1>1, <1>5, <1>6, GoesToCommit

\* The patches: the twin has the name that was read with the row.
LEMMA LockTwinKeeps ==
    ASSUME RegistryInv, NEW p \in Procs, NEW o, Runs(p, o), LockTwin(p)
    PROVE  RegistryInv'
  <1>1. o.pc = "twin"
    BY DEF LockTwin, At, Runs
  <1>2. /\ o.req.kind \in {"patch_gateway", "patch_sensor"}
        /\ gateway # None /\ o.name = gateway.name
        /\ o.req.kind = "patch_sensor" =>
               /\ o.req.sensor \in Sensors
               /\ sensors[o.req.sensor] # None /\ o.sensor = sensors[o.req.sensor]
    BY <1>1, RequestFields DEF Legal, Knows, KnowsGateway, KnowsSensor, OnGateway, OnSensor, Runs
  <1>3. PICK to \in {"commit", "update"} : Continue(p, To(p, to))
    <2>1. CASE o.req.kind = "patch_gateway"
      BY <1>2, <2>1, GatewayInStep DEF LockTwin, Require, Runs
    <2>2. CASE o.req.kind = "patch_sensor"
      BY <1>2, <2>2, SensorInStep DEF LockTwin, Require, Runs
    <2> QED
      BY <1>2, <2>1, <2>2 DEF Runs
  <1>4. ASSUME NEW t, Same(t, o), t.pc = to, ~t.write
        PROVE  Due(p, o, t)
    BY <1>1, <1>2, <1>4 DEF Due, Same, Legal, Knows, KnowsGateway, KnowsMembers,
       KnowsSensor, KnowsSelf, OnGateway, OnSensor, AsOwner, Runs
  <1>5. to \in Steps
    BY DEF Steps
  <1> QED
    BY ONLY RegistryInv, Runs(p, o), <1>3, <1>4, <1>5, MovesOn

\* The statements that keep what they have read.
Looked(p, admin, pc) == [tx[p] EXCEPT !.admin = admin, !.pc = pc]
ReadGateway(p, pc) == [tx[p] EXCEPT !.name = gateway.name, !.desc = gateway.desc, !.pc = pc]
ReadSensor(p, pc) == [tx[p] EXCEPT !.sensor = sensors[tx[p].req.sensor], !.pc = pc]

LEMMA CheckKeeps ==
    ASSUME RegistryInv, NEW p \in Procs, NEW o, Runs(p, o), Check(p)
    PROVE  RegistryInv'
  <1>1. o.req \in Requests /\ ~o.write /\ o \in Transactions /\ o.req.kind # "persist"
    BY DEF Check, At, Legal, Runs
  <1>2. PICK admin \in BOOLEAN : admin = (o.req.actor \in admins)
    <2>1. (o.req.actor \in admins) \in BOOLEAN
      OBVIOUS
    <2> QED
      BY <2>1, Zenon
  <1>3. PICK pc : pc = CASE o.req.kind = "provision_gateway" -> "known owner"
                         [] o.req.kind = "update_user" -> "profile"
                         [] o.req.kind = "create_user" -> "provider"
                         [] OTHER -> "gateway"
    OBVIOUS
  <1>4. PICK t : t = Looked(p, admin, pc)
    OBVIOUS
  <1>5. Continue(p, t) \/ Ends(p, "forbidden")
    BY <1>2, <1>3, <1>4 DEF Check, Require, Looked, Runs
  <1>6. /\ pc \in {"known owner", "profile", "provider", "gateway"}
        /\ pc = "known owner" => o.req.kind = "provision_gateway"
        /\ pc = "profile" => o.req.kind = "update_user"
        /\ pc = "provider" => o.req.kind = "create_user"
        /\ pc = "gateway" => o.req.kind \notin {"provision_gateway", "update_user", "create_user"}
    BY <1>3
  <1>7. t \in Transactions /\ t.req = o.req /\ t.pc = pc /\ ~t.write /\ t.stamp = o.stamp
    BY <1>1, <1>4, <1>6 DEF Looked, Transactions, Steps, Runs
  <1>8. Legal(t)
    BY <1>1, <1>6, <1>7, RequestFields DEF Legal
  <1>9. Due(p, o, t)
    BY <1>6, <1>7, <1>8 DEF Due, Knows, KnowsGateway, KnowsMembers, KnowsSensor, KnowsSelf,
       OnGateway, OnSensor, AsOwner
  <1> QED
    BY <1>5, <1>7, <1>9, Proceeds, EndsKeeps DEF Answers

LEMMA LockGatewayKeeps ==
    ASSUME RegistryInv, NEW p \in Procs, NEW o, Runs(p, o), LockGateway(p)
    PROVE  RegistryInv'
  <1>1. /\ o.req \in Requests /\ ~o.write /\ o.pc = "gateway" /\ o \in Transactions
        /\ o.req.kind \in {"provision_sensor", "patch_gateway", "patch_sensor", "assign", "remove",
                           "transfer"}
    BY DEF LockGateway, At, Legal, Runs
  <1>2. CASE gateway = None
    BY <1>2, EndsKeeps DEF LockGateway, Answers
  <1>3. CASE gateway # None
    <2>1. PICK owns \in BOOLEAN :
              owns <=> ~o.admin /\ ~(o.req.kind = "provision_sensor" /\ o.req.route = "admin")
      OBVIOUS
    <2>2. PICK pc : pc = CASE o.req.kind = "provision_sensor" -> IF owns THEN "member" ELSE "parent"
                           [] o.req.kind = "patch_sensor" -> IF owns THEN "member" ELSE "sensor"
                           [] o.req.kind = "patch_gateway" -> "twin"
                           [] o.req.kind = "remove" -> "member"
                           [] OTHER -> "known target"
      OBVIOUS
    <2>3. /\ pc \in {"member", "parent", "sensor", "twin", "known target"}
          /\ pc = "member" => o.req.kind \in {"provision_sensor", "patch_sensor", "remove"}
          /\ pc = "parent" => ~owns /\ o.req.kind = "provision_sensor"
          /\ pc = "sensor" => ~owns /\ o.req.kind = "patch_sensor"
          /\ pc = "twin" => o.req.kind = "patch_gateway"
          /\ pc = "known target" => o.req.kind \in {"assign", "transfer"}
      BY <1>1, <2>2
    <2>4. PICK t : t = ReadGateway(p, pc)
      OBVIOUS
    <2>5. /\ t \in Transactions /\ t.req = o.req /\ t.pc = pc /\ ~t.write /\ t.admin = o.admin
        /\ t.stamp = o.stamp
          /\ t.name = gateway.name
      BY <1>1, <1>3, <2>3, <2>4, GatewayInStep DEF ReadGateway, Transactions, Steps, Runs
    <2>6. Continue(p, t)
      BY <1>3, <2>1, <2>2, <2>4 DEF LockGateway, ReadGateway, Runs
    <2>7. Legal(t)
      BY <1>1, <2>3, <2>5 DEF Legal
    <2>8. KnowsGateway(t) /\ KnowsMembers(t) /\ KnowsSelf(t)
      BY ONLY <1>3, <2>1, <2>3, <2>5 DEF KnowsGateway, KnowsMembers, KnowsSelf, OnGateway, AsOwner
    <2>9. KnowsSensor(t) /\ ~OnSensor(t)
      BY ONLY <2>3, <2>5 DEF KnowsSensor, OnSensor
    <2>10. <<GatewayRow, GatewayMode(o.req)>> \in Wants(p)
      BY <1>1, <1>3, RowExists DEF Wants, ProvisionSensorLocks, PatchGatewayLocks,
         PatchSensorLocks, MembershipLocks, TransferLocks, Select, Runs
    <2>11. Due(p, o, t)
      BY <2>7, <2>8, <2>9, <2>10 DEF Due, Knows
    <2> QED
      BY <2>5, <2>6, <2>11, Proceeds
  <1> QED
    BY <1>2, <1>3

LEMMA LockSensorKeeps ==
    ASSUME RegistryInv, NEW p \in Procs, NEW o, Runs(p, o), LockSensor(p)
    PROVE  RegistryInv'
  <1>1. /\ o.req \in Requests /\ ~o.write /\ o.pc = "sensor" /\ o \in Transactions
        /\ o.req.kind \in {"provision_sensor", "patch_sensor", "persist"} /\ o.req.sensor \in Sensors
        /\ Legal(o) /\ Knows(o)
    BY RequestFields DEF LockSensor, At, Legal, Runs
  <1>2. PICK pc : pc = IF o.req.kind = "patch_sensor" THEN "parent" ELSE "graph"
    OBVIOUS
  <1>3. PICK t : t = ReadSensor(p, pc)
    OBVIOUS
  <1>4. /\ t \in Transactions /\ t.req = o.req /\ t.pc = pc /\ ~t.write /\ t.admin = o.admin
        /\ t.stamp = o.stamp
        /\ t.name = o.name /\ t.sensor = sensors[o.req.sensor]
    <2>1. PICK name \in Names \cup {None} : name = sensors[o.req.sensor]
      BY <1>1, SensorInStep
    <2>2. pc \in Steps
      BY <1>2 DEF Steps
    <2>3. t = [o EXCEPT !.sensor = name, !.pc = pc] /\ o \in Transactions /\ ~o.write
      BY <1>1, <1>3, <2>1 DEF ReadSensor, Runs
    <2> QED
      BY ONLY <2>1, <2>2, <2>3, name \in Names \cup {None} DEF Transactions
  <1>5. \/ Ends(p, "not_found") \/ Ends(p, "conflict")
        \/ /\ sensors[o.req.sensor] # None
           /\ o.req.kind = "provision_sensor" => sensors[o.req.sensor] = o.req.name
           /\ Continue(p, t)
    BY <1>2, <1>3 DEF LockSensor, ReadSensor, Runs
  <1>6. CASE Ends(p, "not_found") \/ Ends(p, "conflict")
    BY <1>6, EndsKeeps DEF Answers
  <1>7. CASE /\ sensors[o.req.sensor] # None
             /\ o.req.kind = "provision_sensor" => sensors[o.req.sensor] = o.req.name
             /\ Continue(p, t)
    <2>1. Legal(t)
      BY <1>1, <1>2, <1>4 DEF Legal
    <2>2. KnowsGateway(t) /\ KnowsMembers(t) /\ KnowsSelf(t)
      BY ONLY <1>1, <1>2, <1>4 DEF Knows, KnowsGateway, KnowsMembers, KnowsSelf, OnGateway, AsOwner
    <2>3. KnowsSensor(t)
      BY ONLY <1>1, <1>2, <1>4, <1>7 DEF KnowsSensor, OnSensor
    <2>4. <<<<"sensor", o.req.sensor>>, "Update">> \in Wants(p)
      BY <1>1, <1>7, RowExists DEF Wants, ProvisionSensorLocks, SensorGraphLocks,
         PatchSensorLocks, PersistLocks, Select, Runs
    <2>5. OnGateway(t) => OnGateway(o)
      BY <1>1, <1>2, <1>4 DEF OnGateway
    <2>6. Due(p, o, t)
      BY <2>1, <2>2, <2>3, <2>4, <2>5 DEF Due, Knows
    <2> QED
      BY <1>4, <1>5, <1>7, <2>6, Proceeds
  <1> QED
    BY <1>5, <1>6, <1>7

-----------------------------------------------------------------------------
\* Steps that take no lock and write no row a decision rests on.
LEMMA QuietKeeps ==
    ASSUME RegistryInv, NEW p \in Procs, NEW t \in Transactions, tx' = [tx EXCEPT ![p] = t],
           UNCHANGED <<deciding, locks>>, now' \in Nat, now' >= now, t.stamp <= now, Legal(t), Knows(t),
           OnGateway(t) => OnGateway(tx[p]) /\ t.req = tx[p].req,
           OnSensor(t) => OnSensor(tx[p]) /\ t.req = tx[p].req
    PROVE  RegistryInv'
  <1>1. tx'[p] = t /\ \A q \in Procs \ {p} : tx'[q] = tx[q]
    BY DEF RegistryInv, Typed
  <1>2. Typed' /\ Owned' /\ Exclusive' /\ Timely'
    <2>1. now \in Nat /\ t.stamp \in Nat /\ \A q \in Procs : tx[q].stamp \in Nat
      BY TransactionFields DEF RegistryInv, Typed
    <2>2. Timely'
      BY <1>1, <2>1 DEF RegistryInv, Timely
    <2>3. Typed'
      BY DEF RegistryInv, Typed, deciding
    <2>4. Owned' /\ Exclusive'
      BY DEF RegistryInv, Owned, Owners, deciding, Exclusive
    <2> QED
      BY <2>2, <2>3, <2>4
  <1>3. Mirrored'
    <2>1. now \in Nat /\ (gateway # None => gatewayTwin.at \in Nat)
          /\ \A s \in Sensors : sensors[s] # None => twins[s].at \in Nat
      BY DEF RegistryInv, Typed, Mirrored
    <2> QED
      BY <2>1 DEF RegistryInv, Mirrored, deciding
  <1>4. Sound(p)'
    <2>1. Legal(tx[p])' /\ Knows(tx[p])'
      BY <1>1, KnowledgeStays
    <2>2. /\ OnGateway(t) => Lock(p, GatewayRow, GatewayMode(t.req)) \in locks'
          /\ OnSensor(t) => Lock(p, <<"sensor", t.req.sensor>>, "Update") \in locks'
      BY DEF RegistryInv, Sound, Holds
    <2>3. Holds(p)'
      BY <1>1, <2>2 DEF Holds, OnGateway, OnSensor, GatewayMode, Lock, GatewayRow
    <2> QED
      BY <2>1, <2>3 DEF Sound
  <1>5. ASSUME NEW q \in Procs \ {p}
        PROVE  Sound(q)'
    BY <1>1, OthersStay DEF RegistryInv
  <1> QED
    BY <1>2, <1>3, <1>4, <1>5 DEF RegistryInv

\* A request begins with nothing locked and nothing known.
LEMMA BeginKeeps ==
    ASSUME RegistryInv, NEW p \in Procs, NEW r \in Requests, Begin(p, r)
    PROVE  RegistryInv'
  <1>1. PICK pc : pc = CASE r.kind = "persist" -> "sensor"
                         [] r.kind = "provision_sensor" /\ r.route = "owner" -> "gateway"
                         [] OTHER -> "check"
    OBVIOUS
  <1>2. /\ pc \in {"sensor", "gateway", "check"}
        /\ pc = "sensor" => r.kind = "persist"
        /\ pc = "gateway" => r.kind = "provision_sensor"
        /\ pc = "check" => r.kind # "persist"
    BY <1>1
  <1>3. PICK t : t = [Idle("none") EXCEPT !.req = r, !.stamp = now, !.pc = pc]
    OBVIOUS
  <1>4. now \in Nat /\ pc \in Steps /\ "none" \in Answers \ {"inconsistent"}
    BY <1>2 DEF RegistryInv, Typed, Steps, Answers
  <1>5. t \in Transactions /\ t.req = r /\ t.pc = pc /\ ~t.write /\ t.stamp = now
    BY <1>3, <1>4 DEF Idle, Transactions
  <1>6. tx' = [tx EXCEPT ![p] = t] /\ UNCHANGED <<deciding, locks, now>>
    BY <1>1, <1>3 DEF Begin, tables, deciding
  <1>7. Legal(t)
    BY <1>2, <1>5 DEF Legal
  <1>8. Knows(t) /\ ~OnGateway(t) /\ ~OnSensor(t)
    BY ONLY <1>2, <1>5 DEF Knows, KnowsGateway, KnowsMembers, KnowsSensor, KnowsSelf, OnGateway,
       OnSensor, AsOwner
  <1>9. UNCHANGED <<deciding, locks>> /\ now' \in Nat /\ now' >= now /\ t.stamp <= now
    BY <1>4, <1>5, <1>6
  <1> QED
    BY <1>5, <1>6, <1>7, <1>8, <1>9, QuietKeeps

\* The UPDATE of a patch: its time is not before the twin's.
LEMMA UpdateKeeps ==
    ASSUME RegistryInv, NEW p \in Procs, NEW o, o = tx[p], Update(p)
    PROVE  RegistryInv'
  <1>1. /\ o.req \in Requests /\ o.pc = "update" /\ o \in Transactions /\ Legal(o) /\ Knows(o)
        /\ ~o.write /\ o.req.kind \in {"patch_gateway", "patch_sensor"}
    BY Current DEF Update, At, Legal
  <1>2. PICK t : t = [o EXCEPT !.pc = "commit", !.write = TRUE, !.stamp = now]
    OBVIOUS
  <1>3. now \in Nat /\ tx \in [Procs -> Transactions]
    BY DEF RegistryInv, Typed
  <1>4. /\ t \in Transactions /\ t.req = o.req /\ t.pc = "commit" /\ t.write /\ t.stamp = now
        /\ t.admin = o.admin /\ t.name = o.name /\ t.sensor = o.sensor
    BY ONLY <1>1, <1>2, <1>3 DEF Transactions, Steps
  <1>5. tx' = [tx EXCEPT ![p] = t] /\ UNCHANGED <<deciding, locks>> /\ now' = now + 1
    BY <1>2, <1>3 DEF Update, tables, deciding, Transactions
  <1>6. Legal(t) /\ (OnGateway(t) => OnGateway(o)) /\ (OnSensor(t) => OnSensor(o))
    BY ONLY <1>1, <1>4 DEF Legal, OnGateway, OnSensor
  <1>7. /\ gateway # None /\ gatewayTwin.at <= now
        /\ o.req.kind = "patch_sensor" => twins[o.req.sensor].at <= now
    <2>1. /\ gateway # None
          /\ o.req.kind = "patch_sensor" => o.req.sensor \in Sensors /\ sensors[o.req.sensor] # None
      BY <1>1, RequestFields DEF Knows, KnowsGateway, KnowsSensor, OnGateway, OnSensor
    <2> QED
      BY <2>1, GatewayInStep, SensorInStep
  <1>8. KnowsGateway(t) /\ KnowsMembers(t) /\ KnowsSelf(t)
    BY ONLY <1>1, <1>4, <1>7 DEF Knows, KnowsGateway, KnowsMembers, KnowsSelf, OnGateway, AsOwner
  <1>9. KnowsSensor(t)
    BY ONLY <1>1, <1>4, <1>7 DEF Knows, KnowsSensor, OnSensor
  <1>10. now' \in Nat /\ now' >= now /\ t.stamp <= now
    BY <1>3, <1>4, <1>5
  <1>11. Knows(t)
    BY <1>8, <1>9 DEF Knows
  <1> QED
    BY <1>4, <1>5, <1>6, <1>10, <1>11, QuietKeeps

LEMMA ProviderKeeps ==
    ASSUME RegistryInv, NEW p \in Procs, NEW o, o = tx[p], Provider(p)
    PROVE  RegistryInv'
  <1>1. /\ o.pc = "provider" /\ o \in Transactions /\ Legal(o) /\ ~o.write
        /\ now \in Nat /\ o.stamp <= now
    BY Current DEF Provider, At, RegistryInv, Typed, Timely
  <1>2. CASE Ends(p, "exists")
    BY <1>2, EndsKeeps DEF Answers
  <1>3. ASSUME NEW t, t = Idle("unknown") \/ t = To(p, "confirm"), tx' = [tx EXCEPT ![p] = t],
               UNCHANGED <<deciding, locks, now>>
        PROVE  RegistryInv'
    <2>1. /\ t \in Transactions /\ t.stamp \in {0, o.stamp} /\ ~t.write
          /\ t.pc = "idle" \/ (t.pc = "confirm" /\ t.req = o.req)
      <3>1. CASE t = Idle("unknown")
        BY <3>1, IdleOwesNothing DEF Answers
      <3>2. CASE t = To(p, "confirm")
        BY <1>1, <3>2 DEF To, Transactions, Steps
      <3> QED
        BY <1>3, <3>1, <3>2
    <2>2. Legal(t)
      BY <1>1, <2>1 DEF Legal
    <2>3. Knows(t) /\ ~OnGateway(t) /\ ~OnSensor(t)
      BY ONLY <2>1 DEF Knows, KnowsGateway, KnowsMembers, KnowsSensor, KnowsSelf, OnGateway,
         OnSensor, AsOwner
    <2>4. UNCHANGED <<deciding, locks>> /\ now' \in Nat /\ now' >= now /\ t.stamp <= now
      BY <1>1, <1>3, <2>1
    <2> QED
      BY <1>3, <2>1, <2>2, <2>3, <2>4, QuietKeeps
  <1> QED
    BY <1>2, <1>3 DEF Provider, deciding

LEMMA ConfirmKeeps ==
    ASSUME RegistryInv, NEW p \in Procs, Confirm(p)
    PROVE  RegistryInv'
  <1>1. Ends(p, "ok") \/ Ends(p, "unverified")
    BY DEF Confirm
  <1> QED
    BY <1>1, EndsKeeps DEF Answers

LEMMA RollbackKeeps ==
    ASSUME RegistryInv, NEW p \in Procs, Rollback(p)
    PROVE  RegistryInv'
  BY EndsKeeps DEF Rollback, Answers

-----------------------------------------------------------------------------
\* A transaction that holds the gateway row FOR UPDATE is alone on it, and the
\* holder of a sensor row is alone on that.
LEMMA AloneOnGateway ==
    ASSUME RegistryInv, NEW p \in Procs, OnGateway(tx[p]), GatewayMode(tx[p].req) = "Update",
           NEW q \in Procs \ {p}
    PROVE  ~OnGateway(tx[q])
  <1>1. SUFFICES ASSUME OnGateway(tx[q]) PROVE FALSE
    OBVIOUS
  <1>2. PICK m \in {"Share", "Update"} : m = GatewayMode(tx[q].req)
    BY DEF GatewayMode
  <1>3. Lock(p, GatewayRow, "Update") \in locks /\ Lock(q, GatewayRow, m) \in locks
    BY <1>1, <1>2 DEF RegistryInv, Sound, Holds
  <1>4. ~Conflicts("Update", m)
    BY <1>3 DEF RegistryInv, Exclusive, Lock
  <1> QED
    BY <1>4 DEF Conflicts

LEMMA AloneOnSensor ==
    ASSUME RegistryInv, NEW p \in Procs, OnSensor(tx[p]), NEW q \in Procs \ {p}, OnSensor(tx[q])
    PROVE  tx[q].req.sensor # tx[p].req.sensor
  <1>1. SUFFICES ASSUME NEW s, s = tx[p].req.sensor, s = tx[q].req.sensor PROVE FALSE
    OBVIOUS
  <1>2. Lock(p, <<"sensor", s>>, "Update") \in locks /\ Lock(q, <<"sensor", s>>, "Update") \in locks
    BY <1>1 DEF RegistryInv, Sound, Holds
  <1>3. ~Conflicts("Update", "Update")
    BY <1>2 DEF RegistryInv, Exclusive, Lock
  <1> QED
    BY <1>3 DEF Conflicts

\* What is left to know of the gateway and its members without being on it.
LEMMA AwayKnows ==
    ASSUME NEW q \in Procs, ~OnGateway(tx[q]), tx'[q] = tx[q], Legal(tx[q]), Knows(tx[q]),
           gateway # None => gateway' # None
    PROVE  KnowsGateway(tx[q])' /\ KnowsMembers(tx[q])' /\ KnowsSelf(tx[q])'
  <1>1. PICK t : t = tx[q]
    OBVIOUS
  <1>2. /\ tx'[q] = t /\ ~OnGateway(t) /\ Legal(t) /\ KnowsGateway(t) /\ KnowsSelf(t)
    BY <1>1 DEF Knows
  <1>3. /\ t.pc \notin {"own", "verify owner", "verify graph", "enrol"} /\ ~AsOwner(t)
        /\ ~(t.write /\ t.req.kind \in {"provision_gateway", "patch_gateway", "assign", "remove"})
    BY ONLY <1>2 DEF OnGateway, Legal, AsOwner
  <1>4. t.pc = "verify" => gateway' # None
    BY <1>2 DEF KnowsGateway
  <1>5. KnowsGateway(tx[q])'
    BY ONLY <1>2, <1>3, <1>4 DEF KnowsGateway, OnGateway
  <1>6. KnowsMembers(tx[q])'
    BY ONLY <1>2, <1>3 DEF KnowsMembers, AsOwner
  <1>7. KnowsSelf(tx[q])'
    BY ONLY <1>2 DEF KnowsSelf
  <1> QED
    BY <1>5, <1>6, <1>7

LEMMA SensorKnowledgeStays ==
    ASSUME NEW q \in Procs, tx'[q] = tx[q], KnowsSensor(tx[q]), UNCHANGED <<sensors, twins>>
    PROVE  KnowsSensor(tx[q])'
  <1>1. PICK t : t = tx[q]
    OBVIOUS
  <1>2. tx'[q] = t /\ KnowsSensor(t)
    BY <1>1
  <1> QED
    BY <1>2 DEF KnowsSensor, OnSensor

LEMMA GatewayKnowledgeStays ==
    ASSUME NEW q \in Procs, tx'[q] = tx[q], Knows(tx[q]), UNCHANGED <<members, gateway, gatewayTwin>>
    PROVE  KnowsGateway(tx[q])' /\ KnowsMembers(tx[q])' /\ KnowsSelf(tx[q])'
  <1>1. PICK t : t = tx[q]
    OBVIOUS
  <1>2. tx'[q] = t /\ KnowsGateway(t) /\ KnowsMembers(t) /\ KnowsSelf(t)
    BY <1>1 DEF Knows
  <1>3. KnowsGateway(tx[q])'
    BY <1>2 DEF KnowsGateway, OnGateway
  <1>4. KnowsMembers(tx[q])'
    BY <1>2 DEF KnowsMembers, AsOwner
  <1>5. KnowsSelf(tx[q])'
    BY <1>2 DEF KnowsSelf
  <1> QED
    BY <1>3, <1>4, <1>5

\* A write to the gateway row or the members, under the exclusive lock.
LEMMA GatewayWrite ==
    ASSUME RegistryInv, NEW p \in Procs, NEW answer \in Answers \ {"inconsistent"},
           tx' = [tx EXCEPT ![p] = Idle(answer)], locks' = {l \in locks : l.proc # p}, now' = now,
           OnGateway(tx[p]), GatewayMode(tx[p].req) = "Update", UNCHANGED <<sensors, twins>>,
           gateway # None => gateway' # None,
           tx' \in [Procs -> Transactions] => Typed', Owned', Mirrored'
    PROVE  RegistryInv'
  <1>1. ASSUME NEW q \in Procs \ {p}, tx'[q] = tx[q]
        PROVE  Knows(tx[q])'
    <2>1. ~OnGateway(tx[q])
      BY AloneOnGateway
    <2>2. Legal(tx[q]) /\ Knows(tx[q]) /\ KnowsSensor(tx[q])
      BY DEF RegistryInv, Sound, Knows
    <2>3. KnowsGateway(tx[q])' /\ KnowsMembers(tx[q])' /\ KnowsSelf(tx[q])'
      BY <1>1, <2>1, <2>2, AwayKnows
    <2>4. KnowsSensor(tx[q])'
      BY <1>1, <2>2, SensorKnowledgeStays
    <2> QED
      BY <2>3, <2>4 DEF Knows
  <1> QED
    BY <1>1, OverKeeps

\* A commit that writes, by what it writes.
Commits(p, o, answer) ==
    /\ o = tx[p] /\ o.pc = "commit" /\ o.write /\ o \in Transactions /\ o.req \in Requests
    /\ Legal(o) /\ Knows(o) /\ answer \in Answers \ {"inconsistent"}
    /\ tx' = [tx EXCEPT ![p] = Idle(answer)] /\ locks' = {l \in locks : l.proc # p} /\ now' = now
    /\ members' = WrittenMembers(o.req)
    /\ WrittenGateway(o.req, o.stamp) /\ WrittenSensors(o.req, o.stamp)
    /\ o.stamp \in Nat /\ o.stamp <= now /\ now \in Nat

LEMMA CommitProvisionedGateway ==
    ASSUME RegistryInv, NEW p \in Procs, NEW o, NEW answer, Commits(p, o, answer),
           o.req.kind = "provision_gateway"
    PROVE  RegistryInv'
  <1>1. /\ o.req.owner \in Users /\ o.req.name \in Names /\ o.req.desc \in Names \cup {None}
        /\ o.req \in Requests /\ o.stamp \in Nat /\ o.stamp <= now
    BY RequestFields DEF Commits
  <1>2. /\ members' = [members EXCEPT ![o.req.owner] = "owner"]
        /\ gateway' = [name |-> o.req.name, desc |-> o.req.desc]
        /\ gatewayTwin' = [name |-> o.req.name, at |-> o.stamp]
        /\ UNCHANGED <<sensors, twins>> /\ now' = now
    BY <1>1, MembersWritten DEF Commits, WrittenGateway, WrittenSensors
  <1>3. gateway = None /\ OnGateway(o) /\ GatewayMode(o.req) = "Update"
    BY DEF Commits, Knows, KnowsGateway, OnGateway, GatewayMode
  <1>4. gateway' # None /\ gatewayTwin' # None
    <2>1. gateway' \in [name : Names, desc : Names \cup {None}]
      BY <1>1, <1>2
    <2>2. gatewayTwin' \in [name : Names, at : Nat]
      BY <1>1, <1>2
    <2> QED
      BY <2>1, <2>2, NamesAssumption, Zenon
  <1>5. tx' \in [Procs -> Transactions] => Typed'
    BY <1>1, <1>2 DEF RegistryInv, Typed
  <1>6. Owned'
    <2>1. \A u \in Users : members[u] # "owner"
      BY <1>3 DEF RegistryInv, Owned, Owners
    <2>2. Owners' = {o.req.owner}
      BY <1>1, <1>2, <2>1 DEF Owners, RegistryInv, Typed
    <2>3. ExactlyOne(Owners')
      BY <2>2 DEF ExactlyOne
    <2> QED
      BY <1>4, <2>3 DEF Owned
  <1>7. Mirrored'
    BY <1>1, <1>2, <1>3, <1>4 DEF RegistryInv, Mirrored
  <1> QED
    BY <1>2, <1>3, <1>4, <1>5, <1>6, <1>7, GatewayWrite DEF Commits

LEMMA CommitPatchedGateway ==
    ASSUME RegistryInv, NEW p \in Procs, NEW o, NEW answer, Commits(p, o, answer),
           o.req.kind = "patch_gateway"
    PROVE  RegistryInv'
  <1>1. /\ o.req.name \in Names \cup {None} /\ o.req.desc \in Names \cup {None}
        /\ o.req \in Requests /\ o.stamp \in Nat /\ o.stamp <= now
    BY RequestFields DEF Commits
  <1>2. gateway # None /\ OnGateway(o) /\ GatewayMode(o.req) = "Update"
    BY DEF Commits, Knows, KnowsGateway, OnGateway, GatewayMode
  <1>3. PICK name \in Names, desc \in Names \cup {None} :
            /\ members' = members
            /\ gateway' = [name |-> name, desc |-> desc]
            /\ gatewayTwin' = [name |-> name, at |-> o.stamp]
            /\ UNCHANGED <<sensors, twins>> /\ now' = now
    <2>1. /\ gateway' = [name |-> Supplied(o.req.name, gateway.name),
                         desc |-> Supplied(o.req.desc, gateway.desc)]
          /\ gatewayTwin' = [name |-> Supplied(o.req.name, gatewayTwin.name), at |-> o.stamp]
          /\ UNCHANGED <<sensors, twins>> /\ now' = now /\ members' = members
      BY <1>1, MembersWritten DEF Commits, WrittenGateway, WrittenSensors
    <2>2. /\ Supplied(o.req.name, gateway.name) \in Names
          /\ Supplied(o.req.desc, gateway.desc) \in Names \cup {None}
          /\ Supplied(o.req.name, gatewayTwin.name) = Supplied(o.req.name, gateway.name)
      BY <1>1, <1>2, GatewayInStep DEF Supplied
    <2> QED
      BY <2>1, <2>2
  <1>4. gateway' # None /\ gatewayTwin' # None
    <2>1. /\ gateway' \in [name : Names, desc : Names \cup {None}]
          /\ gatewayTwin' \in [name : Names, at : Nat]
      BY <1>1, <1>3
    <2> QED
      BY <2>1, NamesAssumption
  <1>5. tx' \in [Procs -> Transactions] => Typed'
    BY <1>1, <1>3 DEF RegistryInv, Typed
  <1>6. Owned'
    BY <1>2, <1>3, <1>4 DEF RegistryInv, Owned, Owners
  <1>7. Mirrored'
    BY <1>1, <1>2, <1>3, <1>4 DEF RegistryInv, Mirrored
  <1> QED
    BY <1>2, <1>3, <1>4, <1>5, <1>6, <1>7, GatewayWrite DEF Commits

LEMMA CommitMembers ==
    ASSUME RegistryInv, NEW p \in Procs, NEW o, NEW answer, Commits(p, o, answer),
           o.req.kind \in {"assign", "remove", "transfer"}
    PROVE  RegistryInv'
  <1>1. /\ o.req \in Requests /\ o.req.target \in Users
        /\ o.req.kind = "assign" => o.req.role \in {"operator", "viewer"}
    BY RequestFields DEF Commits
  <1>2. gateway # None /\ OnGateway(o) /\ GatewayMode(o.req) = "Update"
    BY DEF Commits, Knows, KnowsGateway, OnGateway, GatewayMode
  <1>3. o.req.kind # "transfer" => members[o.req.target] # "owner"
    BY DEF Commits, Knows, KnowsMembers
  <1>4. UNCHANGED <<gateway, gatewayTwin, sensors, twins, now>> /\ members' = WrittenMembers(o.req)
    BY DEF Commits, WrittenGateway, WrittenSensors
  <1>5. members \in [Users -> {"owner", "operator", "viewer", "none"}]
    BY DEF RegistryInv, Typed
  <1>6. /\ members' \in [Users -> {"owner", "operator", "viewer", "none"}]
        /\ o.req.kind # "transfer" => Owners' = Owners
        /\ o.req.kind = "transfer" => Owners' = {o.req.target}
    <2>1. CASE o.req.kind = "transfer"
      <3>1. /\ DOMAIN members' = Users /\ members' = [u \in Users |-> members'[u]]
            /\ \A u \in Users :
                 /\ u = o.req.target => members'[u] = "owner"
                 /\ u # o.req.target /\ members[u] = "owner" => members'[u] = "viewer"
                 /\ u # o.req.target /\ members[u] # "owner" => members'[u] = members[u]
        BY <1>1, <1>4, <2>1, MembersWritten
      <3> QED
        BY <1>1, <1>5, <2>1, <3>1 DEF Owners
    <2>2. CASE o.req.kind \in {"assign", "remove"}
      <3>1. PICK role \in {"operator", "viewer", "none"} :
                members' = [members EXCEPT ![o.req.target] = role]
        BY <1>1, <1>4, <2>2, MembersWritten
      <3> QED
        BY <1>1, <1>3, <1>5, <2>2, <3>1 DEF Owners
    <2> QED
      BY <2>1, <2>2
  <1>7. Owned'
    <2>1. ExactlyOne(Owners)
      BY <1>2, GatewayInStep
    <2>2. ExactlyOne(Owners')
      BY <1>6, <2>1 DEF ExactlyOne
    <2> QED
      BY <1>2, <1>4, <2>2 DEF Owned
  <1>8. tx' \in [Procs -> Transactions] => Typed'
    BY <1>4, <1>6 DEF RegistryInv, Typed
  <1>9. Mirrored'
    BY <1>4 DEF RegistryInv, Mirrored
  <1> QED
    BY <1>2, <1>4, <1>7, <1>8, <1>9, GatewayWrite DEF Commits

\* A sensor created or renamed: nobody else has its row.
LEMMA CommitSensor ==
    ASSUME RegistryInv, NEW p \in Procs, NEW o, NEW answer, Commits(p, o, answer),
           o.req.kind \in {"provision_sensor", "patch_sensor"}
    PROVE  RegistryInv'
  <1>1. PICK s \in Sensors, name \in Names : s = o.req.sensor /\ name = o.req.name
    BY RequestFields DEF Commits
  <1>2. /\ UNCHANGED <<members, gateway, gatewayTwin, now>>
        /\ sensors' = [sensors EXCEPT ![s] = name]
        /\ twins' = [twins EXCEPT ![s] = [name |-> name, at |-> o.stamp]]
    BY <1>1, MembersWritten DEF Commits, WrittenGateway, WrittenSensors
  <1>3. gateway # None /\ OnSensor(o) /\ o = tx[p] /\ o.stamp \in Nat /\ o.stamp <= now
    BY DEF Commits, Knows, KnowsGateway, OnGateway, OnSensor
  <1>4. /\ sensors \in [Sensors -> Names \cup {None}]
        /\ twins \in [Sensors -> [name : Names, at : Nat] \cup {None}]
    BY DEF RegistryInv, Typed
  <1>5. /\ sensors'[s] = name /\ name # None
        /\ twins'[s] = [name |-> name, at |-> o.stamp] /\ twins'[s] # None
        /\ \A x \in Sensors \ {s} : sensors'[x] = sensors[x] /\ twins'[x] = twins[x]
    <2>1. /\ sensors'[s] = name /\ twins'[s] = [name |-> name, at |-> o.stamp]
          /\ \A x \in Sensors \ {s} : sensors'[x] = sensors[x] /\ twins'[x] = twins[x]
      BY <1>2, <1>4
    <2>2. o.stamp \in Nat
      BY <1>3
    <2>3. [name |-> name, at |-> o.stamp] \in [name : Names, at : Nat]
      BY <2>2
    <2>4. [name |-> name, at |-> o.stamp] # None
      BY <2>3, NamesAssumption
    <2> QED
      BY <2>1, <2>4, NamesAssumption
  <1>6. tx' \in [Procs -> Transactions] => Typed'
    BY <1>2, <1>3 DEF RegistryInv, Typed
  <1>7. Owned'
    BY <1>2 DEF RegistryInv, Owned, Owners
  <1>8. Mirrored'
    <2>1. \A x \in Sensors :
              /\ twins'[x] = None <=> sensors'[x] = None
              /\ sensors'[x] # None => twins'[x].name = sensors'[x] /\ twins'[x].at <= now
      <3> SUFFICES ASSUME NEW x \in Sensors
                   PROVE  /\ twins'[x] = None <=> sensors'[x] = None
                          /\ sensors'[x] # None => twins'[x].name = sensors'[x] /\ twins'[x].at <= now
        OBVIOUS
      <3>1. CASE x = s
        <4>1. sensors'[x] = name /\ name # None /\ twins'[x] # None
          BY ONLY <1>5, <3>1, Zenon
        <4>2. twins'[x] = [name |-> name, at |-> o.stamp]
          BY ONLY <1>5, <3>1, Zenon
        <4>3. twins'[x].name = name /\ twins'[x].at = o.stamp
          BY ONLY <4>2
        <4> QED
          BY ONLY <1>3, <4>1, <4>3, Zenon
      <3>2. CASE x # s
        <4>1. sensors'[x] = sensors[x] /\ twins'[x] = twins[x]
          BY ONLY <1>5, <3>2, x \in Sensors
        <4> QED
          BY <4>1 DEF RegistryInv, Mirrored
      <3> QED
        BY <3>1, <3>2
    <2> QED
      BY <1>2, <1>3, <2>1 DEF RegistryInv, Mirrored
  <1>9. ASSUME NEW q \in Procs \ {p}, tx'[q] = tx[q]
        PROVE  Knows(tx[q])'
    <2>1. PICK t : t = tx[q]
      OBVIOUS
    <2>2. Legal(t) /\ Knows(t) /\ KnowsSensor(t) /\ t \in Transactions
      BY <2>1 DEF RegistryInv, Sound, Knows, Typed
    <2>3. KnowsGateway(tx[q])' /\ KnowsMembers(tx[q])' /\ KnowsSelf(tx[q])'
      BY <1>2, <1>9, <2>1, <2>2, GatewayKnowledgeStays
    <2>4. OnSensor(t) => t.req.sensor # s
      BY <1>1, <1>3, <2>1, AloneOnSensor
    <2>5. t.req.kind \in {"provision_sensor", "patch_sensor", "persist"} /\ t.pc # "idle" =>
              t.req.sensor \in Sensors
      BY <2>2, RequestFields DEF Legal
    <2>6. KnowsSensor(tx[q])'
      <3>1. CASE t.req.kind = "provision_sensor" /\ (t.pc \in {"relate", "graph"} \/ t.write)
        <4>1. OnSensor(t) /\ t.req.sensor \in Sensors /\ sensors'[t.req.sensor] = sensors[t.req.sensor]
          BY <1>5, <2>2, <2>4, <2>5, <3>1 DEF OnSensor, Legal
        <4> QED
          BY ONLY <1>9, <2>1, <2>2, <3>1, <4>1 DEF KnowsSensor, OnSensor, Legal
      <3>2. CASE t.req.kind = "patch_sensor" /\ (OnSensor(t) \/ t.write)
        <4>1. /\ OnSensor(t) /\ t.req.sensor \in Sensors
              /\ sensors'[t.req.sensor] = sensors[t.req.sensor]
              /\ twins'[t.req.sensor] = twins[t.req.sensor]
          BY <1>5, <2>2, <2>4, <2>5, <3>2 DEF OnSensor, Legal
        <4> QED
          BY ONLY <1>9, <2>1, <2>2, <3>2, <4>1 DEF KnowsSensor, OnSensor
      <3>3. CASE \/ t.req.kind = "provision_sensor" /\ t.pc = "sensor"
                 \/ t.req.kind = "persist" /\ t.pc = "graph"
        <4>1. ~t.write /\ t.req.sensor \in Sensors /\ sensors[t.req.sensor] # None
          BY <2>2, <2>5, <3>3 DEF KnowsSensor, Legal
        <4>2. sensors'[t.req.sensor] # None
          BY <1>5, <4>1
        <4> QED
          BY ONLY <1>9, <2>1, <3>3, <4>1, <4>2 DEF KnowsSensor, OnSensor
      <3>4. CASE /\ ~(t.req.kind = "provision_sensor" /\ (t.pc \in {"relate", "graph"} \/ t.write))
                 /\ ~(t.req.kind = "patch_sensor" /\ (OnSensor(t) \/ t.write))
                 /\ ~(t.req.kind = "provision_sensor" /\ t.pc = "sensor")
                 /\ ~(t.req.kind = "persist" /\ t.pc = "graph")
        BY ONLY <1>9, <2>1, <3>4 DEF KnowsSensor, OnSensor
      <3> QED
        BY <3>1, <3>2, <3>3, <3>4
    <2> QED
      BY <2>3, <2>6 DEF Knows
  <1> QED
    BY <1>2, <1>6, <1>7, <1>8, <1>9, OverKeeps DEF Commits

LEMMA CommitKeeps ==
    ASSUME RegistryInv, NEW p \in Procs, Commit(p)
    PROVE  RegistryInv'
  <1>1. PICK o : o = tx[p]
    OBVIOUS
  <1>2. /\ o.pc = "commit" /\ o \in Transactions /\ o.req \in Requests /\ Legal(o) /\ Knows(o)
    BY <1>1, Current DEF Commit, At
  <1>3. PICK answer \in Answers \ {"inconsistent"} :
            /\ tx' = [tx EXCEPT ![p] = Idle(answer)] /\ locks' = {l \in locks : l.proc # p}
            /\ now' = now
    BY DEF Commit, Answers
  <1>4. o.stamp \in Nat /\ o.stamp <= now /\ now \in Nat
    BY <1>1, <1>2, TransactionFields DEF RegistryInv, Timely, Typed
  <1>5. CASE UNCHANGED deciding
    BY <1>3, <1>5, EndsUnwritten
  <1>6. CASE ~o.write
    BY <1>1, <1>5, <1>6 DEF Commit, deciding
  <1>7. CASE o.write
    <2>1. Commits(p, o, answer)
      BY <1>1, <1>2, <1>3, <1>4, <1>7 DEF Commit, Commits
    <2>2. CASE o.req.kind \in {"update_user", "create_user", "persist"}
      <3>1. UNCHANGED deciding
        BY <1>2, <2>1, <2>2, MembersWritten DEF Commits, WrittenGateway, WrittenSensors, deciding
      <3> QED
        BY <1>5, <3>1
    <2> QED
      BY <1>2, <2>1, <2>2, RequestFields, CommitProvisionedGateway, CommitPatchedGateway,
         CommitMembers, CommitSensor
  <1> QED
    BY <1>6, <1>7

-----------------------------------------------------------------------------
LEMMA RegistryInit == Init => RegistryInv
  <1> SUFFICES ASSUME Init PROVE RegistryInv
    OBVIOUS
  <1>1. "none" \in Answers \ {"inconsistent"}
    BY DEF Answers
  <1>2. tx \in [Procs -> Transactions] /\ \A p \in Procs : tx[p] = Idle("none")
    BY <1>1, IdleOwesNothing DEF Init
  <1>3. PICK exists \in BOOLEAN, there \in SUBSET Sensors :
          /\ there # {} => exists
          /\ members = [u \in Users |-> IF exists /\ u = Owner THEN "owner" ELSE "none"]
          /\ gateway = IF exists THEN [name |-> OldName, desc |-> None] ELSE None
          /\ gatewayTwin = IF exists THEN [name |-> OldName, at |-> 0] ELSE None
          /\ sensors = [s \in Sensors |-> IF s \in there THEN OldName ELSE None]
          /\ twins = [s \in Sensors |->
                          IF s \in there THEN [name |-> OldName, at |-> 0] ELSE None]
    BY DEF Init
  <1>4. now = 1 /\ locks = {}
    BY DEF Init
  <1>5. Typed
    BY <1>2, <1>3, <1>4, NamesAssumption DEF Typed
  <1>6. gateway # None <=> exists
    BY <1>3, NamesAssumption
  <1>7. Owned
    <2>1. CASE exists
      <3>1. Owners = {Owner}
        BY <1>3, <2>1, NamesAssumption DEF Owners
      <3> QED
        BY <1>6, <2>1, <3>1 DEF Owned, ExactlyOne
    <2>2. CASE ~exists
      BY <1>3, <1>6, <2>2 DEF Owned, Owners
    <2> QED
      BY <2>1, <2>2
  <1>8. Mirrored
    <2>1. \A s \in Sensors :
              /\ s \in there => sensors[s] = OldName /\ twins[s] = [name |-> OldName, at |-> 0]
              /\ s \notin there => sensors[s] = None /\ twins[s] = None
      BY <1>3
    <2>2. OldName # None /\ [name |-> OldName, at |-> 0] # None
      BY NamesAssumption
    <2>3. \A s \in Sensors :
              /\ twins[s] = None <=> sensors[s] = None
              /\ sensors[s] # None =>
                     gateway # None /\ twins[s].name = sensors[s] /\ twins[s].at <= now
      BY <1>3, <1>4, <1>6, <2>1, <2>2
    <2>4. /\ gatewayTwin = None <=> gateway = None
          /\ gateway # None => gatewayTwin.name = gateway.name /\ gatewayTwin.at <= now
      BY <1>3, <1>4, <1>6, <2>2
    <2> QED
      BY <2>3, <2>4 DEF Mirrored
  <1>9. Exclusive /\ Timely
    BY <1>1, <1>2, <1>4, IdleOwesNothing DEF Exclusive, Timely
  <1>10. ASSUME NEW p \in Procs
         PROVE  Sound(p)
    <2>1. tx[p].pc = "idle" /\ ~tx[p].write
      BY <1>1, <1>2, IdleOwesNothing
    <2> QED
      BY <2>1, IdleIsSound DEF Sound, Holds
  <1> QED
    BY <1>5, <1>7, <1>8, <1>9, <1>10 DEF RegistryInv

LEMMA RegistryStep == RegistryInv /\ [Next]_vars => RegistryInv'
  <1> SUFFICES ASSUME RegistryInv, [Next]_vars PROVE RegistryInv'
    OBVIOUS
  <1>1. ASSUME NEW p \in Procs, Statement(p)
        PROVE  RegistryInv'
    <2>1. PICK o : o = tx[p]
      OBVIOUS
    <2>2. CASE Update(p) \/ Provider(p) \/ Confirm(p) \/ Commit(p)
      BY <2>1, <2>2, UpdateKeeps, ProviderKeeps, ConfirmKeeps, CommitKeeps
    <2>3. ASSUME NEW pc \in Steps \ {"idle", "commit"}, At(p, pc)
          PROVE  Runs(p, o)
      BY <2>1, <2>3, Current DEF At, Runs
    <2>4. CASE \/ KnownTarget(p) \/ Promote(p) \/ KnownOwner(p) \/ Ledger(p) \/ Temporal(p)
               \/ LockOwners(p) \/ VerifyOwner(p) \/ VerifyGraph(p) \/ Parent(p) \/ Graph(p)
      <3>1. Runs(p, o)
        BY <2>3, <2>4 DEF Steps, KnownTarget, Promote, KnownOwner, Ledger, Temporal, LockOwners,
           VerifyOwner, VerifyGraph, Parent, Graph
      <3> QED
        BY <2>4, <3>1, PlainKeeps, ComparesGatewayKeeps, GraphKeeps
    <2>5. CASE Own(p) \/ Grant(p) \/ Demote(p) \/ Relate(p) \/ Enrol(p) \/ LockMember(p)
      <3>1. Runs(p, o)
        BY <2>3, <2>5 DEF Steps, Own, Grant, Demote, Relate, Enrol, LockMember
      <3> QED
        BY <2>5, <3>1, PlainKeeps, WritesKeeps, LockMemberKeeps
    <2>6. CASE \/ Claim(p) \/ VerifyGateway(p) \/ InsertSensor(p) \/ LockProfile(p) \/ CountOwners(p)
               \/ LockTwin(p) \/ Check(p) \/ LockGateway(p) \/ LockSensor(p)
      <3>1. Runs(p, o)
        BY <2>3, <2>6 DEF Steps, Claim, VerifyGateway, InsertSensor, LockProfile, CountOwners,
           LockTwin, Check, LockGateway, LockSensor
      <3> QED
        BY <2>6, <3>1, ClaimKeeps, LockProfileKeeps, CountOwnersKeeps, LockTwinKeeps, CheckKeeps,
           LockGatewayKeeps, LockSensorKeeps
    <2> QED
      BY <1>1, <2>2, <2>4, <2>5, <2>6 DEF Statement
  <1>2. ASSUME NEW p \in Procs, Rollback(p)
        PROVE  RegistryInv'
    BY <1>2, RollbackKeeps
  <1>3. ASSUME NEW p \in Procs, NEW r \in Requests, Begin(p, r)
        PROVE  RegistryInv'
    BY <1>3, BeginKeeps
  <1>4. CASE UNCHANGED vars
    <2>1. UNCHANGED <<deciding, tx, locks, now>>
      BY <1>4 DEF vars, deciding
    <2>2. Typed' /\ Owned' /\ Mirrored' /\ Exclusive' /\ Timely'
      BY <2>1 DEF RegistryInv, Typed, Owned, Owners, Mirrored, Exclusive, Timely, deciding
    <2>3. ASSUME NEW q \in Procs
          PROVE  Sound(q)'
      BY <2>1, OthersStay DEF RegistryInv
    <2> QED
      BY <2>2, <2>3 DEF RegistryInv
  <1> QED
    BY <1>1, <1>2, <1>3, <1>4 DEF Next, Finished

\* The invariant the results rest on: what a transaction has read under a row
\* lock is still so while it holds the lock.
THEOREM RegistryInvariance == Spec => []RegistryInv
  BY RegistryInit, RegistryStep, PTL DEF Spec

\* Whatever assignments, removals, transfers and provisionings interleave, a
\* gateway that exists has exactly one owner (AssignGatewayUser,
\* RemoveGatewayUser, TransferGatewayOwner, ProvisionGateway).
THEOREM OwnerIsUnique == Spec => []OneOwner
  <1>1. RegistryInv => OneOwner
    BY DEF RegistryInv, Owned, OneOwner
  <1> QED
    BY RegistryInvariance, <1>1, PTL

\* No transaction ends with the answer that the graph or the ownership is
\* inconsistent (ErrProvisioningInconsistent, ErrGatewayOwnerInconsistent,
\* ReasonResourceGraphIncomplete).
THEOREM NobodyIsMisled == Spec => []NoFalseInconsistency
  <1>1. RegistryInv => NoFalseInconsistency
    BY TransactionFields DEF RegistryInv, Typed, NoFalseInconsistency
  <1> QED
    BY RegistryInvariance, <1>1, PTL

\* The check of ownership holds until the commit: a sensor is written on the
\* strength of ownership only while its author owns the gateway
\* (ProvisionSensorForOwner, ProvisionSensorForAdminOrOwner, PatchSensorMetadata).
THEOREM OwnershipOutlivesTheCheck == Spec => WrittenByOwner
  <1>1. RegistryInv /\ [Next]_vars =>
        [\A p \in Procs :
          (/\ tx[p].pc = "commit" /\ tx'[p].answer # "error" /\ tx'[p].pc = "idle"
           /\ tx[p].write
           /\ tx[p].req.kind \in {"provision_sensor", "patch_sensor"}
           /\ ~tx[p].admin
           /\ ~(tx[p].req.kind = "provision_sensor" /\ tx[p].req.route = "admin"))
              => members[tx[p].req.actor] = "owner"]_vars
    BY DEF RegistryInv, Sound, Knows, KnowsMembers, AsOwner
  <1> QED
    BY RegistryInvariance, <1>1, PTL DEF Spec, WrittenByOwner

-----------------------------------------------------------------------------
\* Only a commit changes the tables.
written == <<admins, gatewayTwin, twins>>

LEMMA OnlyCommitWrites ==
    ASSUME RegistryInv, [Next]_vars
    PROVE  UNCHANGED written \/ \E p \in Procs : Commit(p)
  <1>1. ASSUME NEW p \in Procs, Statement(p), ~Commit(p)
        PROVE  UNCHANGED written
    <2> USE DEF Require, Continue, Ends, tables, written
    <2>1. CASE Check(p) \/ LockGateway(p) \/ KnownTarget(p) \/ LockOwners(p) \/ Promote(p) \/ Enrol(p)
      BY <2>1 DEF Check, LockGateway, KnownTarget, LockOwners, Promote, Enrol
    <2>2. CASE LockMember(p)
      <3>1. tx[p].req.kind \in {"assign", "remove", "provision_sensor", "patch_sensor"}
        BY <2>2, Current DEF LockMember, At, Legal
      <3> QED
        BY <2>2, <3>1 DEF LockMember
    <2>3. CASE KnownOwner(p) \/ Claim(p) \/ Own(p) \/ VerifyGateway(p) \/ VerifyOwner(p)
               \/ VerifyGraph(p) \/ Parent(p)
      BY <2>3 DEF KnownOwner, Claim, Own, VerifyGateway, VerifyOwner, VerifyGraph, Parent
    <2>4. CASE InsertSensor(p) \/ Relate(p) \/ LockSensor(p) \/ Graph(p) \/ Ledger(p) \/ Temporal(p)
      BY <2>4 DEF InsertSensor, Relate, LockSensor, Graph, Ledger, Temporal
    <2>5. CASE LockTwin(p) \/ Update(p) \/ LockProfile(p) \/ Grant(p) \/ Demote(p)
      BY <2>5 DEF LockTwin, Update, LockProfile, Grant, Demote
    <2>6. CASE Provider(p) \/ Confirm(p) \/ CountOwners(p)
      BY <2>6 DEF Provider, Confirm, CountOwners
    <2> QED
      BY <1>1, <2>1, <2>2, <2>3, <2>4, <2>5, <2>6 DEF Statement
  <1>2. ASSUME NEW p \in Procs, Rollback(p)
        PROVE  UNCHANGED written
    BY <1>2 DEF Rollback, Ends, tables, written
  <1>3. ASSUME NEW p \in Procs, NEW r \in Requests, Begin(p, r)
        PROVE  UNCHANGED written
    BY <1>3 DEF Begin, tables, written
  <1>4. CASE UNCHANGED vars
    BY <1>4 DEF vars, written
  <1> QED
    BY <1>1, <1>2, <1>3, <1>4 DEF Next, Finished

\* What a commit writes, and what its transaction knew.
LEMMA CommitWrites ==
    ASSUME RegistryInv, NEW p \in Procs, Commit(p), NEW o, o = tx[p]
    PROVE  /\ o.pc = "commit" /\ o.req \in Requests /\ Knows(o) /\ tx'[p].pc = "idle"
           /\ \/ UNCHANGED written
              \/ /\ o.write /\ admins' = WrittenAdmins(o.req)
                 /\ WrittenGateway(o.req, o.stamp) /\ WrittenSensors(o.req, o.stamp)
  <1>1. o.pc = "commit" /\ o.req \in Requests /\ Knows(o)
    BY Current DEF Commit, At
  <1>2. tx'[p].pc = "idle"
    <2>1. tx \in [Procs -> Transactions]
      BY DEF RegistryInv, Typed
    <2>2. PICK answer \in Answers \ {"inconsistent"} : tx' = [tx EXCEPT ![p] = Idle(answer)]
      BY DEF Commit, Answers
    <2> QED
      BY <2>1, <2>2, IdleOwesNothing
  <1>3. \/ UNCHANGED written
        \/ /\ o.write /\ admins' = WrittenAdmins(o.req)
           /\ WrittenGateway(o.req, o.stamp) /\ WrittenSensors(o.req, o.stamp)
    BY DEF Commit, written
  <1> QED
    BY <1>1, <1>2, <1>3

\* The time a twin carries never goes back, although the patch that began first
\* may commit last (PatchGatewayMetadata, PatchSensorMetadata).
THEOREM TimesAdvance == Spec => UpdatedAtAdvances
  <1>1. ASSUME RegistryInv, [Next]_vars
        PROVE  /\ gatewayTwin # None => gatewayTwin'.at >= gatewayTwin.at
               /\ \A s \in Sensors : twins[s] # None => twins'[s].at >= twins[s].at
    <2>1. /\ gatewayTwin # None => gatewayTwin.at \in Nat
          /\ \A s \in Sensors : twins[s] # None => twins[s].at \in Nat
          /\ DOMAIN twins = Sensors
      BY <1>1 DEF RegistryInv, Typed
    <2>2. CASE UNCHANGED written
      BY <2>1, <2>2 DEF written
    <2>3. ASSUME NEW p \in Procs, Commit(p), ~UNCHANGED written
          PROVE  /\ gatewayTwin # None => gatewayTwin'.at >= gatewayTwin.at
                 /\ \A s \in Sensors : twins[s] # None => twins'[s].at >= twins[s].at
      <3>1. PICK o : o = tx[p]
        OBVIOUS
      <3>2. /\ o.pc = "commit" /\ o.req \in Requests /\ Knows(o) /\ o.write
            /\ WrittenGateway(o.req, o.stamp) /\ WrittenSensors(o.req, o.stamp)
        BY <1>1, <2>3, <3>1, CommitWrites
      <3>3. o.stamp \in Nat
        BY <1>1, <3>1, TransactionFields DEF RegistryInv, Typed
      <3>4. gatewayTwin # None => gatewayTwin'.at >= gatewayTwin.at
        <4>1. CASE o.req.kind = "provision_gateway"
          <5>1. gateway = None
            BY <3>2, <4>1 DEF Knows, KnowsGateway
          <5> QED
            BY <1>1, <5>1 DEF RegistryInv, Mirrored
        <4>2. CASE o.req.kind = "patch_gateway"
          <5>1. gatewayTwin.at <= o.stamp
            BY <3>2, <4>2 DEF Knows, KnowsGateway
          <5>2. gatewayTwin'.at = o.stamp
            BY <3>2, <4>2 DEF WrittenGateway
          <5> QED
            BY <2>1, <3>3, <5>1, <5>2
        <4>3. CASE o.req.kind \notin {"provision_gateway", "patch_gateway"}
          BY <2>1, <3>2, <4>3 DEF WrittenGateway
        <4> QED
          BY <4>1, <4>2, <4>3
      <3>5. ASSUME NEW s \in Sensors, twins[s] # None
            PROVE  twins'[s].at >= twins[s].at
        <4>1. CASE o.req.kind \in {"provision_sensor", "patch_sensor"} /\ s = o.req.sensor
          <5>1. sensors[s] # None
            BY <1>1, <3>5 DEF RegistryInv, Mirrored
          <5>2. twins[s].at <= o.stamp
            BY <3>2, <4>1, <5>1 DEF Knows, KnowsSensor
          <5>3. twins'[s].at = o.stamp
            <6>1. twins' = [twins EXCEPT ![s] = [name |-> o.req.name, at |-> o.stamp]]
              BY <3>2, <4>1 DEF WrittenSensors
            <6> QED
              BY <2>1, <6>1
          <5> QED
            BY <2>1, <3>3, <3>5, <5>2, <5>3
        <4>2. CASE ~(o.req.kind \in {"provision_sensor", "patch_sensor"} /\ s = o.req.sensor)
          <5>1. twins'[s] = twins[s]
            BY <2>1, <3>2, <4>2 DEF WrittenSensors
          <5> QED
            BY <2>1, <3>5, <5>1
        <4> QED
          BY <4>1, <4>2
      <3> QED
        BY <3>4, <3>5
    <2> QED
      BY <1>1, <2>2, <2>3, OnlyCommitWrites
  <1>2. RegistryInv /\ [Next]_vars =>
        [/\ gatewayTwin # None => gatewayTwin'.at >= gatewayTwin.at
         /\ \A s \in Sensors : twins[s] # None => twins'[s].at >= twins[s].at]_vars
    BY <1>1
  <1> QED
    BY RegistryInvariance, <1>2, PTL DEF Spec, UpdatedAtAdvances

\* Only a demotion by someone who is no longer an administrator can leave the
\* platform without one (CheckSelfDemotion, UpdateUserProfileAndRole).
THEOREM LastAdminIsNotDemotedInOffice == Spec => LastAdminFallsToALateDemotion
  <1>1. ASSUME RegistryInv, [Next]_vars, admins # {}, admins' = {}
        PROVE  \E p \in Procs : /\ tx[p].pc = "commit" /\ tx'[p].pc = "idle"
                                /\ tx[p].req.kind = "update_user"
                                /\ tx[p].req.actor \notin admins
    <2>1. PICK p \in Procs : Commit(p)
      BY <1>1, OnlyCommitWrites DEF written
    <2>2. PICK o : o = tx[p]
      OBVIOUS
    <2>3. /\ o.pc = "commit" /\ Knows(o) /\ tx'[p].pc = "idle" /\ admins' = WrittenAdmins(o.req)
      BY <1>1, <2>1, <2>2, CommitWrites DEF written
    <2>4. o.req.kind = "update_user" /\ o.req.role = "user" /\ admins' = admins \ {o.req.target}
      BY <1>1, <2>3 DEF WrittenAdmins
    <2>5. o.req.actor # o.req.target
      BY <2>3, <2>4 DEF Knows, KnowsSelf
    <2> QED
      BY <1>1, <2>2, <2>3, <2>4, <2>5
  <1>2. RegistryInv /\ [Next]_vars =>
        [(admins # {} /\ admins' = {}) =>
          \E p \in Procs : /\ tx[p].pc = "commit" /\ tx'[p].pc = "idle"
                           /\ tx[p].req.kind = "update_user"
                           /\ tx[p].req.actor \notin admins]_vars
    BY <1>1
  <1> QED
    BY RegistryInvariance, <1>2, PTL DEF Spec, LastAdminFallsToALateDemotion
=============================================================================
