------------------------------ MODULE MCRegistry ------------------------------
(***************************************************************************)
(* Instances of Registry: two administrators, an owner who is not one, a    *)
(* user without an account, one sensor, three sessions.                     *)
(***************************************************************************)
EXTENDS Registry, TLC

CONSTANTS p1, p2, p3, alice, bob, olga, nina, s1, old, new

ProvisionGateway(actor, owner, name) ==
    [kind |-> "provision_gateway", actor |-> actor, owner |-> owner, name |-> name, desc |-> None]
ProvisionSensor(route, actor, name) ==
    [kind |-> "provision_sensor", route |-> route, actor |-> actor, sensor |-> s1, name |-> name]
PatchGateway(name, desc) ==
    [kind |-> "patch_gateway", actor |-> alice, name |-> name, desc |-> desc]
PatchSensor(actor, name) ==
    [kind |-> "patch_sensor", actor |-> actor, sensor |-> s1, name |-> name]
UpdateUser(actor, target, role) ==
    [kind |-> "update_user", actor |-> actor, target |-> target, role |-> role]
Assign(target, role) ==
    [kind |-> "assign", actor |-> alice, target |-> target, role |-> role]
Remove(target) == [kind |-> "remove", actor |-> alice, target |-> target]
Transfer(target) == [kind |-> "transfer", actor |-> bob, target |-> target]
CreateUser == [kind |-> "create_user", actor |-> alice, target |-> nina]
Persist == [kind |-> "persist", sensor |-> s1]

SomeRequests ==
    {ProvisionGateway(alice, olga, old), ProvisionGateway(bob, bob, old),
     ProvisionSensor("admin", alice, old), ProvisionSensor("owner", olga, old),
     ProvisionSensor("either", olga, old), ProvisionSensor("either", alice, new),
     PatchGateway(new, None), PatchGateway(None, new),
     PatchSensor(olga, new), PatchSensor(alice, old),
     UpdateUser(alice, bob, "user"), UpdateUser(bob, alice, "user"),
     UpdateUser(alice, alice, "user"), UpdateUser(alice, olga, "platform_admin"),
     Assign(olga, "viewer"), Assign(nina, "operator"), Remove(olga), Remove(nina),
     Transfer(bob), Transfer(olga), CreateUser, Persist}

Symmetry == Permutations(Procs)
=============================================================================
