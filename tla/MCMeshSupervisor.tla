-------------------------- MODULE MCMeshSupervisor --------------------------
(* Instances of MeshSupervisor for TLC. *)
EXTENDS MeshSupervisor

CONSTANTS m1, m2, c1, r

MCRegistry == <<m1, m2>>
MCExternal == {m1}
MCResources == {r}
MCClients == {c1}
=============================================================================
