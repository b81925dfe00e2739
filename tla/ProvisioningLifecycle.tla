----------------------- MODULE ProvisioningLifecycle -----------------------
(***************************************************************************)
(* What the controller promises about the life of one DBInstance name,     *)
(* whatever is cached, lost, retried or restarted underneath: the stored   *)
(* provisioning phase walks the phases of types.go in their order, one at  *)
(* a time (DBInstanceReconciler: "Each Reconcile call advances exactly one *)
(* provisioning phase"), never goes back, fails only out of the phases     *)
(* whose work is fatal, and is never left again once failed.               *)
(***************************************************************************)
VARIABLE phase

(* The successors of each phase.  A VM that reports nothing yet parks the  *)
(* instance in WaitingForCloudInit; one that is old enough is not parked.  *)
(* An Available instance fails when stopping, starting or resizing fails.  *)
Successors ==
    [Absent |-> {"New"},
     New |-> {"NetworkProvisioned", "Failed"},
     NetworkProvisioned |-> {"StorageProvisioned", "Failed"},
     StorageProvisioned |-> {"VMCreated", "Failed"},
     VMCreated |-> {"WaitingForCloudInit", "DatabaseReady"},
     WaitingForCloudInit |-> {"DatabaseReady"},
     DatabaseReady |-> {"MonitoringDeployed"},
     MonitoringDeployed |-> {"VpcPeeringCreated"},
     VpcPeeringCreated |-> {"Available"},
     Available |-> {"Failed"},
     Failed |-> {}]

Phases == DOMAIN Successors

Init == phase = "Absent"

Advance == phase' \in Successors[phase]

Remove == phase # "Absent" /\ phase' = "Absent"

Next == Advance \/ Remove

Spec == Init /\ [][Next]_phase
=============================================================================
