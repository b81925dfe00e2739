----------------------------- MODULE DBaaSTypes -----------------------------
(***************************************************************************)
(* The DBInstance API object (api/v1alpha1/types.go) as the controller     *)
(* sees it.  Fields that only feed texts, the guest's cloud-init or the    *)
(* connection string (dbName, port, masterUsername, tags, message, ...)    *)
(* decide nothing in the reconciler and are left out.                      *)
(***************************************************************************)
EXTENDS Naturals

CONSTANTS ValidClasses,  \* the keys of InstanceClasses
          UnknownClasses, \* class names a user may write that are no key of it
          Sizes,         \* values of spec.allocatedStorage
          VpcIPs,        \* addresses a VM gets on its vpc-net interface
          MgmtIPs,       \* addresses a VM gets on its mgmt-net interface
          NoIP,          \* the empty address ""
          NoObject       \* the absence of an object

Classes == ValidClasses \cup UnknownClasses
IPs == VpcIPs \cup MgmtIPs

(* types.go: Status.Phase values and ProvisioningPhase values; "" is the   *)
(* zero value of both.                                                     *)
StatusPhases == {"", "creating", "available", "stopping", "stopped",
                 "starting", "modifying", "deleting", "failed"}

ProvisioningPhases == {"", "Pending", "NetworkProvisioned",
                       "StorageProvisioned", "VMCreated",
                       "WaitingForCloudInit", "DatabaseReady",
                       "MonitoringDeployed", "VpcPeeringCreated",
                       "Available", "Failed"}

(* Every object the controller creates in Harvester for one instance.  The *)
(* object's name is a function of the instance's name, so its kind stands  *)
(* for it.  The metrics Service has no field in ResourceRefs.              *)
Kinds == {"VPC", "Subnet", "NAD", "DataVolume", "VM", "Secret", "Service",
          "ServiceMonitor", "VpcPeering"}

(* ResourceRefs: the set of its non-empty fields.  NADName holds either    *)
(* the name of our own NAD or spec.networkRef, the operator's.             *)
RefNames == (Kinds \ {"Service"}) \cup {"OperatorNAD"}

(* spec.running is a *bool; spec.networkRef and spec.vpcPeering matter by  *)
(* being set or not.                                                       *)
DBInstanceSpec ==
    [class: Classes, storage: Sizes, running: {"nil", "true", "false"},
     deletionProtection: BOOLEAN, networkRef: BOOLEAN, vpcPeering: BOOLEAN]

(* caCert tells CA certificates apart by what they can verify: "stored" is *)
(* the CA kept in the credentials Secret, which signed the certificate the *)
(* VM serves; "discarded" is a CA that was generated and kept nowhere else.*)
DBInstanceStatus ==
    [phase: StatusPhases, provisioningPhase: ProvisioningPhases,
     endpoint: IPs \cup {NoIP}, managementAddress: MgmtIPs \cup {NoIP},
     resources: SUBSET RefNames, caCert: {"", "stored", "discarded"},
     observedGeneration: Nat]

(* The metadata the controller or the API server acts on.  uid numbers the *)
(* successive objects created under the same name.                         *)
DBInstance ==
    [uid: Nat \ {0}, generation: Nat, finalizer: BOOLEAN, deleting: BOOLEAN,
     spec: DBInstanceSpec, status: DBInstanceStatus]

ZeroStatus ==
    [phase |-> "", provisioningPhase |-> "", endpoint |-> NoIP,
     managementAddress |-> NoIP, resources |-> {}, caCert |-> "",
     observedGeneration |-> 0]

ASSUME NoObjectAssumption == NoObject \notin DBInstance
ASSUME NoIPAssumption == NoIP \notin IPs
=============================================================================
