----------------------- MODULE DBInstancePhaseProofs -----------------------
(***************************************************************************)
(* What the provisioning handlers of DBInstanceReconciler have in common:  *)
(* each one only adds to the cluster, for the object it read, and leaves a *)
(* coherent status that is one lifecycle step on and records only what     *)
(* was recorded before or exists now.                                      *)
(***************************************************************************)
EXTENDS DBInstanceInvariant, HarvesterProofs

(* The successors of the lifecycle's phases, one by one.                   *)
LEMMA SuccessorsOf ==
    /\ Lifecycle!Successors["Absent"] = {"New"}
    /\ Lifecycle!Successors["New"] = {"NetworkProvisioned", "Failed"}
    /\ Lifecycle!Successors["NetworkProvisioned"] = {"StorageProvisioned", "Failed"}
    /\ Lifecycle!Successors["StorageProvisioned"] = {"VMCreated", "Failed"}
    /\ Lifecycle!Successors["VMCreated"] = {"WaitingForCloudInit", "DatabaseReady"}
    /\ Lifecycle!Successors["WaitingForCloudInit"] = {"DatabaseReady"}
    /\ Lifecycle!Successors["DatabaseReady"] = {"MonitoringDeployed"}
    /\ Lifecycle!Successors["MonitoringDeployed"] = {"VpcPeeringCreated"}
    /\ Lifecycle!Successors["VpcPeeringCreated"] = {"Available"}
    /\ Lifecycle!Successors["Available"] = {"Failed"}
  BY DEF Lifecycle!Successors

(* fail turns a coherent status into a coherent one.                       *)
LEMMA FailedCoherent ==
    ASSUME NEW s \in DBInstanceStatus, Coherent(s)
    PROVE  /\ Failed(s) \in DBInstanceStatus /\ Coherent(Failed(s))
           /\ Failed(s).provisioningPhase = "Failed"
           /\ Failed(s).resources = s.resources
  <1>1. /\ Failed(s) \in DBInstanceStatus
        /\ Failed(s).provisioningPhase = "Failed" /\ Failed(s).phase = "failed"
        /\ Failed(s).resources = s.resources
    BY DEF Failed, DBInstanceStatus, StatusPhases, ProvisioningPhases
  <1> QED
    BY <1>1 DEF Coherent, AfterNetwork, AfterStorage, AfterVM, AfterReady

(* What a phase handler may do with its copy of the object and with the    *)
(* cluster, before its status write.                                       *)
PhaseWork(s) ==
    /\ s \in DBInstanceStatus /\ Coherent(s)
    /\ s.provisioningPhase # "Pending"
    /\ PhaseStep(Status, s)
    /\ hv' \in Cluster /\ Grows(hv, hv', cache.uid)
    /\ \A k \in s.resources \cap Kinds :
         k \in Status.resources \/ Exists(hv', k)

PhaseAction ==
    /\ Dequeue /\ cache # NoObject
    /\ (Live /\ cache.finalizer) \/ hv' = hv
    /\ \E s : Commit(s) /\ PhaseWork(s)
    /\ UNCHANGED <<vmi, faults, lives, exposed>>

CachedOK ==
    /\ cache \in DBInstance /\ cache.status \in DBInstanceStatus
    /\ cache.uid \in Nat \ {0} /\ cache.spec \in DBInstanceSpec
    /\ Coherent(cache.status) /\ cache.status.provisioningPhase # "Pending"
    /\ hv \in Cluster /\ Grows(hv, hv, cache.uid)
    /\ api \in BOOLEAN

(* The dispatcher's copy is typed and coherent.                            *)
LEMMA CachedIsOK ==
    ASSUME TypeOK, CopiesCoherent, cache # NoObject
    PROVE  CachedOK
  <1>1. cache \in DBInstance /\ hv \in Cluster
    BY DEF TypeOK
  <1>2. Coherent(cache.status) /\ cache.status.provisioningPhase # "Pending"
    BY DEF CopiesCoherent
  <1>3. Grows(hv, hv, cache.uid)
    BY DEF Grows
  <1> QED
    BY <1>1, <1>2, <1>3 DEF CachedOK, DBInstance, api

(* phaseNetwork is a phase action. *)
LEMMA phaseNetworkActs ==
    ASSUME TypeOK, CopiesCoherent, phaseNetwork PROVE PhaseAction
  <1> USE DEF Status
  <1> DEFINE s == [Status EXCEPT !.phase = IF @ = "" THEN "creating" ELSE @]
             done == [s EXCEPT !.provisioningPhase = "NetworkProvisioned"]
             own == [done EXCEPT !.resources = @ \cup {"VPC", "Subnet", "NAD"}]
             operators == [done EXCEPT !.resources = @ \cup {"OperatorNAD"}]
  <1>1. /\ Dequeue /\ Live /\ cache.finalizer
        /\ Status.provisioningPhase \in {"", "Pending"}
        /\ UNCHANGED <<vmi, faults, lives, exposed>>
    BY DEF phaseNetwork, Provisioning
  <1>2. CachedOK
    BY <1>1, CachedIsOK DEF Live
  <1>3. Status.provisioningPhase = "" /\ Status.resources = {}
    BY <1>1, <1>2 DEF CachedOK, Coherent
  <1>4. /\ s \in DBInstanceStatus /\ Coherent(s)
        /\ s.provisioningPhase = "" /\ s.resources = {}
    BY <1>2, <1>3 DEF CachedOK, Coherent, DBInstanceStatus, StatusPhases,
       AfterNetwork, AfterStorage, AfterVM, AfterReady
  <1>5. /\ own \in DBInstanceStatus /\ Coherent(own)
        /\ own.provisioningPhase = "NetworkProvisioned"
        /\ own.resources = {"VPC", "Subnet", "NAD"}
    <2> HIDE DEF s
    <2> QED BY <1>4 DEF Coherent, DBInstanceStatus, ProvisioningPhases,
            RefNames, Kinds, AfterNetwork, AfterStorage, AfterVM, AfterReady
  <1>6. /\ operators \in DBInstanceStatus /\ Coherent(operators)
        /\ operators.provisioningPhase = "NetworkProvisioned"
        /\ operators.resources = {"OperatorNAD"}
    <2> HIDE DEF s
    <2> QED BY <1>4 DEF Coherent, DBInstanceStatus, ProvisioningPhases,
            RefNames, Kinds, AfterNetwork, AfterStorage, AfterVM, AfterReady
  <1>7. \/ Commit(operators) /\ hv' = hv
        \/ \E r \in CreateVPCNetwork(hv, cache.uid, api) :
             hv' = r.hv /\ Commit(IF r.ok THEN own ELSE Failed(s))
    BY <1>3, <1>4 DEF phaseNetwork
  <1> HIDE DEF s, done, own, operators
  <1>8. CASE Commit(operators) /\ hv' = hv
    <2>1. PhaseWork(operators)
      BY <1>2, <1>3, <1>6, <1>8, SuccessorsOf
         DEF PhaseWork, PhaseStep, PhaseName, CachedOK, Kinds
    <2> QED BY <1>1, <1>8, <2>1 DEF PhaseAction, Live
  <1>9. ASSUME NEW r \in CreateVPCNetwork(hv, cache.uid, api),
               hv' = r.hv, Commit(IF r.ok THEN own ELSE Failed(s))
        PROVE  PhaseAction
    <2>1. /\ r.hv \in Cluster /\ Grows(hv, r.hv, cache.uid)
          /\ r.ok => \A k \in {"VPC", "Subnet", "NAD"} : Exists(r.hv, k)
      BY <1>2, CreateVPCNetworkGrows DEF CachedOK
    <2>2. PhaseStep(Status, own) /\ PhaseStep(Status, Failed(s))
      BY <1>3, <1>4, <1>5, FailedCoherent, SuccessorsOf DEF PhaseStep, PhaseName
    <2>3. r.ok => PhaseWork(own)
      BY <1>5, <1>9, <2>1, <2>2 DEF PhaseWork
    <2>4. PhaseWork(Failed(s))
      BY <1>4, <1>9, <2>1, <2>2, FailedCoherent DEF PhaseWork
    <2> QED BY <1>1, <1>9, <2>3, <2>4 DEF PhaseAction, Live
  <1> QED
    BY <1>7, <1>8, <1>9

(* phaseStorage is a phase action. *)
LEMMA phaseStorageActs ==
    ASSUME TypeOK, CopiesCoherent, phaseStorage PROVE PhaseAction
  <1> USE DEF Status
  <1> DEFINE done == [Status EXCEPT !.provisioningPhase = "StorageProvisioned"]
             recorded == [done EXCEPT !.resources = @ \cup {"DataVolume"}]
  <1>1. /\ Dequeue /\ Live /\ cache.finalizer
        /\ Status.provisioningPhase = "NetworkProvisioned"
        /\ UNCHANGED <<vmi, faults, lives, exposed>>
    BY DEF phaseStorage, Provisioning
  <1>2. CachedOK
    BY <1>1, CachedIsOK DEF Live
  <1>3. /\ recorded \in DBInstanceStatus /\ Coherent(recorded)
        /\ recorded.provisioningPhase = "StorageProvisioned"
        /\ recorded.resources = Status.resources \cup {"DataVolume"}
    <2>1. /\ recorded \in DBInstanceStatus
          /\ recorded.provisioningPhase = "StorageProvisioned"
          /\ recorded.resources = Status.resources \cup {"DataVolume"}
          /\ recorded.phase = Status.phase
      BY <1>2 DEF CachedOK, DBInstanceStatus, ProvisioningPhases, RefNames, Kinds
    <2> HIDE DEF recorded
    <2>2. Coherent(recorded)
      BY <1>1, <1>2, <2>1 DEF CachedOK, Coherent, AfterNetwork, AfterStorage,
         AfterVM, AfterReady
    <2> QED BY <2>1, <2>2
  <1>4. "DataVolume" \in Status.resources =>
          /\ done \in DBInstanceStatus /\ Coherent(done)
          /\ done.provisioningPhase = "StorageProvisioned"
          /\ done.resources = Status.resources
    BY <1>1, <1>2 DEF CachedOK, Coherent, DBInstanceStatus, ProvisioningPhases,
       AfterNetwork, AfterStorage, AfterVM, AfterReady
  <1>5. \/ "DataVolume" \in Status.resources /\ Commit(done) /\ hv' = hv
        \/ \E r \in CreateDataVolume(hv, cache.uid, cache.spec.storage, api) :
             hv' = r.hv /\ Commit(IF r.ok THEN recorded ELSE Failed(Status))
    BY DEF phaseStorage
  <1> HIDE DEF done, recorded
  <1>6. CASE "DataVolume" \in Status.resources /\ Commit(done) /\ hv' = hv
    <2>1. PhaseWork(done)
      BY <1>1, <1>2, <1>4, <1>6, SuccessorsOf
         DEF PhaseWork, PhaseStep, PhaseName, CachedOK
    <2> QED BY <1>1, <1>6, <2>1 DEF PhaseAction, Live
  <1>7. ASSUME NEW r \in CreateDataVolume(hv, cache.uid, cache.spec.storage, api),
               hv' = r.hv, Commit(IF r.ok THEN recorded ELSE Failed(Status))
        PROVE  PhaseAction
    <2>1. /\ r.hv \in Cluster /\ Grows(hv, r.hv, cache.uid)
          /\ r.ok => Exists(r.hv, "DataVolume")
      BY <1>2, CreateDataVolumeGrows DEF CachedOK, DBInstanceSpec
    <2>2. PhaseStep(Status, recorded) /\ PhaseStep(Status, Failed(Status))
      <3>1. Failed(Status).provisioningPhase = "Failed"
        BY <1>2, FailedCoherent DEF CachedOK
      <3> QED BY <1>1, <1>3, <3>1, SuccessorsOf DEF PhaseStep, PhaseName
    <2>3. r.ok => PhaseWork(recorded)
      BY <1>3, <1>7, <2>1, <2>2 DEF PhaseWork
    <2>4. PhaseWork(Failed(Status))
      BY <1>2, <1>7, <2>1, <2>2, FailedCoherent DEF PhaseWork, CachedOK
    <2> QED BY <1>1, <1>7, <2>3, <2>4 DEF PhaseAction, Live
  <1> QED
    BY <1>5, <1>6, <1>7

(* phaseVM is a phase action. *)
LEMMA phaseVMActs ==
    ASSUME TypeOK, CopiesCoherent, phaseVM PROVE PhaseAction
  <1> USE DEF Status
  <1> DEFINE done == [Status EXCEPT !.provisioningPhase = "VMCreated"]
             recorded(ca) == [done EXCEPT !.resources = @ \cup {"VM", "Secret"},
                                          !.caCert = ca]
  <1>1. /\ Dequeue /\ Live /\ cache.finalizer
        /\ Status.provisioningPhase = "StorageProvisioned"
        /\ UNCHANGED <<vmi, faults, lives, exposed>>
    BY DEF phaseVM, Provisioning
  <1>2. CachedOK
    BY <1>1, CachedIsOK DEF Live
  <1>3. ASSUME NEW ca \in {"stored", "discarded"}
        PROVE  /\ recorded(ca) \in DBInstanceStatus /\ Coherent(recorded(ca))
               /\ recorded(ca).provisioningPhase = "VMCreated"
               /\ recorded(ca).resources = Status.resources \cup {"VM", "Secret"}
    <2> DEFINE t == recorded(ca)
    <2>1. /\ t \in DBInstanceStatus
          /\ t.provisioningPhase = "VMCreated" /\ t.phase = Status.phase
          /\ t.resources = Status.resources \cup {"VM", "Secret"}
      BY <1>2, <1>3 DEF CachedOK, DBInstanceStatus, ProvisioningPhases, RefNames,
         Kinds
    <2> HIDE DEF t
    <2>2. Coherent(t)
      BY <1>1, <1>2, <2>1 DEF CachedOK, Coherent, AfterNetwork, AfterStorage,
         AfterVM, AfterReady
    <2> QED BY <2>1, <2>2 DEF t
  <1>4. "VM" \in Status.resources =>
          /\ done \in DBInstanceStatus /\ Coherent(done)
          /\ done.provisioningPhase = "VMCreated"
          /\ done.resources = Status.resources
    BY <1>1, <1>2 DEF CachedOK, Coherent, DBInstanceStatus, ProvisioningPhases,
       AfterNetwork, AfterStorage, AfterVM, AfterReady
  <1>5. \/ "VM" \in Status.resources /\ Commit(done) /\ hv' = hv
        \/ Commit(Failed(Status)) /\ hv' = hv
        \/ \E r \in CreatePostgresVM(hv, cache.uid, cache.spec.class, api) :
             hv' = r.hv /\ Commit(IF r.ok THEN recorded(r.ca) ELSE Failed(Status))
    BY DEF phaseVM
  <1> HIDE DEF done, recorded
  <1>6. CASE "VM" \in Status.resources /\ Commit(done) /\ hv' = hv
    <2>1. PhaseStep(Status, done)
      BY <1>1, <1>4, <1>6, SuccessorsOf DEF PhaseStep, PhaseName
    <2>2. PhaseWork(done)
      BY <1>2, <1>4, <1>6, <2>1 DEF PhaseWork, CachedOK
    <2> QED BY <1>1, <1>6, <2>2 DEF PhaseAction, Live
  <1>7. CASE Commit(Failed(Status)) /\ hv' = hv
    <2>1. PhaseStep(Status, Failed(Status))
      BY <1>1, <1>2, FailedCoherent, SuccessorsOf DEF PhaseStep, PhaseName, CachedOK
    <2>2. PhaseWork(Failed(Status))
      BY <1>2, <1>7, <2>1, FailedCoherent DEF PhaseWork, CachedOK
    <2> QED BY <1>1, <1>7, <2>2 DEF PhaseAction, Live
  <1>8. ASSUME NEW r \in CreatePostgresVM(hv, cache.uid, cache.spec.class, api),
               hv' = r.hv, Commit(IF r.ok THEN recorded(r.ca) ELSE Failed(Status))
        PROVE  PhaseAction
    <2>1. /\ r.hv \in Cluster /\ Grows(hv, r.hv, cache.uid)
          /\ r.ok => Exists(r.hv, "VM") /\ Exists(r.hv, "Secret")
          /\ r.ca \in {"stored", "discarded"}
      BY <1>2, CreatePostgresVMGrows DEF CachedOK, DBInstanceSpec
    <2>2. /\ recorded(r.ca) \in DBInstanceStatus /\ Coherent(recorded(r.ca))
          /\ recorded(r.ca).provisioningPhase = "VMCreated"
          /\ recorded(r.ca).resources = Status.resources \cup {"VM", "Secret"}
      BY <1>3, <2>1
    <2>3. /\ PhaseStep(Status, recorded(r.ca))
          /\ PhaseStep(Status, Failed(Status))
      <3>1. Failed(Status).provisioningPhase = "Failed"
        BY <1>2, FailedCoherent DEF CachedOK
      <3> QED BY <1>1, <2>2, <3>1, SuccessorsOf DEF PhaseStep, PhaseName
    <2>4. r.ok => PhaseWork(recorded(r.ca))
      BY <1>8, <2>1, <2>2, <2>3 DEF PhaseWork
    <2>5. PhaseWork(Failed(Status))
      BY <1>2, <1>8, <2>1, <2>3, FailedCoherent DEF PhaseWork, CachedOK
    <2> QED BY <1>1, <1>8, <2>4, <2>5 DEF PhaseAction, Live
  <1> QED
    BY <1>5, <1>6, <1>7, <1>8

(* phaseWaitReady is a phase action. *)
LEMMA phaseWaitReadyActs ==
    ASSUME TypeOK, CopiesCoherent, phaseWaitReady PROVE PhaseAction
  <1> USE DEF Status
  <1> DEFINE waiting == [Status EXCEPT !.provisioningPhase = "WaitingForCloudInit"]
             ready(r) == [Status EXCEPT !.endpoint = r.ip,
                                        !.managementAddress = r.mgmt,
                                        !.provisioningPhase = "DatabaseReady"]
  <1>1. /\ Dequeue /\ Live /\ cache.finalizer /\ hv' = hv
        /\ Status.provisioningPhase \in {"VMCreated", "WaitingForCloudInit"}
        /\ UNCHANGED <<vmi, faults, lives, exposed>>
    BY DEF phaseWaitReady, Provisioning
  <1>2. CachedOK
    BY <1>1, CachedIsOK DEF Live
  <1>3. PICK r \in GetVMIReadiness(vmi, api) :
          Commit(IF ~r.running \/ r.ip = NoIP THEN waiting
                 ELSE IF ~r.ready THEN Status ELSE ready(r))
    BY DEF phaseWaitReady
  <1>4. r.ip \in IPs \cup {NoIP} /\ r.mgmt \in MgmtIPs \cup {NoIP}
    BY <1>2, <1>3, ReadinessType DEF CachedOK, TypeOK
  <1>5. PhaseWork(waiting)
    <2>1. /\ waiting \in DBInstanceStatus /\ Coherent(waiting)
          /\ waiting.provisioningPhase = "WaitingForCloudInit"
          /\ waiting.resources = Status.resources
      BY <1>1, <1>2 DEF CachedOK, Coherent, DBInstanceStatus,
         ProvisioningPhases, AfterNetwork, AfterStorage, AfterVM, AfterReady
    <2> HIDE DEF waiting
    <2> QED BY <1>1, <1>2, <2>1, SuccessorsOf
               DEF PhaseWork, PhaseStep, PhaseName, CachedOK
  <1>6. PhaseWork(Status)
    BY <1>1, <1>2 DEF PhaseWork, PhaseStep, CachedOK
  <1>7. r.ip # NoIP => PhaseWork(ready(r))
    <2>1. r.ip # NoIP =>
          /\ ready(r) \in DBInstanceStatus /\ Coherent(ready(r))
          /\ ready(r).provisioningPhase = "DatabaseReady"
          /\ ready(r).resources = Status.resources
      BY <1>1, <1>2, <1>4 DEF CachedOK, Coherent, DBInstanceStatus,
         ProvisioningPhases, AfterNetwork, AfterStorage, AfterVM, AfterReady
    <2> HIDE DEF ready
    <2> QED BY <1>1, <1>2, <2>1, SuccessorsOf
               DEF PhaseWork, PhaseStep, PhaseName, CachedOK
  <1> HIDE DEF waiting, ready
  <1> QED
    BY <1>1, <1>3, <1>5, <1>6, <1>7 DEF PhaseAction, Live

(* phaseMonitoring is a phase action. *)
LEMMA phaseMonitoringActs ==
    ASSUME TypeOK, CopiesCoherent, phaseMonitoring PROVE PhaseAction
  <1> USE DEF Status
  <1> DEFINE done == [Status EXCEPT !.provisioningPhase = "MonitoringDeployed"]
             recorded == [done EXCEPT !.resources = @ \cup {"ServiceMonitor"}]
  <1>1. /\ Dequeue /\ Live /\ cache.finalizer
        /\ Status.provisioningPhase = "DatabaseReady"
        /\ UNCHANGED <<vmi, faults, lives, exposed>>
    BY DEF phaseMonitoring, Provisioning
  <1>2. CachedOK
    BY <1>1, CachedIsOK DEF Live
  <1>3. /\ recorded \in DBInstanceStatus /\ Coherent(recorded)
        /\ recorded.provisioningPhase = "MonitoringDeployed"
        /\ recorded.resources = Status.resources \cup {"ServiceMonitor"}
    BY <1>1, <1>2 DEF CachedOK, Coherent, DBInstanceStatus, ProvisioningPhases,
       RefNames, Kinds, AfterNetwork, AfterStorage, AfterVM, AfterReady
  <1>4. /\ done \in DBInstanceStatus /\ Coherent(done)
        /\ done.provisioningPhase = "MonitoringDeployed"
        /\ done.resources = Status.resources
    BY <1>1, <1>2 DEF CachedOK, Coherent, DBInstanceStatus, ProvisioningPhases,
       AfterNetwork, AfterStorage, AfterVM, AfterReady
  <1>5. \/ Commit(done) /\ hv' = hv
        \/ \E r \in DeployMonitoring(hv, cache.uid, api) :
             hv' = r.hv /\ Commit(IF r.ok THEN recorded ELSE done)
    BY DEF phaseMonitoring
  <1> HIDE DEF done, recorded
  <1>6. CASE Commit(done) /\ hv' = hv
    <2>1. PhaseWork(done)
      BY <1>1, <1>2, <1>4, <1>6, SuccessorsOf
         DEF PhaseWork, PhaseStep, PhaseName, CachedOK
    <2> QED BY <1>1, <1>6, <2>1 DEF PhaseAction, Live
  <1>7. ASSUME NEW r \in DeployMonitoring(hv, cache.uid, api),
               hv' = r.hv, Commit(IF r.ok THEN recorded ELSE done)
        PROVE  PhaseAction
    <2>1. /\ r.hv \in Cluster /\ Grows(hv, r.hv, cache.uid)
          /\ r.ok => Exists(r.hv, "ServiceMonitor")
      BY <1>2, DeployMonitoringGrows DEF CachedOK
    <2>2. r.ok => PhaseWork(recorded)
      BY <1>1, <1>3, <1>7, <2>1, SuccessorsOf
         DEF PhaseWork, PhaseStep, PhaseName
    <2>3. PhaseWork(done)
      BY <1>1, <1>4, <1>7, <2>1, SuccessorsOf
         DEF PhaseWork, PhaseStep, PhaseName
    <2> QED BY <1>1, <1>7, <2>2, <2>3 DEF PhaseAction, Live
  <1> QED
    BY <1>5, <1>6, <1>7

(* phaseVpcPeering is a phase action. *)
LEMMA phaseVpcPeeringActs ==
    ASSUME TypeOK, CopiesCoherent, phaseVpcPeering PROVE PhaseAction
  <1> USE DEF Status
  <1> DEFINE done == [Status EXCEPT !.provisioningPhase = "VpcPeeringCreated"]
             recorded == [done EXCEPT !.resources = @ \cup {"VpcPeering"}]
  <1>1. /\ Dequeue /\ Live /\ cache.finalizer
        /\ Status.provisioningPhase = "MonitoringDeployed"
        /\ UNCHANGED <<vmi, faults, lives, exposed>>
    BY DEF phaseVpcPeering, Provisioning
  <1>2. CachedOK
    BY <1>1, CachedIsOK DEF Live
  <1>3. /\ recorded \in DBInstanceStatus /\ Coherent(recorded)
        /\ recorded.provisioningPhase = "VpcPeeringCreated"
        /\ recorded.resources = Status.resources \cup {"VpcPeering"}
    BY <1>1, <1>2 DEF CachedOK, Coherent, DBInstanceStatus, ProvisioningPhases,
       RefNames, Kinds, AfterNetwork, AfterStorage, AfterVM, AfterReady
  <1>4. /\ done \in DBInstanceStatus /\ Coherent(done)
        /\ done.provisioningPhase = "VpcPeeringCreated"
        /\ done.resources = Status.resources
    BY <1>1, <1>2 DEF CachedOK, Coherent, DBInstanceStatus, ProvisioningPhases,
       AfterNetwork, AfterStorage, AfterVM, AfterReady
  <1>5. \/ Commit(done) /\ hv' = hv
        \/ \E r \in CreateVpcPeering(hv, cache.uid, api) :
             hv' = r.hv /\ Commit(IF r.ok THEN recorded ELSE done)
    BY DEF phaseVpcPeering
  <1> HIDE DEF done, recorded
  <1>6. CASE Commit(done) /\ hv' = hv
    <2>1. PhaseWork(done)
      BY <1>1, <1>2, <1>4, <1>6, SuccessorsOf
         DEF PhaseWork, PhaseStep, PhaseName, CachedOK
    <2> QED BY <1>1, <1>6, <2>1 DEF PhaseAction, Live
  <1>7. ASSUME NEW r \in CreateVpcPeering(hv, cache.uid, api),
               hv' = r.hv, Commit(IF r.ok THEN recorded ELSE done)
        PROVE  PhaseAction
    <2>1. /\ r.hv \in Cluster /\ Grows(hv, r.hv, cache.uid)
          /\ r.ok => Exists(r.hv, "VpcPeering")
      BY <1>2, CreateVpcPeeringGrows DEF CachedOK
    <2>2. r.ok => PhaseWork(recorded)
      BY <1>1, <1>3, <1>7, <2>1, SuccessorsOf
         DEF PhaseWork, PhaseStep, PhaseName
    <2>3. PhaseWork(done)
      BY <1>1, <1>4, <1>7, <2>1, SuccessorsOf
         DEF PhaseWork, PhaseStep, PhaseName
    <2> QED BY <1>1, <1>7, <2>2, <2>3 DEF PhaseAction, Live
  <1> QED
    BY <1>5, <1>6, <1>7

(* phaseAvailable is a phase action. *)
LEMMA phaseAvailableActs ==
    ASSUME TypeOK, CopiesCoherent, phaseAvailable PROVE PhaseAction
  <1> USE DEF Status
  <1> DEFINE done(r) ==
               [Status EXCEPT
                  !.phase = "available",
                  !.provisioningPhase = "Available",
                  !.observedGeneration = cache.generation,
                  !.endpoint = IF r.ip # NoIP THEN r.ip ELSE @,
                  !.managementAddress = IF r.mgmt # NoIP THEN r.mgmt ELSE @]
  <1>1. /\ Dequeue /\ Live /\ cache.finalizer /\ hv' = hv
        /\ Status.provisioningPhase \in {"VpcPeeringCreated", "Available"}
        /\ UNCHANGED <<vmi, faults, lives, exposed>>
    BY DEF phaseAvailable, Provisioning
  <1>2. CachedOK
    BY <1>1, CachedIsOK DEF Live
  <1>3. PICK r \in GetVMIReadiness(vmi, api) : Commit(done(r))
    BY DEF phaseAvailable
  <1>4. r.ip \in IPs \cup {NoIP} /\ r.mgmt \in MgmtIPs \cup {NoIP}
    BY <1>2, <1>3, ReadinessType DEF CachedOK, TypeOK
  <1>5. cache.generation \in Nat
    BY <1>2 DEF CachedOK, DBInstance
  <1>6. /\ done(r) \in DBInstanceStatus
        /\ done(r).phase = "available"
        /\ done(r).provisioningPhase = "Available"
        /\ done(r).resources = Status.resources
        /\ Status.endpoint # NoIP => done(r).endpoint # NoIP
    <2> DEFINE e == IF r.ip # NoIP THEN r.ip ELSE Status.endpoint
               m == IF r.mgmt # NoIP THEN r.mgmt ELSE Status.managementAddress
               t == [Status EXCEPT !.phase = "available",
                       !.provisioningPhase = "Available",
                       !.observedGeneration = cache.generation,
                       !.endpoint = e, !.managementAddress = m]
    <2>1. Status \in DBInstanceStatus
      BY <1>2 DEF CachedOK
    <2>2. /\ e \in IPs \cup {NoIP} /\ m \in MgmtIPs \cup {NoIP}
          /\ Status.endpoint # NoIP => e # NoIP
      BY <1>4, <2>1 DEF DBInstanceStatus
    <2>3. done(r) = t
      BY <2>1 DEF DBInstanceStatus
    <2> HIDE DEF done, e, m
    <2>4. /\ t \in DBInstanceStatus /\ t.phase = "available"
          /\ t.provisioningPhase = "Available"
          /\ t.resources = Status.resources /\ t.endpoint = e
      BY <1>5, <2>1, <2>2 DEF DBInstanceStatus, StatusPhases, ProvisioningPhases
    <2> QED BY <2>2, <2>3, <2>4
  <1> HIDE DEF done
  <1>7. Coherent(done(r))
    BY <1>1, <1>2, <1>6 DEF CachedOK, Coherent,
       AfterNetwork, AfterStorage, AfterVM, AfterReady
  <1>8. PhaseWork(done(r))
    BY <1>1, <1>2, <1>6, <1>7, SuccessorsOf
       DEF PhaseWork, PhaseStep, PhaseName, CachedOK
  <1> QED
    BY <1>1, <1>3, <1>8 DEF PhaseAction, Live
=============================================================================
