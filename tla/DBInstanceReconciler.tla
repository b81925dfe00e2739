------------------------ MODULE DBInstanceReconciler ------------------------
(***************************************************************************)
(* internal/controller/dbinstance_reconciler.go: the controller of one     *)
(* DBInstance, under controller-runtime (one worker per object, a work     *)
(* queue, reads from an informer cache, writes guarded by resourceVersion),*)
(* beside the users of the API and KubeVirt.                               *)
(*                                                                         *)
(* A Reconcile call is cut where another party's step can make a           *)
(* difference: its read of the cache and everything up to the first        *)
(* request that is followed by another one is one step, each later request *)
(* that changes state is one more.  That the cache may be arbitrarily      *)
(* stale at the read stands for everything that happens in between.        *)
(***************************************************************************)
EXTENDS Harvester

CONSTANTS Specs,            \* the specs users write
          MaxGeneration,    \* spec changes users make to one object
          MaxIncarnations,  \* objects users create under the name
          Faults            \* what may go wrong: "crash", "api", "vm"

ASSUME SpecsAssumption == Specs \subseteq DBInstanceSpec
ASSUME LimitsAssumption == MaxGeneration \in Nat /\ MaxIncarnations \in Nat
ASSUME FaultsAssumption == Faults \subseteq {"crash", "api", "vm"}

VARIABLES
    obj,          \* the DBInstance the API server stores
    cache,        \* the informer's copy of it
    cacheCurrent, \* does cache have the stored resourceVersion?
    queued,       \* is the object's key in the work queue?
    pc,           \* where the worker is in Reconcile
    inst,         \* Reconcile's local copy
    instCurrent,  \* does inst have the stored resourceVersion?
    hv,           \* the Harvester cluster
    vmi,          \* the KubeVirt VMI
    faults,       \* the faults that can still happen
    lives,        \* how many objects were created under the name so far
    exposed       \* history: was a pending deletion ever unprotected?

vars == <<obj, cache, cacheCurrent, queued, pc, inst, instCurrent, hv, vmi,
          faults, lives, exposed>>
apiServer == <<obj, cache, cacheCurrent>>

PCs == {"idle", "update", "commit", "commitDone", "stop", "start", "modify",
        "teardown", "release"}

TypeOK ==
    /\ obj \in DBInstance \cup {NoObject}
    /\ cache \in DBInstance \cup {NoObject}
    /\ cacheCurrent \in BOOLEAN
    /\ queued \in BOOLEAN
    /\ pc \in PCs
    /\ inst \in DBInstance \cup {NoObject}
    /\ instCurrent \in BOOLEAN
    /\ hv \in Cluster
    /\ vmi \in VMI
    /\ faults \subseteq Faults
    /\ lives \in 0..MaxIncarnations
    /\ exposed \in BOOLEAN

Init ==
    /\ obj = NoObject /\ cache = NoObject /\ cacheCurrent = TRUE
    /\ queued = FALSE /\ pc = "idle" /\ inst = NoObject /\ instCurrent = FALSE
    /\ hv = EmptyCluster /\ vmi = NoVMI
    /\ faults = Faults /\ lives = 0 /\ exposed = FALSE

api == "api" \in faults

------------------------------------------------------------------------------
(* Writes.  The API server accepts one only from the stored version        *)
(* (optimistic locking).  A write that changes nothing leaves the          *)
(* resourceVersion alone; status.message is not modelled, so a write that  *)
(* looks like one may still make a new version.                            *)
StoreStatus(s) ==
    /\ obj' = [obj EXCEPT !.status = s]
    /\ cacheCurrent' \in IF s = obj.status THEN {cacheCurrent, FALSE} ELSE {FALSE}
    /\ cache' = cache

NoWrite == UNCHANGED apiServer

(* Reconcile ends; `again' is whether it asks to be requeued.              *)
Done(again) ==
    /\ pc' = "idle" /\ inst' = NoObject /\ instCurrent' = FALSE
    /\ queued' = (queued \/ again)

(* Reconcile goes on with local copy i at the next request.                *)
Goto(label, i, current) ==
    pc' = label /\ inst' = i /\ instCurrent' = current

(* The handler's last status write is all that is left to do.              *)
Commit(s) ==
    Goto("commit", [cache EXCEPT !.status = s], cacheCurrent) /\ NoWrite

(* statusUpdate with its error dropped, before the handler's next request  *)
(* at label.  An accepted write refreshes the local copy; one whose answer *)
(* is lost leaves it behind the stored version.                            *)
WriteThen(label, s) ==
    LET i == [cache EXCEPT !.status = s]
    IN  \/ cacheCurrent /\ StoreStatus(s) /\ Goto(label, i, TRUE)
        \/ cacheCurrent /\ api /\ StoreStatus(s) /\ Goto(label, i, FALSE)
        \/ (~cacheCurrent \/ api) /\ NoWrite /\ Goto(label, i, cacheCurrent)

------------------------------------------------------------------------------
(* Reconcile takes the key and reads the object.                           *)
Dequeue == pc = "idle" /\ queued /\ queued' = FALSE

Live == cache # NoObject /\ ~cache.deleting
Running == cache.spec.running
Status == cache.status

(* Mutant: stop only on a new generation.                                  *)
WantsStopOnChange ==
    /\ Running = "false" /\ Status.phase = "available"
    /\ cache.generation # Status.observedGeneration

WantsStop == Running = "false" /\ Status.phase = "available"
WantsStart == Running = "true" /\ Status.phase = "stopped"
WantsModify ==
    Status.phase = "available" /\ cache.generation # Status.observedGeneration

(* Mutant: the finalizer is not there yet.                                 *)
ProvisioningUnfinalized(phases) ==
    /\ Dequeue /\ Live
    /\ ~WantsStop /\ ~WantsStart /\ ~WantsModify
    /\ Status.provisioningPhase \in phases

(* The switch at the end of Reconcile.                                     *)
Provisioning(phases) ==
    /\ Dequeue
    /\ Live /\ cache.finalizer
    /\ ~WantsStop /\ ~WantsStart /\ ~WantsModify
    /\ Status.provisioningPhase \in phases

(* Mutant: the constant of one field in the other.                         *)
FailedWrongConstant(s) ==
    [s EXCEPT !.phase = "Failed", !.provisioningPhase = "Failed"]

Failed(s) == [s EXCEPT !.phase = "failed", !.provisioningPhase = "Failed"]

(* The object is gone, or is deleted and not ours to clean up any more.    *)
ReconcileGone ==
    /\ Dequeue
    /\ cache # NoObject => (cache.deleting /\ ~cache.finalizer)
    /\ UNCHANGED <<obj, cache, cacheCurrent, pc, inst, instCurrent, hv, vmi,
                   faults, lives, exposed>>

AddFinalizer ==
    /\ Dequeue
    /\ Live /\ ~cache.finalizer
    /\ Goto("update", [cache EXCEPT !.finalizer = TRUE], cacheCurrent)
    /\ NoWrite
    /\ UNCHANGED <<hv, vmi, faults, lives, exposed>>

phaseNetwork ==
    /\ Provisioning({"", "Pending"})
    /\ LET s == [Status EXCEPT !.phase = IF @ = "" THEN "creating" ELSE @]
           done == [s EXCEPT !.provisioningPhase = "NetworkProvisioned"]
       IN  IF s.resources \cap {"VPC", "NAD", "OperatorNAD"} # {}
           THEN Commit(done) /\ hv' = hv
           ELSE IF cache.spec.networkRef
           THEN Commit([done EXCEPT !.resources = @ \cup {"OperatorNAD"}])
                /\ hv' = hv
           ELSE \E r \in CreateVPCNetwork(hv, cache.uid, api) :
                  /\ hv' = r.hv
                  /\ Commit(IF r.ok
                            THEN [done EXCEPT !.resources =
                                     @ \cup {"VPC", "Subnet", "NAD"}]
                            ELSE Failed(s))
    /\ UNCHANGED <<vmi, faults, lives, exposed>>

phaseStorage ==
    /\ Provisioning({"NetworkProvisioned"})
    /\ LET done == [Status EXCEPT !.provisioningPhase = "StorageProvisioned"]
       IN  IF "DataVolume" \in Status.resources
           THEN Commit(done) /\ hv' = hv
           ELSE \E r \in CreateDataVolume(hv, cache.uid, cache.spec.storage, api) :
                  /\ hv' = r.hv
                  /\ Commit(IF r.ok
                            THEN [done EXCEPT !.resources = @ \cup {"DataVolume"}]
                            ELSE Failed(Status))
    /\ UNCHANGED <<vmi, faults, lives, exposed>>

phaseVM ==
    /\ Provisioning({"StorageProvisioned"})
    /\ LET done == [Status EXCEPT !.provisioningPhase = "VMCreated"]
       IN  IF "VM" \in Status.resources
           THEN Commit(done) /\ hv' = hv
           ELSE IF cache.spec.class \notin ValidClasses
           THEN Commit(Failed(Status)) /\ hv' = hv
           ELSE \E r \in CreatePostgresVM(hv, cache.uid, cache.spec.class, api) :
                  /\ hv' = r.hv
                  /\ Commit(IF r.ok
                            THEN [done EXCEPT !.resources = @ \cup {"VM", "Secret"},
                                              !.caCert = r.ca]
                            ELSE Failed(Status))
    /\ UNCHANGED <<vmi, faults, lives, exposed>>

(* Mutant: no test that an address is reported.                            *)
phaseWaitReadyNoTest ==
    /\ Provisioning({"VMCreated", "WaitingForCloudInit"})
    /\ \E r \in GetVMIReadiness(vmi, api) :
         Commit(IF ~r.running
                THEN [Status EXCEPT !.provisioningPhase = "WaitingForCloudInit"]
                ELSE IF ~r.ready THEN Status
                ELSE [Status EXCEPT !.endpoint = r.ip,
                                    !.managementAddress = r.mgmt,
                                    !.provisioningPhase = "DatabaseReady"])
    /\ UNCHANGED <<hv, vmi, faults, lives, exposed>>

phaseWaitReady ==
    /\ Provisioning({"VMCreated", "WaitingForCloudInit"})
    /\ \E r \in GetVMIReadiness(vmi, api) :
         Commit(IF ~r.running \/ r.ip = NoIP
                THEN [Status EXCEPT !.provisioningPhase = "WaitingForCloudInit"]
                ELSE IF ~r.ready THEN Status
                ELSE [Status EXCEPT !.endpoint = r.ip,
                                    !.managementAddress = r.mgmt,
                                    !.provisioningPhase = "DatabaseReady"])
    /\ UNCHANGED <<hv, vmi, faults, lives, exposed>>

phaseMonitoring ==
    /\ Provisioning({"DatabaseReady"})
    /\ LET done == [Status EXCEPT !.provisioningPhase = "MonitoringDeployed"]
       IN  IF "ServiceMonitor" \in Status.resources
           THEN Commit(done) /\ hv' = hv
           ELSE \E r \in DeployMonitoring(hv, cache.uid, api) :
                  /\ hv' = r.hv
                  /\ Commit(IF r.ok
                            THEN [done EXCEPT !.resources =
                                     @ \cup {"ServiceMonitor"}]
                            ELSE done)
    /\ UNCHANGED <<vmi, faults, lives, exposed>>

phaseVpcPeering ==
    /\ Provisioning({"MonitoringDeployed"})
    /\ LET done == [Status EXCEPT !.provisioningPhase = "VpcPeeringCreated"]
       IN  IF "VpcPeering" \in Status.resources \/ ~cache.spec.vpcPeering
           THEN Commit(done) /\ hv' = hv
           ELSE \E r \in CreateVpcPeering(hv, cache.uid, api) :
                  /\ hv' = r.hv
                  /\ Commit(IF r.ok
                            THEN [done EXCEPT !.resources = @ \cup {"VpcPeering"}]
                            ELSE done)
    /\ UNCHANGED <<vmi, faults, lives, exposed>>

(* Mutants: an address that is not reported is forgotten; the endpoint is  *)
(* set once and never looked at again.                                     *)
phaseAvailableForgets ==
    /\ Provisioning({"VpcPeeringCreated", "Available"})
    /\ \E r \in GetVMIReadiness(vmi, api) :
         Commit([Status EXCEPT
                   !.phase = "available",
                   !.provisioningPhase = "Available",
                   !.observedGeneration = cache.generation,
                   !.endpoint = IF r.ip # NoIP THEN r.ip ELSE @,
                   !.managementAddress = r.mgmt])
    /\ UNCHANGED <<hv, vmi, faults, lives, exposed>>

phaseAvailableOnce ==
    /\ Provisioning({"VpcPeeringCreated", "Available"})
    /\ \E r \in GetVMIReadiness(vmi, api) :
         Commit([Status EXCEPT
                   !.phase = "available",
                   !.provisioningPhase = "Available",
                   !.observedGeneration = cache.generation,
                   !.endpoint = IF @ = NoIP THEN r.ip ELSE @,
                   !.managementAddress = IF r.mgmt # NoIP THEN r.mgmt ELSE @])
    /\ UNCHANGED <<hv, vmi, faults, lives, exposed>>

phaseAvailable ==
    /\ Provisioning({"VpcPeeringCreated", "Available"})
    /\ \E r \in GetVMIReadiness(vmi, api) :
         Commit([Status EXCEPT
                   !.phase = "available",
                   !.provisioningPhase = "Available",
                   !.observedGeneration = cache.generation,
                   !.endpoint = IF r.ip # NoIP THEN r.ip ELSE @,
                   !.managementAddress = IF r.mgmt # NoIP THEN r.mgmt ELSE @])
    /\ UNCHANGED <<hv, vmi, faults, lives, exposed>>

(* PhaseFailed: come back in 30 seconds, and do nothing then either.       *)
phaseFailed ==
    /\ pc = "idle" /\ queued
    /\ Live /\ cache.finalizer /\ ~WantsStop /\ ~WantsStart /\ ~WantsModify
    /\ Status.provisioningPhase = "Failed"
    /\ UNCHANGED vars

------------------------------------------------------------------------------
(* Stop, start, modify and delete announce themselves in the status first. *)
Announce(s, label) ==
    WriteThen(label, s) /\ UNCHANGED <<hv, vmi, faults, lives, exposed>>

reconcileStop ==
    /\ Dequeue /\ Live /\ cache.finalizer /\ WantsStop
    /\ Announce([Status EXCEPT !.phase = "stopping"], "stop")

reconcileStart ==
    /\ Dequeue /\ Live /\ cache.finalizer /\ WantsStart
    /\ Announce([Status EXCEPT !.phase = "starting"], "start")

reconcileModify ==
    /\ Dequeue /\ Live /\ cache.finalizer
    /\ ~WantsStop /\ ~WantsStart /\ WantsModify
    /\ Announce([Status EXCEPT !.phase = "modifying"], "modify")

(* After the request on the cluster: the final status, recorded with the   *)
(* generation read at the start; a failure goes through fail.              *)
Conclude(outcomes, phase) ==
    \E r \in outcomes :
      /\ hv' = r.hv
      /\ IF r.ok
         THEN Goto("commitDone",
                   [inst EXCEPT !.status.phase = phase,
                                !.status.observedGeneration = inst.generation],
                   instCurrent)
         ELSE Goto("commit", [inst EXCEPT !.status = Failed(@)], instCurrent)

StopVM ==
    /\ pc = "stop"
    /\ Conclude(SetVMRunning(hv, FALSE, api), "stopped")
    /\ UNCHANGED <<obj, cache, cacheCurrent, queued, vmi, faults, lives, exposed>>

StartVM ==
    /\ pc = "start"
    /\ Conclude(SetVMRunning(hv, TRUE, api), "available")
    /\ UNCHANGED <<obj, cache, cacheCurrent, queued, vmi, faults, lives, exposed>>

ResizeInstance ==
    /\ pc = "modify"
    /\ Conclude(IF inst.spec.class \in ValidClasses
                THEN Resize(hv, inst.spec.class, inst.spec.storage, api)
                ELSE {[hv |-> hv, ok |-> FALSE]}, "available")
    /\ UNCHANGED <<obj, cache, cacheCurrent, queued, vmi, faults, lives, exposed>>

(* Mutants: protection is not looked at; a failed instance is not deleted. *)
reconcileDeleteUnprotected ==
    /\ Dequeue
    /\ cache # NoObject /\ cache.deleting /\ cache.finalizer
    /\ Announce([Status EXCEPT !.phase = "deleting"], "teardown")

reconcileDeleteUnlessFailed ==
    /\ Dequeue
    /\ cache # NoObject /\ cache.deleting /\ cache.finalizer
    /\ Status.provisioningPhase # "Failed"
    /\ IF cache.spec.deletionProtection
       THEN Commit(Status) /\ UNCHANGED <<hv, vmi, faults, lives, exposed>>
       ELSE Announce([Status EXCEPT !.phase = "deleting"], "teardown")

(* Deletion: refused while protected (the refusal is an error, so it is    *)
(* retried); else tear down what the status records and let the object go. *)
reconcileDelete ==
    /\ Dequeue
    /\ cache # NoObject /\ cache.deleting /\ cache.finalizer
    /\ IF cache.spec.deletionProtection
       THEN Commit(Status) /\ UNCHANGED <<hv, vmi, faults, lives, exposed>>
       ELSE Announce([Status EXCEPT !.phase = "deleting"], "teardown")

Teardown ==
    /\ pc = "teardown"
    /\ hv' \in TeardownAll(hv, inst.status.resources, api)
    /\ Goto("release", [inst EXCEPT !.finalizer = FALSE], instCurrent)
    /\ UNCHANGED <<obj, cache, cacheCurrent, queued, vmi, faults, lives, exposed>>

------------------------------------------------------------------------------
(* Mutants: the write is not checked against the stored version; nobody    *)
(* asks to be called again.                                                *)
StatusUpdateUnchecked ==
    /\ pc \in {"commit", "commitDone"}
    /\ \/ obj # NoObject /\ StoreStatus(inst.status) /\ Done(pc = "commit")
       \/ (obj = NoObject \/ api) /\ NoWrite /\ Done(TRUE)
    /\ UNCHANGED <<hv, vmi, faults, lives, exposed>>

StatusUpdateNoRequeue ==
    /\ pc \in {"commit", "commitDone"}
    /\ \/ instCurrent /\ StoreStatus(inst.status) /\ Done(FALSE)
       \/ (~instCurrent \/ api) /\ NoWrite /\ Done(TRUE)
    /\ UNCHANGED <<hv, vmi, faults, lives, exposed>>

(* The handler's last write.                                               *)
StatusUpdate ==
    /\ pc \in {"commit", "commitDone"}
    /\ \/ instCurrent /\ StoreStatus(inst.status) /\ Done(pc = "commit")
       \/ instCurrent /\ api /\ StoreStatus(inst.status) /\ Done(TRUE)
       \/ (~instCurrent \/ api) /\ NoWrite /\ Done(TRUE)
    /\ UNCHANGED <<hv, vmi, faults, lives, exposed>>

(* Mutant: a stale copy of the spec is written back.                       *)
UpdateFinalizerUnchecked ==
    /\ pc = "update"
    /\ IF obj # NoObject
       THEN /\ obj' = [obj EXCEPT !.spec = inst.spec, !.finalizer = TRUE]
            /\ cacheCurrent' = FALSE /\ cache' = cache
       ELSE NoWrite
    /\ Done(TRUE)
    /\ UNCHANGED <<hv, vmi, faults, lives, exposed>>

(* Update of metadata and spec, to add the finalizer.  The status is a     *)
(* subresource, so this write leaves it alone.                             *)
UpdateFinalizer ==
    /\ pc = "update"
    /\ \/ /\ instCurrent
          /\ obj' = [obj EXCEPT !.spec = inst.spec, !.finalizer = TRUE]
          /\ cacheCurrent' = FALSE /\ cache' = cache
       \/ (~instCurrent \/ api) /\ NoWrite
    /\ Done(TRUE)
    /\ UNCHANGED <<hv, vmi, faults, lives, exposed>>

(* Update without the finalizer: the API server then drops the object.     *)
Release ==
    /\ pc = "release"
    /\ \/ /\ instCurrent
          /\ obj' = NoObject /\ cacheCurrent' = FALSE /\ cache' = cache
          /\ Done(FALSE) \/ (api /\ Done(TRUE))
       \/ (~instCurrent \/ api) /\ NoWrite /\ Done(TRUE)
    /\ UNCHANGED <<hv, vmi, faults, lives, exposed>>

Worker ==
    \/ ReconcileGone \/ AddFinalizer \/ UpdateFinalizer
    \/ phaseNetwork \/ phaseStorage \/ phaseVM \/ phaseWaitReady
    \/ phaseMonitoring \/ phaseVpcPeering \/ phaseAvailable \/ phaseFailed
    \/ reconcileStop \/ reconcileStart \/ reconcileModify \/ reconcileDelete
    \/ StopVM \/ StartVM \/ ResizeInstance \/ Teardown
    \/ StatusUpdate \/ Release

(* The watch brings the cache up to date and enqueues the object.          *)
CacheSync ==
    /\ ~cacheCurrent
    /\ cache' = obj /\ cacheCurrent' = TRUE /\ queued' = TRUE
    /\ UNCHANGED <<obj, pc, inst, instCurrent, hv, vmi, faults, lives, exposed>>

(* The controller dies and a new one lists the objects there are.          *)
Crash ==
    /\ "crash" \in faults
    /\ cache' = obj /\ cacheCurrent' = TRUE /\ queued' = (obj # NoObject)
    /\ pc' = "idle" /\ inst' = NoObject /\ instCurrent' = FALSE
    /\ UNCHANGED <<obj, hv, vmi, faults, lives, exposed>>

------------------------------------------------------------------------------
(* The users, through kubectl or the gateway.                              *)
UserWrites(o) ==
    /\ obj' = o
    /\ cacheCurrent' = FALSE /\ instCurrent' = FALSE
    /\ UNCHANGED <<cache, queued, pc, inst, hv, vmi, faults>>

CreateInstance ==
    /\ obj = NoObject /\ lives < MaxIncarnations
    /\ \E spec \in Specs :
         UserWrites([uid |-> lives + 1, generation |-> 1, finalizer |-> FALSE,
                     deleting |-> FALSE, spec |-> spec, status |-> ZeroStatus])
    /\ lives' = lives + 1 /\ exposed' = FALSE

PatchSpec ==
    /\ obj # NoObject /\ obj.generation < MaxGeneration
    /\ \E spec \in Specs \ {obj.spec} :
         /\ UserWrites([obj EXCEPT !.spec = spec, !.generation = @ + 1])
         /\ exposed' = (exposed \/ (obj.deleting /\ ~spec.deletionProtection))
    /\ lives' = lives

DeleteInstance ==
    /\ obj # NoObject /\ ~obj.deleting
    /\ UserWrites(IF obj.finalizer THEN [obj EXCEPT !.deleting = TRUE]
                  ELSE NoObject)
    /\ exposed' = (exposed \/ ~obj.spec.deletionProtection)
    /\ lives' = lives

User == CreateInstance \/ PatchSpec \/ DeleteInstance

------------------------------------------------------------------------------
(* KubeVirt and the guest (external).                                      *)
VMShouldRun == Exists(hv, "VM") /\ hv.vmRunning

VMIBoot ==
    /\ VMShouldRun /\ ~vmi.up
    /\ vmi' = [NoVMI EXCEPT !.up = TRUE]

VMIReport ==
    /\ vmi.up
    /\ \/ vmi.vpc = NoIP /\ \E a \in VpcIPs : vmi' = [vmi EXCEPT !.vpc = a]
       \/ vmi.mgmt = NoIP /\ \E a \in MgmtIPs : vmi' = [vmi EXCEPT !.mgmt = a]

VMIAge == vmi.up /\ ~vmi.aged /\ vmi' = [vmi EXCEPT !.aged = TRUE]

VMIStop == vmi.up /\ ~VMShouldRun /\ vmi' = NoVMI

VMIRestart == vmi.up /\ "vm" \in faults /\ vmi' = NoVMI

OnlyVMI == UNCHANGED <<obj, cache, cacheCurrent, queued, pc, inst,
                       instCurrent, hv, faults, lives, exposed>>

KubeVirt ==
    /\ VMIBoot \/ VMIReport \/ VMIAge \/ VMIStop \/ VMIRestart
    /\ OnlyVMI

(* From some time on nothing goes wrong any more.                          *)
Calm ==
    /\ faults # {} /\ faults' = {}
    /\ UNCHANGED <<obj, cache, cacheCurrent, queued, pc, inst, instCurrent, hv,
                   vmi, lives, exposed>>

Next == Worker \/ CacheSync \/ Crash \/ User \/ KubeVirt \/ Calm

Spec == Init /\ [][Next]_vars

(* The work queue serves every key it holds, the watch delivers, KubeVirt  *)
(* brings VMs up and down as asked and reports their addresses, and faults *)
(* end.  Nothing is assumed of the users.                                  *)
Fairness ==
    /\ WF_vars(Worker) /\ WF_vars(CacheSync) /\ WF_vars(Calm)
    /\ WF_vars(VMIBoot /\ OnlyVMI) /\ WF_vars(VMIReport /\ OnlyVMI)
    /\ WF_vars(VMIAge /\ OnlyVMI) /\ WF_vars(VMIStop /\ OnlyVMI)

FairSpec == Spec /\ Fairness

------------------------------------------------------------------------------
(*                         Safety                                           *)

AfterVM == {"VMCreated", "WaitingForCloudInit", "DatabaseReady",
            "MonitoringDeployed", "VpcPeeringCreated", "Available"}
AfterStorage == AfterVM \cup {"StorageProvisioned"}
AfterNetwork == AfterStorage \cup {"NetworkProvisioned"}
AfterReady == AfterVM \ {"VMCreated", "WaitingForCloudInit"}

Coherent(s) ==
    /\ s.provisioningPhase \in AfterNetwork =>
         \/ {"VPC", "Subnet", "NAD"} \subseteq s.resources
         \/ "OperatorNAD" \in s.resources
    /\ s.provisioningPhase \in AfterStorage => "DataVolume" \in s.resources
    /\ s.provisioningPhase \in AfterVM => {"VM", "Secret"} \subseteq s.resources
    /\ s.provisioningPhase \in AfterReady => s.endpoint # NoIP
    /\ ~("VPC" \in s.resources /\ "OperatorNAD" \in s.resources)
    /\ "NAD" \in s.resources <=> "VPC" \in s.resources
    /\ s.provisioningPhase = "" => s.resources = {}
    /\ "VM" \in s.resources <=> "Secret" \in s.resources
    /\ s.phase \in {"available", "stopping", "stopped", "starting", "modifying"}
          => s.provisioningPhase = "Available"
    /\ s.phase = "failed" => s.provisioningPhase = "Failed"

(* The stored status always backs the phase it claims: a phase handler     *)
(* finds the network, volume and VM names and the endpoint it goes on to   *)
(* use (phaseMonitoring dereferences Status.Endpoint without a test), the  *)
(* network is recorded in one mode only and our own with its VPC (without  *)
(* which TeardownAll would spare it), and stop, start and modify only ever *)
(* meet a fully provisioned instance.                                      *)
StatusCoherent == obj # NoObject => Coherent(obj.status)

(* Nothing is created in the cluster for an instance whose object could    *)
(* then be deleted without the controller noticing: whatever was made for  *)
(* the stored object, the object carries the finalizer.                    *)
FinalizerGuards ==
    obj # NoObject => \A k \in Kinds : hv.made[k] = obj.uid => obj.finalizer

(* What a status records exists in the cluster, until the instance has     *)
(* been both deleted and unprotected: no stale Reconcile, crash or         *)
(* retry, and no teardown of an earlier object of the same name, destroys  *)
(* the resources of a live or protected instance.                          *)
RecordedExist ==
    obj # NoObject /\ ~exposed =>
        \A k \in obj.status.resources \cap Kinds : Exists(hv, k)

(* The network the operator owns (spec.networkRef) is never torn down.     *)
OperatorNetworkKept == hv.operatorNAD

(* Cluster objects are created only on behalf of the object that is stored *)
(* at that moment: none for an instance that is already gone.              *)
CreatesForStored ==
    [][\A k \in Kinds : hv.made[k] = 0 /\ hv'.made[k] # 0 =>
         obj # NoObject /\ hv'.made[k] = obj.uid]_vars

(* Whatever the stored status records at the moment the finalizer goes is  *)
(* gone from the cluster, if no request fails.                             *)
TornDownWhenReleased ==
    [][obj # NoObject /\ obj.finalizer /\ obj' = NoObject =>
         \A k \in obj.status.resources \cap Kinds : ~Exists(hv', k)]_vars

(* No write of the controller undoes a user's spec change: the spec of an  *)
(* object changes only together with its generation.                       *)
NoLostSpecChange ==
    [][obj # NoObject /\ obj' # NoObject /\ obj'.uid = obj.uid
         /\ obj'.spec # obj.spec => obj'.generation = obj.generation + 1]_vars

(* The stored provisioning phase follows ProvisioningLifecycle.            *)
PhaseName(p) == IF p = "" THEN "New" ELSE p

LifePhase(o) ==
    IF o = NoObject THEN "Absent" ELSE PhaseName(o.status.provisioningPhase)

Lifecycle == INSTANCE ProvisioningLifecycle WITH phase <- LifePhase(obj)

FollowsLifecycle == Lifecycle!Spec

(* What others see of the stored object.                                   *)
ViewPhase(o) ==
    IF o = NoObject THEN "absent"
    ELSE IF o.status.phase = "available" THEN "available" ELSE "pending"

ViewMgmt(o) == o # NoObject /\ o.status.managementAddress # NoIP

View == INSTANCE InstanceView WITH
    phase <- ViewPhase(obj), mgmt <- ViewMgmt(obj),
    secret <- Exists(hv, "Secret"), up <- vmi.up

(* Seen from outside the instance behaves as InstanceView says: its status *)
(* turns available only while the credentials Secret is there, no Secret   *)
(* is made while it is available, and a management address once known is   *)
(* not taken back, for this and for every later object of the name.        *)
ShowsInstanceView == View!ViewSpec

------------------------------------------------------------------------------
(*                         Liveness                                         *)

Stored == obj # NoObject
Gone == ~Stored \/ obj.deleting
Broken == Stored /\ obj.status.provisioningPhase = "Failed"
IsAvailable == Stored /\ obj.status.provisioningPhase = "Available"

(* Provisioning never gets stuck half-way: an instance that is not deleted *)
(* becomes Available or Failed, whatever crashes and conflicts it meets.   *)
Settles == Stored ~> (Gone \/ Broken \/ IsAvailable)

(* A deleted, unprotected instance goes away.                              *)
DeletionCompletes ==
    (Stored /\ obj.deleting /\ ~obj.spec.deletionProtection)
        ~> (~Stored \/ obj.spec.deletionProtection)

(* The endpoint of an Available instance catches up with the address the   *)
(* VM reports on vpc-net, also after restarts (phaseAvailable's re-check). *)
EndpointConverges ==
    \A a \in VpcIPs :
        (IsAvailable /\ vmi.vpc = a) ~>
        (Gone \/ Broken \/ vmi.vpc # a \/ obj.status.endpoint = a)

(* running = false on an Available instance stops its VM.                  *)
StopTakesEffect ==
    (IsAvailable /\ obj.spec.running = "false") ~>
    (Gone \/ Broken \/ obj.spec.running # "false" \/ ~hv.vmRunning)

------------------------------------------------------------------------------
(*       What the documentation says and the code does not do              *)

(* API.md, Start: "Sets spec.running = true. The controller boots the      *)
(* KubeVirt VM."                                                           *)
StartTakesEffect ==
    (IsAvailable /\ obj.spec.running = "true") ~>
    (Gone \/ Broken \/ obj.spec.running # "true" \/ hv.vmRunning)

(* types.go: "ObservedGeneration tracks which spec version has been        *)
(* reconciled": an available instance that has observed its generation has *)
(* the class and the storage its spec asks for.                            *)
ObservedIsApplied ==
    IsAvailable /\ obj.status.phase = "available" /\ ~Gone
      /\ obj.status.observedGeneration = obj.generation =>
        hv.vmClass = obj.spec.class /\ hv.dvSize = obj.spec.storage

(* types.go: "CACertPEM is the generated CA for SSL verification": the CA  *)
(* in the status is the one the VM's certificate was signed with.          *)
CACertVerifies == Stored => obj.status.caCert # "discarded"

(* types.go: "Resources tracks every Harvester object created for cleanup  *)
(* and idempotency": of the objects ResourceRefs has a field for, none     *)
(* outlives the instance.                                                  *)
TrackedAreCleanedUp ==
    ~Stored => \A k \in Kinds \ {"Service"} : ~Exists(hv, k)
=============================================================================
