------------------------ MODULE DBInstanceInvariant ------------------------
(***************************************************************************)
(* The inductive invariant of DBInstanceReconciler.  The safety properties *)
(* speak of the stored object and the cluster; what keeps them true is how *)
(* the two other copies of the object, the informer's and the worker's,    *)
(* relate to the stored one.                                               *)
(***************************************************************************)
EXTENDS DBInstanceReconciler

(* A copy with the stored resourceVersion is the stored object, but for    *)
(* what the worker is about to write.                                      *)
Agreement ==
    /\ cacheCurrent => cache = obj
    /\ pc = "idle" <=> inst = NoObject
    /\ instCurrent =>
         /\ obj # NoObject /\ inst # NoObject
         /\ inst.uid = obj.uid /\ inst.generation = obj.generation
         /\ inst.spec = obj.spec /\ inst.deleting = obj.deleting

(* Every copy is coherent, so a stale one that passes the version check    *)
(* cannot spoil the stored one.                                            *)
CopiesCoherent ==
    /\ \A o \in {obj, cache, inst} :
         o # NoObject => Coherent(o.status)
                         /\ o.status.provisioningPhase # "Pending"
    /\ pc \in {"stop", "start", "modify"} =>
         inst.status.provisioningPhase = "Available"

(* uids grow; copies and cluster objects are of this or an earlier object; *)
(* the cache is at least as new as the worker's copy.                      *)
Incarnations ==
    /\ obj # NoObject => obj.uid = lives
    /\ cache # NoObject => cache.uid <= lives
    /\ inst # NoObject => inst.uid <= lives
    /\ \A k \in Kinds : hv.made[k] <= lives
    /\ inst # NoObject /\ obj # NoObject /\ inst.uid = obj.uid =>
         cache # NoObject /\ cache.uid = obj.uid

(* A cached object that is finalized and not deleted is still stored: only *)
(* the worker itself lets a finalized object go, and not before the cache  *)
(* has seen the deletion, which is never taken back.                       *)
Finalized ==
    /\ cache # NoObject /\ obj # NoObject /\ cache.uid = obj.uid =>
         (cache.deleting => obj.deleting)
    /\ Live /\ cache.finalizer =>
         obj # NoObject /\ obj.uid = cache.uid /\ obj.finalizer
    /\ pc \in {"teardown", "release"} =>
         /\ cache # NoObject /\ cache.uid = inst.uid => cache.deleting
         /\ obj # NoObject /\ obj.uid = inst.uid => obj.deleting

(* Only an exposed object is being torn down.                              *)
Exposure ==
    /\ obj # NoObject /\ obj.deleting /\ ~obj.spec.deletionProtection => exposed
    /\ cache # NoObject /\ obj # NoObject /\ cache.uid = obj.uid
         /\ cache.deleting /\ ~cache.spec.deletionProtection => exposed
    /\ pc \in {"teardown", "release"} /\ obj # NoObject /\ inst.uid = obj.uid
         => exposed

(* What is recorded, or about to be, exists; an object the worker has not  *)
(* got to yet has nothing recorded.                                        *)
Records ==
    /\ instCurrent /\ ~exposed =>
         \A k \in inst.status.resources \cap Kinds : Exists(hv, k)
    /\ obj # NoObject /\ (cache = NoObject \/ cache.uid # obj.uid) =>
         obj.status.resources = {}
    /\ obj # NoObject /\ inst # NoObject /\ inst.uid # obj.uid =>
         obj.status.resources = {}

PhaseStep(s, t) ==
    \/ t.provisioningPhase = s.provisioningPhase
    \/ PhaseName(t.provisioningPhase) \in
         Lifecycle!Successors[PhaseName(s.provisioningPhase)]

(* The write the worker is about to make is a step of the lifecycle.       *)
NextPhases ==
    /\ instCurrent => PhaseStep(obj.status, inst.status)
    /\ instCurrent /\ pc \in {"stop", "start", "modify"} =>
         obj.status.provisioningPhase = "Available"

(* How the copies of the DBInstance that the API server, the informer and  *)
(* the worker hold relate to each other and to the cluster, at every point *)
(* of every Reconcile.                                                     *)
IInv ==
    /\ TypeOK /\ Agreement /\ CopiesCoherent /\ Incarnations
    /\ Finalized /\ FinalizerGuards
    /\ Exposure /\ Records /\ RecordedExist /\ OperatorNetworkKept
    /\ NextPhases
------------------------------------------------------------------------------
(* What IInv must be strengthened by for InstanceView.                     *)

(* The worker's copy of a deleted object is no older than the deletion,    *)
(* the informer's no older than the worker's, and only a deleted object    *)
(* was ever exposed.  Stop, start and modify are of objects that were not  *)
(* deleted when read.                                                      *)
DeletionSeen ==
    /\ exposed /\ obj # NoObject => obj.deleting
    /\ inst # NoObject /\ obj # NoObject /\ inst.uid = obj.uid /\ inst.deleting
         => obj.deleting /\ cache.deleting
    /\ pc \in {"stop", "start", "modify"} => ~inst.deleting

(* While the informer shows an object as not deleted, all that its stored  *)
(* status records is there, exposed or not: no teardown can be under way.  *)
ShownExist ==
    obj # NoObject /\ Live /\ cache.uid = obj.uid =>
        \A k \in obj.status.resources \cap Kinds : Exists(hv, k)

(* A management address comes with DatabaseReady, and the worker is never  *)
(* about to take it back (phaseWaitReady writes what the VMI reports,      *)
(* which may be no address, and must not do so over one).                  *)
AddressKnown(s) ==
    s.managementAddress # NoIP => s.provisioningPhase \in AfterReady \cup {"Failed"}

Addresses ==
    /\ \A o \in {obj, cache, inst} : o # NoObject => AddressKnown(o.status)
    /\ instCurrent /\ obj.status.managementAddress # NoIP =>
         inst.status.managementAddress # NoIP

(* No write makes a deleted object available.                              *)
NotRevived ==
    instCurrent /\ obj.deleting /\ inst.status.phase = "available" =>
        obj.status.phase = "available"

(* What keeps the instance's outside as InstanceView promises, beside IInv.*)
ViewInv == DeletionSeen /\ ShownExist /\ Addresses /\ NotRevived

------------------------------------------------------------------------------
(* No deletion of a teardown fails.                                        *)
DeletesSucceed == "api" \notin Faults \/ MaxFailedDeletes = 0

(* The worker tears down what the stored status records, and once it is    *)
(* about to release the object none of that is left, unless a deletion     *)
(* failed.                                                                 *)
ReleaseInv ==
    /\ instCurrent /\ pc \in {"teardown", "release"} =>
         inst.status.resources = obj.status.resources
    /\ DeletesSucceed /\ instCurrent /\ pc = "release" =>
         \A k \in inst.status.resources \cap Kinds : ~Exists(hv, k)
=============================================================================
