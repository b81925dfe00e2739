---------------------------- MODULE ReleaseProofs ----------------------------
(***************************************************************************)
(* Nothing a DBInstance records outlives it, if the deletions succeed: the *)
(* worker tears down the resources of the very version of the object that  *)
(* it then lets go, however stale its copy was when the deletion began.    *)
(***************************************************************************)
EXTENDS DBInstanceProofs

(* ReleaseInv holds initially.                                             *)
LEMMA InitEstablishesRelease == Init => ReleaseInv
  BY DEF Init, ReleaseInv

(* The announcement of the deletion is of the resources read; what is      *)
(* stored is the same or newer, and then the worker's copy is stale.       *)
LEMMA AnnounceKeepsRelease ==
    ASSUME IInv, NEW s, NEW label, Announces(s, label) PROVE ReleaseInv'
  <1>1. /\ cache # NoObject /\ s.resources = cache.status.resources
        /\ label # "release"
    BY DEF Announces
  <1>2. pc' = label /\ inst'.status = s
    BY AnnounceEffect
  <1>3. \/ cacheCurrent /\ cache = obj /\ obj' = inst'
        \/ UNCHANGED obj /\ instCurrent' = cacheCurrent /\ (cacheCurrent => cache = obj)
    BY AnnounceEffect
  <1> QED BY <1>1, <1>2, <1>3 DEF ReleaseInv

(* The teardown removes all that the worker's copy records, unless one of  *)
(* its deletions fails.                                                    *)
LEMMA TeardownKeepsRelease ==
    ASSUME IInv, ReleaseInv, Teardown PROVE ReleaseInv'
  <1>1. /\ inst \in DBInstance /\ Coherent(inst.status)
        /\ inst.status.resources \in SUBSET RefNames
    BY DEF IInv, TypeOK, Agreement, CopiesCoherent, DBInstance,
       DBInstanceStatus, Teardown
  <1>2. /\ pc = "teardown" /\ inst' = [inst EXCEPT !.finalizer = FALSE]
        /\ instCurrent' = instCurrent /\ UNCHANGED obj
        /\ hv' \in TeardownAll(hv, inst.status.resources, api)
    BY DEF Teardown, Goto
  <1>3. inst'.status = inst.status
    BY <1>1, <1>2 DEF DBInstance
  <1>4. instCurrent' => inst'.status.resources = obj'.status.resources
    BY <1>2, <1>3 DEF ReleaseInv
  <1>5. ASSUME DeletesSucceed
        PROVE  \A k \in inst.status.resources \cap Kinds : ~Exists(hv', k)
    <2>1. hv \in Cluster /\ api \in BOOLEAN /\ faults \subseteq Faults
      BY DEF IInv, TypeOK, api
    <2>2. ~api \/ MaxFailedDeletes = 0
      BY <1>5, <2>1 DEF DeletesSucceed, api
    <2>3. "NAD" \in inst.status.resources => "VPC" \in inst.status.resources
      BY <1>1 DEF Coherent
    <2> QED BY <1>1, <1>2, <2>1, <2>2, <2>3, TeardownComplete
  <1> QED
    BY <1>3, <1>4, <1>5 DEF ReleaseInv, Exists

(* Every other step leaves the worker elsewhere, its copy stale, or all    *)
(* that ReleaseInv speaks of as it is.                                     *)
LEMMA OthersKeepRelease ==
    ASSUME IInv, ReleaseInv,
           \/ Phases \/ AddFinalizer \/ Operates \/ StatusUpdate
           \/ UpdateFinalizer \/ Release \/ CacheSync \/ Crash \/ User \/ Quiet
    PROVE  ReleaseInv'
  <1>1. CASE Phases \/ AddFinalizer \/ Operates
    <2>1. pc' \in {"update", "commit", "commitDone"}
      <3>1. CASE Phases
        BY <3>1, PhasesAct DEF PhaseAction, Commit, Goto
      <3>2. CASE AddFinalizer
        BY <3>2 DEF AddFinalizer, Goto
      <3>3. CASE Operates
        BY <3>3 DEF Operates, StopVM, StartVM, ResizeInstance, Conclude, Goto
      <3> QED BY <1>1, <3>1, <3>2, <3>3
    <2> QED BY <2>1 DEF ReleaseInv
  <1>2. CASE StatusUpdate \/ UpdateFinalizer \/ Release \/ Crash
    <2>1. pc' = "idle"
      BY <1>2 DEF StatusUpdate, UpdateFinalizer, Release, Crash, Done
    <2> QED BY <2>1 DEF ReleaseInv
  <1>3. CASE User
    <2>1. instCurrent' = FALSE
      BY <1>3 DEF User, CreateInstance, PatchSpec, DeleteInstance, UserWrites
    <2> QED BY <2>1 DEF ReleaseInv
  <1>4. CASE CacheSync \/ Quiet
    <2>1. UNCHANGED <<obj, pc, inst, instCurrent, hv>>
      BY <1>4 DEF CacheSync, Quiet, ReconcileGone, phaseFailed, KubeVirt, OnlyVMI,
         Calm, vars
    <2> QED BY <2>1 DEF ReleaseInv, Exists
  <1> QED BY <1>1, <1>2, <1>3, <1>4

(* Every step keeps ReleaseInv.                                            *)
LEMMA NextKeepsRelease == IInv /\ ReleaseInv /\ [Next]_vars => ReleaseInv'
  <1> SUFFICES ASSUME IInv, ReleaseInv, [Next]_vars PROVE ReleaseInv'
    OBVIOUS
  <1>1. CASE Next
    BY <1>1, NextCases, ReconcilersAnnounce, AnnounceKeepsRelease,
       TeardownKeepsRelease, OthersKeepRelease
  <1>2. CASE UNCHANGED vars
    BY <1>2 DEF vars, ReleaseInv, Exists
  <1> QED BY <1>1, <1>2

(* What the worker is about to release is what it has torn down.           *)
THEOREM ReleaseInvariance == Spec => []ReleaseInv
  BY InitEstablishesRelease, NextKeepsRelease, Invariance, PTL DEF Spec

(* Only the worker's Release makes a finalized object go.                  *)
LEMMA OnlyRelease ==
    ASSUME IInv, Next, obj # NoObject, obj.finalizer, obj' = NoObject
    PROVE  Release /\ instCurrent
  <1>1. CASE Phases
    BY <1>1, PhasesAct DEF PhaseAction, Commit, NoWrite, apiServer
  <1>2. CASE \/ reconcileStop \/ reconcileStart \/ reconcileModify
             \/ reconcileDelete /\ ~cache.spec.deletionProtection
    BY <1>2, ReconcilersAnnounce, AnnounceEffect
  <1>3. CASE AddFinalizer \/ Teardown \/ CacheSync \/ Crash \/ Operates \/ Quiet
    BY <1>3, OperatesKeeps, QuietSteps
       DEF AddFinalizer, Teardown, CacheSync, Crash, NoWrite, apiServer
  <1>4. CASE StatusUpdate
    BY <1>4, StatusUpdateEffect, WithStatus
  <1>5. CASE UpdateFinalizer
    <2>1. CASE /\ instCurrent
               /\ obj' = [obj EXCEPT !.spec = inst.spec, !.finalizer = TRUE]
      <3>1. obj \in DBInstance /\ inst.spec = obj.spec
        BY <2>1 DEF IInv, TypeOK, Agreement
      <3>2. obj' \in DBInstance
        BY <2>1, <3>1 DEF DBInstance
      <3> QED BY <3>2, NoObjectAssumption
    <2> QED BY <1>5, <2>1 DEF UpdateFinalizer, NoWrite, apiServer
  <1>6. CASE Release
    BY <1>6 DEF Release, NoWrite, apiServer
  <1>7. CASE CreateInstance
    BY <1>7 DEF CreateInstance
  <1>8. CASE PatchSpec
    <2>1. obj \in DBInstance
      BY DEF IInv, TypeOK
    <2>2. PICK spec \in Specs :
            obj' = [obj EXCEPT !.spec = spec, !.generation = @ + 1]
      BY <1>8 DEF PatchSpec, UserWrites
    <2>3. spec \in DBInstanceSpec /\ obj.generation + 1 \in Nat
      BY <2>1, SpecsAssumption DEF DBInstance
    <2>4. obj' \in DBInstance
      BY <2>1, <2>2, <2>3 DEF DBInstance
    <2> QED BY <2>4, NoObjectAssumption
  <1>9. CASE DeleteInstance
    <2>1. obj \in DBInstance /\ obj' = [obj EXCEPT !.deleting = TRUE]
      BY <1>9 DEF DeleteInstance, UserWrites, IInv, TypeOK
    <2>2. obj' \in DBInstance
      BY <2>1 DEF DBInstance
    <2> QED BY <2>2, NoObjectAssumption
  <1> QED
    BY <1>1, <1>2, <1>3, <1>4, <1>5, <1>6, <1>7, <1>8, <1>9, NextCases DEF User

(* If no deletion fails, whatever the stored status records is gone from   *)
(* the cluster at the moment the finalizer goes.                           *)
THEOREM TornDownAtRelease ==
    ASSUME DeletesSucceed PROVE Spec => TornDownWhenReleased
  <1> DEFINE A == obj # NoObject /\ obj.finalizer /\ obj' = NoObject =>
                    \A k \in obj.status.resources \cap Kinds : ~Exists(hv', k)
  <1>1. IInv /\ ReleaseInv /\ Next => A
    <2> SUFFICES ASSUME IInv, ReleaseInv, Next,
                        obj # NoObject, obj.finalizer, obj' = NoObject,
                        NEW k \in obj.status.resources \cap Kinds
                 PROVE  ~Exists(hv', k)
      OBVIOUS
    <2>1. Release /\ instCurrent
      BY OnlyRelease
    <2>2. pc = "release" /\ hv' = hv
      BY <2>1 DEF Release
    <2> QED BY <2>1, <2>2 DEF ReleaseInv
  <1> HIDE DEF A
  <1>2. IInv /\ ReleaseInv /\ [Next]_vars => [A]_vars
    BY <1>1
  <1>3. Spec => [][A]_vars
    BY <1>2, Invariance, ReleaseInvariance, PTL DEF Spec
  <1> QED
    BY <1>3 DEF TornDownWhenReleased, A
==============================================================================
