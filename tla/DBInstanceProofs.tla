-------------------------- MODULE DBInstanceProofs --------------------------
(***************************************************************************)
(* The safety of DBInstanceReconciler, for every set of specs, faults,     *)
(* addresses and every bound: IInv is inductive, and the safety properties *)
(* and the refinement of ProvisioningLifecycle follow from it.             *)
(***************************************************************************)
EXTENDS DBInstancePhaseProofs

(* A copy of an object with another status is the object otherwise.        *)
LEMMA WithStatus ==
    ASSUME NEW o \in DBInstance, NEW s \in DBInstanceStatus
    PROVE  /\ [o EXCEPT !.status = s] \in DBInstance
           /\ [o EXCEPT !.status = s] # NoObject
           /\ [o EXCEPT !.status = s].status = s
           /\ [o EXCEPT !.status = s].uid = o.uid
           /\ [o EXCEPT !.status = s].generation = o.generation
           /\ [o EXCEPT !.status = s].finalizer = o.finalizer
           /\ [o EXCEPT !.status = s].deleting = o.deleting
           /\ [o EXCEPT !.status = s].spec = o.spec
  <1>1. [o EXCEPT !.status = s] \in DBInstance
    BY DEF DBInstance
  <1>2. [o EXCEPT !.status = s] # NoObject
    BY <1>1, NoObjectAssumption
  <1> QED
    BY <1>1, <1>2 DEF DBInstance

(* A phase handler keeps the invariant.                                    *)
LEMMA PhaseActionKeeps ==
    ASSUME IInv, PhaseAction PROVE IInv'
  <1>1. PICK s : Commit(s) /\ PhaseWork(s)
    BY DEF PhaseAction
  <1>2. CachedOK
    BY CachedIsOK DEF PhaseAction, IInv
  <1>3. /\ pc = "idle" /\ pc' = "commit" /\ queued' = FALSE /\ inst = NoObject
        /\ instCurrent' = cacheCurrent
        /\ UNCHANGED <<obj, cache, cacheCurrent, vmi, faults, lives, exposed>>
    BY <1>1 DEF PhaseAction, Dequeue, Commit, Goto, NoWrite, apiServer, IInv,
       Agreement
  <1>4. /\ inst' \in DBInstance /\ inst' # NoObject
        /\ inst'.status = s /\ inst'.uid = cache.uid
        /\ inst'.generation = cache.generation /\ inst'.spec = cache.spec
        /\ inst'.deleting = cache.deleting
    BY <1>1, <1>2, WithStatus DEF Commit, Goto, PhaseWork, CachedOK
  <1>5. cache # NoObject /\ ((Live /\ cache.finalizer) \/ hv' = hv)
    BY DEF PhaseAction
  <1>6. TypeOK'
    BY <1>1, <1>3, <1>4 DEF IInv, TypeOK, PhaseWork, PCs
  <1>7. Agreement'
    BY <1>3, <1>4, <1>5 DEF IInv, Agreement
  <1>8. CopiesCoherent'
    BY <1>1, <1>3, <1>4 DEF IInv, CopiesCoherent, PhaseWork
  <1>9. Incarnations'
    <2>1. \A k \in Kinds : hv'.made[k] <= lives
      BY <1>1, <1>5 DEF PhaseWork, Grows, IInv, Incarnations
    <2> QED BY <1>3, <1>4, <1>5, <2>1 DEF IInv, Incarnations
  <1>10. Finalized'
    BY <1>3, <1>4 DEF IInv, Finalized, Live
  <1>11. FinalizerGuards'
    BY <1>1, <1>3, <1>5 DEF IInv, FinalizerGuards, Finalized, PhaseWork, Grows
  <1>12. Exposure'
    BY <1>3, <1>4 DEF IInv, Exposure
  <1>13. \A k \in Kinds : Exists(hv, k) => Exists(hv', k)
    BY <1>1 DEF PhaseWork, Grows, Exists
  <1>14. Records'
    <2>1. cacheCurrent /\ ~exposed => \A k \in s.resources \cap Kinds : Exists(hv', k)
      BY <1>1, <1>5, <1>13 DEF PhaseWork, IInv, Agreement, RecordedExist, Status
    <2> QED BY <1>3, <1>4, <1>5, <2>1 DEF IInv, Records, Exists
  <1>15. RecordedExist'
    BY <1>3, <1>13 DEF IInv, RecordedExist, Exists
  <1>16. OperatorNetworkKept'
    BY <1>1 DEF IInv, OperatorNetworkKept, PhaseWork, Grows
  <1>17. NextPhases'
    BY <1>1, <1>3, <1>4 DEF IInv, NextPhases, Agreement, PhaseWork, PhaseStep, Status
  <1> QED
    BY <1>6, <1>7, <1>8, <1>9, <1>10, <1>11, <1>12, <1>14, <1>15, <1>16, <1>17
       DEF IInv

(* A status write stores the status and nothing else; the cache stays      *)
(* current only if that changed nothing.                                   *)
LEMMA StoreStatusEffect ==
    ASSUME NEW s \in DBInstanceStatus, obj \in DBInstance, StoreStatus(s)
    PROVE  /\ obj' = [obj EXCEPT !.status = s] /\ cache' = cache
           /\ cacheCurrent' => cacheCurrent /\ obj' = obj
           /\ cacheCurrent' \in {cacheCurrent, FALSE}
  <1>1. s = obj.status => [obj EXCEPT !.status = s] = obj
    BY DEF DBInstance
  <1> QED
    BY <1>1 DEF StoreStatus

(* What stop, start, modify and delete do first.                           *)
Announces(s, label) ==
    /\ Dequeue /\ cache # NoObject /\ Announce(s, label)
    /\ s \in DBInstanceStatus /\ Coherent(s)
    /\ s.resources = cache.status.resources
    /\ s.provisioningPhase = cache.status.provisioningPhase
    /\ s.managementAddress = cache.status.managementAddress
    /\ s.phase # "available"
    /\ \/ /\ label \in {"stop", "start", "modify"}
          /\ s.provisioningPhase = "Available" /\ ~cache.deleting
       \/ /\ label = "teardown"
          /\ cache.deleting /\ ~cache.spec.deletionProtection

(* They announce a status that differs from the one read in the phase      *)
(* only; stop, start and modify find an Available instance.                *)
LEMMA ReconcilersAnnounce ==
    ASSUME IInv, \/ reconcileStop \/ reconcileStart \/ reconcileModify
                 \/ reconcileDelete /\ ~cache.spec.deletionProtection
    PROVE  \E s, label : Announces(s, label)
  <1> USE DEF Status
  <1>1. Dequeue /\ cache # NoObject
    BY DEF reconcileStop, reconcileStart, reconcileModify, reconcileDelete, Live
  <1>2. CachedOK
    BY <1>1, CachedIsOK DEF IInv
  <1>3. ASSUME NEW p \in {"stopping", "starting", "modifying", "deleting"},
               p # "deleting" => Status.provisioningPhase = "Available"
        PROVE  /\ [Status EXCEPT !.phase = p] \in DBInstanceStatus
               /\ Coherent([Status EXCEPT !.phase = p])
               /\ [Status EXCEPT !.phase = p].resources = Status.resources
               /\ [Status EXCEPT !.phase = p].provisioningPhase
                    = Status.provisioningPhase
               /\ [Status EXCEPT !.phase = p].managementAddress
                    = Status.managementAddress
               /\ [Status EXCEPT !.phase = p].phase # "available"
    <2> DEFINE s == [Status EXCEPT !.phase = p]
    <2>1. /\ s \in DBInstanceStatus /\ s.phase = p
          /\ s.resources = Status.resources /\ s.endpoint = Status.endpoint
          /\ s.provisioningPhase = Status.provisioningPhase
          /\ s.managementAddress = Status.managementAddress
      BY <1>2 DEF CachedOK, DBInstanceStatus, StatusPhases
    <2> HIDE DEF s
    <2>2. Coherent(s)
      BY <1>2, <1>3, <2>1 DEF CachedOK, Coherent
    <2> QED BY <1>3, <2>1, <2>2 DEF s
  <1>4. Status.phase \in {"available", "stopped"} =>
          Status.provisioningPhase = "Available"
    BY <1>2 DEF CachedOK, Coherent
  <1>5. CASE reconcileStop
    <2>1. /\ Status.provisioningPhase = "Available" /\ ~cache.deleting
          /\ Announce([Status EXCEPT !.phase = "stopping"], "stop")
      BY <1>4, <1>5 DEF reconcileStop, WantsStop, Live
    <2> QED BY <1>1, <1>3, <2>1 DEF Announces
  <1>6. CASE reconcileStart
    <2>1. /\ Status.provisioningPhase = "Available" /\ ~cache.deleting
          /\ Announce([Status EXCEPT !.phase = "starting"], "start")
      BY <1>4, <1>6 DEF reconcileStart, WantsStart, Live
    <2> QED BY <1>1, <1>3, <2>1 DEF Announces
  <1>7. CASE reconcileModify
    <2>1. /\ Status.provisioningPhase = "Available" /\ ~cache.deleting
          /\ Announce([Status EXCEPT !.phase = "modifying"], "modify")
      BY <1>4, <1>7 DEF reconcileModify, WantsModify, Live
    <2> QED BY <1>1, <1>3, <2>1 DEF Announces
  <1>8. CASE reconcileDelete /\ ~cache.spec.deletionProtection
    <2>1. /\ cache.deleting /\ ~cache.spec.deletionProtection
          /\ Announce([Status EXCEPT !.phase = "deleting"], "teardown")
      BY <1>8 DEF reconcileDelete
    <2> QED BY <1>1, <1>3, <2>1 DEF Announces
  <1> QED
    BY <1>5, <1>6, <1>7, <1>8

(* What an announcement leaves behind: a copy with the announced status,   *)
(* and the same status in store, or the old object if the write failed.    *)
LEMMA AnnounceEffect ==
    ASSUME IInv, NEW s, NEW label, Announces(s, label)
    PROVE  /\ pc = "idle" /\ pc' = label /\ queued' = FALSE /\ inst = NoObject
           /\ ~instCurrent /\ instCurrent' \in BOOLEAN
           /\ UNCHANGED <<cache, hv, vmi, faults, lives, exposed>>
           /\ inst' \in DBInstance /\ inst' # NoObject
           /\ inst'.status = s /\ inst'.uid = cache.uid
           /\ inst'.generation = cache.generation /\ inst'.spec = cache.spec
           /\ inst'.deleting = cache.deleting /\ inst'.finalizer = cache.finalizer
           /\ \/ /\ cacheCurrent /\ cache = obj /\ obj' = inst'
                 /\ cacheCurrent' => obj' = obj
                 /\ cacheCurrent' \in BOOLEAN
              \/ /\ UNCHANGED <<obj, cacheCurrent>>
                 /\ instCurrent' = cacheCurrent /\ (cacheCurrent => cache = obj)
  <1> USE DEF Announces
  <1>1. CachedOK
    BY CachedIsOK DEF IInv
  <1>2. /\ pc = "idle" /\ pc' = label /\ queued' = FALSE /\ inst = NoObject
        /\ ~instCurrent
        /\ inst' = [cache EXCEPT !.status = s]
        /\ UNCHANGED <<hv, vmi, faults, lives, exposed>>
        /\ instCurrent' \in BOOLEAN
    BY DEF Announce, WriteThen, Goto, Dequeue, IInv, Agreement, TypeOK
  <1>3. /\ inst' \in DBInstance /\ inst' # NoObject
        /\ inst'.status = s /\ inst'.uid = cache.uid
        /\ inst'.generation = cache.generation /\ inst'.spec = cache.spec
        /\ inst'.deleting = cache.deleting /\ inst'.finalizer = cache.finalizer
    BY <1>1, <1>2, WithStatus DEF CachedOK
  <1>4. /\ cache' = cache
        /\ \/ /\ cacheCurrent /\ cache = obj /\ obj' = inst'
              /\ cacheCurrent' => obj' = obj
              /\ cacheCurrent' \in BOOLEAN
           \/ /\ UNCHANGED <<obj, cacheCurrent>>
              /\ instCurrent' = cacheCurrent /\ (cacheCurrent => cache = obj)
    <2>1. CASE cacheCurrent /\ StoreStatus(s)
      BY <1>1, <1>2, <2>1, StoreStatusEffect DEF IInv, Agreement, TypeOK, CachedOK
    <2>2. CASE NoWrite /\ Goto(label, [cache EXCEPT !.status = s], cacheCurrent)
      BY <2>2 DEF NoWrite, apiServer, Goto, IInv, Agreement
    <2> QED
      BY <2>1, <2>2 DEF Announce, WriteThen
  <1> QED
    BY <1>2, <1>3, <1>4

(* Announcing an operation in the status keeps the invariant; the stored   *)
(* object changes in its status at most, and not in its lifecycle phase.   *)
LEMMA AnnounceKeeps ==
    ASSUME IInv, NEW s, NEW label, Announces(s, label)
    PROVE  /\ IInv' /\ hv' = hv
           /\ \/ obj' = obj
              \/ /\ obj # NoObject /\ obj' # NoObject
                 /\ obj'.uid = obj.uid /\ obj'.spec = obj.spec
                 /\ PhaseStep(obj.status, obj'.status)
  <1> USE DEF Announces
  <1>1. CachedOK
    BY CachedIsOK DEF IInv
  <1>2. /\ pc = "idle" /\ pc' = label /\ queued' = FALSE /\ inst = NoObject
        /\ ~instCurrent
        /\ UNCHANGED <<hv, vmi, faults, lives, exposed>>
        /\ instCurrent' \in BOOLEAN
    BY AnnounceEffect
  <1>3. /\ inst' \in DBInstance /\ inst' # NoObject
        /\ inst'.status = s /\ inst'.uid = cache.uid
        /\ inst'.generation = cache.generation /\ inst'.spec = cache.spec
        /\ inst'.deleting = cache.deleting /\ inst'.finalizer = cache.finalizer
    BY AnnounceEffect
  <1>4. /\ cache' = cache
        /\ \/ /\ cacheCurrent /\ cache = obj /\ obj' = inst'
              /\ cacheCurrent' => obj' = obj
              /\ cacheCurrent' \in BOOLEAN
           \/ /\ UNCHANGED <<obj, cacheCurrent>>
              /\ instCurrent' = cacheCurrent /\ (cacheCurrent => cache = obj)
    BY AnnounceEffect
  <1>5. TypeOK'
    BY <1>2, <1>3, <1>4 DEF IInv, TypeOK, PCs
  <1>6. Agreement'
    <2>1. pc' # "idle"
      BY <1>2
    <2>2. cacheCurrent' => cache' = obj'
      BY <1>4
    <2>3. instCurrent' => /\ obj' # NoObject /\ inst'.uid = obj'.uid
                          /\ inst'.generation = obj'.generation
                          /\ inst'.spec = obj'.spec
                          /\ inst'.deleting = obj'.deleting
      BY <1>3, <1>4
    <2> QED BY <1>3, <2>1, <2>2, <2>3 DEF Agreement
  <1>7. CopiesCoherent'
    <2>1. s.provisioningPhase # "Pending"
      BY <1>1 DEF CachedOK
    <2>2. pc' \in {"stop", "start", "modify"} => s.provisioningPhase = "Available"
      BY <1>2
    <2>3. obj' = obj \/ obj' = inst'
      BY <1>4
    <2> QED BY <1>3, <1>4, <2>1, <2>2, <2>3 DEF IInv, CopiesCoherent
  <1>8. Incarnations'
    BY <1>2, <1>3, <1>4 DEF IInv, Incarnations
  <1>9. Finalized'
    BY <1>2, <1>3, <1>4 DEF IInv, Finalized, Live
  <1>10. FinalizerGuards'
    BY <1>2, <1>3, <1>4 DEF IInv, FinalizerGuards
  <1>11. Exposure'
    BY <1>2, <1>3, <1>4 DEF IInv, Exposure
  <1>12. Records' /\ RecordedExist'
    BY <1>2, <1>3, <1>4 DEF IInv, Records, RecordedExist, Exists
  <1>13. OperatorNetworkKept'
    BY <1>2 DEF IInv, OperatorNetworkKept
  <1>14. NextPhases'
    BY <1>2, <1>3, <1>4 DEF IInv, NextPhases, PhaseStep
  <1>15. obj' = obj \/ /\ obj # NoObject /\ obj' # NoObject
                       /\ obj'.uid = obj.uid /\ obj'.spec = obj.spec
                       /\ PhaseStep(obj.status, obj'.status)
    BY <1>3, <1>4 DEF PhaseStep
  <1> QED
    BY <1>2, <1>5, <1>6, <1>7, <1>8, <1>9, <1>10, <1>11, <1>12, <1>13, <1>14,
       <1>15 DEF IInv

(* The request on the cluster and the handler's verdict keep the invariant.*)
LEMMA ConcludeKeeps ==
    ASSUME IInv, pc \in {"stop", "start", "modify"},
           NEW outcomes, NEW phase \in {"stopped", "available"},
           Conclude(outcomes, phase),
           \A r \in outcomes : /\ r.hv \in Cluster /\ r.hv.made = hv.made
                               /\ r.hv.operatorNAD = hv.operatorNAD,
           UNCHANGED <<obj, cache, cacheCurrent, queued, vmi, faults, lives,
                       exposed>>
    PROVE  IInv'
  <1>1. /\ inst \in DBInstance /\ inst.status \in DBInstanceStatus
        /\ inst # NoObject /\ inst.generation \in Nat
        /\ Coherent(inst.status) /\ inst.status.provisioningPhase = "Available"
    BY DEF IInv, TypeOK, Agreement, CopiesCoherent, DBInstance
  <1>2. PICK r \in outcomes :
          /\ hv' = r.hv
          /\ IF r.ok
             THEN Goto("commitDone",
                       [inst EXCEPT !.status.phase = phase,
                                    !.status.observedGeneration = inst.generation],
                       instCurrent)
             ELSE Goto("commit", [inst EXCEPT !.status = Failed(@)], instCurrent)
    BY DEF Conclude
  <1> DEFINE done == [inst.status EXCEPT !.phase = phase,
                                         !.observedGeneration = inst.generation]
  <1>3. PICK s : /\ s \in {done, Failed(inst.status)}
                 /\ inst' = [inst EXCEPT !.status = s]
                 /\ pc' \in {"commit", "commitDone"}
                 /\ instCurrent' = instCurrent
    <2>1. [inst EXCEPT !.status.phase = phase,
                       !.status.observedGeneration = inst.generation]
          = [inst EXCEPT !.status = done]
      BY <1>1 DEF DBInstance, DBInstanceStatus
    <2> QED BY <1>2, <2>1 DEF Goto
  <1>4. /\ done \in DBInstanceStatus /\ done.phase = phase
        /\ done.provisioningPhase = "Available"
        /\ done.resources = inst.status.resources
        /\ done.endpoint = inst.status.endpoint
    BY <1>1 DEF DBInstanceStatus, StatusPhases
  <1>5. Coherent(done)
    <2> HIDE DEF done
    <2> QED BY <1>1, <1>4 DEF Coherent, AfterNetwork, AfterStorage, AfterVM,
               AfterReady
  <1> HIDE DEF done
  <1>6. /\ s \in DBInstanceStatus /\ Coherent(s)
        /\ s.provisioningPhase \in {"Available", "Failed"}
        /\ s.resources = inst.status.resources
    BY <1>1, <1>3, <1>4, <1>5, FailedCoherent
  <1>7. /\ inst' \in DBInstance /\ inst' # NoObject
        /\ inst'.status = s /\ inst'.uid = inst.uid
        /\ inst'.generation = inst.generation /\ inst'.spec = inst.spec
        /\ inst'.deleting = inst.deleting
    BY <1>1, <1>3, <1>6, WithStatus
  <1>8. /\ hv' \in Cluster /\ hv'.made = hv.made
        /\ hv'.operatorNAD = hv.operatorNAD
    BY <1>2
  <1>9. TypeOK'
    BY <1>3, <1>7, <1>8 DEF IInv, TypeOK, PCs
  <1>10. Agreement'
    BY <1>1, <1>3, <1>7 DEF IInv, Agreement
  <1>11. CopiesCoherent'
    BY <1>3, <1>6, <1>7 DEF IInv, CopiesCoherent
  <1>12. Incarnations'
    BY <1>1, <1>7, <1>8 DEF IInv, Incarnations
  <1>13. Finalized' /\ FinalizerGuards'
    BY <1>3, <1>8 DEF IInv, Finalized, FinalizerGuards, Live
  <1>14. Exposure'
    BY <1>3 DEF IInv, Exposure
  <1>15. Records' /\ RecordedExist'
    BY <1>1, <1>3, <1>6, <1>7, <1>8 DEF IInv, Records, RecordedExist, Exists
  <1>16. OperatorNetworkKept'
    BY <1>8 DEF IInv, OperatorNetworkKept
  <1>17. NextPhases'
    BY <1>1, <1>3, <1>6, <1>7, SuccessorsOf
       DEF IInv, NextPhases, PhaseStep, PhaseName
  <1> QED
    BY <1>9, <1>10, <1>11, <1>12, <1>13, <1>14, <1>15, <1>16, <1>17 DEF IInv

(* Preparing the finalizer's Update keeps the invariant.                   *)
LEMMA AddFinalizerKeeps ==
    ASSUME IInv, AddFinalizer PROVE IInv'
  <1>1. CachedOK /\ cache # NoObject
    BY CachedIsOK DEF AddFinalizer, Live, IInv
  <1>2. /\ pc = "idle" /\ pc' = "update" /\ queued' = FALSE /\ inst = NoObject
        /\ inst' = [cache EXCEPT !.finalizer = TRUE]
        /\ instCurrent' = cacheCurrent
        /\ UNCHANGED <<obj, cache, cacheCurrent, hv, vmi, faults, lives, exposed>>
    BY DEF AddFinalizer, Dequeue, Goto, NoWrite, apiServer, IInv, Agreement
  <1>3. inst' \in DBInstance
    BY <1>1, <1>2 DEF CachedOK, DBInstance
  <1>4. /\ inst' # NoObject
        /\ inst'.status = cache.status /\ inst'.uid = cache.uid
        /\ inst'.generation = cache.generation /\ inst'.spec = cache.spec
        /\ inst'.deleting = cache.deleting
    BY <1>1, <1>2, <1>3, NoObjectAssumption DEF CachedOK, DBInstance
  <1>5. TypeOK'
    BY <1>2, <1>3 DEF IInv, TypeOK, PCs
  <1>6. Agreement'
    BY <1>1, <1>2, <1>4 DEF IInv, Agreement
  <1>7. CopiesCoherent'
    BY <1>1, <1>2, <1>4 DEF IInv, CopiesCoherent
  <1>8. Incarnations'
    BY <1>1, <1>2, <1>4 DEF IInv, Incarnations
  <1>9. Finalized' /\ FinalizerGuards' /\ Exposure'
    BY <1>2 DEF IInv, Finalized, FinalizerGuards, Exposure, Live
  <1>10. Records' /\ RecordedExist'
    BY <1>1, <1>2, <1>4 DEF IInv, Agreement, Records, RecordedExist, Exists
  <1>11. OperatorNetworkKept'
    BY <1>2 DEF IInv, OperatorNetworkKept
  <1>12. NextPhases'
    BY <1>2, <1>4 DEF IInv, Agreement, NextPhases, PhaseStep
  <1> QED
    BY <1>5, <1>6, <1>7, <1>8, <1>9, <1>10, <1>11, <1>12 DEF IInv

(* The teardown keeps the invariant: what it deletes belongs to an exposed *)
(* object or to an earlier one, and the operator's network is no target.   *)
LEMMA TeardownKeeps ==
    ASSUME IInv, Teardown PROVE IInv'
  <1>1. /\ inst \in DBInstance /\ inst # NoObject
        /\ inst.status.resources \in SUBSET RefNames
        /\ Coherent(inst.status)
    BY DEF IInv, TypeOK, Agreement, CopiesCoherent, DBInstance,
       DBInstanceStatus, Teardown
  <1>2. /\ pc = "teardown" /\ pc' = "release"
        /\ inst' = [inst EXCEPT !.finalizer = FALSE]
        /\ instCurrent' = instCurrent
        /\ UNCHANGED <<obj, cache, cacheCurrent, queued, vmi, faults, lives,
                       exposed>>
    BY DEF Teardown, Goto
  <1>3. inst' \in DBInstance
    BY <1>1, <1>2 DEF DBInstance
  <1>4. /\ inst' # NoObject
        /\ inst'.status = inst.status /\ inst'.uid = inst.uid
        /\ inst'.generation = inst.generation /\ inst'.spec = inst.spec
        /\ inst'.deleting = inst.deleting
    BY <1>1, <1>2, <1>3, NoObjectAssumption DEF DBInstance
  <1>5. /\ hv' \in Cluster
        /\ \A k \in Kinds : hv'.made[k] = hv.made[k] \/ hv'.made[k] = 0
        /\ hv'.operatorNAD = hv.operatorNAD
    <2>1. api \in BOOLEAN /\ hv \in Cluster
      BY DEF api, IInv, TypeOK
    <2>2. ~("VPC" \in inst.status.resources /\ "OperatorNAD" \in inst.status.resources)
      BY <1>1 DEF Coherent
    <2>3. hv' \in TeardownAll(hv, inst.status.resources, api)
      BY DEF Teardown
    <2> QED BY <1>1, <2>1, <2>2, <2>3, TeardownShrinks
  <1>6. TypeOK'
    BY <1>2, <1>3, <1>5 DEF IInv, TypeOK, PCs
  <1>7. Agreement'
    BY <1>1, <1>2, <1>4 DEF IInv, Agreement
  <1>8. CopiesCoherent'
    BY <1>1, <1>2, <1>4 DEF IInv, CopiesCoherent
  <1>9. Incarnations'
    <2>1. lives \in Nat
      BY LimitsAssumption DEF IInv, TypeOK
    <2>2. \A k \in Kinds : hv'.made[k] <= lives
      BY <1>5, <2>1 DEF IInv, Incarnations
    <2> QED BY <1>1, <1>2, <1>4, <2>2 DEF IInv, Incarnations
  <1>10. Finalized'
    BY <1>2, <1>4 DEF IInv, Finalized, Live
  <1>11. FinalizerGuards'
    BY <1>2, <1>5 DEF IInv, FinalizerGuards, TypeOK, DBInstance
  <1>12. Exposure'
    BY <1>2, <1>4 DEF IInv, Exposure
  <1>13. obj # NoObject => exposed \/ (obj.status.resources = {} /\ ~instCurrent)
    BY <1>1, <1>2 DEF IInv, Exposure, Records, Agreement
  <1>14. Records' /\ RecordedExist'
    BY <1>1, <1>2, <1>4, <1>13 DEF IInv, Agreement, Records, RecordedExist, Exists
  <1>15. OperatorNetworkKept'
    BY <1>5 DEF IInv, OperatorNetworkKept
  <1>16. NextPhases'
    BY <1>2, <1>4 DEF IInv, NextPhases, PhaseStep
  <1> QED
    BY <1>6, <1>7, <1>8, <1>9, <1>10, <1>11, <1>12, <1>14, <1>15, <1>16 DEF IInv

(* The handler's last status write ends the Reconcile; it stores the       *)
(* worker's status in the object it was read from, or nothing.             *)
LEMMA StatusUpdateEffect ==
    ASSUME IInv, StatusUpdate
    PROVE  /\ inst \in DBInstance /\ inst # NoObject
           /\ inst.status \in DBInstanceStatus /\ Coherent(inst.status)
           /\ inst.status.provisioningPhase # "Pending"
           /\ pc' = "idle" /\ inst' = NoObject /\ instCurrent' = FALSE
           /\ queued' \in BOOLEAN
           /\ UNCHANGED <<hv, vmi, faults, lives, exposed>>
           /\ cache' = cache
           /\ \/ /\ instCurrent /\ obj \in DBInstance /\ obj # NoObject
                 /\ obj' = [obj EXCEPT !.status = inst.status]
                 /\ cacheCurrent' => cacheCurrent /\ obj' = obj
                 /\ cacheCurrent' \in BOOLEAN
              \/ UNCHANGED <<obj, cacheCurrent>>
  <1>1. /\ inst \in DBInstance /\ inst # NoObject
        /\ inst.status \in DBInstanceStatus /\ Coherent(inst.status)
        /\ inst.status.provisioningPhase # "Pending"
    BY DEF IInv, TypeOK, Agreement, CopiesCoherent, DBInstance, StatusUpdate
  <1>2. /\ pc' = "idle" /\ inst' = NoObject /\ instCurrent' = FALSE
        /\ queued' \in BOOLEAN
        /\ UNCHANGED <<hv, vmi, faults, lives, exposed>>
    BY DEF StatusUpdate, Done, IInv, TypeOK
  <1>3. /\ cache' = cache
        /\ \/ /\ instCurrent /\ obj \in DBInstance /\ obj # NoObject
              /\ obj' = [obj EXCEPT !.status = inst.status]
              /\ cacheCurrent' => cacheCurrent /\ obj' = obj
              /\ cacheCurrent' \in BOOLEAN
           \/ UNCHANGED <<obj, cacheCurrent>>
    <2>1. CASE instCurrent /\ StoreStatus(inst.status)
      <3>1. obj \in DBInstance /\ obj # NoObject
        BY <2>1 DEF IInv, Agreement, TypeOK
      <3> QED BY <1>1, <2>1, <3>1, StoreStatusEffect DEF IInv, TypeOK
    <2>2. CASE NoWrite
      BY <2>2 DEF NoWrite, apiServer
    <2> QED
      BY <2>1, <2>2 DEF StatusUpdate
  <1> QED
    BY <1>1, <1>2, <1>3

(* The handler's last status write keeps the invariant.                    *)
LEMMA StatusUpdateKeeps ==
    ASSUME IInv, StatusUpdate PROVE IInv'
  <1>1. /\ inst \in DBInstance /\ inst # NoObject
        /\ inst.status \in DBInstanceStatus /\ Coherent(inst.status)
        /\ inst.status.provisioningPhase # "Pending"
    BY StatusUpdateEffect
  <1>2. /\ pc' = "idle" /\ inst' = NoObject /\ instCurrent' = FALSE
        /\ queued' \in BOOLEAN
        /\ UNCHANGED <<hv, vmi, faults, lives, exposed>>
    BY StatusUpdateEffect
  <1>3. /\ cache' = cache
        /\ \/ /\ instCurrent /\ obj \in DBInstance /\ obj # NoObject
              /\ obj' = [obj EXCEPT !.status = inst.status]
              /\ cacheCurrent' => cacheCurrent /\ obj' = obj
              /\ cacheCurrent' \in BOOLEAN
           \/ UNCHANGED <<obj, cacheCurrent>>
    BY StatusUpdateEffect
  <1>4. CASE UNCHANGED <<obj, cache, cacheCurrent>>
    <2>1. TypeOK' /\ Agreement' /\ CopiesCoherent' /\ Incarnations'
      BY <1>2, <1>4 DEF IInv, TypeOK, Agreement, CopiesCoherent, Incarnations, PCs
    <2>2. Finalized' /\ FinalizerGuards' /\ Exposure' /\ OperatorNetworkKept'
      BY <1>2, <1>4 DEF IInv, Finalized, FinalizerGuards, Exposure, Live,
         OperatorNetworkKept
    <2>3. Records' /\ RecordedExist' /\ NextPhases'
      BY <1>2, <1>4 DEF IInv, Records, RecordedExist, NextPhases, Exists
    <2> QED BY <2>1, <2>2, <2>3 DEF IInv
  <1>5. CASE /\ instCurrent /\ obj \in DBInstance /\ obj # NoObject
             /\ obj' = [obj EXCEPT !.status = inst.status]
             /\ cacheCurrent' => cacheCurrent /\ obj' = obj
             /\ cacheCurrent' \in BOOLEAN
    <2>1. /\ obj' \in DBInstance /\ obj' # NoObject
          /\ obj'.status = inst.status /\ obj'.uid = obj.uid
          /\ obj'.finalizer = obj.finalizer /\ obj'.deleting = obj.deleting
          /\ obj'.spec = obj.spec
      BY <1>1, <1>5, WithStatus
    <2>2. TypeOK' /\ Agreement' /\ CopiesCoherent' /\ Incarnations'
      BY <1>1, <1>2, <1>3, <1>5, <2>1
         DEF IInv, TypeOK, Agreement, CopiesCoherent, Incarnations, PCs
    <2>3. Finalized' /\ FinalizerGuards' /\ Exposure' /\ OperatorNetworkKept'
      BY <1>2, <1>3, <1>5, <2>1 DEF IInv, Finalized, FinalizerGuards, Exposure,
         Live, OperatorNetworkKept
    <2>4. cache # NoObject /\ cache.uid = obj.uid
      BY <1>1, <1>5 DEF IInv, Agreement, Incarnations
    <2>5. Records' /\ RecordedExist' /\ NextPhases'
      BY <1>2, <1>3, <1>5, <2>1, <2>4
         DEF IInv, Records, RecordedExist, NextPhases, Exists
    <2> QED BY <2>2, <2>3, <2>5 DEF IInv
  <1> QED
    BY <1>3, <1>4, <1>5

(* Storing the finalizer keeps the invariant, and the spec: the version    *)
(* check makes the spec written the one stored.                            *)
LEMMA UpdateFinalizerKeeps ==
    ASSUME IInv, UpdateFinalizer PROVE IInv'
  <1>1. /\ pc' = "idle" /\ inst' = NoObject /\ instCurrent' = FALSE
        /\ queued' \in BOOLEAN /\ cache' = cache
        /\ UNCHANGED <<hv, vmi, faults, lives, exposed>>
    BY DEF UpdateFinalizer, Done, NoWrite, apiServer, IInv, TypeOK
  <1>2. CASE UNCHANGED <<obj, cache, cacheCurrent>>
    <2>1. TypeOK' /\ Agreement' /\ CopiesCoherent' /\ Incarnations'
      BY <1>1, <1>2 DEF IInv, TypeOK, Agreement, CopiesCoherent, Incarnations, PCs
    <2>2. Finalized' /\ FinalizerGuards' /\ Exposure' /\ OperatorNetworkKept'
      BY <1>1, <1>2 DEF IInv, Finalized, FinalizerGuards, Exposure, Live,
         OperatorNetworkKept
    <2>3. Records' /\ RecordedExist' /\ NextPhases'
      BY <1>1, <1>2 DEF IInv, Records, RecordedExist, NextPhases, Exists
    <2> QED BY <2>1, <2>2, <2>3 DEF IInv
  <1>3. CASE /\ instCurrent /\ cacheCurrent' = FALSE
             /\ obj' = [obj EXCEPT !.spec = inst.spec, !.finalizer = TRUE]
    <2>1. obj \in DBInstance /\ obj # NoObject /\ inst.spec = obj.spec
      BY <1>3 DEF IInv, TypeOK, Agreement
    <2>2. obj' \in DBInstance
      BY <1>3, <2>1 DEF DBInstance
    <2>3. /\ obj' # NoObject /\ obj'.finalizer = TRUE
          /\ obj'.status = obj.status /\ obj'.uid = obj.uid
          /\ obj'.deleting = obj.deleting /\ obj'.spec = obj.spec
      BY <1>3, <2>1, <2>2, NoObjectAssumption DEF DBInstance
    <2>4. /\ TypeOK' /\ Agreement' /\ CopiesCoherent' /\ Incarnations'
      <3>1. TypeOK' /\ Agreement'
        BY <1>1, <1>3, <2>2, <2>3 DEF IInv, TypeOK, Agreement, PCs
      <3>2. CopiesCoherent' /\ Incarnations'
        BY <1>1, <1>3, <2>1, <2>3 DEF IInv, CopiesCoherent, Incarnations
      <3> QED BY <3>1, <3>2
    <2>5. Finalized' /\ FinalizerGuards' /\ Exposure' /\ OperatorNetworkKept'
      BY <1>1, <1>3, <2>1, <2>3 DEF IInv, Finalized, FinalizerGuards, Exposure,
         Live, OperatorNetworkKept
    <2>6. Records' /\ RecordedExist' /\ NextPhases'
      BY <1>1, <1>3, <2>1, <2>3
         DEF IInv, Records, RecordedExist, NextPhases, Exists
    <2> QED BY <2>4, <2>5, <2>6 DEF IInv
  <1> QED
    BY <1>2, <1>3 DEF UpdateFinalizer, NoWrite, apiServer

(* Letting the object go keeps the invariant: the cache has seen the       *)
(* deletion, so nothing is created for the object any more.                *)
LEMMA ReleaseKeeps ==
    ASSUME IInv, Release PROVE IInv'
  <1>1. /\ pc = "release" /\ pc' = "idle"
        /\ inst' = NoObject /\ instCurrent' = FALSE
        /\ queued' \in BOOLEAN /\ cache' = cache
        /\ UNCHANGED <<hv, vmi, faults, lives, exposed>>
    BY DEF Release, Done, NoWrite, apiServer, IInv, TypeOK
  <1>2. CASE UNCHANGED <<obj, cache, cacheCurrent>>
    <2>1. TypeOK' /\ Agreement' /\ CopiesCoherent' /\ Incarnations'
      BY <1>1, <1>2 DEF IInv, TypeOK, Agreement, CopiesCoherent, Incarnations, PCs
    <2>2. Finalized' /\ FinalizerGuards' /\ Exposure' /\ OperatorNetworkKept'
      BY <1>1, <1>2 DEF IInv, Finalized, FinalizerGuards, Exposure, Live,
         OperatorNetworkKept
    <2>3. Records' /\ RecordedExist' /\ NextPhases'
      BY <1>1, <1>2 DEF IInv, Records, RecordedExist, NextPhases, Exists
    <2> QED BY <2>1, <2>2, <2>3 DEF IInv
  <1>3. CASE instCurrent /\ cacheCurrent' = FALSE /\ obj' = NoObject
    <2>1. TypeOK' /\ Agreement' /\ CopiesCoherent' /\ Incarnations'
      BY <1>1, <1>3 DEF IInv, TypeOK, Agreement, CopiesCoherent, Incarnations, PCs
    <2>2. ~(Live /\ cache.finalizer)
      BY <1>1, <1>3 DEF IInv, Agreement, Finalized, Live
    <2>3. Finalized' /\ FinalizerGuards' /\ Exposure' /\ OperatorNetworkKept'
      BY <1>1, <1>3, <2>2 DEF IInv, Finalized, FinalizerGuards, Exposure, Live,
         OperatorNetworkKept
    <2>4. Records' /\ RecordedExist' /\ NextPhases'
      BY <1>1, <1>3 DEF IInv, Records, RecordedExist, NextPhases, Exists
    <2> QED BY <2>1, <2>3, <2>4 DEF IInv
  <1> QED
    BY <1>2, <1>3 DEF Release, NoWrite, apiServer

(* The watch, and the relisting of a restarted controller, keep the        *)
(* invariant.                                                              *)
LEMMA RefreshKeeps ==
    ASSUME IInv, CacheSync \/ Crash PROVE IInv'
  <1>1. /\ cache' = obj /\ cacheCurrent' = TRUE /\ queued' \in BOOLEAN
        /\ UNCHANGED <<obj, hv, vmi, faults, lives, exposed>>
        /\ \/ UNCHANGED <<pc, inst, instCurrent>>
           \/ pc' = "idle" /\ inst' = NoObject /\ instCurrent' = FALSE
    BY DEF CacheSync, Crash
  <1>0. lives \in Nat
    BY LimitsAssumption DEF IInv, TypeOK
  <1>2. TypeOK' /\ Agreement' /\ CopiesCoherent' /\ Incarnations'
    <2>1. TypeOK'
      BY <1>1 DEF IInv, TypeOK, PCs
    <2>2. Agreement'
      BY <1>1 DEF IInv, Agreement
    <2>3. CopiesCoherent'
      BY <1>1 DEF IInv, CopiesCoherent
    <2>4. Incarnations'
      BY <1>0, <1>1 DEF IInv, Incarnations
    <2> QED BY <2>1, <2>2, <2>3, <2>4
  <1>3. FinalizerGuards' /\ Exposure' /\ OperatorNetworkKept'
    BY <1>1 DEF IInv, FinalizerGuards, Exposure, OperatorNetworkKept
  <1>4. Finalized'
    BY <1>1 DEF IInv, Finalized, Live
  <1>5. Records' /\ RecordedExist' /\ NextPhases'
    BY <1>1 DEF IInv, Records, RecordedExist, NextPhases, Exists
  <1> QED
    BY <1>2, <1>3, <1>4, <1>5 DEF IInv

(* Users writing through the API keep the invariant.  Their writes make    *)
(* every other copy stale.                                                 *)
LEMMA UserKeeps ==
    ASSUME IInv, User PROVE IInv'
  <1>1. /\ cacheCurrent' = FALSE /\ instCurrent' = FALSE
        /\ UNCHANGED <<cache, queued, pc, inst, hv, vmi, faults>>
    BY DEF User, CreateInstance, PatchSpec, DeleteInstance, UserWrites
  <1>2. lives \in Nat
    BY LimitsAssumption DEF IInv, TypeOK
  <1>3. CASE CreateInstance
    <2>1. PICK spec \in Specs :
            obj' = [uid |-> lives + 1, generation |-> 1, finalizer |-> FALSE,
                    deleting |-> FALSE, spec |-> spec, status |-> ZeroStatus]
      BY <1>3 DEF CreateInstance, UserWrites
    <2>2. /\ obj = NoObject /\ lives' = lives + 1 /\ exposed' = FALSE
          /\ lives' \in 0..MaxIncarnations
      BY <1>2, <1>3, LimitsAssumption DEF CreateInstance
    <2>3. ZeroStatus \in DBInstanceStatus /\ Coherent(ZeroStatus)
          /\ ZeroStatus.resources = {} /\ ZeroStatus.provisioningPhase = ""
      BY DEF ZeroStatus, DBInstanceStatus, StatusPhases, ProvisioningPhases,
         Coherent, AfterNetwork, AfterStorage, AfterVM, AfterReady
    <2>4. obj' \in DBInstance
      <3>1. spec \in DBInstanceSpec /\ lives + 1 \in Nat \ {0}
        BY <1>2, SpecsAssumption
      <3> QED BY <2>1, <2>3, <3>1 DEF DBInstance
    <2>5. /\ obj' # NoObject /\ obj'.uid = lives + 1 /\ obj'.status = ZeroStatus
          /\ obj'.deleting = FALSE
      BY <2>1, <2>4, NoObjectAssumption
    <2>6. TypeOK' /\ Agreement' /\ CopiesCoherent'
      BY <1>1, <2>2, <2>3, <2>4, <2>5
         DEF IInv, TypeOK, Agreement, CopiesCoherent
    <2>7. /\ \A k \in Kinds : hv.made[k] \in Nat
          /\ cache # NoObject => cache.uid \in Nat
          /\ inst # NoObject => inst.uid \in Nat
      BY DEF IInv, TypeOK, Cluster, DBInstance
    <2>8. Incarnations'
      BY <1>1, <1>2, <2>2, <2>5, <2>7 DEF IInv, Incarnations
    <2>9. Finalized' /\ FinalizerGuards'
      BY <1>1, <1>2, <2>2, <2>5, <2>7
         DEF IInv, Finalized, FinalizerGuards, Incarnations, Live, Agreement
    <2>10. Exposure'
      BY <1>1, <1>2, <2>2, <2>5, <2>7
         DEF IInv, Exposure, Incarnations, Agreement
    <2>11. Records' /\ RecordedExist' /\ OperatorNetworkKept' /\ NextPhases'
      BY <1>1, <2>3, <2>5 DEF IInv, Records, RecordedExist, OperatorNetworkKept,
         NextPhases
    <2> QED BY <2>6, <2>8, <2>9, <2>10, <2>11 DEF IInv
  <1>4. CASE PatchSpec
    <2>1. obj \in DBInstance /\ obj # NoObject /\ lives' = lives
      BY <1>4 DEF PatchSpec, IInv, TypeOK
    <2>2. PICK spec \in Specs :
            /\ obj' = [obj EXCEPT !.spec = spec, !.generation = @ + 1]
            /\ exposed' = (exposed \/ (obj.deleting /\ ~spec.deletionProtection))
      BY <1>4 DEF PatchSpec, UserWrites
    <2>3. obj' \in DBInstance
      <3>1. spec \in DBInstanceSpec /\ obj.generation + 1 \in Nat
        BY <2>1, SpecsAssumption DEF DBInstance
      <3> QED BY <2>1, <2>2, <3>1 DEF DBInstance
    <2>4. /\ obj' # NoObject /\ obj'.uid = obj.uid /\ obj'.status = obj.status
          /\ obj'.deleting = obj.deleting /\ obj'.finalizer = obj.finalizer
          /\ obj'.spec = spec
      BY <2>1, <2>2, <2>3, NoObjectAssumption DEF DBInstance
    <2>5. TypeOK' /\ Agreement' /\ CopiesCoherent' /\ Incarnations'
      <3>1. TypeOK'
        BY <1>1, <2>1, <2>2, <2>3 DEF IInv, TypeOK
      <3>2. Agreement' /\ CopiesCoherent' /\ Incarnations'
        BY <1>1, <2>1, <2>4 DEF IInv, Agreement, CopiesCoherent, Incarnations
      <3> QED BY <3>1, <3>2
    <2>6. Finalized' /\ FinalizerGuards'
      BY <1>1, <2>1, <2>4 DEF IInv, Finalized, FinalizerGuards, Live
    <2>7. Exposure'
      BY <1>1, <2>1, <2>2, <2>4 DEF IInv, Exposure
    <2>8. Records' /\ RecordedExist' /\ OperatorNetworkKept' /\ NextPhases'
      BY <1>1, <2>1, <2>2, <2>4 DEF IInv, Records, RecordedExist,
         OperatorNetworkKept, NextPhases, Exists
    <2> QED BY <2>5, <2>6, <2>7, <2>8 DEF IInv
  <1>5. CASE DeleteInstance
    <2>1. /\ obj \in DBInstance /\ obj # NoObject /\ lives' = lives
          /\ exposed' = (exposed \/ ~obj.spec.deletionProtection)
          /\ obj' = IF obj.finalizer THEN [obj EXCEPT !.deleting = TRUE]
                    ELSE NoObject
      BY <1>5 DEF DeleteInstance, UserWrites, IInv, TypeOK
    <2>2. exposed' \in BOOLEAN /\ (exposed => exposed')
      BY <2>1
    <2>3. CASE ~obj.finalizer
      <3>1. obj' = NoObject
        BY <2>1, <2>3
      <3>2. TypeOK' /\ Agreement' /\ CopiesCoherent' /\ Incarnations'
        BY <1>1, <2>1, <2>2, <3>1
           DEF IInv, TypeOK, Agreement, CopiesCoherent, Incarnations
      <3>3. Finalized' /\ FinalizerGuards' /\ Exposure'
        BY <1>1, <2>1, <2>3, <3>1 DEF IInv, Finalized, FinalizerGuards, Exposure,
           Live
      <3>4. Records' /\ RecordedExist' /\ OperatorNetworkKept' /\ NextPhases'
        BY <1>1, <3>1 DEF IInv, Records, RecordedExist, OperatorNetworkKept,
           NextPhases
      <3> QED BY <3>2, <3>3, <3>4 DEF IInv
    <2>4. CASE obj.finalizer
      <3>1. obj' \in DBInstance
        BY <2>1, <2>4 DEF DBInstance
      <3>2. /\ obj' # NoObject /\ obj'.uid = obj.uid /\ obj'.status = obj.status
            /\ obj'.deleting = TRUE /\ obj'.finalizer = obj.finalizer
            /\ obj'.spec = obj.spec
        BY <2>1, <2>4, <3>1, NoObjectAssumption DEF DBInstance
      <3>3. TypeOK' /\ Agreement' /\ CopiesCoherent' /\ Incarnations'
        BY <1>1, <2>1, <2>2, <3>1, <3>2
           DEF IInv, TypeOK, Agreement, CopiesCoherent, Incarnations
      <3>4. Finalized' /\ FinalizerGuards'
        BY <1>1, <2>1, <3>2 DEF IInv, Finalized, FinalizerGuards, Live
      <3>5. Exposure'
        BY <1>1, <2>1, <2>2, <3>2 DEF IInv, Exposure
      <3>6. Records' /\ RecordedExist' /\ OperatorNetworkKept' /\ NextPhases'
        BY <1>1, <2>1, <2>2, <3>2 DEF IInv, Records, RecordedExist,
           OperatorNetworkKept, NextPhases, Exists
      <3> QED BY <3>3, <3>4, <3>5, <3>6 DEF IInv
    <2> QED BY <2>3, <2>4
  <1> QED
    BY <1>3, <1>4, <1>5 DEF User

(* Steps that touch neither the object's copies nor the cluster keep the   *)
(* invariant.                                                              *)
LEMMA QuietKeeps ==
    ASSUME IInv,
           UNCHANGED <<obj, cache, cacheCurrent, pc, inst, instCurrent, hv, lives,
                       exposed>>,
           queued' \in BOOLEAN, vmi' \in VMI, faults' \subseteq Faults
    PROVE  IInv'
  <1>1. TypeOK' /\ Agreement' /\ CopiesCoherent' /\ Incarnations'
    BY DEF IInv, TypeOK, Agreement, CopiesCoherent, Incarnations
  <1>2. Finalized' /\ FinalizerGuards' /\ Exposure' /\ OperatorNetworkKept'
    BY DEF IInv, Finalized, FinalizerGuards, Exposure, Live, OperatorNetworkKept
  <1>3. Records' /\ RecordedExist' /\ NextPhases'
    BY DEF IInv, Records, RecordedExist, NextPhases, Exists
  <1> QED
    BY <1>1, <1>2, <1>3 DEF IInv

(* KubeVirt's steps yield a VMI.                                           *)
LEMMA KubeVirtType ==
    ASSUME TypeOK, KubeVirt PROVE vmi' \in VMI
  <1>1. vmi \in VMI /\ NoVMI \in VMI
    BY DEF TypeOK, NoVMI, VMI
  <1>2. CASE VMIBoot
    BY <1>1, <1>2 DEF VMIBoot, VMI
  <1>3. CASE VMIReport
    BY <1>1, <1>3 DEF VMIReport, VMI
  <1>4. CASE VMIAge
    BY <1>1, <1>4 DEF VMIAge, VMI
  <1>5. CASE VMIStop \/ VMIRestart
    BY <1>1, <1>5 DEF VMIStop, VMIRestart
  <1> QED
    BY <1>2, <1>3, <1>4, <1>5 DEF KubeVirt

(* The provisioning handlers and a refused deletion.                       *)
Phases ==
    \/ phaseNetwork \/ phaseStorage \/ phaseVM \/ phaseWaitReady
    \/ phaseMonitoring \/ phaseVpcPeering \/ phaseAvailable
    \/ reconcileDelete /\ cache.spec.deletionProtection

(* Every handler that ends in a single status write is a phase action.     *)
LEMMA PhasesAct ==
    ASSUME IInv, Phases PROVE PhaseAction
  <1>1. TypeOK /\ CopiesCoherent
    BY DEF IInv
  <1>2. CASE reconcileDelete /\ cache.spec.deletionProtection
    <2>1. /\ Dequeue /\ cache # NoObject /\ Commit(Status)
          /\ UNCHANGED <<hv, vmi, faults, lives, exposed>>
      BY <1>2 DEF reconcileDelete
    <2>2. CachedOK
      BY <1>1, <2>1, CachedIsOK
    <2>3. PhaseWork(Status)
      BY <2>1, <2>2 DEF PhaseWork, PhaseStep, CachedOK, Status
    <2> QED BY <2>1, <2>3 DEF PhaseAction
  <1> QED
    BY <1>1, <1>2, phaseNetworkActs, phaseStorageActs, phaseVMActs,
       phaseWaitReadyActs, phaseMonitoringActs, phaseVpcPeeringActs,
       phaseAvailableActs DEF Phases

Operates == StopVM \/ StartVM \/ ResizeInstance

(* Stopping, starting and resizing the VM keep the invariant, and neither  *)
(* create nor delete.                                                      *)
LEMMA OperatesKeeps ==
    ASSUME IInv, Operates PROVE IInv' /\ hv'.made = hv.made /\ obj' = obj
  <1>1. hv \in Cluster /\ api \in BOOLEAN
    BY DEF IInv, TypeOK, api
  <1>2. ASSUME NEW outcomes, NEW phase \in {"stopped", "available"},
               pc \in {"stop", "start", "modify"}, Conclude(outcomes, phase),
               \A r \in outcomes : /\ r.hv \in Cluster /\ r.hv.made = hv.made
                                   /\ r.hv.operatorNAD = hv.operatorNAD,
               UNCHANGED <<obj, cache, cacheCurrent, queued, vmi, faults, lives,
                           exposed>>
        PROVE  IInv' /\ hv'.made = hv.made /\ obj' = obj
    <2>1. IInv'
      BY <1>2, ConcludeKeeps
    <2>2. hv'.made = hv.made /\ obj' = obj
      BY <1>2 DEF Conclude
    <2> QED BY <2>1, <2>2
  <1>3. CASE StopVM
    <2>1. \A r \in SetVMRunning(hv, FALSE, api) :
            /\ r.hv \in Cluster /\ r.hv.made = hv.made
            /\ r.hv.operatorNAD = hv.operatorNAD
      BY <1>1, SetVMRunningKeeps
    <2> QED BY <1>2, <1>3, <2>1 DEF StopVM
  <1>4. CASE StartVM
    <2>1. \A r \in SetVMRunning(hv, TRUE, api) :
            /\ r.hv \in Cluster /\ r.hv.made = hv.made
            /\ r.hv.operatorNAD = hv.operatorNAD
      BY <1>1, SetVMRunningKeeps
    <2> QED BY <1>2, <1>4, <2>1 DEF StartVM
  <1>5. CASE ResizeInstance
    <2> DEFINE outcomes == IF inst.spec.class \in ValidClasses
                           THEN Resize(hv, inst.spec.class, inst.spec.storage, api)
                           ELSE {[hv |-> hv, ok |-> FALSE]}
    <2>1. inst.spec.class \in Classes /\ inst.spec.storage \in Sizes
      BY <1>5 DEF ResizeInstance, IInv, TypeOK, Agreement, DBInstance,
         DBInstanceSpec
    <2>2. \A r \in outcomes :
            /\ r.hv \in Cluster /\ r.hv.made = hv.made
            /\ r.hv.operatorNAD = hv.operatorNAD
      BY <1>1, <2>1, ResizeKeeps
    <2>3. pc = "modify" /\ Conclude(outcomes, "available")
      BY <1>5 DEF ResizeInstance
    <2> HIDE DEF outcomes
    <2> QED BY <1>2, <1>5, <2>2, <2>3 DEF ResizeInstance
  <1> QED
    BY <1>3, <1>4, <1>5 DEF Operates

Quiet == ReconcileGone \/ phaseFailed \/ KubeVirt \/ Calm

(* Steps of the controller and of its surroundings that concern neither    *)
(* the object nor the cluster keep the invariant.                          *)
LEMMA QuietSteps ==
    ASSUME IInv, Quiet PROVE IInv' /\ hv' = hv /\ obj' = obj
  <1>1. vmi \in VMI /\ faults \subseteq Faults /\ queued \in BOOLEAN /\ TypeOK
    BY DEF IInv, TypeOK
  <1>2. /\ UNCHANGED <<obj, cache, cacheCurrent, pc, inst, instCurrent, hv, lives,
                       exposed>>
        /\ queued' \in BOOLEAN /\ vmi' \in VMI /\ faults' \subseteq Faults
    <2>1. CASE ReconcileGone
      BY <1>1, <2>1 DEF ReconcileGone, Dequeue
    <2>2. CASE phaseFailed
      BY <1>1, <2>2 DEF phaseFailed, vars
    <2>3. CASE KubeVirt
      BY <1>1, <2>3, KubeVirtType DEF KubeVirt, OnlyVMI
    <2>4. CASE Calm
      BY <1>1, <2>4 DEF Calm
    <2> QED BY <2>1, <2>2, <2>3, <2>4 DEF Quiet
  <1> QED
    BY <1>2, QuietKeeps

(* Every step is one of these.                                             *)
LEMMA NextCases ==
    ASSUME Next
    PROVE  \/ Phases \/ AddFinalizer
           \/ reconcileStop \/ reconcileStart \/ reconcileModify
           \/ reconcileDelete /\ ~cache.spec.deletionProtection
           \/ Operates \/ Teardown
           \/ StatusUpdate \/ UpdateFinalizer \/ Release
           \/ CacheSync \/ Crash \/ User \/ Quiet
  BY DEF Next, Worker, Phases, Operates, Quiet

(* IInv holds initially.                                                   *)
LEMMA InitEstablishes == Init => IInv
  <1> SUFFICES ASSUME Init PROVE IInv
    OBVIOUS
  <1>1. EmptyCluster \in Cluster /\ NoVMI \in VMI
    BY BoundsAssumption DEF EmptyCluster, Cluster, NoVMI, VMI
  <1>2. TypeOK
    <2>1. 0 \in 0..MaxIncarnations
      BY LimitsAssumption
    <2>2. lives \in 0..MaxIncarnations
      BY <2>1 DEF Init
    <2>3. faults \subseteq Faults /\ pc \in PCs
      BY DEF Init, PCs
    <2>4. hv \in Cluster /\ vmi \in VMI
      BY <1>1 DEF Init
    <2> QED BY <2>2, <2>3, <2>4 DEF Init, TypeOK
  <1>3. Agreement /\ CopiesCoherent /\ Finalized /\ FinalizerGuards
    BY DEF Init, Agreement, CopiesCoherent, Finalized, FinalizerGuards, Live
  <1>4. Incarnations /\ OperatorNetworkKept
    BY DEF Init, Incarnations, OperatorNetworkKept, EmptyCluster
  <1>5. Exposure /\ Records /\ RecordedExist /\ NextPhases
    BY DEF Init, Exposure, Records, RecordedExist, NextPhases
  <1> QED
    BY <1>2, <1>3, <1>4, <1>5 DEF IInv

(* Every step keeps IInv.                                                  *)
LEMMA NextKeeps == IInv /\ [Next]_vars => IInv'
  <1> SUFFICES ASSUME IInv, [Next]_vars PROVE IInv'
    OBVIOUS
  <1>1. CASE Next
    BY <1>1, NextCases, PhasesAct, PhaseActionKeeps, AddFinalizerKeeps,
       ReconcilersAnnounce, AnnounceKeeps, OperatesKeeps, TeardownKeeps,
       StatusUpdateKeeps, UpdateFinalizerKeeps, ReleaseKeeps, RefreshKeeps,
       UserKeeps, QuietSteps
  <1>2. CASE UNCHANGED vars
    BY <1>2, QuietKeeps DEF vars, IInv, TypeOK
  <1> QED
    BY <1>1, <1>2

(* The copies of a DBInstance stay related as IInv says, in every          *)
(* behaviour: whatever users, crashes and failing requests do.             *)
THEOREM Invariance == Spec => []IInv
  BY InitEstablishes, NextKeeps, PTL DEF Spec

(* Type correctness of the controller's state.                             *)
THEOREM TypeCorrect == Spec => []TypeOK
  <1>1. IInv => TypeOK
    BY DEF IInv
  <1> QED
    BY <1>1, Invariance, PTL

(* A stored status always backs the phase it claims, so that no handler    *)
(* runs without the names and the endpoint it uses.                        *)
THEOREM StatusAlwaysCoherent == Spec => []StatusCoherent
  <1>1. IInv => StatusCoherent
    BY DEF IInv, CopiesCoherent, StatusCoherent
  <1> QED
    BY <1>1, Invariance, PTL

(* Whatever was made for the stored object, the object is finalized.       *)
THEOREM FinalizerAlwaysGuards == Spec => []FinalizerGuards
  <1>1. IInv => FinalizerGuards
    BY DEF IInv
  <1> QED
    BY <1>1, Invariance, PTL

(* Nothing recorded is destroyed before a deletion has been unprotected.   *)
THEOREM RecordedAlwaysExist == Spec => []RecordedExist
  <1>1. IInv => RecordedExist
    BY DEF IInv
  <1> QED
    BY <1>1, Invariance, PTL

(* The operator's network is never torn down.                              *)
THEOREM OperatorNetworkAlwaysKept == Spec => []OperatorNetworkKept
  <1>1. IInv => OperatorNetworkKept
    BY DEF IInv
  <1> QED
    BY <1>1, Invariance, PTL

(* How a step may change the stored object: a status write that is at most *)
(* one lifecycle step, a user's spec change, a removal, a creation.        *)
ObjectStep ==
    \/ obj' = obj
    \/ /\ obj # NoObject /\ obj' # NoObject /\ obj'.uid = obj.uid
       /\ obj'.spec = obj.spec \/ obj'.generation = obj.generation + 1
       /\ PhaseStep(obj.status, obj'.status)
    \/ obj # NoObject /\ obj' = NoObject
    \/ obj = NoObject /\ obj' # NoObject /\ obj'.status = ZeroStatus

(* Every step changes the stored object in one of these ways.              *)
LEMMA ObjectSteps ==
    ASSUME IInv, Next PROVE ObjectStep
  <1>1. CASE Phases
    <2>1. PhaseAction
      BY <1>1, PhasesAct
    <2> QED BY <2>1 DEF PhaseAction, Commit, NoWrite, apiServer, ObjectStep
  <1>2. CASE \/ reconcileStop \/ reconcileStart \/ reconcileModify
             \/ reconcileDelete /\ ~cache.spec.deletionProtection
    BY <1>2, ReconcilersAnnounce, AnnounceKeeps DEF ObjectStep
  <1>3. CASE AddFinalizer \/ Teardown \/ CacheSync \/ Crash
    BY <1>3 DEF AddFinalizer, Teardown, CacheSync, Crash, NoWrite, apiServer,
       ObjectStep
  <1>4. CASE Operates \/ Quiet
    BY <1>4, OperatesKeeps, QuietSteps DEF ObjectStep
  <1>5. CASE StatusUpdate
    <2>1. CASE instCurrent /\ StoreStatus(inst.status)
      <3>1. obj \in DBInstance /\ inst.status \in DBInstanceStatus
        BY <2>1 DEF IInv, Agreement, TypeOK, DBInstance
      <3>2. /\ obj' # NoObject /\ obj'.uid = obj.uid /\ obj'.spec = obj.spec
            /\ obj'.status = inst.status
        <4>1. obj' = [obj EXCEPT !.status = inst.status]
          BY <2>1 DEF StoreStatus
        <4> QED BY <3>1, <4>1, WithStatus
      <3>3. obj # NoObject /\ PhaseStep(obj.status, inst.status)
        BY <2>1 DEF IInv, Agreement, NextPhases
      <3> QED BY <3>2, <3>3 DEF ObjectStep
    <2>2. CASE NoWrite
      BY <2>2 DEF NoWrite, apiServer, ObjectStep
    <2> QED BY <1>5, <2>1, <2>2 DEF StatusUpdate
  <1>6. CASE UpdateFinalizer
    <2>1. CASE /\ instCurrent
               /\ obj' = [obj EXCEPT !.spec = inst.spec, !.finalizer = TRUE]
      <3>1. obj \in DBInstance /\ obj # NoObject /\ inst.spec = obj.spec
        BY <2>1 DEF IInv, Agreement, TypeOK
      <3>2. obj' \in DBInstance
        BY <2>1, <3>1 DEF DBInstance
      <3>3. /\ obj' # NoObject /\ obj'.uid = obj.uid /\ obj'.spec = obj.spec
            /\ obj'.status = obj.status
        BY <2>1, <3>1, <3>2, NoObjectAssumption DEF DBInstance
      <3> QED BY <3>1, <3>3 DEF ObjectStep, PhaseStep
    <2>2. CASE NoWrite
      BY <2>2 DEF NoWrite, apiServer, ObjectStep
    <2> QED BY <1>6, <2>1, <2>2 DEF UpdateFinalizer
  <1>7. CASE Release
    BY <1>7 DEF Release, NoWrite, apiServer, ObjectStep, IInv, Agreement
  <1>8. CASE CreateInstance
    <2>1. PICK spec \in Specs :
            obj' = [uid |-> lives + 1, generation |-> 1, finalizer |-> FALSE,
                    deleting |-> FALSE, spec |-> spec, status |-> ZeroStatus]
      BY <1>8 DEF CreateInstance, UserWrites
    <2>2. obj = NoObject /\ obj'.status = ZeroStatus
      BY <1>8, <2>1 DEF CreateInstance
    <2> QED BY <2>2 DEF ObjectStep
  <1>9. CASE PatchSpec
    <2>1. obj \in DBInstance /\ obj # NoObject
      BY <1>9 DEF PatchSpec, IInv, TypeOK
    <2>2. PICK spec \in Specs :
            obj' = [obj EXCEPT !.spec = spec, !.generation = @ + 1]
      BY <1>9 DEF PatchSpec, UserWrites
    <2>3. /\ obj'.uid = obj.uid /\ obj'.generation = obj.generation + 1
          /\ obj'.status = obj.status
      BY <2>1, <2>2 DEF DBInstance
    <2> QED BY <2>1, <2>3 DEF ObjectStep, PhaseStep
  <1>10. CASE DeleteInstance
    <2>1. obj \in DBInstance /\ obj # NoObject
      BY <1>10 DEF DeleteInstance, IInv, TypeOK
    <2>2. obj' \in {NoObject, [obj EXCEPT !.deleting = TRUE]}
      BY <1>10 DEF DeleteInstance, UserWrites
    <2>3. obj' # NoObject => /\ obj'.uid = obj.uid /\ obj'.spec = obj.spec
                             /\ obj'.status = obj.status
      BY <2>1, <2>2 DEF DBInstance
    <2> QED BY <2>1, <2>3 DEF ObjectStep, PhaseStep
  <1> QED
    BY <1>1, <1>2, <1>3, <1>4, <1>5, <1>6, <1>7, <1>8, <1>9, <1>10, NextCases
       DEF User

(* The controller implements the provisioning lifecycle: phases in order,  *)
(* one at a time, never back, whatever is stale, lost or restarted.        *)
THEOREM Refinement == Spec => FollowsLifecycle
  <1>1. Init => Lifecycle!Init
    BY DEF Init, Lifecycle!Init, LifePhase
  <1>2. IInv /\ [Next]_vars => [Lifecycle!Next]_(LifePhase(obj))
    <2> SUFFICES ASSUME IInv, [Next]_vars
                 PROVE  Lifecycle!Next \/ LifePhase(obj)' = LifePhase(obj)
      OBVIOUS
    <2>1. ObjectStep
      BY ObjectSteps DEF ObjectStep, vars
    <2>2. CASE obj' = obj
      BY <2>2 DEF LifePhase
    <2>3. CASE /\ obj # NoObject /\ obj' # NoObject
               /\ PhaseStep(obj.status, obj'.status)
      BY <2>3 DEF LifePhase, PhaseStep, Lifecycle!Next, Lifecycle!Advance
    <2>4. CASE obj # NoObject /\ obj' = NoObject
      <3>1. obj.status.provisioningPhase \in ProvisioningPhases
        BY <2>4 DEF IInv, TypeOK, DBInstance, DBInstanceStatus
      <3> QED BY <2>4, <3>1 DEF LifePhase, PhaseName, ProvisioningPhases,
                 Lifecycle!Next, Lifecycle!Remove
    <2>5. CASE obj = NoObject /\ obj' # NoObject /\ obj'.status = ZeroStatus
      <3>1. LifePhase(obj) = "Absent"
        BY <2>5 DEF LifePhase
      <3>2. ZeroStatus.provisioningPhase = ""
        BY DEF ZeroStatus
      <3>3. LifePhase(obj)' = "New"
        BY <2>5, <3>2 DEF LifePhase, PhaseName
      <3> QED BY <3>1, <3>3, SuccessorsOf DEF Lifecycle!Next, Lifecycle!Advance
    <2> QED BY <2>1, <2>2, <2>3, <2>4, <2>5 DEF ObjectStep
  <1> QED
    BY <1>1, <1>2, Invariance, PTL DEF Spec, FollowsLifecycle, Lifecycle!Spec

(* No write of the controller undoes a user's change of the spec.          *)
THEOREM SpecChangesAreKept == Spec => NoLostSpecChange
  <1> DEFINE A == obj # NoObject /\ obj' # NoObject /\ obj'.uid = obj.uid
                    /\ obj'.spec # obj.spec => obj'.generation = obj.generation + 1
  <1>1. IInv /\ [Next]_vars => [A]_vars
    BY ObjectSteps DEF ObjectStep, vars
  <1> QED
    BY <1>1, Invariance, PTL DEF Spec, NoLostSpecChange

(* A cluster object that appears is made for the stored object.            *)
LEMMA CreationSteps ==
    ASSUME IInv, Next, NEW k \in Kinds, hv.made[k] = 0, hv'.made[k] # 0
    PROVE  obj # NoObject /\ hv'.made[k] = obj.uid
  <1>1. CASE Phases
    <2>1. PhaseAction
      BY <1>1, PhasesAct
    <2>2. hv' # hv /\ Live /\ cache.finalizer /\ Grows(hv, hv', cache.uid)
      BY <2>1 DEF PhaseAction, PhaseWork
    <2>3. hv'.made[k] = cache.uid
      BY <2>2 DEF Grows
    <2> QED BY <2>2, <2>3 DEF IInv, Finalized
  <1>2. CASE \/ reconcileStop \/ reconcileStart \/ reconcileModify
             \/ reconcileDelete /\ ~cache.spec.deletionProtection
    <2>1. hv' = hv
      BY <1>2, ReconcilersAnnounce, AnnounceKeeps
    <2> QED BY <2>1
  <1>3. CASE Operates \/ Quiet
    <2>1. hv'.made = hv.made
      BY <1>3, OperatesKeeps, QuietSteps
    <2> QED BY <2>1
  <1>4. CASE Teardown
    <2>1. hv \in Cluster /\ api \in BOOLEAN
      BY DEF IInv, TypeOK, api
    <2>2. inst \in DBInstance
      BY <1>4 DEF Teardown, IInv, TypeOK, Agreement
    <2>3. inst.status.resources \in SUBSET RefNames
      BY <2>2 DEF DBInstance, DBInstanceStatus
    <2>4. hv' \in TeardownAll(hv, inst.status.resources, api)
      BY <1>4 DEF Teardown
    <2>5. hv'.made[k] = hv.made[k] \/ hv'.made[k] = 0
      BY <2>1, <2>3, <2>4, TeardownShrinks
    <2> QED BY <2>5
  <1>5. CASE \/ AddFinalizer \/ StatusUpdate \/ UpdateFinalizer \/ Release
             \/ CacheSync \/ Crash \/ User
    <2>1. hv' = hv
      BY <1>5 DEF AddFinalizer, StatusUpdate, UpdateFinalizer, Release,
         CacheSync, Crash, User, CreateInstance, PatchSpec, DeleteInstance,
         UserWrites
    <2> QED BY <2>1
  <1> QED BY <1>1, <1>2, <1>3, <1>4, <1>5, NextCases

(* Nothing is created in the cluster but for the object that is stored.    *)
THEOREM CreationsAreForStored == Spec => CreatesForStored
  <1> DEFINE A == \A k \in Kinds : hv.made[k] = 0 /\ hv'.made[k] # 0 =>
                    obj # NoObject /\ hv'.made[k] = obj.uid
  <1>1. IInv /\ Next => A
    BY CreationSteps
  <1> HIDE DEF A
  <1>2. IInv /\ [Next]_vars => [A]_vars
    BY <1>1
  <1>3. Spec => [][A]_vars
    BY <1>2, Invariance, PTL DEF Spec
  <1> QED
    BY <1>3 DEF CreatesForStored, A
=============================================================================
