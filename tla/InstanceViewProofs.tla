------------------------- MODULE InstanceViewProofs -------------------------
(***************************************************************************)
(* The instance controller implements InstanceView, the abstraction of it  *)
(* that the snapshot controller is built on: ViewInv is inductive relative *)
(* to IInv, and under both every step of the controller, its users and     *)
(* KubeVirt is a step of InstanceView or changes nothing seen from outside.*)
(***************************************************************************)
EXTENDS DBInstanceProofs

(* What the status a handler leaves in the worker's copy owes the one read.*)
Follows(s) ==
    /\ AddressKnown(s)
    /\ Status.managementAddress # NoIP => s.managementAddress # NoIP
    /\ cache.deleting /\ s.phase = "available" => Status.phase = "available"

(* A status that differs from the one read in other fields, and not before *)
(* DatabaseReady if an address is known, follows it.                       *)
LEMMA SameAddressFollows ==
    ASSUME NEW s, AddressKnown(Status), ~cache.deleting,
           s.managementAddress = Status.managementAddress,
           \/ s.provisioningPhase \in AfterReady \cup {"Failed"}
           \/ Status.provisioningPhase \notin AfterReady \cup {"Failed"}
    PROVE  Follows(s)
  BY DEF Follows, AddressKnown

(* fail keeps the address.                                                 *)
LEMMA FailedFollows ==
    ASSUME NEW s \in DBInstanceStatus, AddressKnown(Status), ~cache.deleting,
           s.managementAddress = Status.managementAddress
    PROVE  Follows(Failed(s))
  <1>1. /\ Failed(s).managementAddress = s.managementAddress
        /\ Failed(s).provisioningPhase = "Failed"
    BY DEF Failed, DBInstanceStatus
  <1> QED BY <1>1, SameAddressFollows

Reads == TypeOK /\ CopiesCoherent /\ Addresses

(* What a handler of a live object knows of the object it read.            *)
LEMMA LiveRead ==
    ASSUME Reads, Live
    PROVE  /\ CachedOK /\ AddressKnown(Status) /\ ~cache.deleting
           /\ Status \in DBInstanceStatus
  BY CachedIsOK DEF Reads, Live, Addresses, Status, CachedOK

(* The handlers before the VM is ready leave the address alone.            *)
LEMMA EarlyHandlersFollow ==
    ASSUME Reads, phaseNetwork \/ phaseStorage \/ phaseVM
    PROVE  \E s : Commit(s) /\ Follows(s)
  <1>1. Live
    BY DEF phaseNetwork, phaseStorage, phaseVM, Provisioning
  <1>2. /\ CachedOK /\ AddressKnown(Status) /\ ~cache.deleting
        /\ Status \in DBInstanceStatus
    BY <1>1, LiveRead
  <1>3. Status.provisioningPhase \notin AfterReady \cup {"Failed"}
    BY DEF phaseNetwork, phaseStorage, phaseVM, Provisioning, AfterReady, AfterVM
  <1>4. CASE phaseNetwork
    <2> DEFINE s == [Status EXCEPT !.phase = IF @ = "" THEN "creating" ELSE @]
               done == [s EXCEPT !.provisioningPhase = "NetworkProvisioned"]
               own == [done EXCEPT !.resources = @ \cup {"VPC", "Subnet", "NAD"}]
               operators == [done EXCEPT !.resources = @ \cup {"OperatorNAD"}]
    <2>1. PICK t : Commit(t) /\ t \in {done, operators, own, Failed(s)}
      BY <1>4 DEF phaseNetwork
    <2>2. /\ s \in DBInstanceStatus
          /\ s.managementAddress = Status.managementAddress
      BY <1>2 DEF DBInstanceStatus, StatusPhases
    <2>3. /\ done.managementAddress = Status.managementAddress
          /\ own.managementAddress = Status.managementAddress
          /\ operators.managementAddress = Status.managementAddress
      BY <1>2 DEF DBInstanceStatus
    <2> HIDE DEF s, done, own, operators
    <2>4. Follows(Failed(s))
      BY <1>2, <2>2, FailedFollows
    <2>5. Follows(done) /\ Follows(own) /\ Follows(operators)
      BY <1>2, <1>3, <2>3, SameAddressFollows
    <2> QED BY <2>1, <2>4, <2>5
  <1>5. CASE phaseStorage
    <2> DEFINE done == [Status EXCEPT !.provisioningPhase = "StorageProvisioned"]
               recorded == [done EXCEPT !.resources = @ \cup {"DataVolume"}]
    <2>1. PICK t : Commit(t) /\ t \in {done, recorded, Failed(Status)}
      BY <1>5 DEF phaseStorage
    <2>2. /\ done.managementAddress = Status.managementAddress
          /\ recorded.managementAddress = Status.managementAddress
      BY <1>2 DEF DBInstanceStatus
    <2> HIDE DEF done, recorded
    <2>3. Follows(done) /\ Follows(recorded) /\ Follows(Failed(Status))
      BY <1>2, <1>3, <2>2, SameAddressFollows, FailedFollows
    <2> QED BY <2>1, <2>3
  <1>6. CASE phaseVM
    <2> DEFINE done == [Status EXCEPT !.provisioningPhase = "VMCreated"]
               recorded(ca) == [done EXCEPT !.resources = @ \cup {"VM", "Secret"},
                                            !.caCert = ca]
    <2>1. PICK t : Commit(t) /\ \/ t \in {done, Failed(Status)}
                                \/ \E ca : t = recorded(ca)
      BY <1>6 DEF phaseVM
    <2>2. /\ done.managementAddress = Status.managementAddress
          /\ \A ca : recorded(ca).managementAddress = Status.managementAddress
      BY <1>2 DEF DBInstanceStatus
    <2> HIDE DEF done, recorded
    <2>3. /\ Follows(done) /\ Follows(Failed(Status))
          /\ \A ca : Follows(recorded(ca))
      BY <1>2, <1>3, <2>2, SameAddressFollows, FailedFollows
    <2> QED BY <2>1, <2>3
  <1> QED BY <1>4, <1>5, <1>6

(* phaseWaitReady finds no address known yet, so it takes none back;       *)
(* phaseAvailable keeps the one there is when none is reported.            *)
LEMMA ReadinessHandlersFollow ==
    ASSUME Reads, phaseWaitReady \/ phaseAvailable
    PROVE  \E s : Commit(s) /\ Follows(s)
  <1>1. Live
    BY DEF phaseWaitReady, phaseAvailable, Provisioning
  <1>2. /\ CachedOK /\ AddressKnown(Status) /\ ~cache.deleting
        /\ Status \in DBInstanceStatus
    BY <1>1, LiveRead
  <1>3. CASE phaseWaitReady
    <2> DEFINE waiting == [Status EXCEPT !.provisioningPhase = "WaitingForCloudInit"]
               ready(r) == [Status EXCEPT !.endpoint = r.ip,
                                          !.managementAddress = r.mgmt,
                                          !.provisioningPhase = "DatabaseReady"]
    <2>1. PICK t : Commit(t) /\ \/ t \in {waiting, Status}
                                \/ \E r : t = ready(r)
      BY <1>3 DEF phaseWaitReady
    <2>2. Status.provisioningPhase \in {"VMCreated", "WaitingForCloudInit"}
      BY <1>3 DEF phaseWaitReady, Provisioning
    <2>3. /\ waiting.managementAddress = Status.managementAddress
          /\ \A r : ready(r).provisioningPhase = "DatabaseReady"
      BY <1>2 DEF DBInstanceStatus
    <2> HIDE DEF waiting, ready
    <2>4. Status.managementAddress = NoIP
      BY <1>2, <2>2 DEF AddressKnown, AfterReady
    <2> QED BY <1>2, <2>1, <2>3, <2>4 DEF Follows, AddressKnown, AfterReady, AfterVM
  <1>4. CASE phaseAvailable
    <2> DEFINE m(r) == IF r.mgmt # NoIP THEN r.mgmt ELSE Status.managementAddress
               done(r) ==
                 [Status EXCEPT
                    !.phase = "available",
                    !.provisioningPhase = "Available",
                    !.observedGeneration = cache.generation,
                    !.endpoint = IF r.ip # NoIP THEN r.ip ELSE @,
                    !.managementAddress = IF r.mgmt # NoIP THEN r.mgmt ELSE @]
    <2>1. PICK r : Commit(done(r))
      BY <1>4 DEF phaseAvailable
    <2>2. /\ done(r).managementAddress = m(r)
          /\ done(r).provisioningPhase = "Available"
      BY <1>2 DEF DBInstanceStatus
    <2> HIDE DEF done
    <2> QED BY <1>2, <2>1, <2>2 DEF Follows, AddressKnown, AfterReady, AfterVM
  <1> QED BY <1>3, <1>4

(* The other handlers leave the address alone, and so does a refused       *)
(* deletion, which leaves everything alone.                                *)
LEMMA LateHandlersFollow ==
    ASSUME Reads, \/ phaseMonitoring \/ phaseVpcPeering
                  \/ reconcileDelete /\ cache.spec.deletionProtection
    PROVE  \E s : Commit(s) /\ Follows(s)
  <1>1. CASE phaseMonitoring
    <2> DEFINE done == [Status EXCEPT !.provisioningPhase = "MonitoringDeployed"]
               recorded == [done EXCEPT !.resources = @ \cup {"ServiceMonitor"}]
    <2>1. PICK t : Commit(t) /\ t \in {done, recorded}
      BY <1>1 DEF phaseMonitoring
    <2>2. /\ CachedOK /\ AddressKnown(Status) /\ ~cache.deleting
          /\ Status \in DBInstanceStatus
      BY <1>1, LiveRead DEF phaseMonitoring, Provisioning
    <2>3. /\ t.managementAddress = Status.managementAddress
          /\ t.provisioningPhase = "MonitoringDeployed"
      BY <2>1, <2>2 DEF DBInstanceStatus
    <2> HIDE DEF done, recorded
    <2> QED BY <2>1, <2>2, <2>3, SameAddressFollows DEF AfterReady, AfterVM
  <1>2. CASE phaseVpcPeering
    <2> DEFINE done == [Status EXCEPT !.provisioningPhase = "VpcPeeringCreated"]
               recorded == [done EXCEPT !.resources = @ \cup {"VpcPeering"}]
    <2>1. PICK t : Commit(t) /\ t \in {done, recorded}
      BY <1>2 DEF phaseVpcPeering
    <2>2. /\ CachedOK /\ AddressKnown(Status) /\ ~cache.deleting
          /\ Status \in DBInstanceStatus
      BY <1>2, LiveRead DEF phaseVpcPeering, Provisioning
    <2>3. /\ t.managementAddress = Status.managementAddress
          /\ t.provisioningPhase = "VpcPeeringCreated"
      BY <2>1, <2>2 DEF DBInstanceStatus
    <2> HIDE DEF done, recorded
    <2> QED BY <2>1, <2>2, <2>3, SameAddressFollows DEF AfterReady, AfterVM
  <1>3. CASE reconcileDelete /\ cache.spec.deletionProtection
    <2>1. Commit(Status) /\ cache # NoObject
      BY <1>3 DEF reconcileDelete
    <2>2. Follows(Status)
      BY <2>1 DEF Follows, Reads, Addresses, Status
    <2> QED BY <2>1, <2>2
  <1> QED BY <1>1, <1>2, <1>3

(* Every handler that ends in a single status write follows what it read.  *)
LEMMA HandlersFollow ==
    ASSUME IInv, ViewInv, Phases
    PROVE  \E s : Commit(s) /\ Follows(s)
  BY EarlyHandlersFollow, ReadinessHandlersFollow, LateHandlersFollow
     DEF Phases, Reads, IInv, ViewInv
(* Stop, start and modify conclude with a status that keeps the address.   *)
LEMMA OperatesEffect ==
    ASSUME IInv, Operates
    PROVE  /\ inst # NoObject /\ pc \in {"stop", "start", "modify"}
           /\ pc' \in {"commit", "commitDone"} /\ instCurrent' = instCurrent
           /\ UNCHANGED <<obj, cache, exposed, vmi>> /\ hv'.made = hv.made
           /\ inst' # NoObject /\ inst'.uid = inst.uid
           /\ inst'.deleting = inst.deleting
           /\ inst'.status.managementAddress = inst.status.managementAddress
           /\ inst'.status.provisioningPhase \in {"Available", "Failed"}
  <1>1. /\ pc \in {"stop", "start", "modify"}
        /\ UNCHANGED <<obj, cache, cacheCurrent, queued, vmi, faults, lives,
                       exposed>>
    BY DEF Operates, StopVM, StartVM, ResizeInstance
  <1>2. /\ inst \in DBInstance /\ inst.status \in DBInstanceStatus
        /\ inst # NoObject /\ inst.generation \in Nat
        /\ inst.status.provisioningPhase = "Available"
    BY <1>1 DEF IInv, TypeOK, Agreement, CopiesCoherent, DBInstance
  <1>3. PICK phase \in {"stopped", "available"} : \E outcomes : Conclude(outcomes, phase)
    BY Zenon DEF Operates, StopVM, StartVM, ResizeInstance
  <1> DEFINE done == [inst.status EXCEPT !.phase = phase,
                                         !.observedGeneration = inst.generation]
  <1>4. PICK s : /\ s \in {done, Failed(inst.status)}
                 /\ inst' = [inst EXCEPT !.status = s]
                 /\ pc' \in {"commit", "commitDone"}
                 /\ instCurrent' = instCurrent
    <2>1. [inst EXCEPT !.status.phase = phase,
                       !.status.observedGeneration = inst.generation]
          = [inst EXCEPT !.status = done]
      BY <1>2 DEF DBInstance, DBInstanceStatus
    <2> QED BY <1>3, <2>1 DEF Conclude, Goto
  <1>5. /\ done \in DBInstanceStatus
        /\ done.provisioningPhase = "Available"
        /\ done.managementAddress = inst.status.managementAddress
    BY <1>2 DEF DBInstanceStatus, StatusPhases
  <1>6. /\ Failed(inst.status) \in DBInstanceStatus
        /\ Failed(inst.status).provisioningPhase = "Failed"
        /\ Failed(inst.status).managementAddress = inst.status.managementAddress
    BY <1>2 DEF Failed, DBInstanceStatus, StatusPhases, ProvisioningPhases
  <1> HIDE DEF done
  <1>7. /\ s \in DBInstanceStatus
        /\ s.provisioningPhase \in {"Available", "Failed"}
        /\ s.managementAddress = inst.status.managementAddress
    BY <1>4, <1>5, <1>6
  <1>8. /\ inst' # NoObject /\ inst'.uid = inst.uid
        /\ inst'.deleting = inst.deleting /\ inst'.status = s
    BY <1>2, <1>4, <1>7, WithStatus
  <1> QED
    BY <1>1, <1>2, <1>4, <1>7, <1>8, OperatesKeeps

------------------------------------------------------------------------------
(* ViewInv is inductive, given IInv.                                       *)

(* A handler that ends in a single status write keeps ViewInv.             *)
LEMMA PhasesKeepView ==
    ASSUME IInv, ViewInv, Phases PROVE ViewInv'
  <1>1. PICK s : Commit(s) /\ Follows(s)
    BY HandlersFollow
  <1>2. PhaseAction
    BY PhasesAct
  <1>3. PICK t : Commit(t) /\ PhaseWork(t)
    BY <1>2 DEF PhaseAction
  <1>4. /\ cache # NoObject /\ cache \in DBInstance
        /\ pc' = "commit" /\ instCurrent' = cacheCurrent
        /\ UNCHANGED <<obj, cache, exposed>>
    BY <1>1, <1>2 DEF PhaseAction, Commit, Goto, NoWrite, apiServer, IInv, TypeOK
  <1>5. /\ inst' # NoObject /\ inst'.uid = cache.uid /\ inst'.deleting = cache.deleting
        /\ inst'.status = t
    BY <1>3, <1>4, WithStatus DEF Commit, Goto, PhaseWork
  <1>6. inst'.status = s
    BY <1>1, <1>4 DEF Commit, Goto, DBInstance
  <1>7. \A k \in Kinds : Exists(hv, k) => Exists(hv', k)
    BY <1>3 DEF PhaseWork, Grows, Exists
  <1>8. DeletionSeen'
    BY <1>4, <1>5 DEF IInv, Finalized, ViewInv, DeletionSeen
  <1>9. ShownExist'
    BY <1>4, <1>7 DEF ViewInv, ShownExist, Live, Exists
  <1>10. cacheCurrent => cache = obj
    BY DEF IInv, Agreement
  <1>11. Addresses'
    BY <1>1, <1>4, <1>5, <1>6, <1>10 DEF ViewInv, Addresses, Follows, Status, AddressKnown
  <1>12. NotRevived'
    BY <1>1, <1>4, <1>6, <1>10 DEF NotRevived, Follows, Status
  <1> QED BY <1>8, <1>9, <1>11, <1>12 DEF ViewInv

(* So does the announcement of an operation.                               *)
LEMMA AnnounceKeepsView ==
    ASSUME IInv, ViewInv, NEW s, NEW label, Announces(s, label) PROVE ViewInv'
  <1>1. /\ cache # NoObject /\ s.managementAddress = cache.status.managementAddress
        /\ s.provisioningPhase = cache.status.provisioningPhase
        /\ s.resources = cache.status.resources /\ s.phase # "available"
        /\ label \in {"stop", "start", "modify"} => ~cache.deleting
    BY DEF Announces
  <1>2. /\ pc' = label /\ UNCHANGED <<cache, hv, exposed>>
        /\ inst' # NoObject /\ inst'.status = s /\ inst'.uid = cache.uid
        /\ inst'.deleting = cache.deleting
    BY AnnounceEffect
  <1>3. \/ cacheCurrent /\ cache = obj /\ obj' = inst'
        \/ UNCHANGED obj /\ instCurrent' = cacheCurrent /\ (cacheCurrent => cache = obj)
    BY AnnounceEffect
  <1>4. DeletionSeen'
    BY <1>1, <1>2, <1>3 DEF IInv, Finalized, ViewInv, DeletionSeen
  <1>5. ShownExist'
    BY <1>1, <1>2, <1>3 DEF ViewInv, ShownExist, Live, Exists
  <1>6. Addresses'
    BY <1>1, <1>2, <1>3 DEF ViewInv, Addresses, AddressKnown
  <1>7. NotRevived'
    BY <1>1, <1>2 DEF NotRevived
  <1> QED BY <1>4, <1>5, <1>6, <1>7 DEF ViewInv

(* So do stopping, starting and resizing: they are of an object that was   *)
(* not deleted, so that `available' revives nothing.                       *)
LEMMA OperatesKeepsView ==
    ASSUME IInv, ViewInv, Operates PROVE ViewInv'
  <1>1. DeletionSeen'
    BY OperatesEffect DEF ViewInv, DeletionSeen
  <1>2. ShownExist'
    BY OperatesEffect DEF ViewInv, ShownExist, Live, Exists
  <1>3. Addresses'
    BY OperatesEffect DEF ViewInv, Addresses, AddressKnown, AfterReady, AfterVM
  <1>4. instCurrent => ~obj.deleting
    BY OperatesEffect DEF IInv, Agreement, ViewInv, DeletionSeen
  <1>5. NotRevived'
    BY <1>4, OperatesEffect DEF NotRevived
  <1> QED BY <1>1, <1>2, <1>3, <1>5 DEF ViewInv

(* A teardown is of an object the informer shows as deleted, or of an      *)
(* earlier one; the stored one then has nothing recorded.                  *)
LEMMA TeardownKeepsView ==
    ASSUME IInv, ViewInv, Teardown PROVE ViewInv'
  <1>1. inst \in DBInstance /\ inst # NoObject
    BY DEF IInv, TypeOK, Agreement, Teardown
  <1>2. /\ pc = "teardown" /\ pc' = "release"
        /\ inst' = [inst EXCEPT !.finalizer = FALSE]
        /\ instCurrent' = instCurrent /\ UNCHANGED <<obj, cache, exposed>>
    BY DEF Teardown, Goto
  <1>3. inst' \in DBInstance
    BY <1>1, <1>2 DEF DBInstance
  <1>4. /\ inst' # NoObject /\ inst'.status = inst.status /\ inst'.uid = inst.uid
        /\ inst'.deleting = inst.deleting
    BY <1>1, <1>2, <1>3, NoObjectAssumption DEF DBInstance
  <1>5. DeletionSeen'
    BY <1>1, <1>2, <1>4 DEF ViewInv, DeletionSeen
  <1>6. obj # NoObject /\ Live /\ cache.uid = obj.uid => obj.status.resources = {}
    BY <1>1, <1>2 DEF IInv, Finalized, Records, Live
  <1>7. ShownExist'
    BY <1>2, <1>6 DEF ShownExist, Live
  <1>8. Addresses'
    BY <1>1, <1>2, <1>4 DEF ViewInv, Addresses, AddressKnown
  <1>9. NotRevived'
    BY <1>2, <1>4 DEF ViewInv, NotRevived
  <1> QED BY <1>5, <1>7, <1>8, <1>9 DEF ViewInv

(* The last status write of a handler keeps ViewInv.                       *)
LEMMA StatusUpdateKeepsView ==
    ASSUME IInv, ViewInv, StatusUpdate PROVE ViewInv'
  <1>1. /\ pc' = "idle" /\ inst' = NoObject /\ instCurrent' = FALSE
        /\ UNCHANGED <<hv, exposed, cache>>
        /\ inst # NoObject /\ inst.status \in DBInstanceStatus
    BY StatusUpdateEffect
  <1>2. \/ UNCHANGED obj
        \/ /\ instCurrent /\ obj # NoObject /\ obj' # NoObject
           /\ obj'.status = inst.status /\ obj'.uid = obj.uid
           /\ obj'.deleting = obj.deleting
    <2>1. CASE /\ instCurrent /\ obj \in DBInstance /\ obj # NoObject
               /\ obj' = [obj EXCEPT !.status = inst.status]
      BY <1>1, <2>1, WithStatus
    <2> QED BY <2>1, StatusUpdateEffect
  <1>3. DeletionSeen' /\ NotRevived'
    BY <1>1, <1>2 DEF ViewInv, DeletionSeen, NotRevived
  <1>4. Addresses'
    BY <1>1, <1>2 DEF ViewInv, Addresses
  <1>5. instCurrent /\ Live /\ cache.uid = obj.uid =>
          \A k \in inst.status.resources \cap Kinds : Exists(hv, k)
    <2>1. instCurrent /\ Live /\ cache.uid = obj.uid => ~obj.deleting
      BY <1>1 DEF ViewInv, DeletionSeen, IInv, Agreement, Live
    <2> QED BY <2>1 DEF ViewInv, DeletionSeen, IInv, Agreement, Records
  <1>6. ShownExist'
    BY <1>1, <1>2, <1>5 DEF ViewInv, ShownExist, Live, Exists
  <1> QED BY <1>3, <1>4, <1>6 DEF ViewInv

(* Adding the finalizer keeps ViewInv.                                     *)
LEMMA FinalizerKeepsView ==
    ASSUME IInv, ViewInv, AddFinalizer \/ UpdateFinalizer PROVE ViewInv'
  <1>1. CASE AddFinalizer
    <2>1. /\ cache # NoObject /\ cache \in DBInstance /\ pc' = "update"
          /\ inst' = [cache EXCEPT !.finalizer = TRUE]
          /\ instCurrent' = cacheCurrent
          /\ UNCHANGED <<obj, cache, hv, exposed>>
      BY <1>1 DEF AddFinalizer, Live, Goto, NoWrite, apiServer, IInv, TypeOK
    <2>2. /\ inst'.status = cache.status /\ inst'.uid = cache.uid
          /\ inst'.deleting = cache.deleting
      BY <2>1 DEF DBInstance
    <2>3. DeletionSeen'
      BY <2>1, <2>2 DEF ViewInv, DeletionSeen, IInv, Finalized
    <2>4. ShownExist'
      BY <2>1 DEF ViewInv, ShownExist, Live, Exists
    <2>5. Addresses' /\ NotRevived'
      BY <2>1, <2>2 DEF ViewInv, Addresses, NotRevived, IInv, Agreement
    <2> QED BY <2>3, <2>4, <2>5 DEF ViewInv
  <1>2. CASE UpdateFinalizer
    <2>1. /\ pc' = "idle" /\ inst' = NoObject /\ instCurrent' = FALSE
          /\ UNCHANGED <<cache, hv, exposed>>
      BY <1>2 DEF UpdateFinalizer, Done, NoWrite, apiServer
    <2>2. \/ UNCHANGED obj
          \/ /\ obj # NoObject /\ obj' # NoObject /\ obj'.status = obj.status
             /\ obj'.uid = obj.uid /\ obj'.deleting = obj.deleting
      <3>1. CASE /\ instCurrent
                 /\ obj' = [obj EXCEPT !.spec = inst.spec, !.finalizer = TRUE]
        <4>1. obj \in DBInstance /\ obj # NoObject /\ inst.spec = obj.spec
          BY <3>1 DEF IInv, TypeOK, Agreement
        <4>2. obj' \in DBInstance
          BY <3>1, <4>1 DEF DBInstance
        <4> QED BY <3>1, <4>1, <4>2, NoObjectAssumption DEF DBInstance
      <3> QED BY <1>2, <3>1 DEF UpdateFinalizer, NoWrite, apiServer
    <2>3. DeletionSeen' /\ NotRevived' /\ Addresses'
      BY <2>1, <2>2 DEF ViewInv, DeletionSeen, NotRevived, Addresses
    <2>4. ShownExist'
      BY <2>1, <2>2 DEF ViewInv, ShownExist, Live, Exists
    <2> QED BY <2>3, <2>4 DEF ViewInv
  <1> QED BY <1>1, <1>2

(* So do the release of the object, the watch and a restart.               *)
LEMMA RefreshKeepsView ==
    ASSUME IInv, ViewInv, Release \/ CacheSync \/ Crash PROVE ViewInv'
  <1>1. CASE Release
    <2>1. /\ pc' = "idle" /\ inst' = NoObject /\ instCurrent' = FALSE
          /\ UNCHANGED <<cache, hv, exposed>> /\ obj' \in {obj, NoObject}
      BY <1>1 DEF Release, Done, NoWrite, apiServer
    <2>2. DeletionSeen' /\ NotRevived' /\ Addresses'
      BY <2>1 DEF ViewInv, DeletionSeen, NotRevived, Addresses
    <2>3. ShownExist'
      BY <2>1 DEF ViewInv, ShownExist, Live, Exists
    <2> QED BY <2>2, <2>3 DEF ViewInv
  <1>2. CASE CacheSync \/ Crash
    <2>1. /\ cache' = obj /\ UNCHANGED <<obj, hv, exposed>>
          /\ \/ UNCHANGED <<pc, inst, instCurrent>>
             \/ pc' = "idle" /\ inst' = NoObject /\ instCurrent' = FALSE
      BY <1>2 DEF CacheSync, Crash
    <2>2. DeletionSeen' /\ NotRevived' /\ Addresses'
      BY <2>1 DEF ViewInv, DeletionSeen, NotRevived, Addresses
    <2>3. ShownExist'
      BY <2>1 DEF ViewInv, DeletionSeen, ShownExist, Live, Exists, IInv,
         RecordedExist
    <2> QED BY <2>2, <2>3 DEF ViewInv
  <1> QED BY <1>1, <1>2

(* How the users change the stored object.                                 *)
LEMMA UserEffect ==
    ASSUME IInv, User
    PROVE  /\ instCurrent' = FALSE /\ UNCHANGED <<cache, pc, inst, hv, vmi>>
           /\ \/ /\ obj = NoObject /\ obj' # NoObject /\ obj'.status = ZeroStatus
                 /\ obj'.uid = lives + 1 /\ exposed' = FALSE
              \/ /\ obj # NoObject /\ obj' # NoObject /\ obj'.status = obj.status
                 /\ obj'.uid = obj.uid /\ (obj.deleting => obj'.deleting)
                 /\ exposed' => exposed \/ obj'.deleting
              \/ obj # NoObject /\ obj' = NoObject
  <1>1. instCurrent' = FALSE /\ UNCHANGED <<cache, pc, inst, hv, vmi>>
    BY DEF User, CreateInstance, PatchSpec, DeleteInstance, UserWrites
  <1>2. CASE CreateInstance
    <2>1. PICK spec \in Specs :
            obj' = [uid |-> lives + 1, generation |-> 1, finalizer |-> FALSE,
                    deleting |-> FALSE, spec |-> spec, status |-> ZeroStatus]
      BY <1>2 DEF CreateInstance, UserWrites
    <2>2. obj' \in DBInstance \cup {NoObject}
      BY UserKeeps DEF IInv, TypeOK
    <2>3. obj' # NoObject
      <3>1. lives \in Nat
        BY LimitsAssumption DEF IInv, TypeOK
      <3>2. spec \in DBInstanceSpec /\ lives + 1 \in Nat \ {0}
        BY <3>1, SpecsAssumption
      <3>3. ZeroStatus \in DBInstanceStatus
        BY DEF ZeroStatus, DBInstanceStatus, StatusPhases, ProvisioningPhases
      <3>4. obj' \in DBInstance
        BY <2>1, <3>2, <3>3 DEF DBInstance
      <3> QED BY <3>4, NoObjectAssumption
    <2>4. obj'.status = ZeroStatus /\ obj'.uid = lives + 1
      BY <2>1
    <2>5. obj = NoObject /\ exposed' = FALSE
      BY <1>2 DEF CreateInstance
    <2> QED BY <1>1, <2>3, <2>4, <2>5
  <1>3. CASE PatchSpec
    <2>1. obj \in DBInstance /\ obj # NoObject
      BY <1>3 DEF PatchSpec, IInv, TypeOK
    <2>2. PICK spec \in Specs :
            /\ obj' = [obj EXCEPT !.spec = spec, !.generation = @ + 1]
            /\ exposed' = (exposed \/ (obj.deleting /\ ~spec.deletionProtection))
      BY <1>3 DEF PatchSpec, UserWrites
    <2>3. obj' \in DBInstance
      <3>1. spec \in DBInstanceSpec /\ obj.generation + 1 \in Nat
        BY <2>1, SpecsAssumption DEF DBInstance
      <3> QED BY <2>1, <2>2, <3>1 DEF DBInstance
    <2>4. /\ obj' # NoObject /\ obj'.uid = obj.uid /\ obj'.status = obj.status
          /\ obj'.deleting = obj.deleting
      BY <2>1, <2>2, <2>3, NoObjectAssumption DEF DBInstance
    <2> QED BY <1>1, <2>1, <2>2, <2>4
  <1>4. CASE DeleteInstance
    <2>1. /\ obj \in DBInstance /\ obj # NoObject
          /\ obj' = IF obj.finalizer THEN [obj EXCEPT !.deleting = TRUE]
                    ELSE NoObject
      BY <1>4 DEF DeleteInstance, UserWrites, IInv, TypeOK
    <2>2. CASE obj' = NoObject
      BY <1>1, <2>1, <2>2
    <2>3. CASE obj' = [obj EXCEPT !.deleting = TRUE]
      <3>1. obj' \in DBInstance
        BY <2>1, <2>3 DEF DBInstance
      <3>2. /\ obj' # NoObject /\ obj'.uid = obj.uid /\ obj'.status = obj.status
            /\ obj'.deleting
        BY <2>1, <2>3, <3>1, NoObjectAssumption DEF DBInstance
      <3> QED BY <1>1, <2>1, <3>2
    <2> QED BY <2>1, <2>2, <2>3
  <1> QED BY <1>2, <1>3, <1>4 DEF User

(* The users keep ViewInv.                                                 *)
LEMMA UserKeepsView ==
    ASSUME IInv, ViewInv, User PROVE ViewInv'
  <1>1. instCurrent' = FALSE /\ UNCHANGED <<cache, pc, inst, hv>>
    BY UserEffect
  <1>2. NotRevived'
    BY <1>1 DEF NotRevived
  <1>3. CASE /\ obj # NoObject /\ obj' # NoObject /\ obj'.status = obj.status
             /\ obj'.uid = obj.uid /\ (obj.deleting => obj'.deleting)
             /\ exposed' => exposed \/ obj'.deleting
    <2>1. DeletionSeen'
      BY <1>1, <1>3 DEF ViewInv, DeletionSeen
    <2>2. ShownExist' /\ Addresses'
      BY <1>1, <1>3 DEF ViewInv, ShownExist, Addresses, Live, Exists
    <2> QED BY <1>2, <2>1, <2>2 DEF ViewInv
  <1>4. CASE obj' = NoObject
    BY <1>1, <1>2, <1>4 DEF ViewInv, DeletionSeen, ShownExist, Addresses
  <1>5. CASE /\ obj = NoObject /\ obj' # NoObject /\ obj'.status = ZeroStatus
             /\ obj'.uid = lives + 1 /\ exposed' = FALSE
    <2>1. ZeroStatus.resources = {} /\ ZeroStatus.managementAddress = NoIP
      BY DEF ZeroStatus
    <2>2. /\ inst # NoObject => inst.uid # obj'.uid
          /\ cache # NoObject => cache.uid # obj'.uid
      <3>1. /\ inst # NoObject => inst.uid \in Nat /\ inst.uid <= lives
            /\ cache # NoObject => cache.uid \in Nat /\ cache.uid <= lives
            /\ lives \in Nat
        BY LimitsAssumption DEF IInv, TypeOK, DBInstance, Incarnations
      <3> QED BY <1>5, <3>1
    <2>3. DeletionSeen'
      BY <1>1, <1>5, <2>2 DEF ViewInv, DeletionSeen
    <2>4. ShownExist' /\ Addresses'
      BY <1>1, <1>5, <2>1 DEF ViewInv, ShownExist, Addresses, AddressKnown
    <2> QED BY <1>2, <2>3, <2>4 DEF ViewInv
  <1> QED BY <1>3, <1>4, <1>5, UserEffect

(* Steps that touch neither the object's copies nor what exists.           *)
LEMMA QuietKeepsView ==
    ASSUME ViewInv, UNCHANGED <<obj, cache, pc, inst, instCurrent, hv, exposed>>
    PROVE  ViewInv'
  BY DEF ViewInv, DeletionSeen, ShownExist, Addresses, NotRevived, Live, Exists

(* ViewInv holds initially and is kept by every step.                      *)
LEMMA InitEstablishesView == Init => ViewInv
  BY DEF Init, ViewInv, DeletionSeen, ShownExist, Addresses, NotRevived

LEMMA NextKeepsView == IInv /\ ViewInv /\ [Next]_vars => ViewInv'
  <1> SUFFICES ASSUME IInv, ViewInv, [Next]_vars PROVE ViewInv'
    OBVIOUS
  <1>1. CASE Quiet
    <2>1. UNCHANGED <<obj, cache, pc, inst, instCurrent, hv, exposed>>
      BY <1>1 DEF Quiet, ReconcileGone, phaseFailed, KubeVirt, OnlyVMI, Calm, vars
    <2> QED BY <2>1, QuietKeepsView
  <1>2. CASE UNCHANGED vars
    BY <1>2, QuietKeepsView DEF vars
  <1>3. CASE Next
    BY <1>1, <1>3, NextCases, PhasesKeepView, ReconcilersAnnounce,
       AnnounceKeepsView, OperatesKeepsView, TeardownKeepsView,
       StatusUpdateKeepsView, FinalizerKeepsView, RefreshKeepsView, UserKeepsView
  <1> QED BY <1>2, <1>3

(* The copies of a deleted object, the recorded resources and the address  *)
(* stay as ViewInv says, in every behaviour.                               *)
THEOREM ViewInvariance == Spec => []ViewInv
  BY InitEstablishesView, NextKeepsView, Invariance, PTL DEF Spec

------------------------------------------------------------------------------
(* The refinement.                                                         *)

SameSecret == Exists(hv, "Secret")' = Exists(hv, "Secret")

(* A status write, in InstanceView's terms.                                *)
LEMMA WriteIsView ==
    ASSUME obj # NoObject, obj' # NoObject, SameSecret, vmi' = vmi,
           obj'.status.phase = "available" =>
             obj.status.phase = "available" \/ Exists(hv, "Secret"),
           obj.status.managementAddress # NoIP =>
             obj'.status.managementAddress # NoIP
    PROVE  View!WriteStatus
  BY DEF View!WriteStatus, ViewPhase, ViewMgmt, SameSecret

(* A step that leaves the object alone and makes a Secret, or none.        *)
LEMMA CreationIsView ==
    ASSUME obj' = obj, vmi' = vmi, Exists(hv, "Secret") => Exists(hv, "Secret")',
           ~Exists(hv, "Secret") /\ Exists(hv, "Secret")' =>
             obj # NoObject /\ obj.status.phase # "available"
    PROVE  View!MakeSecret \/ UNCHANGED View!viewVars
  BY DEF View!MakeSecret, View!viewVars, ViewPhase, ViewMgmt, Exists

ViewStep == View!ViewNext \/ UNCHANGED View!viewVars

(* A Secret is made only for an object that does not call itself available:*)
(* had the stored status recorded the Secret, it would be there, since the *)
(* informer shows the object as not deleted.                               *)
LEMMA PhasesAreViewSteps ==
    ASSUME IInv, ViewInv, Phases PROVE ViewStep
  <1>1. PhaseAction
    BY PhasesAct
  <1>2. UNCHANGED <<obj, vmi>>
    BY <1>1 DEF PhaseAction, Commit, NoWrite, apiServer
  <1>3. \/ hv' = hv
        \/ /\ Live /\ cache.finalizer /\ Grows(hv, hv', cache.uid)
    BY <1>1 DEF PhaseAction, PhaseWork
  <1>4. Exists(hv, "Secret") => Exists(hv, "Secret")'
    BY <1>3 DEF Grows, Exists, Kinds
  <1>5. ASSUME ~Exists(hv, "Secret"), Exists(hv, "Secret")'
        PROVE  obj # NoObject /\ obj.status.phase # "available"
    <2>1. Live /\ cache.finalizer
      BY <1>3, <1>5 DEF Exists
    <2>2. obj # NoObject /\ cache.uid = obj.uid
      BY <2>1 DEF IInv, Finalized
    <2>3. "Secret" \notin obj.status.resources
      BY <1>5, <2>1, <2>2 DEF ViewInv, ShownExist, Kinds
    <2> QED BY <2>2, <2>3 DEF IInv, CopiesCoherent, Coherent, AfterVM
  <1> QED
    BY <1>2, <1>4, <1>5, CreationIsView DEF ViewStep, View!ViewNext

(* An announcement makes nothing available.                                *)
LEMMA AnnounceIsViewStep ==
    ASSUME IInv, NEW s, NEW label, Announces(s, label) PROVE ViewStep
  <1>1. s.managementAddress = cache.status.managementAddress /\ s.phase # "available"
    BY DEF Announces
  <1>2. UNCHANGED <<hv, vmi>> /\ inst' # NoObject /\ inst'.status = s
    BY AnnounceEffect
  <1>3. CASE cacheCurrent /\ cache = obj /\ obj' = inst'
    <2>1. cache # NoObject
      BY DEF Announces
    <2>2. View!WriteStatus
      BY <1>1, <1>2, <1>3, <2>1, WriteIsView DEF SameSecret, Exists
    <2> QED BY <2>2 DEF ViewStep, View!ViewNext
  <1>4. CASE obj' = obj
    BY <1>2, <1>4 DEF ViewStep, View!viewVars, ViewPhase, ViewMgmt, Exists
  <1> QED BY <1>3, <1>4, AnnounceEffect

(* The last write of a handler makes an instance available only if it is   *)
(* not deleted, and then all it records is there.                          *)
LEMMA StatusUpdateIsViewStep ==
    ASSUME IInv, ViewInv, StatusUpdate PROVE ViewStep
  <1>1. UNCHANGED <<hv, vmi>> /\ inst # NoObject /\ inst.status \in DBInstanceStatus
        /\ Coherent(inst.status)
    BY StatusUpdateEffect
  <1>2. CASE obj' = obj
    BY <1>1, <1>2 DEF ViewStep, View!viewVars, ViewPhase, ViewMgmt, Exists
  <1>3. CASE /\ instCurrent /\ obj \in DBInstance /\ obj # NoObject
             /\ obj' = [obj EXCEPT !.status = inst.status]
    <2>1. obj' # NoObject /\ obj'.status = inst.status
      BY <1>1, <1>3, WithStatus
    <2>2. ASSUME inst.status.phase = "available", obj.status.phase # "available"
          PROVE  Exists(hv, "Secret")
      <3>1. ~exposed
        BY <1>3, <2>2 DEF ViewInv, NotRevived, DeletionSeen
      <3>2. "Secret" \in inst.status.resources
        BY <1>1, <2>2 DEF Coherent, AfterVM
      <3> QED BY <1>3, <3>1, <3>2 DEF IInv, Records, Kinds
    <2>3. obj.status.managementAddress # NoIP => inst.status.managementAddress # NoIP
      BY <1>3 DEF ViewInv, Addresses
    <2>4. View!WriteStatus
      BY <1>1, <1>3, <2>1, <2>2, <2>3, WriteIsView DEF SameSecret, Exists
    <2> QED BY <2>4 DEF ViewStep, View!ViewNext
  <1> QED BY <1>2, <1>3, StatusUpdateEffect

(* A teardown takes the Secret or leaves it, and nothing else seen.        *)
LEMMA TeardownIsViewStep ==
    ASSUME IInv, Teardown PROVE ViewStep
  <1>1. UNCHANGED <<obj, vmi>>
    BY DEF Teardown
  <1>2. hv'.made["Secret"] = hv.made["Secret"] \/ hv'.made["Secret"] = 0
    <2>1. hv \in Cluster /\ api \in BOOLEAN
      BY DEF IInv, TypeOK, api
    <2>2. inst.status.resources \in SUBSET RefNames
      BY DEF Teardown, IInv, TypeOK, Agreement, DBInstance, DBInstanceStatus
    <2>3. hv' \in TeardownAll(hv, inst.status.resources, api)
      BY DEF Teardown
    <2>4. "Secret" \in Kinds
      BY DEF Kinds
    <2> QED BY <2>1, <2>2, <2>3, <2>4, TeardownShrinks
  <1> QED
    BY <1>1, <1>2 DEF ViewStep, View!ViewNext, View!DropSecret, View!viewVars,
       ViewPhase, ViewMgmt, Exists

(* The users make objects appear and vanish.                               *)
LEMMA UserIsViewStep ==
    ASSUME IInv, User PROVE ViewStep
  <1>1. UNCHANGED <<hv, vmi>>
    BY UserEffect
  <1>2. CASE obj = NoObject /\ obj' # NoObject /\ obj'.status = ZeroStatus
    <2>1. ZeroStatus.phase # "available" /\ ZeroStatus.managementAddress = NoIP
      BY DEF ZeroStatus
    <2>2. View!Appear
      BY <1>1, <1>2, <2>1 DEF View!Appear, ViewPhase, ViewMgmt, Exists
    <2> QED BY <2>2 DEF ViewStep, View!ViewNext
  <1>3. CASE obj # NoObject /\ obj' # NoObject /\ obj'.status = obj.status
    BY <1>1, <1>3 DEF ViewStep, View!viewVars, ViewPhase, ViewMgmt, Exists
  <1>4. CASE obj # NoObject /\ obj' = NoObject
    <2>1. View!Vanish
      BY <1>1, <1>4 DEF View!Vanish, ViewPhase, ViewMgmt, Exists
    <2> QED BY <2>1 DEF ViewStep, View!ViewNext
  <1> QED BY <1>2, <1>3, <1>4, UserEffect

(* So does the release.                                                    *)
LEMMA ReleaseIsViewStep ==
    ASSUME IInv, Release PROVE ViewStep
  <1>1. UNCHANGED <<hv, vmi>>
    BY DEF Release
  <1>2. CASE obj' = obj
    BY <1>1, <1>2 DEF ViewStep, View!viewVars, ViewPhase, ViewMgmt, Exists
  <1>3. CASE instCurrent /\ obj' = NoObject
    <2>1. obj # NoObject
      BY <1>3 DEF IInv, Agreement
    <2>2. View!Vanish
      BY <1>1, <1>3, <2>1 DEF View!Vanish, ViewPhase, ViewMgmt, Exists
    <2> QED BY <2>2 DEF ViewStep, View!ViewNext
  <1> QED BY <1>2, <1>3 DEF Release, NoWrite, apiServer

(* KubeVirt turns the VM on or off, or nothing is seen of what it does.    *)
LEMMA QuietIsViewStep ==
    ASSUME IInv, Quiet PROVE ViewStep
  <1>1. hv' = hv /\ obj' = obj
    BY QuietSteps
  <1>2. vmi \in VMI /\ vmi' \in VMI
    BY QuietSteps DEF IInv, TypeOK
  <1>3. vmi.up \in BOOLEAN /\ vmi'.up \in BOOLEAN
    BY <1>2 DEF VMI
  <1>4. CASE vmi'.up = vmi.up
    BY <1>1, <1>4 DEF ViewStep, View!viewVars, ViewPhase, ViewMgmt, Exists
  <1>5. CASE vmi'.up = ~vmi.up
    BY <1>1, <1>5 DEF ViewStep, View!ViewNext, View!Power, ViewPhase, ViewMgmt,
       Exists
  <1> QED BY <1>3, <1>4, <1>5

(* The remaining steps concern the worker's and the informer's copies, the *)
(* finalizer, or the VM's size and power.                                  *)
LEMMA UnseenSteps ==
    ASSUME IInv, \/ AddFinalizer \/ UpdateFinalizer \/ CacheSync \/ Crash
                 \/ Operates
    PROVE  ViewStep
  <1>1. vmi' = vmi /\ hv'.made = hv.made
    BY OperatesEffect DEF AddFinalizer, UpdateFinalizer, CacheSync, Crash
  <1>2. obj' = obj \/ (obj # NoObject /\ obj' # NoObject /\ obj'.status = obj.status)
    <2>1. CASE AddFinalizer \/ CacheSync \/ Crash \/ Operates
      BY <2>1, OperatesEffect DEF AddFinalizer, CacheSync, Crash, NoWrite, apiServer
    <2>2. CASE UpdateFinalizer
      <3>1. CASE /\ instCurrent
                 /\ obj' = [obj EXCEPT !.spec = inst.spec, !.finalizer = TRUE]
        <4>1. obj \in DBInstance /\ obj # NoObject /\ inst.spec = obj.spec
          BY <3>1 DEF IInv, TypeOK, Agreement
        <4>2. obj' \in DBInstance
          BY <3>1, <4>1 DEF DBInstance
        <4> QED BY <3>1, <4>1, <4>2, NoObjectAssumption DEF DBInstance
      <3> QED BY <2>2, <3>1 DEF UpdateFinalizer, NoWrite, apiServer
    <2> QED BY <2>1, <2>2
  <1> QED
    BY <1>1, <1>2 DEF ViewStep, View!viewVars, ViewPhase, ViewMgmt, Exists

(* The instance controller implements InstanceView: from outside, nothing  *)
(* but its steps is ever seen of an instance, whatever is stale, lost,     *)
(* restarted or recreated.                                                 *)
THEOREM ViewRefinement == Spec => ShowsInstanceView
  <1>1. Init => View!ViewInit
    BY DEF Init, View!ViewInit, ViewPhase, ViewMgmt, Exists, EmptyCluster, NoVMI,
       Kinds
  <1>2. IInv /\ ViewInv /\ [Next]_vars => [View!ViewNext]_(View!viewVars)
    <2> SUFFICES ASSUME IInv, ViewInv, [Next]_vars PROVE ViewStep
      BY DEF ViewStep
    <2>1. CASE Next
      BY <2>1, NextCases, PhasesAreViewSteps, ReconcilersAnnounce,
         AnnounceIsViewStep, StatusUpdateIsViewStep, TeardownIsViewStep,
         UserIsViewStep, ReleaseIsViewStep, QuietIsViewStep, UnseenSteps
    <2>2. CASE UNCHANGED vars
      BY <2>2 DEF vars, ViewStep, View!viewVars, ViewPhase, ViewMgmt, Exists
    <2> QED BY <2>1, <2>2
  <1> QED
    BY <1>1, <1>2, Invariance, ViewInvariance, PTL
       DEF Spec, ShowsInstanceView, View!ViewSpec
=============================================================================
