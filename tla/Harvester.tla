------------------------------ MODULE Harvester ------------------------------
(***************************************************************************)
(* internal/harvester/client.go: the calls the controller makes on the     *)
(* Harvester cluster, as operators on the state of that cluster.  A call   *)
(* is a sequence of API requests, and each of them may be refused or may   *)
(* take effect while its answer is lost.  An operator therefore yields the *)
(* SET of the outcomes a call can have; `faulty' says whether requests can *)
(* fail at the moment.  Names are functions of the instance's name, so a   *)
(* cluster object is known by its kind.                                    *)
(***************************************************************************)
EXTENDS DBaaSTypes, FiniteSets

CONSTANTS MaxFailedDeletes, \* deletions of one teardown that fail together
          MaxRoutes         \* bound: routes of the VPC are counted up to here

ASSUME BoundsAssumption == MaxFailedDeletes \in Nat /\ MaxRoutes \in Nat

(* made[k] is the uid of the DBInstance for which the object of kind k was *)
(* created, 0 when there is no such object.  operatorNAD stands for the    *)
(* operator's network that spec.networkRef names.  routes counts the       *)
(* entries of the VPC's staticRoutes.                                      *)
Cluster ==
    [made: [Kinds -> Nat], vmRunning: BOOLEAN,
     vmClass: Classes \cup {NoObject}, dvSize: Sizes \cup {NoObject},
     operatorNAD: BOOLEAN, routes: 0..MaxRoutes]

EmptyCluster ==
    [made |-> [k \in Kinds |-> 0], vmRunning |-> FALSE, vmClass |-> NoObject,
     dvSize |-> NoObject, operatorNAD |-> TRUE, routes |-> 0]

Exists(hv, k) == hv.made[k] # 0

(* Create requests for the given kinds; one that exists already is kept as *)
(* it is (ignoreAlreadyExists).                                            *)
Created(hv, uid, kinds) ==
    [hv EXCEPT !.made = [k \in Kinds |->
        IF k \in kinds /\ hv.made[k] = 0 THEN uid ELSE hv.made[k]]]

(* An update of one object that must exist: Get, change, Update.           *)
UpdateOutcomes(exists, faulty) ==
    IF ~exists THEN {[applied |-> FALSE, ok |-> FALSE]}
    ELSE {[applied |-> TRUE, ok |-> TRUE]} \cup
         (IF faulty THEN [applied: BOOLEAN, ok: {FALSE}] ELSE {})

------------------------------------------------------------------------------
(* One more route, whether or not there is one already.                    *)
RouteAppended(hv) ==
    [hv EXCEPT !.routes = IF @ < MaxRoutes THEN @ + 1 ELSE @]

(* CreateVPCNetwork: VPC, NAD, Subnet, then the consumer route, appended   *)
(* to what the VPC has.  The error of that last Update is dropped, and it  *)
(* needs no fault: Kube-OVN writes the VPC too.                            *)
CreateVPCNetwork(hv, uid, faulty) ==
    LET full == Created(hv, uid, {"VPC", "NAD", "Subnet"})
        partial == {{}, {"VPC"}, {"VPC", "NAD"}, {"VPC", "NAD", "Subnet"}}
    IN  {[hv |-> h, ok |-> TRUE] : h \in {full, RouteAppended(full)}} \cup
        (IF faulty
         THEN {[hv |-> Created(hv, uid, p), ok |-> FALSE] : p \in partial}
         ELSE {})

(* Mutant: every error of the Create is ignored, not AlreadyExists alone.  *)
CreateDataVolumeIgnoring(hv, uid, size, faulty) ==
    LET full == [Created(hv, uid, {"DataVolume"}) EXCEPT
                    !.dvSize = IF Exists(hv, "DataVolume") THEN @ ELSE size]
    IN  {[hv |-> h, ok |-> TRUE] : h \in IF faulty THEN {hv, full} ELSE {full}}

(* CreateDataVolume: an existing volume keeps its size.                    *)
CreateDataVolume(hv, uid, size, faulty) ==
    LET full == [Created(hv, uid, {"DataVolume"}) EXCEPT
                    !.dvSize = IF Exists(hv, "DataVolume") THEN @ ELSE size]
    IN  {[hv |-> full, ok |-> TRUE]} \cup
        (IF faulty THEN {[hv |-> h, ok |-> FALSE] : h \in {hv, full}} ELSE {})

(* CreatePostgresVM: fresh credentials and CA, then the Secret that holds  *)
(* them, then the image lookup, then the VM (running).  Both Secret and VM *)
(* are kept when they exist, but the CA returned is always the fresh one.  *)
(* A missing S3 secret fails the call before, a missing image after the    *)
(* Secret is created: these two need no fault.                             *)
CreatePostgresVM(hv, uid, class, faulty) ==
    LET withSecret == Created(hv, uid, {"Secret"})
        full == [Created(hv, uid, {"Secret", "VM"}) EXCEPT
                    !.vmRunning = @ \/ ~Exists(hv, "VM"),
                    !.vmClass = IF Exists(hv, "VM") THEN @ ELSE class]
        ca == IF Exists(hv, "Secret") THEN "discarded" ELSE "stored"
    IN  {[hv |-> full, ok |-> TRUE, ca |-> ca]} \cup
        {[hv |-> h, ok |-> FALSE, ca |-> ca] :
            h \in {hv, withSecret} \cup (IF faulty THEN {full} ELSE {})}

(* setVMRunning, under StopVM and StartVM.                                 *)
SetVMRunning(hv, running, faulty) ==
    {[hv |-> IF o.applied THEN [hv EXCEPT !.vmRunning = running] ELSE hv,
      ok |-> o.ok] : o \in UpdateOutcomes(Exists(hv, "VM"), faulty)}

(* ResizeVM and ResizeDataVolume, run side by side by reconcileModify.     *)
Resize(hv, class, size, faulty) ==
    {[hv |-> [hv EXCEPT !.vmClass = IF o[1].applied THEN class ELSE @,
                        !.dvSize = IF o[2].applied THEN size ELSE @],
      ok |-> o[1].ok /\ o[2].ok] :
        o \in UpdateOutcomes(Exists(hv, "VM"), faulty) \X
              UpdateOutcomes(Exists(hv, "DataVolume"), faulty)}

(* DeployMonitoring: the error of the Service's creation is dropped; the   *)
(* ServiceMonitor's is returned, AlreadyExists included.  A cluster        *)
(* without the ServiceMonitor CRD refuses it with no fault.                *)
DeployMonitoring(hv, uid, faulty) ==
    {[hv |-> Created(hv, uid, {"Service", "ServiceMonitor"}),
      ok |-> ~Exists(hv, "ServiceMonitor")],
     [hv |-> Created(hv, uid, {"Service"}), ok |-> FALSE]} \cup
    (IF faulty
     THEN {[hv |-> Created(hv, uid, p), ok |-> FALSE] :
              p \in SUBSET {"Service", "ServiceMonitor"}} \cup
          {[hv |-> Created(hv, uid, {"ServiceMonitor"}),
            ok |-> ~Exists(hv, "ServiceMonitor")]}
     ELSE {})

(* CreateVpcPeering: a stock Harvester has no VpcPeering CRD, so the call  *)
(* can fail with no fault.                                                 *)
CreateVpcPeering(hv, uid, faulty) ==
    LET full == Created(hv, uid, {"VpcPeering"})
    IN  {[hv |-> full, ok |-> TRUE], [hv |-> hv, ok |-> FALSE]} \cup
        (IF faulty THEN {[hv |-> full, ok |-> FALSE]} ELSE {})

(* Mutants: the operator's network goes too; our own one stays.            *)
TeardownEverything(refs) == refs
TeardownNoNetwork(refs) == refs \ {"NAD", "OperatorNAD"}

(* TeardownAll deletes what the refs name, all at once, and drops every    *)
(* error.  A network is ours to delete only if there is a VPC with it.     *)
TeardownTargets(refs) ==
    IF "VPC" \in refs THEN refs ELSE refs \ {"NAD", "OperatorNAD"}

Deleted(hv, gone) ==
    [made |-> [k \in Kinds |-> IF k \in gone THEN 0 ELSE hv.made[k]],
     vmRunning |-> hv.vmRunning /\ "VM" \notin gone,
     vmClass |-> IF "VM" \in gone THEN NoObject ELSE hv.vmClass,
     dvSize |-> IF "DataVolume" \in gone THEN NoObject ELSE hv.dvSize,
     operatorNAD |-> hv.operatorNAD /\ "OperatorNAD" \notin gone,
     routes |-> IF "VPC" \in gone THEN 0 ELSE hv.routes]

TeardownAll(hv, refs, faulty) ==
    {Deleted(hv, TeardownTargets(refs) \ failed) :
        failed \in {f \in SUBSET TeardownTargets(refs) :
                      Cardinality(f) <= IF faulty THEN MaxFailedDeletes ELSE 0}}

------------------------------------------------------------------------------
(* The VMI KubeVirt runs for the VM: Running or not, the addresses its     *)
(* interfaces report so far, and whether it is older than three minutes.   *)
VMI == [up: BOOLEAN, vpc: VpcIPs \cup {NoIP}, mgmt: MgmtIPs \cup {NoIP},
        aged: BOOLEAN]

NoVMI == [up |-> FALSE, vpc |-> NoIP, mgmt |-> NoIP, aged |-> FALSE]

(* GetVMIReadiness: the vpc-net address, else the first one there is.  A   *)
(* failed Get reads like a VMI that reports nothing.                       *)
Readiness(vmi) ==
    [running |-> vmi.up, ip |-> IF vmi.vpc # NoIP THEN vmi.vpc ELSE vmi.mgmt,
     mgmt |-> vmi.mgmt, ready |-> vmi.up /\ vmi.aged]

GetVMIReadiness(vmi, faulty) ==
    {Readiness(vmi)} \cup (IF faulty THEN {Readiness(NoVMI)} ELSE {})
==============================================================================
