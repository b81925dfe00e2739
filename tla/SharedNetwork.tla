---------------------------- MODULE SharedNetwork ----------------------------
(***************************************************************************)
(* The networks of several DBInstances beside each other (client.go,       *)
(* CreateVPCNetwork and TeardownAll, with phaseNetwork and reconcileDelete *)
(* around them).  VPC and Subnet are cluster-scoped and named after        *)
(* metadata.name alone; the NAD lives in the instance's namespace.  The    *)
(* controller has one worker, so calls of two instances do not overlap;    *)
(* but a call can be cut short by a crash or a refused request.            *)
(***************************************************************************)
EXTENDS Naturals

CONSTANTS Names, Namespaces,
          MaxRoutes,  \* bound: entries of one VPC's staticRoutes
          None        \* there is no such object

Instances == [name: Names, ns: Namespaces]

VARIABLES
    vpcs,     \* of each name: None, or [namespace, routes]
    subnets,  \* of each name: None, or [provider]: the instance whose NAD it serves
    nads,     \* the instances whose NAD exists
    status    \* of each instance: "none", "creating", "networked" or "failed"

vars == <<vpcs, subnets, nads, status>>

Init ==
    /\ vpcs = [n \in Names |-> None]
    /\ subnets = [n \in Names |-> None]
    /\ nads = {}
    /\ status = [i \in Instances |-> "none"]

CreateInstance(i) ==
    /\ status[i] = "none" /\ status' = [status EXCEPT ![i] = "creating"]
    /\ UNCHANGED <<vpcs, subnets, nads>>

------------------------------------------------------------------------------
(* CreateVPCNetwork, as far as its requests get: 1 VPC, 2 NAD, 3 Subnet,   *)
(* 4 the route.  What exists already is kept as it is, whoever made it;    *)
(* the route is appended each time.                                        *)
CreateVPCNetwork(i, done) ==
    LET vpc == IF vpcs[i.name] = None THEN [namespace |-> i.ns, routes |-> 0]
               ELSE vpcs[i.name]
    IN  /\ vpcs' = [vpcs EXCEPT ![i.name] =
              IF done = 0 THEN @
              ELSE IF done = 4 THEN [vpc EXCEPT !.routes = @ + 1] ELSE vpc]
        /\ nads' = IF done >= 2 THEN nads \cup {i} ELSE nads
        /\ subnets' = [subnets EXCEPT ![i.name] =
              IF done >= 3 /\ @ = None THEN [provider |-> i] ELSE @]

RoutesLeft(i) == vpcs[i.name] # None => vpcs[i.name].routes < MaxRoutes

(* The call succeeds (the route's error is dropped) and is recorded, or    *)
(* fails for good, or is cut short by a crash or has its status write      *)
(* refused, and is repeated.                                               *)
phaseNetwork(i) ==
    /\ status[i] = "creating" /\ RoutesLeft(i)
    /\ \/ /\ \E done \in {3, 4} : CreateVPCNetwork(i, done)
          /\ status' = [status EXCEPT ![i] = "networked"]
       \/ /\ \E done \in 0..2 : CreateVPCNetwork(i, done)
          /\ status' = [status EXCEPT ![i] = "failed"]
       \/ \E done \in 0..4 : CreateVPCNetwork(i, done) /\ status' = status

(* reconcileDelete: TeardownAll deletes by name what the status records;   *)
(* a deletion that fails is not noticed.                                   *)
reconcileDelete(i) ==
    /\ status[i] # "none" /\ status' = [status EXCEPT ![i] = "none"]
    /\ \E gone \in IF status[i] = "networked" THEN SUBSET {"VPC", "Subnet", "NAD"}
                   ELSE {{}} :
         /\ vpcs' = [vpcs EXCEPT ![i.name] = IF "VPC" \in gone THEN None ELSE @]
         /\ subnets' = [subnets EXCEPT ![i.name] = IF "Subnet" \in gone THEN None ELSE @]
         /\ nads' = IF "NAD" \in gone THEN nads \ {i} ELSE nads

Next ==
    \E i \in Instances : CreateInstance(i) \/ phaseNetwork(i) \/ reconcileDelete(i)

Spec == Init /\ [][Next]_vars

------------------------------------------------------------------------------
(* DESIGN.md: "Each database instance gets complete network isolation via  *)
(* a dedicated Kube-OVN VPC."  While an instance's network is recorded,    *)
(* its VPC and Subnet are there and were made for it.                      *)
DedicatedVPC ==
    \A i \in Instances : status[i] = "networked" =>
        /\ vpcs[i.name] # None /\ vpcs[i.name].namespace = i.ns
        /\ subnets[i.name] # None /\ subnets[i.name].provider = i
        /\ i \in nads
==============================================================================
