---------------------------- MODULE NetworkProofs ----------------------------
(***************************************************************************)
(* What is left of the isolation that DESIGN.md promises: as long as no    *)
(* name is ever used in two namespaces, each recorded network is the       *)
(* instance's own.  It does not suffice that a name is used in one         *)
(* namespace at a time, since a deletion that failed leaves a VPC behind.  *)
(***************************************************************************)
EXTENDS SharedNetwork, TLAPS

(* home[n] is the only namespace in which instances of the name n exist.   *)
AtHome(home) == \A i \in Instances : status[i] # "none" => i.ns = home[i.name]

(* What exists of a name was made for the instance at home, whether or not *)
(* it is recorded; only then is an existing VPC safe to take over.         *)
MadeAtHome(home) ==
    \A n \in Names :
        /\ vpcs[n] # None => vpcs[n].namespace = home[n]
        /\ subnets[n] # None => subnets[n].provider = [name |-> n, ns |-> home[n]]

NetworkTypes ==
    /\ vpcs \in [Names -> [namespace: Namespaces, routes: Nat] \cup {None}]
    /\ subnets \in [Names -> [provider: Instances] \cup {None}]
    /\ nads \in SUBSET Instances
    /\ status \in [Instances -> {"none", "creating", "networked", "failed"}]

NInv(home) == NetworkTypes /\ MadeAtHome(home) /\ DedicatedVPC

NoneIsNoObject ==
    None \notin [namespace: Namespaces, routes: Nat] \cup [provider: Instances]

(* The network call, cut short or not, of an instance at home.             *)
LEMMA CreateVPCNetworkAtHome ==
    ASSUME NoneIsNoObject, NEW home \in [Names -> Namespaces], NInv(home),
           NEW i \in Instances, i.ns = home[i.name],
           NEW done \in 0..4, CreateVPCNetwork(i, done)
    PROVE  /\ vpcs' \in [Names -> [namespace: Namespaces, routes: Nat] \cup {None}]
           /\ subnets' \in [Names -> [provider: Instances] \cup {None}]
           /\ nads' \in SUBSET Instances
           /\ MadeAtHome(home)'
           /\ nads \subseteq nads'
           /\ \A n \in Names : vpcs[n] # None => vpcs'[n] # None
           /\ \A n \in Names : subnets[n] # None => subnets'[n] # None
           /\ done >= 3 => vpcs'[i.name] # None /\ subnets'[i.name] # None /\ i \in nads'
<1> DEFINE Vpc == [namespace: Namespaces, routes: Nat]
           vpc == IF vpcs[i.name] = None THEN [namespace |-> i.ns, routes |-> 0]
                  ELSE vpcs[i.name]
           new == IF done = 0 THEN vpcs[i.name]
                  ELSE IF done = 4 THEN [vpc EXCEPT !.routes = @ + 1] ELSE vpc
           sub == IF done >= 3 /\ subnets[i.name] = None THEN [provider |-> i]
                  ELSE subnets[i.name]
<1>1. i.name \in Names /\ i.ns \in Namespaces /\ i = [name |-> i.name, ns |-> home[i.name]]
  BY DEF Instances
<1>2. vpc \in Vpc /\ vpc.namespace = home[i.name]
  BY <1>1 DEF NInv, NetworkTypes, MadeAtHome
<1>3. /\ new \in Vpc \cup {None}
      /\ new # None => new.namespace = home[i.name]
      /\ vpcs[i.name] # None \/ done # 0 => new # None
  <2>1. [vpc EXCEPT !.routes = @ + 1] \in Vpc
        /\ [vpc EXCEPT !.routes = @ + 1].namespace = home[i.name]
    BY <1>2
  <2>2. None \notin Vpc  BY DEF NoneIsNoObject
  <2>3. vpcs[i.name] \in Vpc \cup {None}
        /\ (vpcs[i.name] # None => vpcs[i.name].namespace = home[i.name])
    BY <1>1 DEF NInv, NetworkTypes, MadeAtHome
  <2>4. QED  BY <1>2, <2>1, <2>2, <2>3
<1>4. /\ sub \in [provider: Instances] \cup {None}
      /\ sub # None => sub.provider = i
      /\ subnets[i.name] # None \/ done >= 3 => sub # None
  <2>1. [provider |-> i] \in [provider: Instances]  OBVIOUS
  <2>2. None \notin [provider: Instances]  BY DEF NoneIsNoObject
  <2>3. subnets[i.name] \in [provider: Instances] \cup {None}
        /\ (subnets[i.name] # None => subnets[i.name].provider = i)
    BY <1>1 DEF NInv, NetworkTypes, MadeAtHome
  <2>4. QED  BY <2>1, <2>2, <2>3
<1>5. /\ vpcs' = [vpcs EXCEPT ![i.name] = new]
      /\ subnets' = [subnets EXCEPT ![i.name] = sub]
      /\ nads' = IF done >= 2 THEN nads \cup {i} ELSE nads
  BY DEF CreateVPCNetwork
<1> HIDE DEF new, sub, vpc
<1>6. /\ vpcs' \in [Names -> Vpc \cup {None}]
      /\ \A n \in Names : vpcs[n] # None => vpcs'[n] # None
      /\ \A n \in Names : vpcs'[n] # None => vpcs'[n].namespace = home[n]
      /\ done >= 3 => vpcs'[i.name] # None
  <2>1. ASSUME NEW n \in Names
        PROVE  vpcs'[n] = IF n = i.name THEN new ELSE vpcs[n]
    BY <1>1, <1>5, <2>1 DEF NInv, NetworkTypes
  <2>2. vpcs' \in [Names -> Vpc \cup {None}]
    BY <1>1, <1>3, <1>5 DEF NInv, NetworkTypes
  <2>3. \A n \in Names : vpcs'[n] # None => vpcs'[n].namespace = home[n]
    BY <1>3, <2>1 DEF NInv, MadeAtHome
  <2>4. done >= 3 => done # 0  OBVIOUS
  <2>5. QED  BY <1>1, <1>3, <2>1, <2>2, <2>3, <2>4
<1>7. /\ subnets' \in [Names -> [provider: Instances] \cup {None}]
      /\ \A n \in Names : subnets[n] # None => subnets'[n] # None
      /\ \A n \in Names : subnets'[n] # None =>
            subnets'[n].provider = [name |-> n, ns |-> home[n]]
      /\ done >= 3 => subnets'[i.name] # None
  BY <1>1, <1>4, <1>5 DEF NInv, NetworkTypes, MadeAtHome
<1>8. nads' \in SUBSET Instances /\ nads \subseteq nads' /\ (done >= 3 => i \in nads')
  BY <1>5 DEF NInv, NetworkTypes
<1>9. QED  BY <1>6, <1>7, <1>8 DEF MadeAtHome

(* So phaseNetwork, whose handler records the network only when the call   *)
(* got as far as the Subnet.                                               *)
LEMMA phaseNetworkKeeps ==
    ASSUME NoneIsNoObject, NEW home \in [Names -> Namespaces], NInv(home),
           AtHome(home), AtHome(home)', NEW i \in Instances, phaseNetwork(i)
    PROVE  NInv(home)'
<1>1. i.ns = home[i.name]
  BY DEF AtHome, phaseNetwork
<1>2. PICK done \in 0..4 :
        /\ CreateVPCNetwork(i, done)
        /\ \E s \in {"creating", "networked", "failed"} :
             status' = [status EXCEPT ![i] = s] /\ (s = "networked" => done >= 3)
  <2>1. status' = status => status' = [status EXCEPT ![i] = "creating"]
    BY DEF phaseNetwork, NInv, NetworkTypes
  <2>2. QED  BY <2>1 DEF phaseNetwork
<1>3. /\ vpcs' \in [Names -> [namespace: Namespaces, routes: Nat] \cup {None}]
      /\ subnets' \in [Names -> [provider: Instances] \cup {None}]
      /\ nads' \in SUBSET Instances
      /\ MadeAtHome(home)'
      /\ nads \subseteq nads'
      /\ \A n \in Names : vpcs[n] # None => vpcs'[n] # None
      /\ \A n \in Names : subnets[n] # None => subnets'[n] # None
      /\ done >= 3 => vpcs'[i.name] # None /\ subnets'[i.name] # None /\ i \in nads'
  BY <1>1, <1>2, CreateVPCNetworkAtHome
<1>4. NetworkTypes'
  BY <1>2, <1>3 DEF NetworkTypes, NInv
<1>5. DedicatedVPC'
  <2>1. SUFFICES ASSUME NEW j \in Instances, status'[j] = "networked"
                 PROVE  /\ vpcs'[j.name] # None /\ vpcs'[j.name].namespace = j.ns
                        /\ subnets'[j.name] # None /\ subnets'[j.name].provider = j
                        /\ j \in nads'
    BY DEF DedicatedVPC
  <2>2. vpcs'[j.name] # None /\ subnets'[j.name] # None /\ j \in nads'
    <3>1. CASE j = i
      BY <1>2, <1>3, <2>1, <3>1 DEF NInv, NetworkTypes
    <3>2. CASE j # i
      <4>1. status[j] = "networked"
        BY <1>2, <2>1, <3>2 DEF NInv, NetworkTypes
      <4>2. QED  BY <1>3, <4>1 DEF NInv, DedicatedVPC, Instances
    <3>3. QED  BY <3>1, <3>2
  <2>3. j.ns = home[j.name]
    BY <2>1 DEF AtHome
  <2>4. QED
    BY <1>3, <2>2, <2>3 DEF MadeAtHome, Instances
<1>6. QED  BY <1>3, <1>4, <1>5 DEF NInv

(* A deletion at home takes nobody else's network.                         *)
LEMMA reconcileDeleteKeeps ==
    ASSUME NEW home \in [Names -> Namespaces], NInv(home),
           AtHome(home), NEW i \in Instances, reconcileDelete(i)
    PROVE  NInv(home)'
<1>1. PICK gone \in SUBSET {"VPC", "Subnet", "NAD"} :
        /\ vpcs' = [vpcs EXCEPT ![i.name] = IF "VPC" \in gone THEN None ELSE @]
        /\ subnets' = [subnets EXCEPT ![i.name] = IF "Subnet" \in gone THEN None ELSE @]
        /\ nads' = IF "NAD" \in gone THEN nads \ {i} ELSE nads
  <2>1. {} \in SUBSET {"VPC", "Subnet", "NAD"}  OBVIOUS
  <2>2. QED  BY <2>1 DEF reconcileDelete
<1>2. status[i] # "none" /\ status' = [status EXCEPT ![i] = "none"]
  BY DEF reconcileDelete
<1>3. i.name \in Names  BY DEF Instances
<1>4. NetworkTypes'
  BY <1>1, <1>2, <1>3 DEF NInv, NetworkTypes
<1>5. MadeAtHome(home)'
  BY <1>1, <1>3 DEF NInv, NetworkTypes, MadeAtHome
<1>6. DedicatedVPC'
  <2>1. SUFFICES ASSUME NEW j \in Instances, status'[j] = "networked"
                 PROVE  /\ vpcs'[j.name] # None /\ vpcs'[j.name].namespace = j.ns
                        /\ subnets'[j.name] # None /\ subnets'[j.name].provider = j
                        /\ j \in nads'
    BY DEF DedicatedVPC
  <2>2. j # i /\ status[j] = "networked"
    BY <1>2, <2>1 DEF NInv, NetworkTypes
  <2>3. j.name # i.name
    <3>1. i.ns = home[i.name] /\ j.ns = home[j.name]
      BY <1>2, <2>2 DEF AtHome
    <3>2. QED  BY <2>2, <3>1 DEF Instances
  <2>4. vpcs'[j.name] = vpcs[j.name] /\ subnets'[j.name] = subnets[j.name]
        /\ (j \in nads => j \in nads')
    BY <1>1, <1>3, <2>2, <2>3 DEF NInv, NetworkTypes, Instances
  <2>5. QED  BY <2>2, <2>4 DEF NInv, DedicatedVPC
<1>7. QED  BY <1>4, <1>5, <1>6 DEF NInv

LEMMA CreateInstanceKeeps ==
    ASSUME NEW home \in [Names -> Namespaces], NInv(home),
           NEW i \in Instances, CreateInstance(i)
    PROVE  NInv(home)'
<1>1. NetworkTypes' /\ MadeAtHome(home)'
  BY DEF NInv, NetworkTypes, MadeAtHome, CreateInstance
<1>2. ASSUME NEW j \in Instances, status'[j] = "networked"
      PROVE  status[j] = "networked"
  BY <1>2 DEF NInv, NetworkTypes, CreateInstance
<1>3. DedicatedVPC'
  BY <1>2 DEF NInv, DedicatedVPC, CreateInstance
<1>4. QED  BY <1>1, <1>3 DEF NInv

(* Each instance has the VPC, Subnet and NAD recorded for it to itself, in *)
(* every behaviour in which each name is used in one namespace only; calls *)
(* that are cut short and repeated (CreateVPCNetwork takes what exists)    *)
(* and deletions that fail (TeardownAll) included.                         *)
THEOREM DedicatedAtHome ==
    ASSUME NoneIsNoObject, NEW home \in [Names -> Namespaces]
    PROVE  Spec /\ []AtHome(home) => []DedicatedVPC
<1>1. Init => NInv(home)
  BY DEF Init, NInv, NetworkTypes, MadeAtHome, DedicatedVPC
<1>2. NInv(home) /\ AtHome(home) /\ AtHome(home)' /\ [Next]_vars => NInv(home)'
  <2>1. SUFFICES ASSUME NInv(home), AtHome(home), AtHome(home)', [Next]_vars
                 PROVE  NInv(home)'
    OBVIOUS
  <2>2. CASE UNCHANGED vars
    BY <2>1, <2>2 DEF vars, NInv, NetworkTypes, MadeAtHome, DedicatedVPC
  <2>3. ASSUME NEW i \in Instances,
               CreateInstance(i) \/ phaseNetwork(i) \/ reconcileDelete(i)
        PROVE  NInv(home)'
    BY <2>1, <2>3, CreateInstanceKeeps, phaseNetworkKeeps, reconcileDeleteKeeps
  <2>4. QED  BY <2>1, <2>2, <2>3 DEF Next
<1>3. NInv(home) => DedicatedVPC  BY DEF NInv
<1>4. QED  BY <1>1, <1>2, <1>3, PTL DEF Spec
==============================================================================
