--------------------------- MODULE HarvesterProofs ---------------------------
(* What the calls of the Harvester client can and cannot do to the cluster. *)
EXTENDS Harvester, FiniteSetTheorems, TLAPS

(* From h to g, objects were only added, and only on behalf of uid.         *)
Grows(h, g, uid) ==
    /\ g.operatorNAD = h.operatorNAD
    /\ \A k \in Kinds : \/ g.made[k] = h.made[k]
                        \/ h.made[k] = 0 /\ g.made[k] = uid

(* A batch of Create requests yields a cluster in which the objects asked   *)
(* for exist and nothing else changed (ignoreAlreadyExists).                *)
LEMMA CreatedGrows ==
    ASSUME NEW h \in Cluster, NEW uid \in Nat \ {0}, NEW kinds \in SUBSET Kinds
    PROVE  /\ Created(h, uid, kinds) \in Cluster
           /\ Grows(h, Created(h, uid, kinds), uid)
           /\ \A k \in kinds : Exists(Created(h, uid, kinds), k)
           /\ \A k \in Kinds : Created(h, uid, kinds).made[k] =
                IF k \in kinds /\ h.made[k] = 0 THEN uid ELSE h.made[k]
  <1> DEFINE m == [k \in Kinds |->
                     IF k \in kinds /\ h.made[k] = 0 THEN uid ELSE h.made[k]]
             g == Created(h, uid, kinds)
  <1>1. m \in [Kinds -> Nat]
    BY DEF Cluster
  <1>2. g = [h EXCEPT !.made = m]
    BY DEF Created
  <1>3. g \in Cluster /\ g.made = m /\ g.operatorNAD = h.operatorNAD
    <2> HIDE DEF m, g
    <2> QED BY <1>1, <1>2 DEF Cluster
  <1> QED
    BY <1>3 DEF Grows, Exists

(* CreateVPCNetwork makes a prefix of its objects, all of them when it      *)
(* succeeds, and then appends at most one route.                            *)
NetworkPrefixes == {{}, {"VPC"}, {"VPC", "NAD"}, {"VPC", "NAD", "Subnet"}}

LEMMA CreateVPCNetworkOutcome ==
    ASSUME NEW h \in Cluster, NEW uid \in Nat \ {0}, NEW f \in BOOLEAN,
           NEW r \in CreateVPCNetwork(h, uid, f)
    PROVE  \E p \in NetworkPrefixes, n \in 0..MaxRoutes :
              /\ r.hv = [Created(h, uid, p) EXCEPT !.routes = n]
              /\ n \in {h.routes, h.routes + 1}
              /\ r.ok => p = {"VPC", "NAD", "Subnet"}
  <1> DEFINE all == {"VPC", "NAD", "Subnet"}
             full == Created(h, uid, all)
             n1 == IF h.routes < MaxRoutes THEN h.routes + 1 ELSE h.routes
  <1>1. ASSUME NEW p \in NetworkPrefixes
        PROVE  /\ Created(h, uid, p) \in Cluster
               /\ Created(h, uid, p).routes = h.routes
               /\ Created(h, uid, p) = [Created(h, uid, p) EXCEPT !.routes = h.routes]
    <2>1. p \in SUBSET Kinds
      BY DEF NetworkPrefixes, Kinds
    <2>2. Created(h, uid, p) \in Cluster
      BY <2>1, CreatedGrows
    <2>3. Created(h, uid, p).routes = h.routes
      BY DEF Created, Cluster
    <2> QED BY <2>2, <2>3 DEF Cluster
  <1>2. all \in NetworkPrefixes
    BY DEF NetworkPrefixes
  <1>3. /\ h.routes \in 0..MaxRoutes /\ n1 \in 0..MaxRoutes
        /\ n1 \in {h.routes, h.routes + 1}
    BY BoundsAssumption DEF Cluster
  <1>4. RouteAppended(full) = [full EXCEPT !.routes = n1]
    <2>1. full.routes = h.routes
      BY <1>1, <1>2
    <2> HIDE DEF full
    <2> QED BY <2>1 DEF RouteAppended
  <1>5. CASE r = [hv |-> full, ok |-> TRUE]
    BY <1>1, <1>2, <1>3, <1>5
  <1>6. CASE r = [hv |-> RouteAppended(full), ok |-> TRUE]
    BY <1>2, <1>3, <1>4, <1>6
  <1>7. CASE \E p \in NetworkPrefixes : r = [hv |-> Created(h, uid, p), ok |-> FALSE]
    BY <1>1, <1>3, <1>7
  <1> QED
    BY <1>5, <1>6, <1>7 DEF CreateVPCNetwork, NetworkPrefixes

(* CreateVPCNetwork only adds objects; when it succeeds all three exist.    *)
LEMMA CreateVPCNetworkGrows ==
    ASSUME NEW h \in Cluster, NEW uid \in Nat \ {0}, NEW f \in BOOLEAN,
           NEW r \in CreateVPCNetwork(h, uid, f)
    PROVE  /\ r.hv \in Cluster /\ Grows(h, r.hv, uid)
           /\ r.ok => \A k \in {"VPC", "Subnet", "NAD"} : Exists(r.hv, k)
  <1>1. PICK p \in NetworkPrefixes, n \in 0..MaxRoutes :
           /\ r.hv = [Created(h, uid, p) EXCEPT !.routes = n]
           /\ r.ok => p = {"VPC", "NAD", "Subnet"}
    BY CreateVPCNetworkOutcome
  <1> DEFINE c == Created(h, uid, p)
  <1>2. p \in SUBSET Kinds
    BY DEF NetworkPrefixes, Kinds
  <1>3. c \in Cluster /\ Grows(h, c, uid) /\ \A k \in p : Exists(c, k)
    BY <1>2, CreatedGrows
  <1>4. r.hv = [c EXCEPT !.routes = n]
    BY <1>1
  <1> HIDE DEF c
  <1>5. r.hv \in Cluster /\ r.hv.made = c.made /\ r.hv.operatorNAD = c.operatorNAD
    BY <1>3, <1>4 DEF Cluster
  <1> QED
    BY <1>1, <1>3, <1>5 DEF Grows, Exists

(* CreateDataVolume only adds the volume; when it succeeds the volume is    *)
(* there.                                                                   *)
LEMMA CreateDataVolumeGrows ==
    ASSUME NEW h \in Cluster, NEW uid \in Nat \ {0}, NEW size \in Sizes,
           NEW f \in BOOLEAN, NEW r \in CreateDataVolume(h, uid, size, f)
    PROVE  /\ r.hv \in Cluster /\ Grows(h, r.hv, uid)
           /\ r.ok => Exists(r.hv, "DataVolume")
  <1> DEFINE c == Created(h, uid, {"DataVolume"})
             full == [c EXCEPT !.dvSize =
                        IF Exists(h, "DataVolume") THEN @ ELSE size]
  <1>1. c \in Cluster /\ Grows(h, c, uid) /\ Exists(c, "DataVolume")
    BY CreatedGrows DEF Kinds
  <1>2. full \in Cluster /\ full.made = c.made /\ full.operatorNAD = c.operatorNAD
    <2> HIDE DEF c
    <2> QED BY <1>1 DEF Cluster
  <1>3. r \in {[hv |-> full, ok |-> TRUE]} \cup
              {[hv |-> x, ok |-> FALSE] : x \in {h, full}}
    BY DEF CreateDataVolume
  <1>4. r.hv \in {h, full} /\ (r.ok => r.hv = full)
    BY <1>3
  <1> HIDE DEF full, c
  <1> QED
    BY <1>1, <1>2, <1>4 DEF Grows, Exists

(* CreatePostgresVM only adds Secret and VM; when it succeeds both exist,   *)
(* and the CA it returns is a certificate, stored or not.                   *)
LEMMA CreatePostgresVMGrows ==
    ASSUME NEW h \in Cluster, NEW uid \in Nat \ {0}, NEW class \in Classes,
           NEW f \in BOOLEAN, NEW r \in CreatePostgresVM(h, uid, class, f)
    PROVE  /\ r.hv \in Cluster /\ Grows(h, r.hv, uid)
           /\ r.ok => Exists(r.hv, "VM") /\ Exists(r.hv, "Secret")
           /\ r.ca \in {"stored", "discarded"}
  <1> DEFINE s == Created(h, uid, {"Secret"})
             c == Created(h, uid, {"Secret", "VM"})
             full == [c EXCEPT !.vmRunning = @ \/ ~Exists(h, "VM"),
                               !.vmClass = IF Exists(h, "VM") THEN @ ELSE class]
             ca == IF Exists(h, "Secret") THEN "discarded" ELSE "stored"
  <1>1. /\ c \in Cluster /\ Grows(h, c, uid)
        /\ Exists(c, "VM") /\ Exists(c, "Secret")
        /\ s \in Cluster /\ Grows(h, s, uid)
    BY CreatedGrows DEF Kinds
  <1>2. full \in Cluster /\ full.made = c.made /\ full.operatorNAD = c.operatorNAD
    <2> HIDE DEF c
    <2> QED BY <1>1 DEF Cluster
  <1>3. r \in {[hv |-> full, ok |-> TRUE, ca |-> ca]} \cup
              {[hv |-> x, ok |-> FALSE, ca |-> ca] : x \in {h, s, full}}
    BY DEF CreatePostgresVM
  <1>4. /\ r.hv \in {h, s, full} /\ (r.ok => r.hv = full)
        /\ r.ca \in {"stored", "discarded"}
    BY <1>3
  <1> HIDE DEF full, c, s, ca
  <1> QED
    BY <1>1, <1>2, <1>4 DEF Grows, Exists

(* DeployMonitoring only adds the Service and the ServiceMonitor; when it   *)
(* reports success the ServiceMonitor exists.                               *)
LEMMA DeployMonitoringGrows ==
    ASSUME NEW h \in Cluster, NEW uid \in Nat \ {0}, NEW f \in BOOLEAN,
           NEW r \in DeployMonitoring(h, uid, f)
    PROVE  /\ r.hv \in Cluster /\ Grows(h, r.hv, uid)
           /\ r.ok => Exists(r.hv, "ServiceMonitor")
  <1>1. PICK p \in SUBSET {"Service", "ServiceMonitor"} :
          /\ r.hv = Created(h, uid, p)
          /\ r.ok => "ServiceMonitor" \in p
    BY DEF DeployMonitoring
  <1>2. p \in SUBSET Kinds
    BY DEF Kinds
  <1>3. /\ Created(h, uid, p) \in Cluster /\ Grows(h, Created(h, uid, p), uid)
        /\ \A k \in p : Exists(Created(h, uid, p), k)
    BY <1>2, CreatedGrows
  <1> QED
    BY <1>1, <1>3

(* CreateVpcPeering only adds the peering; when it succeeds it exists.      *)
LEMMA CreateVpcPeeringGrows ==
    ASSUME NEW h \in Cluster, NEW uid \in Nat \ {0}, NEW f \in BOOLEAN,
           NEW r \in CreateVpcPeering(h, uid, f)
    PROVE  /\ r.hv \in Cluster /\ Grows(h, r.hv, uid)
           /\ r.ok => Exists(r.hv, "VpcPeering")
  <1> DEFINE c == Created(h, uid, {"VpcPeering"})
  <1>1. c \in Cluster /\ Grows(h, c, uid) /\ Exists(c, "VpcPeering")
    BY CreatedGrows DEF Kinds
  <1>2. r \in {[hv |-> c, ok |-> TRUE], [hv |-> h, ok |-> FALSE],
               [hv |-> c, ok |-> FALSE]}
    BY DEF CreateVpcPeering
  <1>3. r.hv \in {h, c} /\ (r.ok => r.hv = c)
    BY <1>2
  <1> HIDE DEF c
  <1> QED
    BY <1>1, <1>3 DEF Grows

(* StopVM and StartVM create and delete nothing.                            *)
LEMMA SetVMRunningKeeps ==
    ASSUME NEW h \in Cluster, NEW running \in BOOLEAN, NEW f \in BOOLEAN,
           NEW r \in SetVMRunning(h, running, f)
    PROVE  /\ r.hv \in Cluster
           /\ r.hv.made = h.made /\ r.hv.operatorNAD = h.operatorNAD
  <1>1. PICK o \in UpdateOutcomes(Exists(h, "VM"), f) :
          r = [hv |-> IF o.applied THEN [h EXCEPT !.vmRunning = running] ELSE h,
               ok |-> o.ok]
    BY DEF SetVMRunning
  <1>2. r.hv = IF o.applied THEN [h EXCEPT !.vmRunning = running] ELSE h
    BY <1>1
  <1> QED
    BY <1>2 DEF Cluster

(* A resize creates and deletes nothing.                                    *)
LEMMA ResizeKeeps ==
    ASSUME NEW h \in Cluster, NEW class \in Classes, NEW size \in Sizes,
           NEW f \in BOOLEAN, NEW r \in Resize(h, class, size, f)
    PROVE  /\ r.hv \in Cluster
           /\ r.hv.made = h.made /\ r.hv.operatorNAD = h.operatorNAD
  <1>1. PICK o : r = [hv |-> [h EXCEPT
                                !.vmClass = IF o[1].applied THEN class ELSE @,
                                !.dvSize = IF o[2].applied THEN size ELSE @],
                      ok |-> o[1].ok /\ o[2].ok]
    BY Zenon DEF Resize
  <1>2. r.hv = [h EXCEPT !.vmClass = IF o[1].applied THEN class ELSE @,
                         !.dvSize = IF o[2].applied THEN size ELSE @]
    BY <1>1
  <1> QED
    BY <1>2 DEF Cluster

(* A teardown creates nothing, and it spares the operator's network when    *)
(* the refs do not also name a VPC.                                         *)
LEMMA TeardownShrinks ==
    ASSUME NEW h \in Cluster, NEW refs \in SUBSET RefNames, NEW f \in BOOLEAN,
           NEW g \in TeardownAll(h, refs, f)
    PROVE  /\ g \in Cluster
           /\ \A k \in Kinds : g.made[k] = h.made[k] \/ g.made[k] = 0
           /\ ~("VPC" \in refs /\ "OperatorNAD" \in refs) =>
                g.operatorNAD = h.operatorNAD
  <1>1. PICK failed \in SUBSET TeardownTargets(refs) :
          g = Deleted(h, TeardownTargets(refs) \ failed)
    BY DEF TeardownAll
  <1> DEFINE gone == TeardownTargets(refs) \ failed
  <1>2. ~("VPC" \in refs /\ "OperatorNAD" \in refs) => "OperatorNAD" \notin gone
    BY DEF TeardownTargets
  <1>3. Deleted(h, gone) \in Cluster
    <2> HIDE DEF gone
    <2>1. 0 \in 0..MaxRoutes
      BY BoundsAssumption
    <2> QED BY <2>1 DEF Deleted, Cluster
  <1> HIDE DEF gone
  <1>4. g = Deleted(h, gone)
    BY <1>1 DEF gone
  <1> QED
    BY <1>2, <1>3, <1>4 DEF Deleted, Cluster

(* There are finitely many names a ResourceRefs can hold.                   *)
LEMMA RefNamesFinite == IsFiniteSet(RefNames)
  <1> DEFINE Grow(S, x) == S \cup {x}
             three == Grow(Grow(Grow({}, "VPC"), "Subnet"), "NAD")
             six == Grow(Grow(Grow(three, "DataVolume"), "VM"), "Secret")
             all == Grow(Grow(Grow(six, "ServiceMonitor"), "VpcPeering"),
                         "OperatorNAD")
  <1>1. \A S, x : IsFiniteSet(S) => IsFiniteSet(Grow(S, x))
    BY FS_AddElement
  <1>2. RefNames = all
    BY DEF RefNames, Kinds
  <1>3. IsFiniteSet({})
    BY FS_EmptySet
  <1> HIDE DEF Grow
  <1> QED BY <1>1, <1>2, <1>3, Zenon

(* A teardown none of whose deletions fails leaves nothing of what the refs *)
(* name; a network of ours is among the targets since its VPC is named too. *)
LEMMA TeardownComplete ==
    ASSUME NEW h \in Cluster, NEW refs \in SUBSET RefNames, NEW f \in BOOLEAN,
           NEW g \in TeardownAll(h, refs, f),
           ~f \/ MaxFailedDeletes = 0,
           "NAD" \in refs => "VPC" \in refs
    PROVE  \A k \in refs \cap Kinds : ~Exists(g, k)
  <1>1. PICK failed \in SUBSET TeardownTargets(refs) :
          /\ g = Deleted(h, TeardownTargets(refs) \ failed)
          /\ Cardinality(failed) <= 0
    BY DEF TeardownAll
  <1>2. IsFiniteSet(failed)
    <2>1. failed \subseteq RefNames
      BY DEF TeardownTargets
    <2> QED BY <2>1, RefNamesFinite, FS_Subset
  <1>3. failed = {}
    <2>1. Cardinality(failed) \in Nat
      BY <1>2, FS_CardinalityType
    <2>2. Cardinality(failed) = 0
      BY <1>1, <2>1
    <2> QED BY <1>2, <2>2, FS_EmptySet
  <1>4. g = Deleted(h, TeardownTargets(refs))
    BY <1>1, <1>3
  <1>5. \A k \in refs \cap Kinds : k \in TeardownTargets(refs)
    BY DEF TeardownTargets, Kinds
  <1> QED
    BY <1>4, <1>5 DEF Deleted, Exists

(* GetVMIReadiness yields typed addresses.                                  *)
LEMMA ReadinessType ==
    ASSUME NEW v \in VMI, NEW f \in BOOLEAN, NEW r \in GetVMIReadiness(v, f)
    PROVE  r.ip \in IPs \cup {NoIP} /\ r.mgmt \in MgmtIPs \cup {NoIP}
  <1>1. NoVMI \in VMI
    BY DEF NoVMI, VMI
  <1>2. PICK w \in VMI : r = Readiness(w)
    BY <1>1 DEF GetVMIReadiness
  <1> QED
    BY <1>2 DEF Readiness, VMI, IPs
------------------------------------------------------------------------------
(* A handler that crashes, or whose status write is refused, calls the      *)
(* client again with what it did before.                                    *)

(* Create requests repeat those before them.                                *)
LEMMA CreatedTwice ==
    ASSUME NEW h \in Cluster, NEW uid \in Nat \ {0},
           NEW p \in SUBSET Kinds, NEW q \in SUBSET Kinds
    PROVE  Created(Created(h, uid, p), uid, q) = Created(h, uid, p \cup q)
  <1> DEFINE g == Created(h, uid, p)
             m(kinds) == [k \in Kinds |->
                            IF k \in kinds /\ h.made[k] = 0 THEN uid ELSE h.made[k]]
  <1>1. g \in Cluster /\ g = [h EXCEPT !.made = m(p)]
    BY CreatedGrows DEF Created
  <1>2. \A k \in Kinds : g.made[k] = IF k \in p /\ h.made[k] = 0 THEN uid ELSE h.made[k]
    BY CreatedGrows
  <1> HIDE DEF g
  <1>3. [k \in Kinds |-> IF k \in q /\ g.made[k] = 0 THEN uid ELSE g.made[k]]
          = m(p \cup q)
    BY <1>2
  <1>4. Created(g, uid, q) = [g EXCEPT !.made = m(p \cup q)]
    BY <1>3 DEF Created
  <1>5. Created(h, uid, p \cup q) = [h EXCEPT !.made = m(p \cup q)]
    BY DEF Created
  <1> HIDE DEF m
  <1>6. [g EXCEPT !.made = m(p \cup q)] = [h EXCEPT !.made = m(p \cup q)]
    BY <1>1 DEF Cluster
  <1> QED
    BY <1>4, <1>5, <1>6 DEF g

(* Create requests leave the routes alone.                                  *)
LEMMA CreatedKeepsRoutes ==
    ASSUME NEW h \in Cluster, NEW uid \in Nat \ {0}, NEW q \in SUBSET Kinds,
           NEW n \in 0..MaxRoutes, NEW l \in 0..MaxRoutes
    PROVE  [Created([h EXCEPT !.routes = n], uid, q) EXCEPT !.routes = l]
              = [Created(h, uid, q) EXCEPT !.routes = l]
  <1> DEFINE g == [h EXCEPT !.routes = n]
             m == [k \in Kinds |-> IF k \in q /\ h.made[k] = 0 THEN uid ELSE h.made[k]]
  <1>1. g.made = h.made
    BY DEF Cluster
  <1>2. Created(g, uid, q) = [g EXCEPT !.made = m] /\ Created(h, uid, q) = [h EXCEPT !.made = m]
    <2> HIDE DEF g
    <2> QED BY <1>1 DEF Created
  <1> HIDE DEF m
  <1>3. [[g EXCEPT !.made = m] EXCEPT !.routes = l] = [[h EXCEPT !.made = m] EXCEPT !.routes = l]
    BY DEF Cluster
  <1> HIDE DEF g
  <1>4. [Created(g, uid, q) EXCEPT !.routes = l] = [Created(h, uid, q) EXCEPT !.routes = l]
    BY <1>2, <1>3
  <1> QED
    BY <1>4 DEF g

(* Two clusters that differ in the routes of the VPC at most.               *)
SameButRoutes(g, h) == g = [h EXCEPT !.routes = g.routes]

(* The outcome of a call that succeeds is one and the same, whatever an     *)
(* earlier attempt that was cut short had done; after a success, attempts   *)
(* change nothing any more.  So for the network, but for its routes, of     *)
(* which each attempt adds at most one;                                     *)
LEMMA NetworkRetry ==
    ASSUME NEW h \in Cluster, NEW uid \in Nat \ {0}, NEW f \in BOOLEAN,
           NEW first \in CreateVPCNetwork(h, uid, f),
           NEW again \in CreateVPCNetwork(first.hv, uid, f),
           NEW once \in CreateVPCNetwork(h, uid, f)
    PROVE  /\ again.ok /\ once.ok => SameButRoutes(again.hv, once.hv)
           /\ first.ok => SameButRoutes(again.hv, first.hv)
           /\ again.hv.routes \in {first.hv.routes, first.hv.routes + 1}
  <1> DEFINE all == {"VPC", "NAD", "Subnet"}
             C(p, n) == [Created(h, uid, p) EXCEPT !.routes = n]
  <1>1. \A p \in NetworkPrefixes : p \in SUBSET Kinds /\ p \cup all = all /\ all \cup p = all
    BY DEF Kinds, NetworkPrefixes
  <1>2. PICK p \in NetworkPrefixes, n \in 0..MaxRoutes :
          first.hv = C(p, n) /\ (first.ok => p = all)
    BY CreateVPCNetworkOutcome
  <1>3. first.hv \in Cluster
    BY CreateVPCNetworkGrows
  <1>4. PICK q \in NetworkPrefixes, l \in 0..MaxRoutes :
          /\ again.hv = [Created(first.hv, uid, q) EXCEPT !.routes = l]
          /\ l \in {first.hv.routes, first.hv.routes + 1}
          /\ again.ok => q = all
    BY <1>3, CreateVPCNetworkOutcome
  <1>5. PICK o \in NetworkPrefixes, i \in 0..MaxRoutes :
          once.hv = C(o, i) /\ (once.ok => o = all)
    BY CreateVPCNetworkOutcome
  <1>6. again.hv = C(p \cup q, l)
    <2>1. Created(h, uid, p) \in Cluster
      BY <1>1, CreatedGrows
    <2>2. [Created(C(p, n), uid, q) EXCEPT !.routes = l]
            = [Created(Created(h, uid, p), uid, q) EXCEPT !.routes = l]
      BY <1>1, <2>1, CreatedKeepsRoutes
    <2>3. Created(Created(h, uid, p), uid, q) = Created(h, uid, p \cup q)
      BY <1>1, CreatedTwice
    <2> QED BY <1>2, <1>4, <2>2, <2>3
  <1>7. ASSUME NEW x \in SUBSET Kinds, NEW j \in 0..MaxRoutes, NEW k \in 0..MaxRoutes
        PROVE  C(x, j) = [C(x, k) EXCEPT !.routes = j] /\ C(x, j).routes = j
    <2>1. Created(h, uid, x) \in Cluster
      BY CreatedGrows
    <2> QED BY <2>1 DEF Cluster
  <1>8. /\ q = all => p \cup q = all
        /\ p = all => p \cup q = all
        /\ p \cup q \in SUBSET Kinds /\ all \in SUBSET Kinds
    BY <1>1 DEF Kinds
  <1> HIDE DEF all, C
  <1>9. again.hv.routes = l
    BY <1>6, <1>7, <1>8
  <1>10. ASSUME again.ok, once.ok PROVE SameButRoutes(again.hv, once.hv)
    <2>1. again.hv = C(all, l) /\ once.hv = C(all, i)
      BY <1>4, <1>5, <1>6, <1>8, <1>10
    <2>2. C(all, l) = [C(all, i) EXCEPT !.routes = l]
      BY <1>7, <1>8
    <2> QED BY <1>9, <2>1, <2>2 DEF SameButRoutes
  <1>11. ASSUME first.ok PROVE SameButRoutes(again.hv, first.hv)
    <2>1. again.hv = C(all, l) /\ first.hv = C(all, n)
      BY <1>2, <1>6, <1>8, <1>11
    <2>2. C(all, l) = [C(all, n) EXCEPT !.routes = l]
      BY <1>7, <1>8
    <2> QED BY <1>9, <2>1, <2>2 DEF SameButRoutes
  <1> QED
    BY <1>4, <1>9, <1>10, <1>11

(* and an attempt that succeeds can add one although the last one did, as   *)
(* IMPROVEMENTS.md, "Static route duplication on retry", says;              *)
LEMMA RetryDuplicatesRoute ==
    ASSUME NEW h \in Cluster, NEW uid \in Nat \ {0}, NEW f \in BOOLEAN,
           NEW first \in CreateVPCNetwork(h, uid, f), first.hv.routes < MaxRoutes
    PROVE  \E again \in CreateVPCNetwork(first.hv, uid, f) :
              again.ok /\ again.hv.routes = first.hv.routes + 1
  <1> DEFINE g == first.hv
             full == Created(g, uid, {"VPC", "NAD", "Subnet"})
             again == [hv |-> RouteAppended(full), ok |-> TRUE]
  <1>1. g \in Cluster
    BY CreateVPCNetworkGrows
  <1>2. full \in Cluster /\ full.routes = g.routes
    <2> HIDE DEF g
    <2>1. full \in Cluster
      BY <1>1, CreatedGrows DEF Kinds
    <2>2. full.routes = g.routes
      BY <1>1 DEF Created, Cluster
    <2> QED BY <2>1, <2>2
  <1>3. again \in CreateVPCNetwork(g, uid, f)
    BY DEF CreateVPCNetwork
  <1>4. RouteAppended(full).routes = g.routes + 1
    <2>1. g.routes < MaxRoutes
      OBVIOUS
    <2> HIDE DEF full, g
    <2> QED BY <1>2, <2>1 DEF RouteAppended, Cluster
  <1> QED
    BY <1>3, <1>4

(* for the volume, of the size the first attempt asked for,                 *)
LEMMA VolumeRetry ==
    ASSUME NEW h \in Cluster, NEW uid \in Nat \ {0}, NEW size \in Sizes,
           NEW f \in BOOLEAN,
           NEW first \in CreateDataVolume(h, uid, size, f),
           NEW other \in Sizes,
           NEW again \in CreateDataVolume(first.hv, uid, other, f),
           NEW once \in CreateDataVolume(h, uid, size, f)
    PROVE  /\ again.ok /\ once.ok /\ other = size => again.hv = once.hv
           /\ first.ok => again.hv = first.hv
  <1> DEFINE full(g, z) == [Created(g, uid, {"DataVolume"}) EXCEPT
                              !.dvSize = IF Exists(g, "DataVolume") THEN @ ELSE z]
  <1>1. ASSUME NEW g, NEW z, NEW r \in CreateDataVolume(g, uid, z, f)
        PROVE  r.hv \in {g, full(g, z)} /\ (r.ok => r.hv = full(g, z))
    BY <1>1 DEF CreateDataVolume
  <1>2. ASSUME NEW g \in Cluster, Exists(g, "DataVolume"), NEW z
        PROVE  full(g, z) = g
    <2>1. Created(g, uid, {"DataVolume"}) = g
      <3>1. [k \in Kinds |-> IF k \in {"DataVolume"} /\ g.made[k] = 0
                             THEN uid ELSE g.made[k]] = g.made
        BY <1>2 DEF Exists, Cluster
      <3>2. QED  BY <3>1 DEF Created, Cluster
    <2>2. QED  BY <1>2, <2>1 DEF Cluster
  <1>3. full(h, size) \in Cluster /\ Exists(full(h, size), "DataVolume")
    <2>1. [hv |-> full(h, size), ok |-> TRUE] \in CreateDataVolume(h, uid, size, f)
      BY DEF CreateDataVolume
    <2>2. QED  BY <2>1, CreateDataVolumeGrows
  <1>4. full(full(h, size), other) = full(h, size)
    <2> HIDE DEF full
    <2> QED  BY <1>2, <1>3
  <1>5. /\ first.hv \in {h, full(h, size)} /\ (first.ok => first.hv = full(h, size))
        /\ again.hv \in {first.hv, full(first.hv, other)}
        /\ again.ok => again.hv = full(first.hv, other)
        /\ once.ok => once.hv = full(h, size)
    BY <1>1
  <1> HIDE DEF full
  <1> QED
    BY <1>4, <1>5

(* for Secret and VM: an existing VM is neither started nor resized, and    *)
(* the CA of a repeated call is not the one in the Secret any more,         *)
LEMMA VMRetry ==
    ASSUME NEW h \in Cluster, NEW uid \in Nat \ {0}, NEW class \in Classes,
           NEW f \in BOOLEAN,
           NEW first \in CreatePostgresVM(h, uid, class, f),
           NEW other \in Classes,
           NEW again \in CreatePostgresVM(first.hv, uid, other, f),
           NEW once \in CreatePostgresVM(h, uid, class, f)
    PROVE  /\ again.ok /\ once.ok /\ other = class => again.hv = once.hv
           /\ first.ok => again.hv = first.hv /\ again.ca = "discarded"
  <1> DEFINE sec(g) == Created(g, uid, {"Secret"})
             both(g) == Created(g, uid, {"Secret", "VM"})
             full(g, c) == [both(g) EXCEPT
                              !.vmRunning = @ \/ ~Exists(g, "VM"),
                              !.vmClass = IF Exists(g, "VM") THEN @ ELSE c]
             ca(g) == IF Exists(g, "Secret") THEN "discarded" ELSE "stored"
  <1>1. ASSUME NEW g, NEW c, NEW r \in CreatePostgresVM(g, uid, c, f)
        PROVE  /\ r.hv \in {g, sec(g), full(g, c)} /\ (r.ok => r.hv = full(g, c))
               /\ r.ca = ca(g)
    <2>1. r \in {[hv |-> full(g, c), ok |-> TRUE, ca |-> ca(g)]} \cup
                {[hv |-> x, ok |-> FALSE, ca |-> ca(g)] : x \in {g, sec(g), full(g, c)}}
      BY <1>1 DEF CreatePostgresVM
    <2> HIDE DEF full, sec, ca
    <2>2. QED  BY <2>1
  <1>2. ASSUME NEW g \in Cluster, NEW kinds \in SUBSET Kinds,
               \A k \in kinds : Exists(g, k)
        PROVE  Created(g, uid, kinds) = g
    <2>1. [k \in Kinds |-> IF k \in kinds /\ g.made[k] = 0 THEN uid ELSE g.made[k]]
            = g.made
      BY <1>2 DEF Exists, Cluster
    <2>2. QED  BY <2>1 DEF Created, Cluster
  <1>3. ASSUME NEW g \in Cluster, Exists(g, "VM"), Exists(g, "Secret"), NEW c
        PROVE  sec(g) = g /\ full(g, c) = g /\ ca(g) = "discarded"
    <2>1. sec(g) = g /\ both(g) = g
      BY <1>2, <1>3 DEF Kinds
    <2>2. [g EXCEPT !.vmRunning = @ \/ ~Exists(g, "VM"),
                    !.vmClass = IF Exists(g, "VM") THEN @ ELSE c] = g
      BY <1>3 DEF Cluster
    <2>3. QED  BY <1>3, <2>1, <2>2
  <1>4. /\ full(h, class) \in Cluster
        /\ Exists(full(h, class), "VM") /\ Exists(full(h, class), "Secret")
    <2>1. [hv |-> full(h, class), ok |-> TRUE, ca |-> ca(h)]
            \in CreatePostgresVM(h, uid, class, f)
      BY DEF CreatePostgresVM
    <2> HIDE DEF full, ca
    <2>2. QED  BY <2>1, CreatePostgresVMGrows
  <1>5. full(sec(h), class) = full(h, class)
    <2>1. both(sec(h)) = both(h)
      <3>1. {"Secret"} \in SUBSET Kinds /\ {"Secret", "VM"} \in SUBSET Kinds
            /\ {"Secret"} \cup {"Secret", "VM"} = {"Secret", "VM"}
        BY DEF Kinds
      <3>2. QED  BY <3>1, CreatedTwice
    <2>2. Exists(sec(h), "VM") <=> Exists(h, "VM")
      BY CreatedGrows DEF Exists, Kinds
    <2> HIDE DEF both, sec
    <2>3. QED  BY <2>1, <2>2
  <1>6. /\ first.hv \in {h, sec(h), full(h, class)}
        /\ first.ok => first.hv = full(h, class)
        /\ again.hv \in {first.hv, sec(first.hv), full(first.hv, other)}
        /\ again.ok => again.hv = full(first.hv, other)
        /\ again.ca = ca(first.hv)
        /\ once.ok => once.hv = full(h, class)
    <2> HIDE DEF full, sec, ca
    <2>1. first.hv \in {h, sec(h), full(h, class)}
          /\ (first.ok => first.hv = full(h, class))
      BY <1>1
    <2>2. /\ again.hv \in {first.hv, sec(first.hv), full(first.hv, other)}
          /\ again.ok => again.hv = full(first.hv, other)
          /\ again.ca = ca(first.hv)
      BY <1>1
    <2>3. once.ok => once.hv = full(h, class)
      BY <1>1
    <2>4. QED  BY <2>1, <2>2, <2>3
  <1>7. /\ sec(full(h, class)) = full(h, class)
        /\ full(full(h, class), other) = full(h, class)
        /\ ca(full(h, class)) = "discarded"
    <2> HIDE DEF full, sec, ca
    <2>1. QED  BY <1>3, <1>4
  <1> HIDE DEF full, sec, ca
  <1> QED
    BY <1>5, <1>6, <1>7

(* and for the peering.                                                     *)
LEMMA PeeringRetry ==
    ASSUME NEW h \in Cluster, NEW uid \in Nat \ {0}, NEW f \in BOOLEAN,
           NEW first \in CreateVpcPeering(h, uid, f),
           NEW again \in CreateVpcPeering(first.hv, uid, f),
           NEW once \in CreateVpcPeering(h, uid, f)
    PROVE  /\ again.ok /\ once.ok => again.hv = once.hv
           /\ first.ok => again.hv = first.hv
  <1> DEFINE full(g) == Created(g, uid, {"VpcPeering"})
  <1>1. ASSUME NEW g, NEW r \in CreateVpcPeering(g, uid, f)
        PROVE  r.hv \in {g, full(g)} /\ (r.ok => r.hv = full(g))
    BY <1>1 DEF CreateVpcPeering
  <1>2. full(full(h)) = full(h)
    BY CreatedTwice DEF Kinds
  <1>3. /\ first.hv \in {h, full(h)} /\ (first.ok => first.hv = full(h))
        /\ again.hv \in {first.hv, full(first.hv)}
        /\ again.ok => again.hv = full(first.hv)
        /\ once.ok => once.hv = full(h)
    BY <1>1
  <1> HIDE DEF full
  <1> QED
    BY <1>2, <1>3

(* Monitoring is the exception: DeployMonitoring returns AlreadyExists, so  *)
(* that no attempt succeeds once one has made the ServiceMonitor.           *)
LEMMA MonitoringRetryFails ==
    ASSUME NEW h \in Cluster, NEW uid \in Nat \ {0}, NEW f \in BOOLEAN,
           NEW first \in DeployMonitoring(h, uid, f), Exists(first.hv, "ServiceMonitor"),
           NEW again \in DeployMonitoring(first.hv, uid, f)
    PROVE  ~again.ok
  <1> DEFINE E == Exists(first.hv, "ServiceMonitor")
  <1>1. (\E x : again = [hv |-> x, ok |-> FALSE]) \/ (\E x : again = [hv |-> x, ok |-> ~E])
    BY Zenon DEF DeployMonitoring
  <1>2. (~E) = FALSE
    OBVIOUS
  <1>3. PICK x : again = [hv |-> x, ok |-> FALSE]
    <2> HIDE DEF E
    <2> QED BY <1>1, <1>2, Zenon
  <1> QED
    BY <1>3

(* Every Create call of the client but DeployMonitoring can be repeated: if *)
(* an attempt was cut short anywhere, one that succeeds ends in the cluster *)
(* in which a single call would have ended; and after a success further     *)
(* attempts, failing or not, leave the cluster as it is.  The one exception *)
(* is the VPC's staticRoutes, to which each attempt at the network may add  *)
(* an entry.  Crash recovery by status.provisioningPhase rests on this.     *)
THEOREM RetriesConverge ==
    ASSUME NEW h \in Cluster, NEW uid \in Nat \ {0}, NEW size \in Sizes,
           NEW class \in Classes, NEW f \in BOOLEAN
    PROVE  /\ \A first \in CreateVPCNetwork(h, uid, f) :
              \A again \in CreateVPCNetwork(first.hv, uid, f) :
                 /\ \A once \in CreateVPCNetwork(h, uid, f) :
                       again.ok /\ once.ok => SameButRoutes(again.hv, once.hv)
                 /\ first.ok => SameButRoutes(again.hv, first.hv)
                 /\ again.hv.routes \in {first.hv.routes, first.hv.routes + 1}
           /\ \A first \in CreateDataVolume(h, uid, size, f) :
              \A again \in CreateDataVolume(first.hv, uid, size, f) :
                 /\ \A once \in CreateDataVolume(h, uid, size, f) :
                       again.ok /\ once.ok => again.hv = once.hv
                 /\ first.ok => again.hv = first.hv
           /\ \A first \in CreatePostgresVM(h, uid, class, f) :
              \A again \in CreatePostgresVM(first.hv, uid, class, f) :
                 /\ \A once \in CreatePostgresVM(h, uid, class, f) :
                       again.ok /\ once.ok => again.hv = once.hv
                 /\ first.ok => again.hv = first.hv
           /\ \A first \in CreateVpcPeering(h, uid, f) :
              \A again \in CreateVpcPeering(first.hv, uid, f) :
                 /\ \A once \in CreateVpcPeering(h, uid, f) :
                       again.ok /\ once.ok => again.hv = once.hv
                 /\ first.ok => again.hv = first.hv
<1>1. ASSUME NEW first \in CreateVPCNetwork(h, uid, f),
             NEW again \in CreateVPCNetwork(first.hv, uid, f)
      PROVE  /\ \A once \in CreateVPCNetwork(h, uid, f) :
                   again.ok /\ once.ok => SameButRoutes(again.hv, once.hv)
             /\ first.ok => SameButRoutes(again.hv, first.hv)
             /\ again.hv.routes \in {first.hv.routes, first.hv.routes + 1}
  BY <1>1, NetworkRetry
<1>2. ASSUME NEW first \in CreateDataVolume(h, uid, size, f),
             NEW again \in CreateDataVolume(first.hv, uid, size, f)
      PROVE  /\ \A once \in CreateDataVolume(h, uid, size, f) :
                   again.ok /\ once.ok => again.hv = once.hv
             /\ first.ok => again.hv = first.hv
  BY <1>2, VolumeRetry
<1>3. ASSUME NEW first \in CreatePostgresVM(h, uid, class, f),
             NEW again \in CreatePostgresVM(first.hv, uid, class, f)
      PROVE  /\ \A once \in CreatePostgresVM(h, uid, class, f) :
                   again.ok /\ once.ok => again.hv = once.hv
             /\ first.ok => again.hv = first.hv
  BY <1>3, VMRetry
<1>4. ASSUME NEW first \in CreateVpcPeering(h, uid, f),
             NEW again \in CreateVpcPeering(first.hv, uid, f)
      PROVE  /\ \A once \in CreateVpcPeering(h, uid, f) :
                   again.ok /\ once.ok => again.hv = once.hv
             /\ first.ok => again.hv = first.hv
  BY <1>4, PeeringRetry
<1>5. QED  BY <1>1, <1>2, <1>3, <1>4
==============================================================================
