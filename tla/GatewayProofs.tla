---------------------------- MODULE GatewayProofs ----------------------------
(***************************************************************************)
(* Theorems about the gateway.                                             *)
(***************************************************************************)
EXTENDS GatewayInvariant, TLAPS

(* Routing always ends at a handler or at a refusal; a health check at the *)
(* latter.                                                                 *)
LEMMA RouteType ==
    ASSUME NEW method, NEW path
    PROVE  /\ Route(method, path) \in DOMAIN Allowed \cup DOMAIN Refusal
           /\ path = <<"healthz">> => Route(method, path) \in DOMAIN Refusal
<1>1. {"list", "create", "get", "delete", "start", "stop", "healthz", "notFound",
       "notAllowed"} \subseteq DOMAIN Allowed \cup DOMAIN Refusal
  BY DEF Allowed, Refusal
<1>2. {"healthz", "notAllowed"} \subseteq DOMAIN Refusal
  BY DEF Refusal
<1>3. \A parts : handleInstanceRoute(method, parts) \in
        {"get", "delete", "start", "stop", "notFound", "notAllowed"}
  BY DEF handleInstanceRoute
<1>4. CASE path = <<"healthz">>
  <2>1. path # <<"dbinstances">> /\ ~(Len(path) > 1)  BY <1>4
  <2>2. Route(method, path) \in {"healthz", "notAllowed"}  BY <1>4, <2>1 DEF Route
  <2>3. QED  BY <1>1, <1>2, <2>2
<1>5. CASE path # <<"healthz">>
  <2>1. CASE path = <<"dbinstances">>
    <3>1. ~(Len(path) > 1)  BY <2>1
    <3>2. Route(method, path) \in {"list", "create", "notAllowed"}
      BY <1>5, <2>1, <3>1 DEF Route
    <3>3. QED  BY <1>1, <1>5, <3>2
  <2>2. CASE path # <<"dbinstances">>
    <3>1. Route(method, path) \in
            {"get", "delete", "start", "stop", "notFound", "notAllowed"}
      BY <1>3, <1>5, <2>2 DEF Route
    <3>2. QED  BY <1>1, <1>5, <3>1
  <2>3. QED  BY <2>1, <2>2
<1>6. QED  BY <1>4, <1>5

(* Only roles get into the key map.                                        *)
LEMMA ValidKeysType ==
    ASSUME NEW s
    PROVE  ValidKeys(s) \in KeyMaps
BY DEF ValidKeys, KeyMaps

LEMMA NoRequestType == NoRequest \in Request /\ Sound(NoRequest)
BY DEF NoRequest, Request, PCs, Allowed, Refusal, Bodies, KeyMaps, Objects, Sound, Loaded,
   Authentic, Findable, Told

(* An answered request is sound unless it is a rejection without cause, or *)
(* a write that is reported as refused.                                    *)
LEMMA ReturnedSound ==
    ASSUME NEW q \in Request, NEW status \in Answers,
           status = 401 /\ q.steady => q.undercut
    PROVE  /\ Returned(q, status) \in Request
           /\ Returned(q, status).pc = "done"
           /\ Returned(q, status).answer = status /\ status # 0
           /\ Sound(Returned(q, status))
<1> DEFINE a == Returned(q, status)
           steady == q.steady /\ status = 401
           undercut == q.undercut /\ status = 401
<1>0. q.steady \in BOOLEAN /\ q.undercut \in BOOLEAN  BY DEF Request
<1>1. steady \in BOOLEAN /\ undercut \in BOOLEAN /\ (steady => undercut)  BY <1>0
<1>2. a = [NoRequest EXCEPT !.pc = "done", !.answer = status,
                           !.steady = steady, !.undercut = undercut]
  BY DEF Returned
<1>3. "done" \in PCs /\ status \in Answers \cup {0}  BY DEF PCs
<1>4. ~NoRequest.wrote  BY DEF NoRequest
<1> HIDE DEF steady, undercut, a
<1>5. a \in Request
  BY <1>1, <1>2, <1>3, NoRequestType DEF Request
<1>6. /\ a.pc = "done" /\ a.answer = status /\ ~a.wrote
      /\ a.steady = steady /\ a.undercut = undercut
  BY <1>2, <1>4, NoRequestType DEF Request
<1>7. Loaded(a) /\ Authentic(a) /\ Told(a) /\ Findable(a)
  BY <1>1, <1>6 DEF Loaded, Authentic, Told, Findable
<1>8. status # 0  BY DEF Answers
<1>9. QED  BY <1>5, <1>6, <1>7, <1>8 DEF Sound, a

(* One request moves on and nothing is done to the keys.                   *)
LEMMA RequestStep ==
    ASSUME GInv, NEW r \in Requests, NEW q \in Request, Sound(q),
           q.pc = "done" <=> q.answer # 0,
           req' = [req EXCEPT ![r] = q],
           UNCHANGED <<auth, secret, cachedSecret, keyEdits, edits, versions>>,
           ClusterOK', faults' \in 0..MaxFaults
    PROVE  GInv'
<1>1. RequestsOK'
  BY DEF GInv, TypeOK, RequestsOK
<1>2. AuthOK' /\ HistoryOK' /\ Versions' /\ Tenanted'
  BY DEF GInv, TypeOK, AuthOK, HistoryOK, Versions, Tenanted, auth
<1>3. ASSUME NEW p \in Requests PROVE Sound(req[p])'
  <2>1. req'[p] = IF p = r THEN q ELSE req[p]
    BY DEF GInv, TypeOK, RequestsOK
  <2>2. Sound(req'[p])
    BY <2>1 DEF GInv
  <2>3. QED  BY <2>2 DEF Sound, Loaded, Authentic, Findable, Told, auth
<1>4. QED  BY <1>1, <1>2, <1>3 DEF GInv, TypeOK

(* A request that is open is of its type and sound.                        *)
LEMMA OpenRequest ==
    ASSUME GInv, NEW r \in Requests
    PROVE  /\ req[r] \in Request /\ Sound(req[r])
           /\ req[r].pc = "done" <=> req[r].answer # 0
BY DEF GInv, TypeOK, RequestsOK

------------------------------------------------------------------------------
LEMMA InitInvariant == Init => GInv
<1> SUFFICES ASSUME Init PROVE GInv  OBVIOUS
<1>1. AuthOK /\ HistoryOK
  BY BoundsAssumption, ValidKeysType DEF Init, AuthOK, HistoryOK, KeyMaps
<1>2. RequestsOK
  BY NoRequestType DEF Init, RequestsOK, NoRequest
<1>3. ClusterOK
  BY SecretAssumption DEF Init, ClusterOK, Objects
<1>4. Versions /\ Tenanted
  BY DEF Init, Versions, Tenanted
<1>5. \A r \in Requests : Sound(req[r])
  BY NoRequestType DEF Init
<1>6. QED  BY <1>1, <1>2, <1>3, <1>4, <1>5 DEF GInv, TypeOK

LEMMA RunGatewayKeeps == GInv /\ RunGateway => GInv'
<1> SUFFICES ASSUME GInv, RunGateway PROVE GInv'  OBVIOUS
<1>1. TypeOK'
  BY ValidKeysType DEF GInv, TypeOK, AuthOK, RequestsOK, ClusterOK, HistoryOK, RunGateway,
     cluster
<1>2. Versions' /\ Tenanted'
  BY DEF GInv, Versions, Tenanted, RunGateway, cluster
<1>3. ASSUME NEW r \in Requests PROVE Sound(req[r])'
  <2>1. Loaded(req[r])' /\ Authentic(req[r])' /\ Told(req[r])'
    BY DEF GInv, Sound, Loaded, Authentic, Told, RunGateway, cluster
  <2>2. Findable(req[r])'
    <3>1. Findable(req[r])  BY DEF GInv, Sound
    <3>2. keys' = keys \/ keys' = ValidKeys(cachedSecret)  BY DEF RunGateway
    <3>3. req' = req /\ cachedSecret' = cachedSecret  BY DEF RunGateway, cluster
    <3>4. QED  BY <3>1, <3>2, <3>3 DEF Findable
  <2>3. QED  BY <2>1, <2>2 DEF Sound
<1>4. QED  BY <1>1, <1>2, <1>3 DEF GInv

LEMMA ArriveKeeps ==
    ASSUME GInv, NEW r \in Requests, NEW in \in Inputs,
           NEW token \in Keys \cup {NoHeader, NoBearer}, Arrive(r, in, token)
    PROVE  GInv'
<1> DEFINE op == Route(in.method, in.path)
           steady == token \in Keys /\ ValidKeys(cachedSecret)[token] # Empty
           q == [NoRequest EXCEPT !.op = op, !.body = in.body, !.token = token,
                                  !.steady = steady]
           n == IF in.path = <<"healthz">> THEN Returned(q, Refusal[q.op])
                ELSE IF token \notin Keys THEN Returned(q, 401)
                ELSE [q EXCEPT !.pc = "lookup"]
<1>1. op \in DOMAIN Allowed \cup DOMAIN Refusal
      /\ (in.path = <<"healthz">> => op \in DOMAIN Refusal)
  BY RouteType
<1>2. steady \in BOOLEAN /\ (token \notin Keys => ~steady)
  OBVIOUS
<1>3. req' = [req EXCEPT ![r] = n]
  BY DEF Arrive
<1>4. in.body \in Bodies  BY DEF Bodies
<1> HIDE DEF op, steady
<1>5. /\ q \in Request /\ q.op = op /\ q.steady = steady /\ q.token = token
      /\ q.answer = 0 /\ ~q.wrote
  BY <1>1, <1>2, <1>4, NoRequestType DEF Request, NoRequest
<1>6. n \in Request /\ Sound(n) /\ (n.pc = "done" <=> n.answer # 0)
  <2>1. CASE in.path = <<"healthz">>
    <3>1. Refusal[q.op] \in Answers \ {401}
      BY <1>1, <1>5, <2>1 DEF Refusal, Answers
    <3>2. n = Returned(q, Refusal[q.op])  BY <2>1
    <3> HIDE DEF n, q
    <3>3. QED  BY <1>5, <3>1, <3>2, ReturnedSound
  <2>2. CASE in.path # <<"healthz">> /\ token \notin Keys
    <3>1. n = Returned(q, 401) /\ ~q.steady  BY <1>2, <1>5, <2>2
    <3>2. 401 \in Answers  BY DEF Answers
    <3> HIDE DEF n, q
    <3>3. QED  BY <1>5, <3>1, <3>2, ReturnedSound
  <2>3. CASE in.path # <<"healthz">> /\ token \in Keys
    <3>1. n = [q EXCEPT !.pc = "lookup"] /\ "lookup" \in PCs  BY <2>3 DEF PCs
    <3> HIDE DEF q
    <3>2. n \in Request /\ n.pc = "lookup" /\ n.token = token /\ n.steady = steady
          /\ n.answer = 0 /\ ~n.wrote
      BY <1>5, <3>1 DEF Request
    <3>3. steady => ValidKeys(cachedSecret)[token] # Empty  BY DEF steady
    <3> HIDE DEF n
    <3>4. Sound(n)
      BY <2>3, <3>2, <3>3 DEF Sound, Loaded, Authentic, Findable, Told
    <3>5. QED  BY <3>2, <3>4
  <2>4. QED  BY <2>1, <2>2, <2>3
<1> HIDE DEF n
<1>7. ClusterOK' /\ faults' \in 0..MaxFaults
  BY DEF GInv, TypeOK, ClusterOK, HistoryOK, Arrive, cluster
<1>8. QED
  BY <1>3, <1>6, <1>7, RequestStep DEF Arrive, cluster

------------------------------------------------------------------------------
(* The look-up of a key.                                                   *)
LEMMA FoundKeeps ==
    ASSUME GInv, NEW r \in Requests, req[r].pc \in {"lookup", "recheck"},
           Role(r) # Empty, Found(r),
           UNCHANGED <<auth, cluster, keyEdits, edits, faults, versions>>
    PROVE  GInv'
<1> DEFINE q == [req[r] EXCEPT !.pc = "handle", !.role = Role(r)]
<1>0. req[r] \in Request /\ Sound(req[r]) /\ (req[r].pc = "done" <=> req[r].answer # 0)
  BY OpenRequest
<1>1. req[r].token \in Keys  BY <1>0 DEF Sound, Authentic
<1>2. keys \in KeyMaps /\ keys \in versions \cup {[k \in Keys |-> Empty]}
  BY DEF GInv, TypeOK, AuthOK, Versions
<1>3. Role(r) \in Roles /\ keys \in versions  BY <1>1, <1>2 DEF KeyMaps, Role
<1>4. /\ q \in Request /\ q.pc = "handle" /\ q.role = Role(r) /\ q.token = req[r].token
      /\ q.answer = req[r].answer /\ q.wrote = req[r].wrote /\ q.steady = req[r].steady
      /\ q.undercut = req[r].undercut
  BY <1>0, <1>3 DEF Request, PCs
<1>5. req' = [req EXCEPT ![r] = q]  BY DEF Found
<1> HIDE DEF q
<1>6. Sound(q)
  <2>1. Loaded(q) /\ Told(q)  BY <1>0, <1>4 DEF Sound, Loaded, Told
  <2>2. Authentic(q)  BY <1>1, <1>3, <1>4 DEF Authentic, Role
  <2>3. Findable(q)  BY <1>0, <1>4 DEF Findable, Sound
  <2>4. QED  BY <2>1, <2>2, <2>3 DEF Sound
<1>7. ClusterOK' /\ faults' \in 0..MaxFaults
  BY DEF GInv, TypeOK, ClusterOK, HistoryOK, cluster
<1>8. q.pc = "done" <=> q.answer # 0  BY <1>0, <1>4
<1>9. QED
  BY <1>4, <1>5, <1>6, <1>7, <1>8, RequestStep DEF cluster

LEMMA lookupKeeps ==
    ASSUME GInv, NEW r \in Requests, lookup(r)
    PROVE  GInv'
<1>1. CASE Role(r) # Empty
  BY <1>1, FoundKeeps DEF lookup
<1>2. CASE Role(r) = Empty
  <2> DEFINE q == [req[r] EXCEPT !.pc = "load"]
  <2>0. req[r] \in Request /\ Sound(req[r]) /\ req[r].pc = "lookup" /\ req[r].answer = 0
    BY OpenRequest DEF lookup
  <2>1. /\ q \in Request /\ q.pc = "load" /\ q.token = req[r].token /\ q.answer = 0
        /\ q.wrote = req[r].wrote /\ q.steady = req[r].steady
    BY <2>0 DEF Request, PCs
  <2>2. req' = [req EXCEPT ![r] = q]  BY <1>2 DEF lookup, Goto
  <2> HIDE DEF q
  <2>3. Sound(q)
    BY <2>0, <2>1 DEF Sound, Loaded, Authentic, Findable, Told
  <2>4. ClusterOK' /\ faults' \in 0..MaxFaults
    BY DEF GInv, TypeOK, ClusterOK, HistoryOK, lookup, cluster
  <2>5. QED  BY <2>1, <2>2, <2>3, <2>4, RequestStep DEF lookup, cluster
<1>3. QED  BY <1>1, <1>2

LEMMA loadKeysKeeps ==
    ASSUME GInv, NEW r \in Requests, loadKeys(r)
    PROVE  GInv'
<1> DEFINE label == IF cachedSecret = NoSecret THEN "recheck" ELSE "store"
           map == ValidKeys(cachedSecret)
           q == [req[r] EXCEPT !.pc = label, !.loaded = map]
<1>0. req[r] \in Request /\ Sound(req[r]) /\ req[r].pc = "load" /\ req[r].answer = 0
  BY OpenRequest DEF loadKeys
<1>1. map \in KeyMaps /\ map \in versions
  BY ValidKeysType DEF GInv, Versions
<1>2. label \in {"recheck", "store"}
      /\ (label = "recheck" => map[req[r].token] = Empty)
  <2>1. req[r].token \in Keys  BY <1>0 DEF Sound, Authentic
  <2>2. QED  BY <2>1 DEF ValidKeys
<1>3. req' = [req EXCEPT ![r] = q]  BY DEF loadKeys
<1>4. req[r].steady => map[req[r].token] # Empty
  BY <1>0 DEF Sound, Findable
<1> HIDE DEF label, map
<1>5. /\ q \in Request /\ q.pc = label /\ q.loaded = map /\ q.token = req[r].token
      /\ q.answer = 0 /\ q.wrote = req[r].wrote /\ q.steady = req[r].steady
  BY <1>0, <1>1, <1>2 DEF Request, PCs
<1> HIDE DEF q
<1>6. Sound(q)
  <2>1. Loaded(q) /\ Authentic(q) /\ Told(q)
    BY <1>0, <1>1, <1>2, <1>5 DEF Sound, Loaded, Authentic, Told
  <2>2. Findable(q)  BY <1>2, <1>4, <1>5 DEF Findable, map
  <2>3. QED  BY <2>1, <2>2 DEF Sound
<1>7. ClusterOK' /\ faults' \in 0..MaxFaults
  BY DEF GInv, TypeOK, ClusterOK, HistoryOK, loadKeys, cluster
<1>8. QED  BY <1>2, <1>3, <1>5, <1>6, <1>7, RequestStep DEF loadKeys, cluster

(* Another request's keys are replaced under the look-ups of the others:   *)
(* those who lose their key by it are marked as undercut.                  *)
LEMMA storeKeysKeeps ==
    ASSUME GInv, NEW r \in Requests, storeKeys(r)
    PROVE  GInv'
<1>0. /\ req[r] \in Request /\ Sound(req[r]) /\ req[r].pc = "store" /\ req[r].answer = 0
      /\ req[r].loaded \in versions /\ req[r].loaded \in KeyMaps
  BY OpenRequest DEF storeKeys, Sound, Loaded, Request
<1>1. AuthOK' /\ ClusterOK' /\ HistoryOK' /\ Versions' /\ Tenanted'
  BY <1>0 DEF GInv, TypeOK, AuthOK, ClusterOK, HistoryOK, Versions, Tenanted, storeKeys,
     cluster
<1>2. ASSUME NEW p \in Requests
      PROVE  req'[p] \in Request /\ Sound(req[p])'
             /\ (req'[p].pc = "done" <=> req'[p].answer # 0)
  <2>0. req[p] \in Request /\ Sound(req[p]) /\ (req[p].pc = "done" <=> req[p].answer # 0)
    BY OpenRequest
  <2>1. CASE p = r
    <3>1. req'[p] = [req[r] EXCEPT !.pc = "recheck", !.loaded = NoRequest.loaded]
      BY <2>1 DEF storeKeys, Stored
    <3>2. NoRequest.loaded \in KeyMaps  BY DEF NoRequest, KeyMaps
    <3>3. /\ req'[p] \in Request /\ req'[p].pc = "recheck" /\ req'[p].answer = 0
          /\ req'[p].token = req[r].token /\ req'[p].steady = req[r].steady
          /\ req'[p].undercut = req[r].undercut /\ req'[p].wrote = req[r].wrote
      BY <1>0, <3>1, <3>2 DEF Request, PCs
    <3>4. Loaded(req[p])' /\ Authentic(req[p])' /\ Told(req[p])'
      BY <1>0, <3>3 DEF Loaded, Authentic, Told, Sound
    <3>5. Findable(req[p])'
      <4>1. keys' = req[r].loaded /\ cachedSecret' = cachedSecret
        BY DEF storeKeys, cluster
      <4>2. QED  BY <1>0, <3>3, <4>1 DEF Findable, Sound
    <3>6. QED  BY <3>3, <3>4, <3>5 DEF Sound
  <2>2. CASE p # r
    <3> DEFINE cut == req[p].undercut \/
                 (req[p].pc \in {"lookup", "load", "store", "recheck"} /\
                  req[r].loaded[req[p].token] = Empty)
    <3>1. req'[p] = [req[p] EXCEPT !.undercut = cut]
      BY <2>2 DEF storeKeys, Stored
    <3>2. cut \in BOOLEAN  BY <2>0 DEF Request
    <3>3. (req[p].undercut => cut)
          /\ (req[p].pc = "recheck" /\ ~cut => req[r].loaded[req[p].token] # Empty)
      OBVIOUS
    <3> HIDE DEF cut
    <3>4. /\ req'[p] \in Request /\ req'[p].pc = req[p].pc /\ req'[p].answer = req[p].answer
          /\ req'[p].token = req[p].token /\ req'[p].steady = req[p].steady
          /\ req'[p].undercut = cut /\ req'[p].wrote = req[p].wrote
          /\ req'[p].loaded = req[p].loaded /\ req'[p].role = req[p].role
          /\ req'[p].op = req[p].op /\ req'[p].copy = req[p].copy
      BY <2>0, <3>1, <3>2 DEF Request
    <3>5. versions' = versions /\ keys' = req[r].loaded /\ cachedSecret' = cachedSecret
      BY DEF storeKeys, cluster
    <3>6. Loaded(req[p])' /\ Told(req[p])'
      BY <2>0, <3>4, <3>5 DEF Loaded, Told, Sound
    <3>7. Authentic(req[p])'
      BY <2>0, <3>4, <3>5 DEF Authentic, Sound
    <3>8. Findable(req[p])'
      BY <2>0, <3>3, <3>4, <3>5 DEF Findable, Sound
    <3>9. QED  BY <2>0, <3>4, <3>6, <3>7, <3>8 DEF Sound
  <2>3. QED  BY <2>1, <2>2
<1>3. RequestsOK'
  <2>1. req' = [q \in Requests |-> req'[q]]  BY DEF storeKeys, Stored
  <2>2. QED  BY <1>2, <2>1 DEF RequestsOK
<1>4. QED  BY <1>1, <1>2, <1>3 DEF GInv, TypeOK

LEMMA recheckKeeps ==
    ASSUME GInv, NEW r \in Requests, recheck(r)
    PROVE  GInv'
<1>1. CASE Role(r) # Empty
  BY <1>1, FoundKeeps DEF recheck
<1>2. CASE Role(r) = Empty
  <2> DEFINE q == Returned(req[r], 401)
  <2>0. req[r] \in Request /\ Sound(req[r]) /\ req[r].pc = "recheck"
    BY OpenRequest DEF recheck
  <2>1. req[r].steady => req[r].undercut
    BY <1>2, <2>0 DEF Sound, Findable, Role
  <2>2. 401 \in Answers  BY DEF Answers
  <2>3. q \in Request /\ q.pc = "done" /\ q.answer # 0 /\ Sound(q)
    BY <2>0, <2>1, <2>2, ReturnedSound
  <2>4. req' = [req EXCEPT ![r] = q]  BY <1>2 DEF recheck, Answer
  <2> HIDE DEF q
  <2>5. ClusterOK' /\ faults' \in 0..MaxFaults
    BY DEF GInv, TypeOK, ClusterOK, HistoryOK, recheck, cluster
  <2>6. QED  BY <2>3, <2>4, <2>5, RequestStep DEF recheck, cluster
<1>3. QED  BY <1>1, <1>2

------------------------------------------------------------------------------
(* The handlers.                                                           *)
LEMMA AnswerKeeps ==
    ASSUME GInv, NEW r \in Requests, NEW status \in Answers \ {401}, Answer(r, status),
           Fault \/ NoFault, ClusterOK', UnchangedElsewhere
    PROVE  GInv'
<1> DEFINE q == Returned(req[r], status)
<1>1. req[r] \in Request  BY OpenRequest
<1>2. q \in Request /\ q.pc = "done" /\ q.answer # 0 /\ Sound(q)
  BY <1>1, ReturnedSound
<1>3. req' = [req EXCEPT ![r] = q]  BY DEF Answer
<1>4. faults' \in 0..MaxFaults
  BY BoundsAssumption DEF Fault, NoFault, GInv, TypeOK, HistoryOK
<1> HIDE DEF q
<1>5. QED  BY <1>2, <1>3, <1>4, RequestStep DEF UnchangedElsewhere

LEMMA WroteKeeps ==
    ASSUME GInv, NEW r \in Requests, NEW status \in {202, 500}, Wrote(r, status),
           Fault \/ NoFault, ClusterOK', UnchangedElsewhere
    PROVE  GInv'
<1> DEFINE q == Returned(req[r], status)
           yes == TRUE
           w == [q EXCEPT !.wrote = yes]
<1>1. req[r] \in Request /\ status \in Answers \ {401}  BY OpenRequest DEF Answers
<1>2. q \in Request /\ q.pc = "done" /\ q.answer = status /\ status # 0 /\ Sound(q)
  BY <1>1, ReturnedSound
<1>3. req' = [req EXCEPT ![r] = w] /\ yes \in BOOLEAN  BY DEF Wrote
<1> HIDE DEF q, yes
<1>4. w \in Request  BY <1>2, <1>3 DEF Request
<1>5. /\ w.pc = "done" /\ w.answer = status
      /\ w.steady = q.steady /\ w.undercut = q.undercut
  BY <1>2 DEF Request
<1> HIDE DEF w
<1>6. Sound(w) /\ w.answer # 0
  BY <1>2, <1>5 DEF Sound, Loaded, Authentic, Findable, Told
<1>7. faults' \in 0..MaxFaults
  BY BoundsAssumption DEF Fault, NoFault, GInv, TypeOK, HistoryOK
<1>8. QED  BY <1>3, <1>4, <1>5, <1>6, <1>7, RequestStep DEF UnchangedElsewhere

LEMMA ReplyKeeps ==
    ASSUME GInv, NEW r \in Requests, UnchangedElsewhere,
           Failed(r) \/ \E status \in Answers \ {401} : Reply(r, status)
    PROVE  GInv'
<1>1. ClusterOK'
  BY DEF GInv, TypeOK, ClusterOK, UnchangedElsewhere, Failed, Reply, UnchangedObjs
<1>2. \E status \in Answers \ {401} : Answer(r, status)
  <2>1. 500 \in Answers \ {401}  BY DEF Answers
  <2>2. QED  BY <2>1 DEF Failed, Reply
<1>3. QED  BY <1>1, <1>2, AnswerKeeps DEF Failed, Reply

LEMMA WriteKeeps ==
    ASSUME GInv, NEW r \in Requests, NEW ns \in Namespaces, NEW o \in Objects,
           Write(r, ns, o), UnchangedElsewhere
    PROVE  GInv'
<1>1. rev \in Nat /\ objs \in [Namespaces -> Objects]
  BY DEF GInv, TypeOK, ClusterOK
<1>2. (IF o = NoObject THEN o ELSE [o EXCEPT !.version = rev + 1]) \in Objects
  BY <1>1 DEF Objects, DBInstance
<1>3. objs' \in [Namespaces -> Objects] /\ rev' \in Nat
  BY <1>1, <1>2 DEF Write
<1>4. ClusterOK'
  BY <1>3 DEF GInv, TypeOK, ClusterOK, UnchangedElsewhere
<1>5. \/ Wrote(r, 202) /\ NoFault
      \/ Wrote(r, 500) /\ Fault
  BY DEF Write
<1>6. QED  BY <1>4, <1>5, WroteKeeps

LEMMA handleKeeps ==
    ASSUME GInv, NEW r \in Requests, handle(r)
    PROVE  GInv'
<1>a. {200, 202, 400, 403, 404, 405, 409, 500} \subseteq Answers \ {401}
  BY DEF Answers
<1>b. /\ defaultNamespace \in Namespaces /\ objs \in [Namespaces -> Objects]
      /\ cachedObj \in Objects
  BY DefaultAssumption DEF GInv, TypeOK, ClusterOK
<1>c. req[r] \in Request /\ Sound(req[r]) /\ (req[r].pc = "done" <=> req[r].answer # 0)
  BY OpenRequest
<1>1. CASE Forbidden(r)
  BY <1>a, <1>1, ReplyKeeps DEF Forbidden
<1>2. CASE Unrouted(r)
  <2>1. \A op \in DOMAIN Refusal : Refusal[op] \in {200, 404, 405}  BY DEF Refusal
  <2>2. QED  BY <1>a, <1>2, <2>1, ReplyKeeps DEF Unrouted
<1>3. CASE handleListInstances(r)
  BY <1>a, <1>3, ReplyKeeps DEF handleListInstances
<1>4. CASE handleGetInstance(r)
  BY <1>a, <1>4, ReplyKeeps DEF handleGetInstance
<1>5. CASE handleCreateInstance(r)
  <2> DEFINE ns == IF req[r].body = Empty THEN defaultNamespace ELSE req[r].body
             new == [running |-> "nil", other |-> 0, deleting |-> FALSE, version |-> 0]
  <2>1. new \in Objects  BY BoundsAssumption DEF Objects, DBInstance
  <2>2. CASE req[r].body \in {"invalid", "unnamed"}
    BY <1>a, <1>5, <2>2, ReplyKeeps DEF handleCreateInstance
  <2>3. CASE req[r].body \notin {"invalid", "unnamed"}
    <3>1. req[r].body \in Bodies  BY <1>c DEF Request
    <3>2. ns \in Namespaces
      BY <1>b, <2>3, <3>1, BodiesAssumption DEF Bodies
    <3>3. UnchangedElsewhere /\ (Reply(r, 409) \/ Write(r, ns, new) \/ Failed(r))
      BY <1>5, <2>3 DEF handleCreateInstance
    <3> HIDE DEF ns, new
    <3>4. QED  BY <1>a, <2>1, <3>2, <3>3, ReplyKeeps, WriteKeeps
  <2>4. QED  BY <2>2, <2>3
<1>6. CASE handleDeleteInstance(r)
  <2> DEFINE ns == defaultNamespace
             new == [objs[ns] EXCEPT !.deleting = TRUE]
  <2>1. \/ Reply(r, 404) \/ Reply(r, 202) \/ Failed(r)
        \/ objs[ns] # NoObject /\ Write(r, ns, new)
        \/ Write(r, ns, NoObject)
    BY <1>6 DEF handleDeleteInstance, DeleteObject
  <2>2. UnchangedElsewhere  BY <1>6 DEF handleDeleteInstance
  <2>3. NoObject \in Objects /\ (objs[ns] # NoObject => new \in Objects)
    BY <1>b DEF Objects, DBInstance
  <2> HIDE DEF new
  <2>4. QED  BY <1>a, <1>b, <2>1, <2>2, <2>3, ReplyKeeps, WriteKeeps
<1>7. CASE handleSetRunning(r)
  <2>1. CASE cachedObj = NoObject
    BY <1>a, <1>7, <2>1, ReplyKeeps DEF handleSetRunning
  <2>2. CASE cachedObj # NoObject
    <3> DEFINE q == [req[r] EXCEPT !.pc = "update", !.copy = cachedObj]
    <3>0. cachedObj \in DBInstance  BY <1>b, <2>2 DEF Objects
    <3>1. /\ req[r].pc = "handle" /\ req[r].op \in {"start", "stop"}
          /\ req[r].role \in {"admin", "operator"}
      BY <1>7 DEF handleSetRunning, Handling, RequireRole, SetRunning, Allowed
    <3>2. /\ q \in Request /\ q.pc = "update" /\ q.copy = cachedObj
          /\ q.token = req[r].token /\ q.role = req[r].role /\ q.op = req[r].op
          /\ q.answer = req[r].answer /\ q.wrote = req[r].wrote
          /\ q.steady = req[r].steady /\ q.undercut = req[r].undercut
      BY <1>b, <1>c DEF Request, PCs
    <3>3. req' = [req EXCEPT ![r] = q]
      BY <1>7, <2>2 DEF handleSetRunning
    <3> HIDE DEF q
    <3>4. Loaded(q) /\ Authentic(q) /\ Told(q)
      BY <1>c, <3>0, <3>1, <3>2 DEF Sound, Loaded, Authentic, Told
    <3>5. Findable(q)
      BY <1>c, <3>1, <3>2 DEF Sound, Findable
    <3>6. ClusterOK' /\ faults' \in 0..MaxFaults
      BY <1>7, <2>2 DEF handleSetRunning, GInv, TypeOK, ClusterOK, HistoryOK, UnchangedObjs,
         UnchangedElsewhere, NoFault
    <3>7. UnchangedElsewhere  BY <1>7 DEF handleSetRunning
    <3>8. Sound(q) /\ (q.pc = "done" <=> q.answer # 0)
      BY <1>c, <3>1, <3>2, <3>4, <3>5 DEF Sound
    <3>9. QED  BY <3>2, <3>3, <3>6, <3>7, <3>8, RequestStep DEF UnchangedElsewhere
  <2>3. QED  BY <2>1, <2>2
<1>8. CASE update(r)
  <2> DEFINE new == [req[r].copy EXCEPT !.running = SetRunning[req[r].op]]
  <2>1. req[r].copy \in DBInstance /\ req[r].op \in {"start", "stop"}
    BY <1>c, <1>8 DEF update, Sound, Authentic
  <2>2. new \in Objects
    <3>1. SetRunning[req[r].op] \in {"true", "false"}  BY <2>1 DEF SetRunning
    <3>2. QED  BY <2>1, <3>1 DEF Objects, DBInstance
  <2>3. /\ UnchangedElsewhere
        /\ Reply(r, 500) \/ Reply(r, 202) \/ Failed(r) \/ Write(r, defaultNamespace, new)
    BY <1>8 DEF update
  <2> HIDE DEF new
  <2>4. QED  BY <1>a, <1>b, <2>2, <2>3, ReplyKeeps, WriteKeeps
<1>9. QED
  BY <1>1, <1>2, <1>3, <1>4, <1>5, <1>6, <1>7, <1>8 DEF handle

LEMMA ServeKeeps ==
    ASSUME GInv, NEW r \in Requests, Serve(r)
    PROVE  GInv'
BY lookupKeeps, loadKeysKeeps, storeKeysKeeps, recheckKeeps, handleKeeps DEF Serve

------------------------------------------------------------------------------
(* The others.                                                             *)
LEMMA EditSecretKeeps == GInv /\ EditSecret => GInv'
<1> SUFFICES ASSUME GInv, EditSecret PROVE GInv'  OBVIOUS
<1>1. secret' \in Secrets \cup {NoSecret}
  BY SecretAssumption DEF EditSecret
<1>2. versions \subseteq versions' /\ ValidKeys(secret') \in versions'
      /\ versions' \subseteq KeyMaps
  BY ValidKeysType DEF EditSecret, GInv, TypeOK, HistoryOK
<1>3. TypeOK'
  BY <1>1, <1>2, BoundsAssumption DEF EditSecret, GInv, TypeOK, AuthOK, RequestsOK,
     ClusterOK, HistoryOK, auth
<1>4. Versions' /\ Tenanted'
  BY <1>2 DEF EditSecret, GInv, Versions, Tenanted, auth
<1>5. ASSUME NEW r \in Requests PROVE Sound(req[r])'
  <2>1. Loaded(req[r])' /\ Told(req[r])'
    BY <1>2 DEF GInv, Sound, Loaded, Told, EditSecret
  <2>2. Authentic(req[r])'
    BY <1>2 DEF GInv, Sound, Authentic, EditSecret
  <2>3. Findable(req[r])'
    BY DEF GInv, Sound, Findable, EditSecret, auth
  <2>4. QED  BY <2>1, <2>2, <2>3 DEF Sound
<1>6. QED  BY <1>3, <1>4, <1>5 DEF GInv

LEMMA SyncSecretKeeps == GInv /\ SyncSecret => GInv'
<1> SUFFICES ASSUME GInv, SyncSecret PROVE GInv'  OBVIOUS
<1>1. AuthOK' /\ ClusterOK' /\ HistoryOK' /\ Versions' /\ Tenanted'
  BY DEF GInv, TypeOK, AuthOK, ClusterOK, HistoryOK, Versions, Tenanted, SyncSecret, auth
<1>2. ASSUME NEW r \in Requests
      PROVE  req'[r] \in Request /\ Sound(req[r])'
             /\ (req'[r].pc = "done" <=> req'[r].answer # 0)
  <2> DEFINE steady == req[r].steady /\
                (req[r].pc = "done" \/ ValidKeys(secret)[req[r].token] # Empty)
  <2>0. req[r] \in Request /\ Sound(req[r]) /\ (req[r].pc = "done" <=> req[r].answer # 0)
    BY OpenRequest
  <2>1. req'[r] = [req[r] EXCEPT !.steady = steady]  BY DEF SyncSecret
  <2>2. steady \in BOOLEAN /\ (steady => req[r].steady)
        /\ (steady /\ req[r].pc # "done" => ValidKeys(secret)[req[r].token] # Empty)
    BY <2>0 DEF Request
  <2> HIDE DEF steady
  <2>3. /\ req'[r] \in Request /\ req'[r].pc = req[r].pc /\ req'[r].answer = req[r].answer
        /\ req'[r].token = req[r].token /\ req'[r].steady = steady
        /\ req'[r].undercut = req[r].undercut /\ req'[r].wrote = req[r].wrote
        /\ req'[r].loaded = req[r].loaded /\ req'[r].role = req[r].role
        /\ req'[r].op = req[r].op /\ req'[r].copy = req[r].copy
    BY <2>0, <2>1, <2>2 DEF Request
  <2>4. versions' = versions /\ keys' = keys /\ cachedSecret' = secret
    BY DEF SyncSecret, auth
  <2>5. Loaded(req[r])' /\ Told(req[r])'
    BY <2>0, <2>3, <2>4 DEF Loaded, Told, Sound
  <2>6. Authentic(req[r])'
    BY <2>0, <2>3, <2>4 DEF Authentic, Sound
  <2>7. Findable(req[r])'
    BY <2>0, <2>2, <2>3, <2>4 DEF Findable, Sound
  <2>8. QED  BY <2>0, <2>3, <2>5, <2>6, <2>7 DEF Sound
<1>3. RequestsOK'
  <2>1. req' = [r \in Requests |-> req'[r]]  BY DEF SyncSecret
  <2>2. QED  BY <1>2, <2>1 DEF RequestsOK
<1>4. QED  BY <1>1, <1>2, <1>3 DEF GInv, TypeOK

(* Steps that change nothing but the objects.                              *)
LEMMA ObjectStep ==
    ASSUME GInv, ClusterOK', edits' \in 0..MaxEdits,
           UNCHANGED <<auth, req, secret, cachedSecret, keyEdits, faults, versions>>
    PROVE  GInv'
<1>1. TypeOK' /\ Versions' /\ Tenanted'
  BY DEF GInv, TypeOK, AuthOK, RequestsOK, HistoryOK, Versions, Tenanted, auth
<1>2. ASSUME NEW r \in Requests PROVE Sound(req[r])'
  <2>1. Sound(req[r])  BY DEF GInv
  <2>2. QED  BY <2>1 DEF Sound, Loaded, Authentic, Findable, Told, auth
<1>3. QED  BY <1>1, <1>2 DEF GInv

LEMMA OthersKeep ==
    ASSUME GInv, NEW ns \in Namespaces, OthersWrite(ns) \/ Removed(ns) \/ SyncObject
    PROVE  GInv'
<1>0. /\ objs \in [Namespaces -> Objects] /\ rev \in Nat /\ edits \in 0..MaxEdits
      /\ NoObject \in Objects /\ defaultNamespace \in Namespaces
  BY DefaultAssumption DEF GInv, TypeOK, ClusterOK, HistoryOK, Objects
<1>1. CASE OthersWrite(ns)
  <2>1. PICK p : /\ p \in IF objs[ns] = NoObject
                          THEN {[running |-> "nil", other |-> edits + 1, deleting |-> FALSE,
                                 version |-> 0]}
                          ELSE {[objs[ns] EXCEPT !.other = edits + 1],
                                [objs[ns] EXCEPT !.deleting = TRUE]}
                 /\ objs' = [objs EXCEPT ![ns] = [p EXCEPT !.version = rev + 1]]
    BY <1>1 DEF OthersWrite
  <2>2. edits + 1 \in 0..MaxEdits
    BY <1>0, <1>1, BoundsAssumption DEF OthersWrite
  <2>3. p \in DBInstance
    <3>1. CASE objs[ns] = NoObject
      <4> DEFINE e == edits + 1
      <4>1. p = [running |-> "nil", other |-> e, deleting |-> FALSE, version |-> 0]
            /\ e \in 0..MaxEdits
        BY <2>1, <2>2, <3>1
      <4> HIDE DEF e
      <4>2. QED  BY <4>1 DEF DBInstance
    <3>2. CASE objs[ns] # NoObject
      <4>1. objs[ns] \in DBInstance  BY <1>0, <3>2 DEF Objects
      <4>2. QED  BY <2>1, <2>2, <3>2, <4>1 DEF DBInstance
    <3>3. QED  BY <3>1, <3>2
  <2>4. [p EXCEPT !.version = rev + 1] \in Objects
    BY <1>0, <2>3 DEF DBInstance, Objects
  <2>5. objs' \in [Namespaces -> Objects]  BY <1>0, <2>1, <2>4
  <2>6. ClusterOK'
    BY <1>0, <1>1, <2>5 DEF OthersWrite, GInv, TypeOK, ClusterOK
  <2>7. QED  BY <1>1, <2>2, <2>6, ObjectStep DEF OthersWrite
<1>2. CASE Removed(ns)
  <2>1. ClusterOK'
    BY <1>0, <1>2 DEF Removed, GInv, TypeOK, ClusterOK
  <2>2. QED  BY <1>0, <1>2, <2>1, ObjectStep DEF Removed
<1>3. CASE SyncObject
  <2>1. ClusterOK'
    BY <1>0, <1>3 DEF SyncObject, GInv, TypeOK, ClusterOK
  <2>2. QED  BY <1>0, <1>3, <2>1, ObjectStep DEF SyncObject
<1>4. QED  BY <1>1, <1>2, <1>3

LEMMA StutterKeeps == GInv /\ UNCHANGED vars => GInv'
<1> SUFFICES ASSUME GInv, UNCHANGED vars PROVE GInv'  OBVIOUS
<1>1. ClusterOK' /\ edits' \in 0..MaxEdits
  BY DEF GInv, TypeOK, ClusterOK, HistoryOK, vars, cluster
<1>2. QED  BY <1>1, ObjectStep DEF vars, cluster

LEMMA NextKeeps == GInv /\ [Next]_vars => GInv'
<1> SUFFICES ASSUME GInv, [Next]_vars PROVE GInv'  OBVIOUS
<1>1. CASE RunGateway  BY <1>1, RunGatewayKeeps
<1>2. CASE EditSecret  BY <1>2, EditSecretKeeps
<1>3. CASE SyncSecret  BY <1>3, SyncSecretKeeps
<1>4. CASE SyncObject  BY <1>4, OthersKeep, DefaultAssumption
<1>5. ASSUME NEW r \in Requests, Serve(r) PROVE GInv'
  BY <1>5, ServeKeeps
<1>6. ASSUME NEW r \in Requests, NEW in \in Inputs,
             NEW token \in Keys \cup {NoHeader, NoBearer}, Arrive(r, in, token)
      PROVE  GInv'
  BY <1>6, ArriveKeeps
<1>7. ASSUME NEW ns \in Namespaces, OthersWrite(ns) \/ Removed(ns) PROVE GInv'
  BY <1>7, OthersKeep
<1>8. CASE UNCHANGED vars  BY <1>8, StutterKeeps
<1>9. QED
  BY <1>1, <1>2, <1>3, <1>4, <1>5, <1>6, <1>7, <1>8 DEF Next

------------------------------------------------------------------------------
(* The invariant holds in every behaviour: whatever requests, edits of the *)
(* Secret and writes of others come together.                              *)
THEOREM GatewayInvariance == Spec => []GInv
<1>1. QED  BY InitInvariant, NextKeeps, PTL DEF Spec

(* The gateway's state stays in its types; a request is done exactly when  *)
(* it has an answer.                                                       *)
THEOREM GatewayTypes == Spec => []TypeOK
<1>1. GInv => TypeOK  BY DEF GInv
<1>2. QED  BY <1>1, GatewayInvariance, PTL

(* The key map in use is always one version of the Secret as a whole,      *)
(* however many requests reload it at once (auth.go, loadKeys).            *)
THEOREM KeysAlwaysAVersion == Spec => []KeysAreAVersion
<1>1. GInv => KeysAreAVersion  BY DEF GInv, Versions, KeysAreAVersion
<1>2. QED  BY <1>1, GatewayInvariance, PTL

(* A key that was valid all along is turned down only after another        *)
(* request has put older keys in place (auth.go, lookup).                  *)
THEOREM RejectionsHaveCause == Spec => []RejectedForCause
<1>1. GInv => RejectedForCause
  BY DEF GInv, Sound, Findable, RejectedForCause
<1>2. QED  BY <1>1, GatewayInvariance, PTL

(* A request answered with a 4xx status has changed nothing (the handlers  *)
(* of gateway.go).                                                         *)
THEOREM RefusalsChangeNothing == Spec => []RefusedChangeNothing
<1>1. GInv => RefusedChangeNothing
  BY DEF GInv, Sound, Told, RefusedChangeNothing
<1>2. QED  BY <1>1, GatewayInvariance, PTL

(* Every tenant of a registry that was loaded is found by its group        *)
(* (tenants.go, validate and Lookup).                                      *)
THEOREM TenantsAlwaysFound == Spec => []LookupFindsEach
<1>1. ASSUME GInv, gateway = "serving", NEW i \in DOMAIN tenants
      PROVE  Lookup(tenants, tenants[i].group) = tenants[i]
  <2>1. tenants \in Seq(Tenant) /\ validate(tenants)
    BY <1>1, FilesAssumption DEF GInv, TypeOK, AuthOK, Tenanted, Load
  <2>2. DOMAIN tenants = 1..Len(tenants) /\ Len(tenants) \in Nat  BY <2>1
  <2>3. ASSUME NEW j \in DOMAIN tenants, tenants[j].group = tenants[i].group
        PROVE  j = i
    <3>1. ~(j < i)  BY <2>1, <2>2, <2>3 DEF validate
    <3>2. ~(i < j)  BY <2>1, <2>2, <2>3 DEF validate
    <3>3. QED  BY <2>2, <3>1, <3>2
  <2>4. {j \in DOMAIN tenants : tenants[j].group = tenants[i].group} = {i}
    BY <2>3
  <2>5. (CHOOSE k \in {i} : \A j \in {i} : k <= j) = i
    BY <2>2
  <2>6. QED  BY <2>4, <2>5 DEF Lookup, FirstOf
<1>2. GInv => LookupFindsEach
  BY <1>1 DEF LookupFindsEach
<1>3. QED  BY <1>2, GatewayInvariance, PTL

------------------------------------------------------------------------------
(* Writing o in ns changes at most that object, and to o.                  *)
LEMMA WriteChanges ==
    ASSUME GInv, NEW r \in Requests, NEW ns \in Namespaces, NEW o, Write(r, ns, o)
    PROVE  /\ \A p \in Requests : p # r => req'[p] = req[p]
           /\ \A m \in Namespaces : m # ns => objs'[m] = objs[m]
           /\ o = NoObject => objs'[ns] = NoObject
           /\ o \in DBInstance /\ o # NoObject =>
                 objs'[ns].other = o.other /\ objs'[ns].deleting = o.deleting
<1>1. objs \in [Namespaces -> Objects] /\ req \in [Requests -> Request] /\ rev \in Nat
  BY DEF GInv, TypeOK, ClusterOK, RequestsOK
<1>2. \A p \in Requests : p # r => req'[p] = req[p]
  BY <1>1 DEF Write, Wrote
<1>3. /\ \A m \in Namespaces : m # ns => objs'[m] = objs[m]
      /\ objs'[ns] = IF o = NoObject THEN o ELSE [o EXCEPT !.version = rev + 1]
  BY <1>1 DEF Write
<1>4. o \in DBInstance /\ o # NoObject =>
        objs'[ns].other = o.other /\ objs'[ns].deleting = o.deleting
  BY <1>3 DEF DBInstance
<1>5. QED  BY <1>2, <1>3, <1>4

(* A request that changes an object has a role for it, moves alone, and    *)
(* keeps what others did.                                                  *)
LEMMA ServeWrites ==
    ASSUME GInv, NEW r \in Requests, Serve(r), objs' # objs
    PROVE  /\ \A p \in Requests : p # r => req'[p] = req[p]
           /\ req[r].pc \in {"handle", "update"}
           /\ req[r].role \in (IF req[r].op \in {"start", "stop"}
                               THEN {"admin", "operator"} ELSE {"admin"})
           /\ \A m \in Namespaces : Kept(m)
<1>0. /\ req[r] \in Request /\ Sound(req[r]) /\ defaultNamespace \in Namespaces
      /\ objs \in [Namespaces -> Objects]
  BY OpenRequest, DefaultAssumption DEF GInv, TypeOK, ClusterOK
<1>1. handleCreateInstance(r) \/ handleDeleteInstance(r) \/ update(r)
  BY DEF Serve, lookup, loadKeys, storeKeys, recheck, handle, Forbidden, Unrouted,
     handleListInstances, handleGetInstance, handleSetRunning, Reply, UnchangedObjs,
     cluster
<1>2. CASE handleCreateInstance(r)
  <2> DEFINE ns == IF req[r].body = Empty THEN defaultNamespace ELSE req[r].body
             new == [running |-> "nil", other |-> 0, deleting |-> FALSE, version |-> 0]
  <2>1. req[r].pc = "handle" /\ req[r].op = "create" /\ req[r].role = "admin"
    BY <1>2 DEF handleCreateInstance, Handling, RequireRole, Allowed
  <2>2. /\ req[r].body \notin {"invalid", "unnamed"}
        /\ objs[ns] = NoObject /\ Write(r, ns, new)
    BY <1>2 DEF handleCreateInstance, Reply, Failed, UnchangedObjs
  <2>3. ns \in Namespaces
    <3>1. req[r].body \in Bodies  BY <1>0 DEF Request
    <3>2. QED  BY <1>0, <2>2, <3>1, BodiesAssumption DEF Bodies
  <2> HIDE DEF ns, new
  <2>4. /\ \A p \in Requests : p # r => req'[p] = req[p]
        /\ \A m \in Namespaces : m # ns => objs'[m] = objs[m]
    BY <2>2, <2>3, WriteChanges
  <2>5. \A m \in Namespaces : Kept(m)  BY <2>2, <2>4 DEF Kept
  <2>6. QED  BY <2>1, <2>4, <2>5
<1>3. CASE handleDeleteInstance(r)
  <2> DEFINE ns == defaultNamespace
             new == [objs[ns] EXCEPT !.deleting = TRUE]
  <2>1. req[r].pc = "handle" /\ req[r].op = "delete" /\ req[r].role = "admin"
    BY <1>3 DEF handleDeleteInstance, Handling, RequireRole, Allowed
  <2>2. objs[ns] # NoObject /\ (Write(r, ns, new) \/ Write(r, ns, NoObject))
    BY <1>3 DEF handleDeleteInstance, DeleteObject, Reply, Failed, UnchangedObjs
  <2>3. objs[ns] \in DBInstance  BY <1>0, <2>2 DEF Objects
  <2>4. new \in DBInstance /\ new.other = objs[ns].other /\ new.deleting = TRUE
    BY <2>3 DEF DBInstance
  <2> HIDE DEF new
  <2>5. /\ \A p \in Requests : p # r => req'[p] = req[p]
        /\ \A m \in Namespaces : m # ns => objs'[m] = objs[m]
        /\ \/ objs'[ns] = NoObject
           \/ objs'[ns].other = new.other /\ objs'[ns].deleting = new.deleting
    BY <1>0, <2>2, <2>4, WriteChanges
  <2>6. \A m \in Namespaces : Kept(m)  BY <2>4, <2>5 DEF Kept
  <2>7. QED  BY <2>1, <2>5, <2>6
<1>4. CASE update(r)
  <2> DEFINE ns == defaultNamespace
             new == [req[r].copy EXCEPT !.running = SetRunning[req[r].op]]
  <2>1. /\ req[r].pc = "update" /\ req[r].op \in {"start", "stop"}
        /\ req[r].role \in {"admin", "operator"} /\ req[r].copy \in DBInstance
    BY <1>0, <1>4 DEF update, Sound, Authentic
  <2>2. objs[ns] = req[r].copy /\ Write(r, ns, new)
    BY <1>4 DEF update, Reply, Failed, UnchangedObjs
  <2>3. /\ new \in DBInstance /\ new.other = objs[ns].other
        /\ new.deleting = objs[ns].deleting
    <3>1. SetRunning[req[r].op] \in {"true", "false"}  BY <2>1 DEF SetRunning
    <3>2. QED  BY <2>1, <2>2, <3>1 DEF DBInstance
  <2> HIDE DEF new
  <2>4. /\ \A p \in Requests : p # r => req'[p] = req[p]
        /\ \A m \in Namespaces : m # ns => objs'[m] = objs[m]
        /\ \/ objs'[ns] = NoObject
           \/ objs'[ns].other = new.other /\ objs'[ns].deleting = new.deleting
    BY <1>0, <2>2, <2>3, WriteChanges
  <2>5. \A m \in Namespaces : Kept(m)  BY <2>3, <2>4 DEF Kept
  <2>6. QED  BY <2>1, <2>4, <2>5
<1>5. QED  BY <1>1, <1>2, <1>3, <1>4

(* Who changes requests and objects in one step serves a request.          *)
LEMMA OnlyServeWrites ==
    ASSUME Next, req' # req, objs' # objs
    PROVE  \E r \in Requests : Serve(r)
<1>1. ~RunGateway /\ ~EditSecret /\ ~SyncSecret /\ ~SyncObject
  BY DEF RunGateway, EditSecret, SyncSecret, SyncObject, cluster
<1>2. \A ns \in Namespaces : ~OthersWrite(ns) /\ ~Removed(ns)
  BY DEF OthersWrite, Removed
<1>3. \A r \in Requests, in \in Inputs, token \in Keys \cup {NoHeader, NoBearer} :
        ~Arrive(r, in, token)
  BY DEF Arrive, cluster
<1>4. QED  BY <1>1, <1>2, <1>3 DEF Next

(* No object is changed but under a role that the Secret gave the          *)
(* request's key at some time (auth.go, RequireRole in every handler).     *)
THEOREM WritesAlwaysAuthorised == Spec => WritesAuthorised
<1> DEFINE Fine(q) == \E v \in versions :
               v[q.token] \in (IF q.op \in {"start", "stop"} THEN {"admin", "operator"}
                               ELSE {"admin"})
<1>1. ASSUME GInv, Next, NEW r \in Requests, req'[r] # req[r], objs' # objs
      PROVE  Fine(req[r])
  <2>0. req' # req  BY <1>1
  <2>1. PICK s \in Requests : Serve(s)  BY <1>1, <2>0, OnlyServeWrites
  <2>2. s = r  BY <1>1, <2>1, ServeWrites
  <2>3. /\ req[r].pc \in {"handle", "update"}
        /\ req[r].role \in (IF req[r].op \in {"start", "stop"}
                            THEN {"admin", "operator"} ELSE {"admin"})
    BY <1>1, <2>1, <2>2, ServeWrites
  <2>4. Sound(req[r])  BY <1>1 DEF GInv
  <2>5. PICK v \in versions : v[req[r].token] = req[r].role
    BY <2>3, <2>4 DEF Sound, Authentic
  <2>6. QED  BY <2>3, <2>5
<1>2. GInv /\ [Next]_vars =>
        [\A r \in Requests : req'[r] # req[r] /\ objs' # objs => Fine(req[r])]_vars
  BY <1>1
<1>3. QED  BY <1>2, GatewayInvariance, PTL DEF Spec, WritesAuthorised

(* No request undoes what others did to an object, although start and stop *)
(* write all of it back (gateway.go, handleSetRunning).                    *)
THEOREM ForeignChangesAreKept == Spec => NoForeignChangeLost
<1>1. ASSUME GInv, Next, req' # req, NEW ns \in Namespaces PROVE Kept(ns)
  <2>1. CASE objs' = objs  BY <2>1 DEF Kept
  <2>2. CASE objs' # objs
    <3>1. PICK r \in Requests : Serve(r)  BY <1>1, <2>2, OnlyServeWrites
    <3>2. QED  BY <1>1, <2>2, <3>1, ServeWrites
  <2>3. QED  BY <2>1, <2>2
<1>2. GInv /\ [Next]_vars => [req' # req => \A ns \in Namespaces : Kept(ns)]_vars
  BY <1>1
<1>3. QED  BY <1>2, GatewayInvariance, PTL DEF Spec, NoForeignChangeLost
==============================================================================
