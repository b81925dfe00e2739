------------------------------- MODULE Gateway -------------------------------
(***************************************************************************)
(* internal/gateway: the REST gateway, with its authentication (auth.go)   *)
(* and its handlers (gateway.go), started by main.go.  Go serves every     *)
(* request in a goroutine of its own; a request is cut where the goroutine *)
(* takes the lock of the key map or makes an API request.  Reads go        *)
(* through the manager's informer cache, writes to the API server.  One    *)
(* name stands for all instances; beside the gateway there are the         *)
(* operator who edits the Secret of API keys, and users and controllers    *)
(* that write the same objects.                                            *)
(***************************************************************************)
EXTENDS Tenants

CONSTANTS
    Requests,      \* HTTP requests, each sent at most once
    Inputs,        \* what they ask: [method, path, body]
    Keys,          \* API keys
    NoHeader,      \* a request without Authorization header ...
    NoBearer,      \* ... or with one that is not "Bearer <token>"
    Values,        \* what stands beside a key in the Secret
    TrimSpace,     \* strings.TrimSpace of it
    NoValue,       \* the key is not in the Secret
    InitialSecret, \* the Secret at start-up
    NoSecret,      \* there is no Secret
    NewSecrets,    \* what the operator may make of it
    Namespaces,    \* namespaces users know
    defaultNamespace, \* DBAAS_DEFAULT_NAMESPACE
    TenantsFiles,  \* what may stand in tenants.yaml
    NoObject,      \* there is no DBInstance of that name
    MaxKeyEdits,   \* bound: edits of the Secret
    MaxEdits,      \* bound: writes of others to the DBInstances
    MaxFaults      \* bound: API requests that fail

Roles == {"admin", "operator", "viewer"}
Secrets == [Keys -> Values \cup {NoValue}]

ASSUME DefaultAssumption == defaultNamespace \in Namespaces
ASSUME SecretAssumption == {InitialSecret} \cup NewSecrets \subseteq Secrets \cup {NoSecret}
ASSUME NoSecretAssumption == NoSecret \notin Secrets /\ NoValue \notin Values
ASSUME TokenAssumption == {NoHeader, NoBearer} \cap Keys = {}
ASSUME BodiesAssumption ==
    \A in \in Inputs : in.body \in Namespaces \cup {Empty, "invalid", "unnamed"}
ASSUME FilesAssumption == \A f \in TenantsFiles \ {Unreadable} : f \in Seq(Tenant)
ASSUME BoundsAssumption == {MaxKeyEdits, MaxEdits, MaxFaults} \subseteq Nat

VARIABLES
    gateway,      \* "starting", "serving" or "failed"
    tenants,      \* Server.tenants
    keys,         \* authMiddleware.keys; "" where the map has no entry
    req,          \* the requests
    secret,       \* the stored Secret dbaas-api-keys
    cachedSecret, \* the informer's copy of it
    objs,         \* the stored DBInstance of each namespace
    cachedObj,    \* the informer's copy of the one handlers read
    rev,          \* the last resourceVersion
    keyEdits, edits, faults, \* how much of the bounds is used up
    versions      \* history: every key map the Secret has stood for

auth == <<gateway, tenants, keys>>
cluster == <<secret, cachedSecret, objs, cachedObj, rev>>
vars == <<auth, req, cluster, keyEdits, edits, faults, versions>>

DBInstance ==
    [running: {"nil", "true", "false"}, other: 0..MaxEdits, deleting: BOOLEAN,
     version: Nat]
Objects == DBInstance \cup {NoObject}

Answers == {200, 202, 400, 401, 403, 404, 405, 409, 500}
PCs == {"none", "lookup", "load", "store", "recheck", "handle", "update", "done"}

------------------------------------------------------------------------------
(* Mutant: any value is taken for a role.                                  *)
ValidKeysUnchecked(s) ==
    [k \in Keys |-> IF s = NoSecret \/ s[k] = NoValue THEN Empty ELSE TrimSpace[s[k]]]

(* The map loadKeys builds: values that are no role are left out.          *)
ValidKeys(s) ==
    [k \in Keys |->
        IF s = NoSecret \/ s[k] = NoValue \/ TrimSpace[s[k]] \notin Roles THEN Empty
        ELSE TrimSpace[s[k]]]

(* Mutant: operators may delete.                                           *)
AllowedDeleting ==
    [list |-> Roles, get |-> Roles, create |-> {"admin"},
     delete |-> {"admin", "operator"},
     start |-> {"admin", "operator"}, stop |-> {"admin", "operator"}]

(* The roles each handler passes to RequireRole.                           *)
Allowed ==
    [list |-> Roles, get |-> Roles, create |-> {"admin"}, delete |-> {"admin"},
     start |-> {"admin", "operator"}, stop |-> {"admin", "operator"}]

(* What is answered without a handler.                                     *)
Refusal == [healthz |-> 200, notFound |-> 404, notAllowed |-> 405]

(* The handler for a method and path; parts[1] is the instance's name.     *)
handleInstanceRoute(method, parts) ==
    IF parts[1] = Empty THEN "notFound"
    ELSE IF Len(parts) = 1 THEN
        CASE method = "GET" -> "get"
          [] method = "DELETE" -> "delete"
          [] OTHER -> "notAllowed"
    ELSE IF method # "POST" THEN "notAllowed"
    ELSE IF parts[2] \in {"start", "stop"} THEN parts[2] ELSE "notFound"

Route(method, path) ==
    CASE path = <<"healthz">> -> IF method = "GET" THEN "healthz" ELSE "notAllowed"
      [] path = <<"dbinstances">> ->
           IF method = "GET" THEN "list"
           ELSE IF method = "POST" THEN "create" ELSE "notAllowed"
      [] Len(path) > 1 /\ path[1] = "dbinstances" ->
           handleInstanceRoute(method, Tail(path))
      [] OTHER -> "notFound"

(* One request: where its goroutine is, what came in, the keys it has read *)
(* but not stored, its role, its copy of the DBInstance, and its answer.   *)
(* steady, undercut and wrote are history: was its key valid in the        *)
(* informer's copy ever since it came in, did another request store keys   *)
(* without its key since, and did it change an object.                     *)
NoRequest ==
    [pc |-> "none", op |-> "none", body |-> Empty, token |-> NoHeader,
     loaded |-> [k \in Keys |-> Empty], role |-> Empty, copy |-> NoObject,
     answer |-> 0, steady |-> FALSE, undercut |-> FALSE, wrote |-> FALSE]

Bodies == {in.body : in \in Inputs} \cup {Empty}
KeyMaps == [Keys -> Roles \cup {Empty}]
Request ==
    [pc: PCs, op: DOMAIN Allowed \cup DOMAIN Refusal \cup {"none"}, body: Bodies,
     token: Keys \cup {NoHeader, NoBearer}, loaded: KeyMaps, role: Roles \cup {Empty},
     copy: Objects, answer: Answers \cup {0},
     steady: BOOLEAN, undercut: BOOLEAN, wrote: BOOLEAN]

AuthOK ==
    /\ gateway \in {"starting", "serving", "failed"} /\ tenants \in TenantsFiles
    /\ keys \in KeyMaps
RequestsOK ==
    /\ req \in [Requests -> Request]
    /\ \A r \in Requests : req[r].pc = "done" <=> req[r].answer # 0
ClusterOK ==
    /\ {secret, cachedSecret} \subseteq Secrets \cup {NoSecret}
    /\ objs \in [Namespaces -> Objects] /\ cachedObj \in Objects
    /\ rev \in Nat
HistoryOK ==
    /\ keyEdits \in 0..MaxKeyEdits /\ edits \in 0..MaxEdits /\ faults \in 0..MaxFaults
    /\ versions \subseteq KeyMaps

TypeOK == AuthOK /\ RequestsOK /\ ClusterOK /\ HistoryOK

Init ==
    /\ gateway = "starting" /\ tenants \in TenantsFiles
    /\ keys = [k \in Keys |-> Empty]
    /\ req = [r \in Requests |-> NoRequest]
    /\ secret = InitialSecret /\ cachedSecret = secret
    /\ objs = [ns \in Namespaces |-> NoObject] /\ cachedObj = NoObject /\ rev = 0
    /\ keyEdits = 0 /\ edits = 0 /\ faults = 0
    /\ versions = {ValidKeys(secret)}

Fault == faults < MaxFaults /\ faults' = faults + 1
NoFault == faults' = faults

------------------------------------------------------------------------------
(* main.go and RunGateway: without a valid tenants file the goroutine ends *)
(* and the rest of the process goes on.  Wrap loads the keys before the    *)
(* first request; that no Secret is there is only logged.                  *)
RunGateway ==
    /\ gateway = "starting"
    /\ gateway' = IF Load(tenants) THEN "serving" ELSE "failed"
    /\ keys' = IF Load(tenants) THEN ValidKeys(cachedSecret) ELSE keys
    /\ UNCHANGED <<tenants, req, cluster, keyEdits, edits, faults, versions>>

Goto(r, label) == req' = [req EXCEPT ![r].pc = label]

(* The handler returns; nothing but the answer and the history of a        *)
(* rejection is left.                                                      *)
Returned(q, status) ==
    [NoRequest EXCEPT !.pc = "done", !.answer = status,
                      !.steady = q.steady /\ status = 401,
                      !.undercut = q.undercut /\ status = 401]
Answer(r, status) == req' = [req EXCEPT ![r] = Returned(@, status)]
Wrote(r, status) ==
    req' = [req EXCEPT ![r] = [Returned(@, status) EXCEPT !.wrote = TRUE]]

(* Wrap up to lookup: health checks are not authenticated.                 *)
Arrive(r, in, token) ==
    LET q == [NoRequest EXCEPT
                 !.op = Route(in.method, in.path), !.body = in.body, !.token = token,
                 !.steady = token \in Keys /\ ValidKeys(cachedSecret)[token] # Empty]
    IN  /\ gateway = "serving" /\ req[r].pc = "none"
        /\ req' = [req EXCEPT ![r] =
               IF in.path = <<"healthz">> THEN Returned(q, Refusal[q.op])
               ELSE IF token \notin Keys THEN Returned(q, 401)
               ELSE [q EXCEPT !.pc = "lookup"]]
        /\ UNCHANGED <<auth, cluster, keyEdits, edits, faults, versions>>

Role(r) == keys[req[r].token]

Found(r) == req' = [req EXCEPT ![r].pc = "handle", ![r].role = Role(r)]

(* Mutants: no reload; reload until the key is found.                      *)
lookupOnce(r) ==
    /\ req[r].pc = "lookup"
    /\ IF Role(r) # Empty THEN Found(r) ELSE Answer(r, 401)
    /\ UNCHANGED <<auth, cluster, keyEdits, edits, faults, versions>>

recheckForEver(r) ==
    /\ req[r].pc = "recheck"
    /\ IF Role(r) # Empty THEN Found(r) ELSE Goto(r, "load")
    /\ UNCHANGED <<auth, cluster, keyEdits, edits, faults, versions>>

lookup(r) ==
    /\ req[r].pc = "lookup"
    /\ IF Role(r) # Empty THEN Found(r) ELSE Goto(r, "load")
    /\ UNCHANGED <<auth, cluster, keyEdits, edits, faults, versions>>

(* Mutant: what is read is added to the keys in place at that moment.      *)
loadKeysAdded(r) ==
    /\ req[r].pc = "load"
    /\ req' = [req EXCEPT
          ![r].pc = IF cachedSecret = NoSecret THEN "recheck" ELSE "store",
          ![r].loaded = [k \in Keys |-> IF ValidKeys(cachedSecret)[k] = Empty THEN keys[k]
                                        ELSE ValidKeys(cachedSecret)[k]]]
    /\ UNCHANGED <<auth, cluster, keyEdits, edits, faults, versions>>

(* loadKeys: the Secret is read without the lock; the map is replaced      *)
(* under it.  When it cannot be read the map stays.                        *)
loadKeys(r) ==
    /\ req[r].pc = "load"
    /\ req' = [req EXCEPT
          ![r].pc = IF cachedSecret = NoSecret THEN "recheck" ELSE "store",
          ![r].loaded = ValidKeys(cachedSecret)]
    /\ UNCHANGED <<auth, cluster, keyEdits, edits, faults, versions>>

(* The requests whose key the map that r stores does not have.             *)
Stored(r) ==
    [q \in Requests |->
        IF q = r THEN [req[r] EXCEPT !.pc = "recheck", !.loaded = NoRequest.loaded]
        ELSE [req[q] EXCEPT !.undercut = @ \/
                 (req[q].pc \in {"lookup", "load", "store", "recheck"} /\
                  req[r].loaded[req[q].token] = Empty)]]

(* Mutant: the map is added to.                                            *)
storeKeysMerged(r) ==
    /\ req[r].pc = "store"
    /\ keys' = [k \in Keys |-> IF req[r].loaded[k] = Empty THEN keys[k]
                               ELSE req[r].loaded[k]]
    /\ req' = Stored(r)
    /\ UNCHANGED <<gateway, tenants, cluster, keyEdits, edits, faults, versions>>

storeKeys(r) ==
    /\ req[r].pc = "store"
    /\ keys' = req[r].loaded
    /\ req' = Stored(r)
    /\ UNCHANGED <<gateway, tenants, cluster, keyEdits, edits, faults, versions>>

(* The second look.                                                        *)
recheck(r) ==
    /\ req[r].pc = "recheck"
    /\ IF Role(r) # Empty THEN Found(r) ELSE Answer(r, 401)
    /\ UNCHANGED <<auth, cluster, keyEdits, edits, faults, versions>>

------------------------------------------------------------------------------
(* The handlers.                                                           *)
Handling(r, op) == req[r].pc = "handle" /\ req[r].op = op

RequireRole(r, op) == req[r].role \in Allowed[op]

UnchangedObjs == UNCHANGED <<objs, rev>>
UnchangedElsewhere ==
    UNCHANGED <<auth, secret, cachedSecret, cachedObj, keyEdits, edits, versions>>

(* Object o is stored in ns with a new version; the answer may be lost.    *)
Write(r, ns, o) ==
    /\ objs' = [objs EXCEPT ![ns] =
          IF o = NoObject THEN o ELSE [o EXCEPT !.version = rev + 1]]
    /\ rev' = rev + 1
    /\ \/ Wrote(r, 202) /\ NoFault
       \/ Wrote(r, 500) /\ Fault

Reply(r, status) == Answer(r, status) /\ UnchangedObjs /\ NoFault
Failed(r) == Answer(r, 500) /\ UnchangedObjs /\ Fault

Forbidden(r) ==
    /\ \E op \in DOMAIN Allowed : Handling(r, op) /\ ~RequireRole(r, op)
    /\ Reply(r, 403) /\ UnchangedElsewhere

(* Neither mux nor handleInstanceRoute has a handler.                      *)
Unrouted(r) ==
    /\ \E op \in DOMAIN Refusal : Handling(r, op) /\ Reply(r, Refusal[op])
    /\ UnchangedElsewhere

handleListInstances(r) ==
    /\ Handling(r, "list") /\ RequireRole(r, "list")
    /\ Reply(r, 200) /\ UnchangedElsewhere

handleGetInstance(r) ==
    /\ Handling(r, "get") /\ RequireRole(r, "get")
    /\ Reply(r, IF cachedObj = NoObject THEN 404 ELSE 200)
    /\ UnchangedElsewhere

(* The body is no JSON, has no name, or is an object with a namespace or   *)
(* without one ("").                                                       *)
handleCreateInstance(r) ==
    LET ns == IF req[r].body = Empty THEN defaultNamespace ELSE req[r].body
        new == [running |-> "nil", other |-> 0, deleting |-> FALSE, version |-> 0]
    IN  /\ Handling(r, "create") /\ RequireRole(r, "create")
        /\ IF req[r].body \in {"invalid", "unnamed"} THEN Reply(r, 400)
           ELSE \/ objs[ns] # NoObject /\ Reply(r, 409)
                \/ objs[ns] = NoObject /\ Write(r, ns, new)
                \/ Failed(r)
        /\ UnchangedElsewhere

(* Delete: an object with a finalizer stays and is marked, one without     *)
(* goes at once.                                                           *)
DeleteObject(r) ==
    LET ns == defaultNamespace
    IN  \/ objs[ns] = NoObject /\ Reply(r, 404)
        \/ /\ objs[ns] # NoObject
           /\ IF objs[ns].deleting THEN Reply(r, 202)
              ELSE \/ Write(r, ns, [objs[ns] EXCEPT !.deleting = TRUE])
                   \/ Write(r, ns, NoObject)
        \/ Failed(r)

(* Mutant: refused, and done nevertheless.                                 *)
handleDeleteInstanceAnyway(r) ==
    /\ Handling(r, "delete")
    /\ IF RequireRole(r, "delete") \/ objs[defaultNamespace] = NoObject
       THEN DeleteObject(r)
       ELSE /\ objs' = [objs EXCEPT ![defaultNamespace] = NoObject]
            /\ rev' = rev + 1 /\ Wrote(r, 403) /\ NoFault
    /\ UnchangedElsewhere

handleDeleteInstance(r) ==
    /\ Handling(r, "delete") /\ RequireRole(r, "delete") /\ DeleteObject(r)
    /\ UnchangedElsewhere

SetRunning == [start |-> "true", stop |-> "false"]

(* handleSetRunning reads the object from the cache ...                    *)
handleSetRunning(r) ==
    /\ \E op \in DOMAIN SetRunning : Handling(r, op) /\ RequireRole(r, op)
    /\ IF cachedObj = NoObject THEN Reply(r, 404)
       ELSE /\ req' = [req EXCEPT ![r].pc = "update",
                                  ![r].copy = cachedObj]
            /\ UnchangedObjs /\ NoFault
    /\ UnchangedElsewhere

(* Mutant: the write is not checked against the version read.              *)
updateUnchecked(r) ==
    LET new == [req[r].copy EXCEPT !.running = SetRunning[req[r].op]]
    IN  /\ req[r].pc = "update"
        /\ IF objs[defaultNamespace] = NoObject THEN Reply(r, 500)
           ELSE Write(r, defaultNamespace, new)
        /\ UnchangedElsewhere

(* ... and writes all of it back.  The API server takes it only from the   *)
(* stored version, and makes no new version when nothing changes.          *)
update(r) ==
    LET stored == objs[defaultNamespace]
        new == [req[r].copy EXCEPT !.running = SetRunning[req[r].op]]
    IN  /\ req[r].pc = "update"
        /\ \/ stored # req[r].copy /\ Reply(r, 500)
           \/ stored = req[r].copy /\ stored = new /\ Reply(r, 202)
           \/ stored = req[r].copy /\ stored # new /\ Write(r, defaultNamespace, new)
           \/ Failed(r)
        /\ UnchangedElsewhere

handle(r) ==
    \/ Forbidden(r) \/ Unrouted(r) \/ handleListInstances(r) \/ handleGetInstance(r)
    \/ handleCreateInstance(r) \/ handleDeleteInstance(r) \/ handleSetRunning(r)
    \/ update(r)

Serve(r) ==
    lookup(r) \/ loadKeys(r) \/ storeKeys(r) \/ recheck(r) \/ handle(r)

------------------------------------------------------------------------------
(* The operator writes the Secret anew, or deletes it.                     *)
EditSecret ==
    /\ keyEdits < MaxKeyEdits /\ keyEdits' = keyEdits + 1
    /\ secret' \in NewSecrets \ {secret}
    /\ versions' = versions \cup {ValidKeys(secret')}
    /\ UNCHANGED <<auth, req, cachedSecret, objs, cachedObj, rev, edits, faults>>

SyncSecret ==
    /\ cachedSecret # secret /\ cachedSecret' = secret
    /\ req' = [r \in Requests |-> [req[r] EXCEPT
          !.steady = @ /\ (req[r].pc = "done" \/ ValidKeys(secret)[req[r].token] # Empty)]]
    /\ UNCHANGED <<auth, secret, objs, cachedObj, rev, keyEdits, edits, faults,
                   versions>>

(* Users and controllers write the object too.                             *)
OthersWrite(ns) ==
    LET new == [running |-> "nil", other |-> edits + 1, deleting |-> FALSE, version |-> 0]
        o == objs[ns]
    IN  /\ edits < MaxEdits /\ edits' = edits + 1
        /\ rev' = rev + 1
        /\ \E p \in IF o = NoObject THEN {new}
                    ELSE {[o EXCEPT !.other = edits + 1], [o EXCEPT !.deleting = TRUE]} :
              objs' = [objs EXCEPT ![ns] = [p EXCEPT !.version = rev + 1]]
        /\ UNCHANGED <<auth, req, secret, cachedSecret, cachedObj, keyEdits, faults,
                       versions>>

(* The controller's finalizer goes.                                        *)
Removed(ns) ==
    /\ objs[ns] # NoObject /\ objs[ns].deleting
    /\ objs' = [objs EXCEPT ![ns] = NoObject]
    /\ UNCHANGED <<auth, req, secret, cachedSecret, cachedObj, rev, keyEdits, edits,
                   faults, versions>>

SyncObject ==
    /\ cachedObj # objs[defaultNamespace] /\ cachedObj' = objs[defaultNamespace]
    /\ UNCHANGED <<auth, req, secret, cachedSecret, objs, rev, keyEdits, edits, faults,
                   versions>>

Next ==
    \/ RunGateway \/ EditSecret \/ SyncSecret \/ SyncObject
    \/ \E r \in Requests :
         \/ Serve(r)
         \/ \E in \in Inputs, token \in Keys \cup {NoHeader, NoBearer} : Arrive(r, in, token)
    \/ \E ns \in Namespaces : OthersWrite(ns) \/ Removed(ns)

Spec == Init /\ [][Next]_vars

(* Goroutines run, the lock is free whenever nobody is between Lock and    *)
(* Unlock, and API requests are answered.                                  *)
FairSpec == Spec /\ \A r \in Requests : WF_vars(Serve(r))

------------------------------------------------------------------------------
(* The key map is always the whole of what one version of the Secret says: *)
(* concurrent reloads and edits never leave a mixture, so that a key that  *)
(* was removed cannot survive in a map that has a newer key.               *)
KeysAreAVersion == gateway = "serving" => keys \in versions \cup {[k \in Keys |-> Empty]}

(* A key that the informer's copy gave a role from the request's arrival   *)
(* on is turned down only if another request, which had read the Secret    *)
(* earlier, put its older keys in place meanwhile.                         *)
RejectedForCause ==
    \A r \in Requests : req[r].answer = 401 /\ req[r].steady => req[r].undercut

(* "Key not found: reload the Secret in case new keys were added": a key   *)
(* that was there from the request's arrival on is never turned down.      *)
NewKeyAccepted ==
    \A r \in Requests : req[r].answer = 401 => ~req[r].steady

(* Every object is changed under a role that the Secret gave the request's *)
(* key at some time, and that the comments of auth.go allow to do it.      *)
WritesAuthorised ==
    [][\A r \in Requests : req'[r] # req[r] /\ objs' # objs =>
         \E v \in versions :
            v[req[r].token] \in
                (IF req[r].op \in {"start", "stop"} THEN {"admin", "operator"}
                 ELSE {"admin"})]_vars

(* What others set in the object of ns is still there.                     *)
Kept(ns) ==
    objs[ns] # NoObject /\ objs'[ns] # NoObject =>
        /\ objs'[ns].other = objs[ns].other
        /\ objs[ns].deleting => objs'[ns].deleting

(* No request undoes what others did to an object: start and stop write a  *)
(* whole copy back, but only what the copy was read from.                  *)
NoForeignChangeLost == [][req' # req => \A ns \in Namespaces : Kept(ns)]_vars

(* A request that was turned down with a 4xx status has changed nothing.   *)
RefusedChangeNothing ==
    \A r \in Requests : req[r].answer \in 400..499 => ~req[r].wrote

(* Every tenant of a registry the gateway serves with can be found by its  *)
(* group, wherever it stands in the file.                                  *)
LookupFindsEach ==
    gateway = "serving" => \A i \in DOMAIN tenants :
        Lookup(tenants, tenants[i].group) = tenants[i]

(* Every request is answered, however the others, the edits and the        *)
(* failing API requests fall (a request is sent at most once, so that none *)
(* is open again and again).                                               *)
RequestsAnswered == []<>(\A r \in Requests : req[r].pc \in {"none", "done"})
==============================================================================
