-------------------------- MODULE GatewayInvariant --------------------------
(***************************************************************************)
(* The inductive invariant of the gateway.                                 *)
(***************************************************************************)
EXTENDS Gateway

(* Every key map that can be read or is in place is a version of the       *)
(* Secret.                                                                 *)
Versions ==
    /\ {ValidKeys(secret), ValidKeys(cachedSecret)} \subseteq versions
    /\ keys \in versions \cup {[k \in Keys |-> Empty]}

(* So is the one that a request has read and not yet stored.               *)
Loaded(q) == q.pc = "store" => q.loaded \in versions

(* A request is served under a role of its key.                            *)
Authentic(q) ==
    /\ q.pc \notin {"none", "done"} => q.token \in Keys
    /\ q.pc \in {"handle", "update"} =>
          q.role \in Roles /\ \E v \in versions : v[q.token] = q.role
    /\ q.pc = "update" =>
          /\ q.op \in {"start", "stop"} /\ q.role \in {"admin", "operator"}
          /\ q.copy \in DBInstance

(* Where a key that was valid all the time can be found.                   *)
Findable(q) ==
    q.steady =>
        /\ q.pc \in {"lookup", "load", "store", "recheck"} =>
              ValidKeys(cachedSecret)[q.token] # Empty
        /\ q.pc = "store" => q.loaded[q.token] # Empty
        /\ q.pc = "recheck" => q.undercut \/ keys[q.token] # Empty
        /\ q.answer = 401 => q.undercut

(* Whoever changed an object was told so, or that something failed.        *)
Told(q) == q.wrote => q.answer \in {202, 500}

Sound(q) == Loaded(q) /\ Authentic(q) /\ Findable(q) /\ Told(q)

(* Without a valid tenants file nothing is served.                         *)
Tenanted == gateway = "serving" => Load(tenants)

GInv == TypeOK /\ Versions /\ (\A r \in Requests : Sound(req[r])) /\ Tenanted
=============================================================================
