------------------------------ MODULE MCGateway ------------------------------
(* Small inputs for the runs of Gateway.                                   *)
EXTENDS GatewayInvariant

CONSTANTS k1, k2

(* An operator's value with a trailing blank, and one that is no role.            *)
MCTrimSpace ==
    [v \in Values |-> IF v = "operator " THEN "operator" ELSE v]

Data(v1, v2) == [k \in Keys |-> IF k = k1 THEN v1 ELSE v2]
OneKey == Data("admin", NoValue)

(* A key is added, a key takes another's place, roles are lowered while the *)
(* other key's role is mistyped or raised, and there is no Secret.         *)
EditedSecrets ==
    {Data("admin", "operator "), Data(NoValue, "admin"), Data("operator ", "root"),
     Data("viewer", "admin"), NoSecret}

In(method, path, body) == [method |-> method, path |-> path, body |-> body]

(* One request for every handler, with each kind of body for a creation.   *)
Calls ==
    {In("GET", <<"dbinstances">>, ""), In("GET", <<"dbinstances", "db">>, ""),
     In("DELETE", <<"dbinstances", "db">>, ""),
     In("POST", <<"dbinstances", "db", "start">>, ""),
     In("POST", <<"dbinstances", "db", "stop">>, "")} \cup
    {In("POST", <<"dbinstances">>, b) : b \in {"", "other", "unnamed"}}

(* ... and one for every way not to reach a handler.                       *)
OddCalls ==
    {In("GET", <<"healthz">>, ""), In("PUT", <<"dbinstances">>, ""),
     In("POST", <<"dbinstances", "db", "resize">>, "")}

AllCalls == Calls \cup OddCalls

ListCall == {In("GET", <<"dbinstances">>, "")}

MCTenant(g) == [group |-> g, namespace |-> "default", networkRef |-> "iaas/net"]

Files ==
    {Unreadable, <<MCTenant("a"), MCTenant("b")>>, <<MCTenant("")>>,
     <<MCTenant("a"), [MCTenant("a") EXCEPT !.namespace = "other"]>>}
==============================================================================
