------------------------------- MODULE Tenants -------------------------------
(***************************************************************************)
(* internal/tenants/tenants.go: the registry of tenants the gateway reads  *)
(* once, when it starts.  A file is a sequence of tenants, or one that     *)
(* cannot be read or parsed.  Quotas are carried along and never looked at *)
(* by the code, so they are left out.                                      *)
(***************************************************************************)
EXTENDS Naturals, Sequences

CONSTANTS NoTenant,   \* Lookup's nil
          Unreadable  \* a file that is missing or is no YAML

Empty == ""  \* Go's empty string: no group, no namespace, no role

Tenant == [group: STRING, namespace: STRING, networkRef: STRING]

(* Mutant: the check for duplicates is left out.                           *)
validateNoDuplicates(cfg) ==
    \A i \in DOMAIN cfg : Empty \notin {cfg[i].group, cfg[i].namespace, cfg[i].networkRef}

validate(cfg) ==
    \A i \in DOMAIN cfg :
        /\ Empty \notin {cfg[i].group, cfg[i].namespace, cfg[i].networkRef}
        /\ \A j \in 1..(i - 1) : cfg[j].group # cfg[i].group

(* Does Load return a Config?                                              *)
Load(file) == file # Unreadable /\ validate(file)

(* The first tenant of the file that fits, as the loops find it.           *)
FirstOf(cfg, hits) ==
    IF hits = {} THEN NoTenant
    ELSE cfg[CHOOSE i \in hits : \A j \in hits : i <= j]

Lookup(cfg, group) == FirstOf(cfg, {i \in DOMAIN cfg : cfg[i].group = group})

LookupByNamespace(cfg, namespace) ==
    FirstOf(cfg, {i \in DOMAIN cfg : cfg[i].namespace = namespace})
==============================================================================
