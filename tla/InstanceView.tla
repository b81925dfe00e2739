---------------------------- MODULE InstanceView ----------------------------
(***************************************************************************)
(* What other components may rely on when they look at one DBInstance from *)
(* outside: its status.phase and managementAddress as stored, whether the  *)
(* credentials Secret is there, and whether its VM is up.  The instance    *)
(* controller implements it (DBInstanceReconciler!ShowsInstanceView); the  *)
(* snapshot controller is built on it.                                     *)
(***************************************************************************)
VARIABLES phase,   \* "absent", "available", or "pending" for all other phases
          mgmt,    \* is status.managementAddress set?
          secret,  \* does the credentials Secret exist?
          up       \* is the VM up?

viewVars == <<phase, mgmt, secret, up>>

ViewTypeOK ==
    /\ phase \in {"absent", "pending", "available"}
    /\ mgmt \in BOOLEAN /\ secret \in BOOLEAN /\ up \in BOOLEAN

ViewInit == phase = "absent" /\ mgmt = FALSE /\ secret = FALSE /\ up = FALSE

(* A new object has the zero status.                                       *)
Appear ==
    /\ phase = "absent" /\ phase' = "pending" /\ mgmt' = FALSE
    /\ UNCHANGED <<secret, up>>

(* Every status write.  An instance becomes available only while its       *)
(* Secret is there, and a management address once set is never withdrawn.  *)
WriteStatus ==
    /\ phase # "absent" /\ phase' \in {"pending", "available"}
    /\ phase' = "available" => phase = "available" \/ secret
    /\ mgmt' \in BOOLEAN /\ (mgmt => mgmt')
    /\ UNCHANGED <<secret, up>>

Vanish ==
    /\ phase # "absent" /\ phase' = "absent" /\ mgmt' = FALSE
    /\ UNCHANGED <<secret, up>>

(* The Secret is made before the instance is ever available, and may go in *)
(* a teardown whose announcement (phase deleting) did not get through.     *)
MakeSecret ==
    phase = "pending" /\ ~secret /\ secret' = TRUE /\ UNCHANGED <<phase, mgmt, up>>

DropSecret == secret /\ secret' = FALSE /\ UNCHANGED <<phase, mgmt, up>>

Power == up' = ~up /\ UNCHANGED <<phase, mgmt, secret>>

ViewNext == Appear \/ WriteStatus \/ Vanish \/ MakeSecret \/ DropSecret \/ Power

ViewSpec == ViewInit /\ [][ViewNext]_viewVars
=============================================================================
