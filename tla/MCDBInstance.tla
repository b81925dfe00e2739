---------------------------- MODULE MCDBInstance ----------------------------
(* The specs users write in the runs of DBInstanceReconciler.              *)
EXTENDS DBInstanceInvariant

CONSTANTS small, large, bogus, s10, s20

Plain == [class |-> small, storage |-> s10, running |-> "nil",
          deletionProtection |-> FALSE, networkRef |-> FALSE,
          vpcPeering |-> FALSE]

(* A direct-NAD instance, and a larger, protected VPC one with peering.    *)
ProtectedSpecs ==
    {[Plain EXCEPT !.networkRef = TRUE],
     [Plain EXCEPT !.class = large, !.storage = s20, !.vpcPeering = TRUE,
                   !.deletionProtection = TRUE]}

(* The stop/start button.                                                  *)
PowerSpecs == {[Plain EXCEPT !.running = r] : r \in {"true", "false"}}

(* Resizes, one of them to a class that does not exist.                    *)
ResizeSpecs == {Plain, [Plain EXCEPT !.class = large],
                [Plain EXCEPT !.storage = s20], [Plain EXCEPT !.class = bogus]}

(* Deletion protection on, and off together with a class that is none.     *)
ProtectionSpecs ==
    {[Plain EXCEPT !.deletionProtection = TRUE], [Plain EXCEPT !.class = bogus]}

OneSpec == {Plain}
=============================================================================
