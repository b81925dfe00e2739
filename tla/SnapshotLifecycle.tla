------------------------- MODULE SnapshotLifecycle -------------------------
(***************************************************************************)
(* What the snapshot controller promises about each DBSnapshot: it is      *)
(* marked as creating at most once, ends as available or failed, available *)
(* only from creating, and is never touched again then                     *)
(* (dbsnapshot_reconciler.go: "Already in a terminal phase").              *)
(***************************************************************************)
CONSTANT Snapshots

VARIABLE phase  \* of each snapshot

Successors ==
    [absent |-> {"new"}, new |-> {"creating", "failed"},
     creating |-> {"available", "failed"}, available |-> {}, failed |-> {}]

Init == phase = [s \in Snapshots |-> "absent"]

Advance(s) ==
    \E p \in Successors[phase[s]] : phase' = [phase EXCEPT ![s] = p]

Remove(s) ==
    phase[s] # "absent" /\ phase' = [phase EXCEPT ![s] = "absent"]

Next == \E s \in Snapshots : Advance(s) \/ Remove(s)

Spec == Init /\ [][Next]_phase
=============================================================================
