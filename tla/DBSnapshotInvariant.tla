------------------------ MODULE DBSnapshotInvariant ------------------------
(***************************************************************************)
(* The inductive invariant of the snapshot controller.                     *)
(***************************************************************************)
EXTENDS DBSnapshotReconciler

Open == {"", "creating"}

(* A copy that has the stored version shows the stored phase; names are    *)
(* used once.                                                              *)
Copies ==
    \A s \in Snapshots :
        /\ current[s] => cached[s] = snap[s]
        /\ snap[s] # NoSnapshot \/ cached[s] # NoSnapshot => s \in created

(* What the worker may rely on.  A snapshot it has marked is still         *)
(* creating or is gone, whatever users did to it meanwhile: ended phases   *)
(* are written by the worker only.                                         *)
Working ==
    pc # "idle" =>
        /\ key \in created
        /\ mine => snap[key] \in Open
        /\ pc \in {"secret", "ssh", "backup", "finish"} =>
              snap[key] \in {"creating", NoSnapshot}

(* The worker waits for its own backup, and what it calls available was    *)
(* backed up.                                                              *)
Backups ==
    /\ pc = "backup" => running = key /\ up /\ stanza = "created"
    /\ pc = "finish" => key \in backed
    /\ AvailableIsBackedUp

(* The worker has started its backup, and can still say how it ended.      *)
Decided(s) == key = s /\ mine /\ pc \in {"backup", "finish", "fail"}

(* A mishap is left for every backup of a snapshot that may be backed up   *)
(* once more.                                                              *)
Account ==
    /\ BackupsAccountedFor
    /\ \A s \in Snapshots \ created : runs[s] = 0
    /\ \A s \in Snapshots : snap[s] \in Open /\ ~Decided(s) => runs[s] <= mishaps
    /\ pc \in {"secret", "ssh"} /\ ~mine => runs[key] + 1 <= mishaps

SInv == TypeOK /\ Copies /\ Working /\ Backups /\ Account
=============================================================================
