------------------------ MODULE DBSnapshotReconciler ------------------------
(***************************************************************************)
(* internal/controller/dbsnapshot_reconciler.go: the controller of the     *)
(* DBSnapshots of one instance, beside that instance (InstanceView), its   *)
(* guest (BackupGuest) and the users.  controller-runtime gives the        *)
(* controller one worker for all snapshots, a work queue without           *)
(* duplicates, an informer cache for snapshots and instances, and a resync *)
(* every ten hours.  A Reconcile is cut at each request it makes; the SSH  *)
(* command is cut into its start and its end.                              *)
(***************************************************************************)
EXTENDS BackupGuest

CONSTANTS Snapshots,   \* names of DBSnapshots, each created at most once
          MaxMishaps,  \* bound: crashes, failing requests, foreign writes, and
                       \* setbacks of the instance
          NoSnapshot   \* the absence of a snapshot object

ASSUME SnapshotsAssumption ==
    Nobody \notin Snapshots /\ "guest" \notin Snapshots /\ Nobody # "guest"
ASSUME NoSnapshotAssumption ==
    NoSnapshot \notin Snapshots \cup {"", "creating", "available", "failed"}
ASSUME MishapsAssumption == MaxMishaps \in Nat

VARIABLES
    phase, mgmt, secret, up, \* the instance: see InstanceView
    cachedInst,  \* the informer's copy of it: absent, not ready, or ready
    snap,        \* status.phase of each stored DBSnapshot
    cached,      \* the informer's copy of it
    current,     \* does that copy have the stored resourceVersion?
    created,     \* the names users have used so far
    queue,       \* the work queue
    pc,          \* where the worker is in Reconcile
    key,         \* the snapshot it reconciles
    mine,        \* does its local copy have the stored resourceVersion?
    mishaps,     \* what went wrong so far
    runs,        \* history: backups started for each snapshot
    backed       \* history: snapshots for which a backup was completed

instVars == <<phase, mgmt, secret, up>>
apiVars == <<snap, cached, current>>
workerVars == <<pc, key, mine>>
vars == <<instVars, cachedInst, apiVars, created, queue, workerVars, mishaps,
          runs, backed, guestVars>>

Inst == INSTANCE InstanceView

SnapshotPhases == {"", "creating", "available", "failed"}
Ended == {"available", "failed"}
PCs == {"idle", "mark", "secret", "ssh", "backup", "finish", "fail"}

InstanceOK == Inst!ViewTypeOK /\ cachedInst \in {"absent", "not ready", "ready"}
StoreOK ==
    /\ snap \in [Snapshots -> SnapshotPhases \cup {NoSnapshot}]
    /\ cached \in [Snapshots -> SnapshotPhases \cup {NoSnapshot}]
    /\ current \in [Snapshots -> BOOLEAN]
    /\ created \subseteq Snapshots
WorkerOK ==
    /\ queue \subseteq Snapshots
    /\ pc \in PCs /\ key \in Snapshots \cup {NoSnapshot} /\ mine \in BOOLEAN
    /\ pc = "idle" <=> key = NoSnapshot
HistoryOK ==
    mishaps \in 0..MaxMishaps /\ runs \in [Snapshots -> Nat] /\ backed \subseteq Snapshots
GuestOK ==
    /\ stanza \in {"none", "created", "broken"}
    /\ running \in Snapshots \cup {"guest", Nobody}
    /\ scheduled \in 0..MaxScheduled

TypeOK == InstanceOK /\ StoreOK /\ WorkerOK /\ HistoryOK /\ GuestOK

Init ==
    /\ Inst!ViewInit /\ GuestInit
    /\ cachedInst = "absent"
    /\ snap = [s \in Snapshots |-> NoSnapshot]
    /\ cached = snap
    /\ current = [s \in Snapshots |-> TRUE]
    /\ created = {} /\ queue = {}
    /\ pc = "idle" /\ key = NoSnapshot /\ mine = FALSE
    /\ mishaps = 0
    /\ runs = [s \in Snapshots |-> 0] /\ backed = {}

(* What of an instance decides over a snapshot.                            *)
Readiness ==
    IF phase = "absent" THEN "absent"
    ELSE IF phase = "available" /\ mgmt THEN "ready" ELSE "not ready"

(* Something goes wrong here, or does not.                                 *)
Mishap == mishaps < MaxMishaps /\ mishaps' = mishaps + 1
NoMishap == mishaps' = mishaps

------------------------------------------------------------------------------
(* Status().Update.  The API server takes it only from the stored version; *)
(* a write that changes nothing makes no new version.                      *)
Store(p) ==
    /\ snap' = [snap EXCEPT ![key] = p]
    /\ current' = [current EXCEPT ![key] = @ /\ snap[key] = p]
    /\ cached' = cached

Refused == UNCHANGED apiVars

(* Mutants: not checked against the stored version; its error ignored.     *)
UpdateUnchecked(p, ok, error) ==
    \/ snap[key] # NoSnapshot /\ Store(p) /\ ok /\ NoMishap
    \/ mine /\ Store(p) /\ error /\ Mishap
    \/ snap[key] = NoSnapshot /\ Refused /\ error /\ NoMishap
    \/ mine /\ Refused /\ error /\ Mishap

(* The write of phase p, then `ok' or `error'.  It can also be refused for *)
(* another reason, or take effect with its answer lost.                    *)
Update(p, ok, error) ==
    \/ mine /\ Store(p) /\ ok /\ NoMishap
    \/ mine /\ Store(p) /\ error /\ Mishap
    \/ ~mine /\ Refused /\ error /\ NoMishap
    \/ mine /\ Refused /\ error /\ Mishap

Goto(label) == pc' = label /\ UNCHANGED <<key, mine, queue>>

(* Reconcile returns; `again' says whether with an error.                  *)
Return(again) ==
    /\ pc' = "idle" /\ key' = NoSnapshot /\ mine' = FALSE
    /\ queue' = IF again THEN queue \cup {key} ELSE queue

------------------------------------------------------------------------------
Dequeue(s) == pc = "idle" /\ s \in queue

Begin(s, label) ==
    /\ pc' = label /\ key' = s /\ mine' = current[s] /\ queue' = queue \ {s}
    /\ UNCHANGED <<instVars, cachedInst, apiVars, created, mishaps, runs, backed,
                   guestVars>>

Live(s) == cached[s] \notin Ended \cup {NoSnapshot}

(* Gone, or in a terminal phase: nothing to do.                            *)
Skip(s) ==
    /\ Dequeue(s) /\ ~Live(s)
    /\ queue' = queue \ {s}
    /\ UNCHANGED <<instVars, cachedInst, apiVars, created, workerVars, mishaps,
                   runs, backed, guestVars>>

(* Mutant: a missing instance is waited for.                               *)
InstanceNotFoundAwaited(s) ==
    Dequeue(s) /\ Live(s) /\ cachedInst = "absent" /\ UNCHANGED vars

(* No such instance.                                                       *)
InstanceNotFound(s) ==
    Dequeue(s) /\ Live(s) /\ cachedInst = "absent" /\ Begin(s, "fail")

(* The instance is not available, or has no management address: come back  *)
(* in 30 seconds.                                                          *)
Wait(s) ==
    /\ Dequeue(s) /\ Live(s) /\ cachedInst = "not ready"
    /\ UNCHANGED vars

Proceed(s) == Dequeue(s) /\ Live(s) /\ cachedInst = "ready" /\ Begin(s, "mark")

(* Mutant: the error of the write is dropped.                              *)
MarkAnyway ==
    /\ pc = "mark"
    /\ Update("creating", Goto("secret"), Goto("secret"))
    /\ UNCHANGED <<instVars, cachedInst, created, runs, backed, guestVars>>

(* status.phase = "creating" before anything is done.                      *)
Mark ==
    /\ pc = "mark"
    /\ Update("creating", Goto("secret"), Return(TRUE))
    /\ UNCHANGED <<instVars, cachedInst, created, runs, backed, guestVars>>

(* GetSecret: what it finds, or an error of any kind.                      *)
GetSecret(found, error) ==
    \/ secret /\ found /\ NoMishap
    \/ ~secret /\ error /\ NoMishap
    \/ error /\ Mishap

(* Every error is taken for a missing key, and is final.                   *)
ReadSecret ==
    /\ pc = "secret"
    /\ GetSecret(Goto("ssh"), Goto("fail"))
    /\ UNCHANGED <<instVars, cachedInst, apiVars, created, runs, backed, guestVars>>

(* Mutant: the command is taken for done as soon as it is started.         *)
SSHExecUnread ==
    /\ pc = "ssh"
    /\ IF up /\ stanza = "created" /\ running = Nobody
       THEN /\ running' = key /\ runs' = [runs EXCEPT ![key] = @ + 1]
            /\ Goto("finish") /\ NoMishap
       ELSE Goto("fail") /\ NoMishap /\ UNCHANGED <<running, runs>>
    /\ UNCHANGED <<instVars, cachedInst, apiVars, created, backed, stanza, scheduled>>

(* SSHExec: pgBackRest starts, if the VM can be reached, the stanza is     *)
(* there and no other backup runs.                                         *)
SSHExec ==
    /\ pc = "ssh"
    /\ IF up /\ stanza = "created" /\ running = Nobody
       THEN \/ /\ running' = key /\ runs' = [runs EXCEPT ![key] = @ + 1]
               /\ Goto("backup") /\ NoMishap
            \/ Goto("fail") /\ Mishap /\ UNCHANGED <<running, runs>>
       ELSE Goto("fail") /\ NoMishap /\ UNCHANGED <<running, runs>>
    /\ UNCHANGED <<instVars, cachedInst, apiVars, created, backed, stanza, scheduled>>

(* The session ends with an error while the command runs: the connection   *)
(* broke.  What it started may go on without it.                           *)
Disconnect ==
    /\ pc = "backup" /\ Mishap
    /\ running' \in {running, Nobody}
    /\ Goto("fail")
    /\ UNCHANGED <<instVars, cachedInst, apiVars, created, runs, backed, stanza,
                   scheduled>>

(* Mutants: a constant of the wrong type; the error of the command is not  *)
(* looked at.                                                              *)
FinishWrongConstant ==
    /\ pc = "finish"
    /\ Update("Available", Return(FALSE), Return(TRUE))
    /\ UNCHANGED <<instVars, cachedInst, created, runs, backed, guestVars>>

FinishUnread ==
    /\ pc \in {"finish", "fail"}
    /\ Update("available", Return(FALSE), Return(TRUE))
    /\ UNCHANGED <<instVars, cachedInst, created, runs, backed, guestVars>>

(* The backup succeeded.                                                   *)
Finish ==
    /\ pc = "finish"
    /\ Update("available", Return(FALSE), Return(TRUE))
    /\ UNCHANGED <<instVars, cachedInst, created, runs, backed, guestVars>>

(* Mutant: the error is returned, so that the snapshot is tried again.     *)
FailRetries ==
    /\ pc = "fail" /\ Refused /\ NoMishap /\ Return(TRUE)
    /\ UNCHANGED <<instVars, cachedInst, created, runs, backed, guestVars>>

(* fail: the error of the write is dropped, and nobody is asked to come    *)
(* back.                                                                   *)
Fail ==
    /\ pc = "fail"
    /\ Update("failed", Return(FALSE), Return(FALSE))
    /\ UNCHANGED <<instVars, cachedInst, created, runs, backed, guestVars>>

Take(s) == Skip(s) \/ InstanceNotFound(s) \/ Proceed(s)
Handle == Mark \/ ReadSecret \/ SSHExec \/ Disconnect \/ Finish \/ Fail

------------------------------------------------------------------------------
(* The watches and the resync.                                             *)
Sync(s) ==
    /\ ~current[s]
    /\ cached' = [cached EXCEPT ![s] = snap[s]]
    /\ current' = [current EXCEPT ![s] = TRUE]
    /\ queue' = queue \cup {s}
    /\ UNCHANGED <<instVars, cachedInst, snap, created, workerVars, mishaps, runs,
                   backed, guestVars>>

SyncInstance ==
    /\ cachedInst # Readiness /\ cachedInst' = Readiness
    /\ UNCHANGED <<instVars, apiVars, created, queue, workerVars, mishaps, runs,
                   backed, guestVars>>

Resync(s) ==
    /\ cached[s] # NoSnapshot /\ s \notin queue
    /\ queue' = queue \cup {s}
    /\ UNCHANGED <<instVars, cachedInst, apiVars, created, workerVars, mishaps,
                   runs, backed, guestVars>>

(* The controller dies; a new one lists what is stored.                    *)
Crash ==
    /\ Mishap
    /\ pc' = "idle" /\ key' = NoSnapshot /\ mine' = FALSE
    /\ cached' = snap /\ current' = [s \in Snapshots |-> TRUE]
    /\ queue' = {s \in Snapshots : snap[s] # NoSnapshot}
    /\ cachedInst' = Readiness
    /\ running' \in IF pc = "backup" THEN {running, Nobody} ELSE {running}
    /\ UNCHANGED <<instVars, snap, created, runs, backed, stanza, scheduled>>

------------------------------------------------------------------------------
(* The users.  Any write of theirs makes a new version.                    *)
UserWrites(s, p) ==
    /\ snap' = [snap EXCEPT ![s] = p]
    /\ current' = [current EXCEPT ![s] = FALSE]
    /\ mine' = (mine /\ key # s)
    /\ UNCHANGED <<instVars, cachedInst, cached, queue, pc, key, runs, backed,
                   guestVars>>

CreateSnapshot(s) ==
    /\ s \notin created /\ created' = created \cup {s}
    /\ UserWrites(s, "") /\ NoMishap

(* An annotation or the spec.                                              *)
EditSnapshot(s) ==
    /\ snap[s] # NoSnapshot /\ Mishap
    /\ UserWrites(s, snap[s]) /\ created' = created

DeleteSnapshot(s) ==
    /\ snap[s] # NoSnapshot /\ Mishap
    /\ UserWrites(s, NoSnapshot) /\ created' = created

------------------------------------------------------------------------------
(* An instance goes, or an available one is stopped or loses its Secret or *)
(* its VM.                                                                 *)
Setback ==
    \/ phase # "absent" /\ phase' = "absent"
    \/ phase = "available" /\ (phase' # phase \/ (secret /\ ~secret') \/ (up /\ ~up'))

(* The instance, and a backup of a VM that goes down.  A new object of the *)
(* name has a new VM, unless the old one was left behind.                  *)
InstanceStep ==
    /\ Inst!ViewNext
    /\ IF Setback THEN Mishap ELSE NoMishap
    /\ IF up /\ ~up'
       THEN running' = Nobody /\ (IF pc = "backup" THEN Goto("fail")
                                  ELSE UNCHANGED <<workerVars, queue>>)
       ELSE UNCHANGED <<running, workerVars, queue>>
    /\ stanza' \in IF phase = "absent" /\ phase' # phase /\ ~up THEN {stanza, "none"}
                  ELSE {stanza}
    /\ UNCHANGED <<cachedInst, apiVars, created, runs, backed, scheduled>>

GuestStep ==
    /\ up /\ (Bootstrap \/ Scheduled)
    /\ UNCHANGED <<instVars, cachedInst, apiVars, created, queue, workerVars,
                   mishaps, runs, backed>>

(* The session of the running backup: the worker waits for that one, not   *)
(* for one that an earlier session left behind.                            *)
Attached == pc = "backup"

BackupEnds(ok) ==
    /\ running # Nobody /\ running' = Nobody
    /\ backed' = IF ok THEN backed \cup ({running} \cap Snapshots) ELSE backed
    /\ IF Attached THEN Goto(IF ok THEN "finish" ELSE "fail")
       ELSE UNCHANGED <<workerVars, queue>>
    /\ UNCHANGED <<instVars, cachedInst, apiVars, created, mishaps, runs, stanza,
                   scheduled>>

BackupStep == BackupEnds(TRUE) \/ BackupEnds(FALSE)

Next ==
    \/ \E s \in Snapshots :
         \/ Take(s) \/ Wait(s) \/ Sync(s) \/ Resync(s)
         \/ CreateSnapshot(s) \/ EditSnapshot(s) \/ DeleteSnapshot(s)
    \/ Handle \/ SyncInstance \/ Crash
    \/ InstanceStep \/ GuestStep \/ BackupStep

Spec == Init /\ [][Next]_vars

(* The queue is served, the requests are answered, the watches deliver,    *)
(* the resync comes round, and a backup ends one way or the other (Go's    *)
(* TCP keep-alive ends the session of a VM that is gone).  Nothing is      *)
(* assumed of the users and of the instance.                               *)
Fairness ==
    /\ \A s \in Snapshots : WF_vars(Take(s)) /\ WF_vars(Sync(s)) /\ WF_vars(Resync(s))
    /\ WF_vars(Handle) /\ WF_vars(SyncInstance) /\ WF_vars(BackupStep)

FairSpec == Spec /\ Fairness

------------------------------------------------------------------------------
(* A snapshot says available only if a backup that was started for it ran  *)
(* to its end, however often the worker was killed, its writes refused or  *)
(* its session cut, and whatever else ran on the VM.                       *)
AvailableIsBackedUp ==
    \A s \in Snapshots : snap[s] = "available" => s \in backed

(* Every repetition of a snapshot's backup is due to something that went   *)
(* wrong: a snapshot is backed up at most once more than there were        *)
(* crashes, failing requests, cut sessions, writes and deletions of        *)
(* snapshots by users, and setbacks of the instance.                       *)
BackupsAccountedFor == \A s \in Snapshots : runs[s] <= 1 + mishaps

(* No backup is started for a snapshot that has ended, although the worker *)
(* decides by a cached copy that may still say creating.                   *)
NoBackupAfterEnd ==
    [][\A s \in Snapshots : runs'[s] # runs[s] =>
         snap[s] \in {"creating", NoSnapshot}]_vars

(* The stored phases follow SnapshotLifecycle: whatever races, repeats or   *)
(* is lost, an ended snapshot stays as it is, and no step moves two.       *)
LifePhase(p) ==
    IF p = NoSnapshot THEN "absent" ELSE IF p = "" THEN "new" ELSE p

LifePhases == [s \in Snapshots |-> LifePhase(snap[s])]

Life == INSTANCE SnapshotLifecycle WITH phase <- LifePhases

FollowsSnapshotLifecycle == Life!Spec

(* A snapshot does not stay in creating for ever: once its instance is     *)
(* available for good, or is gone for good, every snapshot ends, also when *)
(* fail's only write was refused and nobody was asked to come back.  (A    *)
(* snapshot is created at most once, so none is open again and again.)     *)
SnapshotsEnd ==
    <>[](Readiness # "not ready") =>
        []<>(\A s \in Snapshots : snap[s] \notin {"", "creating"})
=============================================================================
