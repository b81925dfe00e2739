-------------------------- MODULE DBSnapshotProofs --------------------------
(***************************************************************************)
(* Theorems about the snapshot controller.                                 *)
(***************************************************************************)
EXTENDS DBSnapshotInvariant, TLAPS

(* A mishap counts one, and nothing else is counted.                       *)
LEMMA MishapSteps ==
    ASSUME HistoryOK, Mishap \/ NoMishap
    PROVE  /\ mishaps \in Nat /\ mishaps' \in 0..MaxMishaps /\ mishaps' \in Nat
           /\ mishaps <= mishaps' /\ (Mishap => mishaps' = mishaps + 1)
BY MishapsAssumption DEF HistoryOK, Mishap, NoMishap

(* Account is kept by a step that starts no backup, if no snapshot gets    *)
(* open again or is given up by the worker but for a mishap.               *)
LEMMA AccountKept ==
    ASSUME HistoryOK, WorkerOK, Account, Mishap \/ NoMishap,
           runs' = runs, created \subseteq created',
           \A x \in Snapshots : (snap[x] \in Open /\ ~Decided(x))' =>
               \/ snap[x] \in Open /\ (~Decided(x) \/ Mishap)
               \/ x \notin created,
           (pc \in {"secret", "ssh"} /\ ~mine)' =>
               /\ key' \in Snapshots
               /\ \/ pc \in {"secret", "ssh"} /\ ~mine /\ key' = key
                  \/ Mishap /\ snap[key'] \in Open /\ ~Decided(key')
    PROVE  Account'
<1>1. BackupsAccountedFor'
  <2>1. SUFFICES ASSUME NEW x \in Snapshots PROVE runs[x] <= 1 + mishaps'
    BY <2>1 DEF BackupsAccountedFor
  <2>2. runs[x] \in Nat /\ runs[x] <= 1 + mishaps
    BY DEF HistoryOK, Account, BackupsAccountedFor
  <2>3. QED  BY <2>2, MishapSteps
<1>2. \A x \in Snapshots \ created' : runs'[x] = 0
  BY DEF Account
<1>3. ASSUME NEW x \in Snapshots, (snap[x] \in Open /\ ~Decided(x))'
      PROVE  runs'[x] <= mishaps'
  <2>1. runs[x] \in Nat /\ runs[x] <= 1 + mishaps
    BY DEF HistoryOK, Account, BackupsAccountedFor
  <2>2. CASE snap[x] \in Open /\ ~Decided(x)
    <3>1. runs[x] <= mishaps  BY <2>2 DEF Account
    <3>2. QED  BY <2>1, <3>1, MishapSteps
  <2>3. CASE Mishap
    BY <2>1, <2>3, MishapSteps
  <2>4. CASE x \notin created
    <3>1. runs[x] = 0  BY <2>4 DEF Account
    <3>2. QED  BY <3>1, MishapSteps
  <2>5. QED  BY <1>3, <2>2, <2>3, <2>4
<1>4. ASSUME (pc \in {"secret", "ssh"} /\ ~mine)'
      PROVE  runs'[key'] + 1 <= mishaps'
  <2>0. runs[key'] \in Nat  BY <1>4 DEF HistoryOK
  <2>1. CASE pc \in {"secret", "ssh"} /\ ~mine /\ key' = key
    <3>1. runs[key] + 1 <= mishaps  BY <2>1 DEF Account
    <3>2. QED  BY <2>0, <2>1, <3>1, MishapSteps
  <2>2. CASE Mishap /\ snap[key'] \in Open /\ ~Decided(key')
    <3>1. runs[key'] <= mishaps  BY <1>4, <2>2 DEF Account
    <3>2. QED  BY <2>0, <2>2, <3>1, MishapSteps
  <2>3. QED  BY <1>4, <2>1, <2>2
<1>5. QED  BY <1>1, <1>2, <1>3, <1>4 DEF Account

(* Steps that change nothing but the queue and the copy of the instance.   *)
LEMMA QuietKeeps ==
    ASSUME SInv, queue' \subseteq Snapshots, cachedInst' \in {"absent", "not ready", "ready"},
           UNCHANGED <<instVars, apiVars, created, workerVars, mishaps, runs, backed,
                       guestVars>>
    PROVE  SInv'
<1>1. TypeOK'
  BY DEF SInv, TypeOK, InstanceOK, StoreOK, WorkerOK, HistoryOK, GuestOK,
     Inst!ViewTypeOK, instVars, apiVars, workerVars, guestVars
<1>2. Copies' /\ Working' /\ Backups'
  BY DEF SInv, Copies, Working, Backups, AvailableIsBackedUp, instVars, apiVars,
     workerVars, guestVars
<1>3. Account'
  BY DEF SInv, Account, BackupsAccountedFor, Decided, apiVars, workerVars
<1>4. QED  BY <1>1, <1>2, <1>3 DEF SInv

LEMMA SkipKeeps ==
    ASSUME SInv, NEW s \in Snapshots, Skip(s) \/ Resync(s) \/ SyncInstance
    PROVE  SInv'
<1>1. queue' \subseteq Snapshots
  BY DEF SInv, TypeOK, WorkerOK, Skip, Resync, SyncInstance
<1>2. cachedInst' \in {"absent", "not ready", "ready"}
  BY DEF SInv, TypeOK, InstanceOK, Skip, Resync, SyncInstance, Readiness
<1>3. QED  BY <1>1, <1>2, QuietKeeps DEF Skip, Resync, SyncInstance

LEMMA BeginKeeps ==
    ASSUME SInv, NEW s \in Snapshots, InstanceNotFound(s) \/ Proceed(s)
    PROVE  SInv'
<1>1. InstanceOK'
  BY DEF SInv, TypeOK, InstanceNotFound, Proceed, Begin, Dequeue, Live, Ended,
     instVars, apiVars, guestVars, InstanceOK, Inst!ViewTypeOK
<1>2. StoreOK'
  BY NoSnapshotAssumption DEF SInv, TypeOK, InstanceNotFound, Proceed, Begin,
     Dequeue, Live, Ended, instVars, apiVars, guestVars, StoreOK, WorkerOK,
     PCs, SnapshotPhases
<1>3. WorkerOK'
  BY NoSnapshotAssumption DEF SInv, TypeOK, InstanceNotFound, Proceed, Begin,
     Dequeue, Live, Ended, instVars, apiVars, guestVars, WorkerOK, StoreOK,
     PCs
<1>4. HistoryOK'
  BY MishapsAssumption DEF SInv, TypeOK, InstanceNotFound, Proceed, Begin,
     Dequeue, Live, Ended, instVars, apiVars, guestVars, HistoryOK, WorkerOK,
     StoreOK, GuestOK, PCs
<1>5. GuestOK'
  BY ScheduledAssumption DEF SInv, TypeOK, InstanceNotFound, Proceed, Begin,
     Dequeue, Live, Ended, instVars, apiVars, guestVars, GuestOK, WorkerOK,
     PCs
<1>6. Copies'
  BY DEF SInv, TypeOK, InstanceNotFound, Proceed, Begin, Dequeue, Live, Ended,
     instVars, apiVars, guestVars, StoreOK, WorkerOK, PCs, Copies, Working,
     SnapshotPhases
<1>7. Working'
  BY NoSnapshotAssumption DEF SInv, TypeOK, InstanceNotFound, Proceed, Begin,
     Dequeue, Live, Ended, instVars, apiVars, guestVars, StoreOK, WorkerOK,
     PCs, SnapshotPhases, Copies, Working, Open
<1>8. Backups'
  BY SnapshotsAssumption, NoSnapshotAssumption DEF SInv, TypeOK,
     InstanceNotFound, Proceed, Begin, Dequeue, Live, Ended, instVars,
     apiVars, guestVars, StoreOK, WorkerOK, GuestOK, PCs, Working, Backups,
     AvailableIsBackedUp
<1>9. Mishap \/ NoMishap
  BY DEF NoMishap, InstanceNotFound, Proceed, Begin, Dequeue, Live, Ended,
     instVars, apiVars, guestVars
<1>10. runs' = runs /\ created \subseteq created'
  BY DEF InstanceNotFound, Proceed, Begin, Dequeue, Live, Ended, instVars,
     apiVars, guestVars
<1>11. \A x \in Snapshots : (snap[x] \in Open /\ ~Decided(x))' =>
           \/ snap[x] \in Open /\ (~Decided(x) \/ Mishap)
           \/ x \notin created
  BY NoSnapshotAssumption DEF SInv, TypeOK, InstanceNotFound, Proceed, Begin,
     Dequeue, Live, Ended, instVars, apiVars, guestVars, StoreOK, WorkerOK,
     PCs, Working, Decided, Open, Copies
<1>12. (pc \in {"secret", "ssh"} /\ ~mine)' =>
           /\ key' \in Snapshots
           /\ \/ pc \in {"secret", "ssh"} /\ ~mine /\ key' = key
              \/ Mishap /\ snap[key'] \in Open /\ ~Decided(key')
  BY NoSnapshotAssumption DEF SInv, TypeOK, InstanceNotFound, Proceed, Begin,
     Dequeue, Live, Ended, instVars, apiVars, guestVars, StoreOK, WorkerOK,
     PCs, Working, Decided, Open
<1>13. Account'
  BY <1>9, <1>10, <1>11, <1>12, AccountKept DEF SInv, TypeOK
<1>14. QED
  BY <1>1, <1>2, <1>3, <1>4, <1>5, <1>6, <1>7, <1>8, <1>13 DEF SInv, TypeOK

LEMMA MarkKeeps ==
    ASSUME SInv, Mark
    PROVE  SInv'
<1>1. InstanceOK'
  BY DEF SInv, TypeOK, Mark, Update, Store, Refused, Goto, Return, Mishap,
     NoMishap, instVars, apiVars, guestVars, InstanceOK, Inst!ViewTypeOK
<1>2. StoreOK'
  BY NoSnapshotAssumption DEF SInv, TypeOK, Mark, Update, Store, Refused,
     Goto, Return, Mishap, NoMishap, instVars, apiVars, guestVars, StoreOK,
     WorkerOK, PCs, SnapshotPhases
<1>3. WorkerOK'
  BY NoSnapshotAssumption DEF SInv, TypeOK, Mark, Update, Store, Refused,
     Goto, Return, Mishap, NoMishap, instVars, apiVars, guestVars, WorkerOK,
     StoreOK, PCs
<1>4. HistoryOK'
  BY MishapsAssumption DEF SInv, TypeOK, Mark, Update, Store, Refused, Goto,
     Return, Mishap, NoMishap, instVars, apiVars, guestVars, HistoryOK,
     WorkerOK, StoreOK, GuestOK, PCs
<1>5. GuestOK'
  BY ScheduledAssumption DEF SInv, TypeOK, Mark, Update, Store, Refused, Goto,
     Return, Mishap, NoMishap, instVars, apiVars, guestVars, GuestOK,
     WorkerOK, PCs
<1>6. Copies'
  BY DEF SInv, TypeOK, Mark, Update, Store, Refused, Goto, Return, Mishap,
     NoMishap, instVars, apiVars, guestVars, StoreOK, WorkerOK, PCs, Copies,
     Working, SnapshotPhases
<1>7. Working'
  BY NoSnapshotAssumption DEF SInv, TypeOK, Mark, Update, Store, Refused,
     Goto, Return, Mishap, NoMishap, instVars, apiVars, guestVars, StoreOK,
     WorkerOK, PCs, SnapshotPhases, Copies, Working, Open
<1>8. Backups'
  BY SnapshotsAssumption, NoSnapshotAssumption DEF SInv, TypeOK, Mark, Update,
     Store, Refused, Goto, Return, Mishap, NoMishap, instVars, apiVars,
     guestVars, StoreOK, WorkerOK, GuestOK, PCs, Working, Backups,
     AvailableIsBackedUp
<1>9. Mishap \/ NoMishap
  BY DEF NoMishap, Mark, Update, Store, Refused, Goto, Return, NoMishap,
     instVars, apiVars, guestVars
<1>10. runs' = runs /\ created \subseteq created'
  BY DEF Mark, Update, Store, Refused, Goto, Return, Mishap, NoMishap,
     instVars, apiVars, guestVars
<1>11. \A x \in Snapshots : (snap[x] \in Open /\ ~Decided(x))' =>
           \/ snap[x] \in Open /\ (~Decided(x) \/ Mishap)
           \/ x \notin created
  BY NoSnapshotAssumption DEF SInv, TypeOK, Mark, Update, Store, Refused,
     Goto, Return, NoMishap, instVars, apiVars, guestVars, StoreOK, WorkerOK,
     PCs, Working, Decided, Open, Copies
<1>12. (pc \in {"secret", "ssh"} /\ ~mine)' =>
           /\ key' \in Snapshots
           /\ \/ pc \in {"secret", "ssh"} /\ ~mine /\ key' = key
              \/ Mishap /\ snap[key'] \in Open /\ ~Decided(key')
  BY NoSnapshotAssumption DEF SInv, TypeOK, Mark, Update, Store, Refused,
     Goto, Return, NoMishap, instVars, apiVars, guestVars, StoreOK, WorkerOK,
     PCs, Working, Decided, Open
<1>13. Account'
  BY <1>9, <1>10, <1>11, <1>12, AccountKept DEF SInv, TypeOK
<1>14. QED
  BY <1>1, <1>2, <1>3, <1>4, <1>5, <1>6, <1>7, <1>8, <1>13 DEF SInv, TypeOK

LEMMA ReadSecretKeeps ==
    ASSUME SInv, ReadSecret
    PROVE  SInv'
<1>1. InstanceOK'
  BY DEF SInv, TypeOK, ReadSecret, GetSecret, Goto, Mishap, NoMishap,
     instVars, apiVars, guestVars, InstanceOK, Inst!ViewTypeOK
<1>2. StoreOK'
  BY NoSnapshotAssumption DEF SInv, TypeOK, ReadSecret, GetSecret, Goto,
     Mishap, NoMishap, instVars, apiVars, guestVars, StoreOK, WorkerOK, PCs,
     SnapshotPhases
<1>3. WorkerOK'
  BY NoSnapshotAssumption DEF SInv, TypeOK, ReadSecret, GetSecret, Goto,
     Mishap, NoMishap, instVars, apiVars, guestVars, WorkerOK, StoreOK, PCs
<1>4. HistoryOK'
  BY MishapsAssumption DEF SInv, TypeOK, ReadSecret, GetSecret, Goto, Mishap,
     NoMishap, instVars, apiVars, guestVars, HistoryOK, WorkerOK, StoreOK,
     GuestOK, PCs
<1>5. GuestOK'
  BY ScheduledAssumption DEF SInv, TypeOK, ReadSecret, GetSecret, Goto,
     Mishap, NoMishap, instVars, apiVars, guestVars, GuestOK, WorkerOK, PCs
<1>6. Copies'
  BY DEF SInv, TypeOK, ReadSecret, GetSecret, Goto, Mishap, NoMishap,
     instVars, apiVars, guestVars, StoreOK, WorkerOK, PCs, Copies, Working,
     SnapshotPhases
<1>7. Working'
  BY NoSnapshotAssumption DEF SInv, TypeOK, ReadSecret, GetSecret, Goto,
     Mishap, NoMishap, instVars, apiVars, guestVars, StoreOK, WorkerOK, PCs,
     SnapshotPhases, Copies, Working, Open
<1>8. Backups'
  BY SnapshotsAssumption, NoSnapshotAssumption DEF SInv, TypeOK, ReadSecret,
     GetSecret, Goto, Mishap, NoMishap, instVars, apiVars, guestVars, StoreOK,
     WorkerOK, GuestOK, PCs, Working, Backups, AvailableIsBackedUp
<1>9. Mishap \/ NoMishap
  BY DEF NoMishap, ReadSecret, GetSecret, Goto, NoMishap, instVars, apiVars,
     guestVars
<1>10. runs' = runs /\ created \subseteq created'
  BY DEF ReadSecret, GetSecret, Goto, Mishap, NoMishap, instVars, apiVars,
     guestVars
<1>11. \A x \in Snapshots : (snap[x] \in Open /\ ~Decided(x))' =>
           \/ snap[x] \in Open /\ (~Decided(x) \/ Mishap)
           \/ x \notin created
  BY NoSnapshotAssumption DEF SInv, TypeOK, ReadSecret, GetSecret, Goto,
     NoMishap, instVars, apiVars, guestVars, StoreOK, WorkerOK, PCs, Working,
     Decided, Open, Copies
<1>12. (pc \in {"secret", "ssh"} /\ ~mine)' =>
           /\ key' \in Snapshots
           /\ \/ pc \in {"secret", "ssh"} /\ ~mine /\ key' = key
              \/ Mishap /\ snap[key'] \in Open /\ ~Decided(key')
  BY NoSnapshotAssumption DEF SInv, TypeOK, ReadSecret, GetSecret, Goto,
     NoMishap, instVars, apiVars, guestVars, StoreOK, WorkerOK, PCs, Working,
     Decided, Open
<1>13. Account'
  BY <1>9, <1>10, <1>11, <1>12, AccountKept DEF SInv, TypeOK
<1>14. QED
  BY <1>1, <1>2, <1>3, <1>4, <1>5, <1>6, <1>7, <1>8, <1>13 DEF SInv, TypeOK

LEMMA SSHExecKeeps ==
    ASSUME SInv, SSHExec
    PROVE  SInv'
<1>1. InstanceOK'
  BY DEF SInv, TypeOK, SSHExec, Goto, Mishap, NoMishap, instVars, apiVars,
     InstanceOK, Inst!ViewTypeOK
<1>2. StoreOK'
  BY NoSnapshotAssumption DEF SInv, TypeOK, SSHExec, Goto, Mishap, NoMishap,
     instVars, apiVars, StoreOK, WorkerOK, PCs, SnapshotPhases
<1>3. WorkerOK'
  BY NoSnapshotAssumption DEF SInv, TypeOK, SSHExec, Goto, Mishap, NoMishap,
     instVars, apiVars, WorkerOK, StoreOK, PCs
<1>4. HistoryOK'
  BY MishapsAssumption DEF SInv, TypeOK, SSHExec, Goto, Mishap, NoMishap,
     instVars, apiVars, HistoryOK, WorkerOK, StoreOK, GuestOK, PCs
<1>5. GuestOK'
  BY ScheduledAssumption DEF SInv, TypeOK, SSHExec, Goto, Mishap, NoMishap,
     instVars, apiVars, GuestOK, WorkerOK, PCs
<1>6. Copies'
  BY DEF SInv, TypeOK, SSHExec, Goto, Mishap, NoMishap, instVars, apiVars,
     StoreOK, WorkerOK, PCs, Copies, Working, SnapshotPhases
<1>7. Working'
  BY NoSnapshotAssumption DEF SInv, TypeOK, SSHExec, Goto, Mishap, NoMishap,
     instVars, apiVars, StoreOK, WorkerOK, PCs, SnapshotPhases, Copies,
     Working, Open
<1>8. Backups'
  BY SnapshotsAssumption, NoSnapshotAssumption DEF SInv, TypeOK, SSHExec,
     Goto, Mishap, NoMishap, instVars, apiVars, StoreOK, WorkerOK, GuestOK,
     PCs, Working, Backups, AvailableIsBackedUp
<1>9. CASE runs' = runs
  <2>1. Mishap \/ NoMishap  BY DEF SSHExec
  <2>2. \A x \in Snapshots : (snap[x] \in Open /\ ~Decided(x))' =>
           snap[x] \in Open /\ ~Decided(x)
    BY DEF SInv, TypeOK, WorkerOK, SSHExec, Goto, apiVars, Decided
  <2>3. (pc \in {"secret", "ssh"} /\ ~mine)' => FALSE
    BY DEF SSHExec, Goto
  <2>4. created' = created  BY DEF SSHExec
  <2>5. Account'
    BY <1>9, <2>1, <2>2, <2>3, <2>4, AccountKept DEF SInv, TypeOK
  <2>6. QED
    BY <2>5, <1>1, <1>2, <1>3, <1>4, <1>5, <1>6, <1>7, <1>8 DEF SInv, TypeOK
<1>10. CASE runs' # runs
  <2>1. /\ pc = "ssh" /\ pc' = "backup" /\ key' = key /\ mine' = mine
        /\ runs' = [runs EXCEPT ![key] = @ + 1] /\ mishaps' = mishaps
        /\ snap' = snap /\ created' = created
    BY <1>10 DEF SSHExec, Goto, NoMishap, apiVars
  <2>2. /\ key \in Snapshots /\ key \in created /\ runs[key] \in Nat /\ mishaps \in Nat
        /\ mine => snap[key] \in Open
    <3>1. key \in Snapshots
      BY <2>1 DEF SInv, TypeOK, WorkerOK
    <3>2. key \in created /\ (mine => snap[key] \in Open)
      BY <2>1 DEF SInv, Working
    <3>3. runs[key] \in Nat /\ mishaps \in Nat
      BY <3>1, MishapsAssumption DEF SInv, TypeOK, HistoryOK
    <3>4. QED  BY <3>1, <3>2, <3>3
  <2>3. runs[key] <= mishaps /\ (~mine => runs[key] + 1 <= mishaps)
    <3>1. CASE mine
      BY <2>1, <2>2, <3>1 DEF SInv, Account, Decided
    <3>2. CASE ~mine
      BY <2>1, <2>2, <3>2 DEF SInv, Account
    <3>3. QED  BY <3>1, <3>2
  <2>4. Account'
    <3>1. ASSUME NEW x \in Snapshots, x # key PROVE runs'[x] = runs[x] /\ ~Decided(x)
      BY <2>1, <3>1 DEF SInv, TypeOK, HistoryOK, Decided
    <3>2. runs'[key] = runs[key] + 1
      BY <2>1, <2>2 DEF SInv, TypeOK, HistoryOK
    <3>3. BackupsAccountedFor'
      <4>1. runs'[key] <= 1 + mishaps  BY <2>2, <2>3, <3>2
      <4>2. QED  BY <2>1, <3>1, <4>1 DEF BackupsAccountedFor, SInv, Account
    <3>4. \A x \in Snapshots \ created' : runs'[x] = 0
      BY <2>1, <2>2, <3>1 DEF SInv, Account
    <3>5. ASSUME NEW x \in Snapshots, (snap[x] \in Open /\ ~Decided(x))'
          PROVE  runs'[x] <= mishaps'
      <4>1. CASE x = key
        <5>1. ~mine  BY <2>1, <3>5, <4>1 DEF Decided
        <5>2. QED  BY <2>1, <2>2, <2>3, <3>2, <4>1, <5>1
      <4>2. CASE x # key
        BY <2>1, <3>1, <3>5, <4>2 DEF SInv, Account
      <4>3. QED  BY <4>1, <4>2
    <3>6. QED  BY <2>1, <3>3, <3>4, <3>5 DEF Account
  <2>5. QED
    BY <2>4, <1>1, <1>2, <1>3, <1>4, <1>5, <1>6, <1>7, <1>8 DEF SInv, TypeOK
<1>11. QED  BY <1>9, <1>10

LEMMA DisconnectKeeps ==
    ASSUME SInv, Disconnect
    PROVE  SInv'
<1>1. InstanceOK'
  BY DEF SInv, TypeOK, Disconnect, Goto, Mishap, instVars, apiVars,
     InstanceOK, Inst!ViewTypeOK
<1>2. StoreOK'
  BY NoSnapshotAssumption DEF SInv, TypeOK, Disconnect, Goto, Mishap,
     instVars, apiVars, StoreOK, WorkerOK, PCs, SnapshotPhases
<1>3. WorkerOK'
  BY NoSnapshotAssumption DEF SInv, TypeOK, Disconnect, Goto, Mishap,
     instVars, apiVars, WorkerOK, StoreOK, PCs
<1>4. HistoryOK'
  BY MishapsAssumption DEF SInv, TypeOK, Disconnect, Goto, Mishap, instVars,
     apiVars, HistoryOK, WorkerOK, StoreOK, GuestOK, PCs
<1>5. GuestOK'
  BY ScheduledAssumption DEF SInv, TypeOK, Disconnect, Goto, Mishap, instVars,
     apiVars, GuestOK, WorkerOK, PCs
<1>6. Copies'
  BY DEF SInv, TypeOK, Disconnect, Goto, Mishap, instVars, apiVars, StoreOK,
     WorkerOK, PCs, Copies, Working, SnapshotPhases
<1>7. Working'
  BY NoSnapshotAssumption DEF SInv, TypeOK, Disconnect, Goto, Mishap,
     instVars, apiVars, StoreOK, WorkerOK, PCs, SnapshotPhases, Copies,
     Working, Open
<1>8. Backups'
  BY SnapshotsAssumption, NoSnapshotAssumption DEF SInv, TypeOK, Disconnect,
     Goto, Mishap, instVars, apiVars, StoreOK, WorkerOK, GuestOK, PCs,
     Working, Backups, AvailableIsBackedUp
<1>9. Mishap \/ NoMishap
  BY DEF NoMishap, Disconnect, Goto, instVars, apiVars
<1>10. runs' = runs /\ created \subseteq created'
  BY DEF Disconnect, Goto, Mishap, instVars, apiVars
<1>11. \A x \in Snapshots : (snap[x] \in Open /\ ~Decided(x))' =>
           \/ snap[x] \in Open /\ (~Decided(x) \/ Mishap)
           \/ x \notin created
  BY NoSnapshotAssumption DEF SInv, TypeOK, Disconnect, Goto, instVars,
     apiVars, StoreOK, WorkerOK, PCs, Working, Decided, Open, Copies
<1>12. (pc \in {"secret", "ssh"} /\ ~mine)' =>
           /\ key' \in Snapshots
           /\ \/ pc \in {"secret", "ssh"} /\ ~mine /\ key' = key
              \/ Mishap /\ snap[key'] \in Open /\ ~Decided(key')
  BY NoSnapshotAssumption DEF SInv, TypeOK, Disconnect, Goto, instVars,
     apiVars, StoreOK, WorkerOK, PCs, Working, Decided, Open
<1>13. Account'
  BY <1>9, <1>10, <1>11, <1>12, AccountKept DEF SInv, TypeOK
<1>14. QED
  BY <1>1, <1>2, <1>3, <1>4, <1>5, <1>6, <1>7, <1>8, <1>13 DEF SInv, TypeOK

LEMMA FinishKeeps ==
    ASSUME SInv, Finish
    PROVE  SInv'
<1>1. InstanceOK'
  BY DEF SInv, TypeOK, Finish, Update, Store, Refused, Return, Mishap,
     NoMishap, instVars, apiVars, guestVars, InstanceOK, Inst!ViewTypeOK
<1>2. StoreOK'
  BY NoSnapshotAssumption DEF SInv, TypeOK, Finish, Update, Store, Refused,
     Return, Mishap, NoMishap, instVars, apiVars, guestVars, StoreOK,
     WorkerOK, PCs, SnapshotPhases
<1>3. WorkerOK'
  BY NoSnapshotAssumption DEF SInv, TypeOK, Finish, Update, Store, Refused,
     Return, Mishap, NoMishap, instVars, apiVars, guestVars, WorkerOK,
     StoreOK, PCs
<1>4. HistoryOK'
  BY MishapsAssumption DEF SInv, TypeOK, Finish, Update, Store, Refused,
     Return, Mishap, NoMishap, instVars, apiVars, guestVars, HistoryOK,
     WorkerOK, StoreOK, GuestOK, PCs
<1>5. GuestOK'
  BY ScheduledAssumption DEF SInv, TypeOK, Finish, Update, Store, Refused,
     Return, Mishap, NoMishap, instVars, apiVars, guestVars, GuestOK,
     WorkerOK, PCs
<1>6. Copies'
  BY DEF SInv, TypeOK, Finish, Update, Store, Refused, Return, Mishap,
     NoMishap, instVars, apiVars, guestVars, StoreOK, WorkerOK, PCs, Copies,
     Working, SnapshotPhases
<1>7. Working'
  BY NoSnapshotAssumption DEF SInv, TypeOK, Finish, Update, Store, Refused,
     Return, Mishap, NoMishap, instVars, apiVars, guestVars, StoreOK,
     WorkerOK, PCs, SnapshotPhases, Copies, Working, Open
<1>8. Backups'
  BY SnapshotsAssumption, NoSnapshotAssumption DEF SInv, TypeOK, Finish,
     Update, Store, Refused, Return, Mishap, NoMishap, instVars, apiVars,
     guestVars, StoreOK, WorkerOK, GuestOK, PCs, Working, Backups,
     AvailableIsBackedUp
<1>9. Mishap \/ NoMishap
  BY DEF NoMishap, Finish, Update, Store, Refused, Return, NoMishap, instVars,
     apiVars, guestVars
<1>10. runs' = runs /\ created \subseteq created'
  BY DEF Finish, Update, Store, Refused, Return, Mishap, NoMishap, instVars,
     apiVars, guestVars
<1>11. \A x \in Snapshots : (snap[x] \in Open /\ ~Decided(x))' =>
           \/ snap[x] \in Open /\ (~Decided(x) \/ Mishap)
           \/ x \notin created
  BY NoSnapshotAssumption DEF SInv, TypeOK, Finish, Update, Store, Refused,
     Return, NoMishap, instVars, apiVars, guestVars, StoreOK, WorkerOK, PCs,
     Working, Decided, Open, Copies
<1>12. (pc \in {"secret", "ssh"} /\ ~mine)' =>
           /\ key' \in Snapshots
           /\ \/ pc \in {"secret", "ssh"} /\ ~mine /\ key' = key
              \/ Mishap /\ snap[key'] \in Open /\ ~Decided(key')
  BY NoSnapshotAssumption DEF SInv, TypeOK, Finish, Update, Store, Refused,
     Return, NoMishap, instVars, apiVars, guestVars, StoreOK, WorkerOK, PCs,
     Working, Decided, Open
<1>13. Account'
  BY <1>9, <1>10, <1>11, <1>12, AccountKept DEF SInv, TypeOK
<1>14. QED
  BY <1>1, <1>2, <1>3, <1>4, <1>5, <1>6, <1>7, <1>8, <1>13 DEF SInv, TypeOK

LEMMA FailKeeps ==
    ASSUME SInv, Fail
    PROVE  SInv'
<1>1. InstanceOK'
  BY DEF SInv, TypeOK, Fail, Update, Store, Refused, Return, Mishap, NoMishap,
     instVars, apiVars, guestVars, InstanceOK, Inst!ViewTypeOK
<1>2. StoreOK'
  BY NoSnapshotAssumption DEF SInv, TypeOK, Fail, Update, Store, Refused,
     Return, Mishap, NoMishap, instVars, apiVars, guestVars, StoreOK,
     WorkerOK, PCs, SnapshotPhases
<1>3. WorkerOK'
  BY NoSnapshotAssumption DEF SInv, TypeOK, Fail, Update, Store, Refused,
     Return, Mishap, NoMishap, instVars, apiVars, guestVars, WorkerOK,
     StoreOK, PCs
<1>4. HistoryOK'
  BY MishapsAssumption DEF SInv, TypeOK, Fail, Update, Store, Refused, Return,
     Mishap, NoMishap, instVars, apiVars, guestVars, HistoryOK, WorkerOK,
     StoreOK, GuestOK, PCs
<1>5. GuestOK'
  BY ScheduledAssumption DEF SInv, TypeOK, Fail, Update, Store, Refused,
     Return, Mishap, NoMishap, instVars, apiVars, guestVars, GuestOK,
     WorkerOK, PCs
<1>6. Copies'
  BY DEF SInv, TypeOK, Fail, Update, Store, Refused, Return, Mishap, NoMishap,
     instVars, apiVars, guestVars, StoreOK, WorkerOK, PCs, Copies, Working,
     SnapshotPhases
<1>7. Working'
  BY NoSnapshotAssumption DEF SInv, TypeOK, Fail, Update, Store, Refused,
     Return, Mishap, NoMishap, instVars, apiVars, guestVars, StoreOK,
     WorkerOK, PCs, SnapshotPhases, Copies, Working, Open
<1>8. Backups'
  BY SnapshotsAssumption, NoSnapshotAssumption DEF SInv, TypeOK, Fail, Update,
     Store, Refused, Return, Mishap, NoMishap, instVars, apiVars, guestVars,
     StoreOK, WorkerOK, GuestOK, PCs, Working, Backups, AvailableIsBackedUp
<1>9. Mishap \/ NoMishap
  BY DEF NoMishap, Fail, Update, Store, Refused, Return, NoMishap, instVars,
     apiVars, guestVars
<1>10. runs' = runs /\ created \subseteq created'
  BY DEF Fail, Update, Store, Refused, Return, Mishap, NoMishap, instVars,
     apiVars, guestVars
<1>11. \A x \in Snapshots : (snap[x] \in Open /\ ~Decided(x))' =>
           \/ snap[x] \in Open /\ (~Decided(x) \/ Mishap)
           \/ x \notin created
  BY NoSnapshotAssumption DEF SInv, TypeOK, Fail, Update, Store, Refused,
     Return, NoMishap, instVars, apiVars, guestVars, StoreOK, WorkerOK, PCs,
     Working, Decided, Open, Copies
<1>12. (pc \in {"secret", "ssh"} /\ ~mine)' =>
           /\ key' \in Snapshots
           /\ \/ pc \in {"secret", "ssh"} /\ ~mine /\ key' = key
              \/ Mishap /\ snap[key'] \in Open /\ ~Decided(key')
  BY NoSnapshotAssumption DEF SInv, TypeOK, Fail, Update, Store, Refused,
     Return, NoMishap, instVars, apiVars, guestVars, StoreOK, WorkerOK, PCs,
     Working, Decided, Open
<1>13. Account'
  BY <1>9, <1>10, <1>11, <1>12, AccountKept DEF SInv, TypeOK
<1>14. QED
  BY <1>1, <1>2, <1>3, <1>4, <1>5, <1>6, <1>7, <1>8, <1>13 DEF SInv, TypeOK

LEMMA SyncKeeps ==
    ASSUME SInv, NEW s \in Snapshots, Sync(s)
    PROVE  SInv'
<1>1. InstanceOK'
  BY DEF SInv, TypeOK, Sync, instVars, workerVars, guestVars, InstanceOK,
     Inst!ViewTypeOK
<1>2. StoreOK'
  BY NoSnapshotAssumption DEF SInv, TypeOK, Sync, instVars, workerVars,
     guestVars, StoreOK, WorkerOK, PCs, SnapshotPhases
<1>3. WorkerOK'
  BY NoSnapshotAssumption DEF SInv, TypeOK, Sync, instVars, workerVars,
     guestVars, WorkerOK, StoreOK, PCs
<1>4. HistoryOK'
  BY MishapsAssumption DEF SInv, TypeOK, Sync, instVars, workerVars,
     guestVars, HistoryOK, WorkerOK, StoreOK, GuestOK, PCs
<1>5. GuestOK'
  BY ScheduledAssumption DEF SInv, TypeOK, Sync, instVars, workerVars,
     guestVars, GuestOK, WorkerOK, PCs
<1>6. Copies'
  BY DEF SInv, TypeOK, Sync, instVars, workerVars, guestVars, StoreOK,
     WorkerOK, PCs, Copies, Working, SnapshotPhases
<1>7. Working'
  BY NoSnapshotAssumption DEF SInv, TypeOK, Sync, instVars, workerVars,
     guestVars, StoreOK, WorkerOK, PCs, SnapshotPhases, Copies, Working, Open
<1>8. Backups'
  BY SnapshotsAssumption, NoSnapshotAssumption DEF SInv, TypeOK, Sync,
     instVars, workerVars, guestVars, StoreOK, WorkerOK, GuestOK, PCs,
     Working, Backups, AvailableIsBackedUp
<1>9. Mishap \/ NoMishap
  BY DEF NoMishap, Sync, instVars, workerVars, guestVars
<1>10. runs' = runs /\ created \subseteq created'
  BY DEF Sync, instVars, workerVars, guestVars
<1>11. \A x \in Snapshots : (snap[x] \in Open /\ ~Decided(x))' =>
           \/ snap[x] \in Open /\ (~Decided(x) \/ Mishap)
           \/ x \notin created
  BY NoSnapshotAssumption DEF SInv, TypeOK, Sync, instVars, workerVars,
     guestVars, StoreOK, WorkerOK, PCs, Working, Decided, Open, Copies
<1>12. (pc \in {"secret", "ssh"} /\ ~mine)' =>
           /\ key' \in Snapshots
           /\ \/ pc \in {"secret", "ssh"} /\ ~mine /\ key' = key
              \/ Mishap /\ snap[key'] \in Open /\ ~Decided(key')
  BY NoSnapshotAssumption DEF SInv, TypeOK, Sync, instVars, workerVars,
     guestVars, StoreOK, WorkerOK, PCs, Working, Decided, Open
<1>13. Account'
  BY <1>9, <1>10, <1>11, <1>12, AccountKept DEF SInv, TypeOK
<1>14. QED
  BY <1>1, <1>2, <1>3, <1>4, <1>5, <1>6, <1>7, <1>8, <1>13 DEF SInv, TypeOK

LEMMA CrashKeeps ==
    ASSUME SInv, Crash
    PROVE  SInv'
<1>1. InstanceOK'
  BY DEF SInv, TypeOK, Crash, Mishap, Readiness, instVars, InstanceOK,
     Inst!ViewTypeOK
<1>2. StoreOK'
  BY NoSnapshotAssumption DEF SInv, TypeOK, Crash, Mishap, Readiness,
     instVars, StoreOK, WorkerOK, PCs, SnapshotPhases
<1>3. WorkerOK'
  BY NoSnapshotAssumption DEF SInv, TypeOK, Crash, Mishap, Readiness,
     instVars, WorkerOK, StoreOK, PCs
<1>4. HistoryOK'
  BY MishapSteps DEF SInv, TypeOK, HistoryOK, Crash
<1>5. GuestOK'
  BY ScheduledAssumption DEF SInv, TypeOK, Crash, Mishap, Readiness, instVars,
     GuestOK, WorkerOK, PCs
<1>6. Copies'
  BY DEF SInv, TypeOK, Crash, Mishap, Readiness, instVars, StoreOK, WorkerOK,
     PCs, Copies, Working, SnapshotPhases
<1>7. Working'
  BY NoSnapshotAssumption DEF SInv, TypeOK, Crash, Mishap, Readiness,
     instVars, StoreOK, WorkerOK, PCs, SnapshotPhases, Copies, Working, Open
<1>8. Backups'
  BY SnapshotsAssumption, NoSnapshotAssumption DEF SInv, TypeOK, Crash,
     Mishap, Readiness, instVars, StoreOK, WorkerOK, GuestOK, PCs, Working,
     Backups, AvailableIsBackedUp
<1>9. Mishap \/ NoMishap
  BY DEF NoMishap, Crash, Readiness, instVars
<1>10. runs' = runs /\ created \subseteq created'
  BY DEF Crash, Mishap, Readiness, instVars
<1>11. \A x \in Snapshots : (snap[x] \in Open /\ ~Decided(x))' =>
           \/ snap[x] \in Open /\ (~Decided(x) \/ Mishap)
           \/ x \notin created
  BY NoSnapshotAssumption DEF SInv, TypeOK, Crash, Readiness, instVars,
     StoreOK, WorkerOK, PCs, Working, Decided, Open, Copies
<1>12. (pc \in {"secret", "ssh"} /\ ~mine)' =>
           /\ key' \in Snapshots
           /\ \/ pc \in {"secret", "ssh"} /\ ~mine /\ key' = key
              \/ Mishap /\ snap[key'] \in Open /\ ~Decided(key')
  BY NoSnapshotAssumption DEF SInv, TypeOK, Crash, Readiness, instVars,
     StoreOK, WorkerOK, PCs, Working, Decided, Open
<1>13. Account'
  BY <1>9, <1>10, <1>11, <1>12, AccountKept DEF SInv, TypeOK
<1>14. QED
  BY <1>1, <1>2, <1>3, <1>4, <1>5, <1>6, <1>7, <1>8, <1>13 DEF SInv, TypeOK

LEMMA CreateKeeps ==
    ASSUME SInv, NEW s \in Snapshots, CreateSnapshot(s)
    PROVE  SInv'
<1>1. InstanceOK'
  BY DEF SInv, TypeOK, CreateSnapshot, UserWrites, NoMishap, instVars,
     guestVars, InstanceOK, Inst!ViewTypeOK
<1>2. StoreOK'
  BY NoSnapshotAssumption DEF SInv, TypeOK, CreateSnapshot, UserWrites,
     NoMishap, instVars, guestVars, StoreOK, WorkerOK, PCs, SnapshotPhases
<1>3. WorkerOK'
  BY NoSnapshotAssumption DEF SInv, TypeOK, CreateSnapshot, UserWrites,
     NoMishap, instVars, guestVars, WorkerOK, StoreOK, PCs
<1>4. HistoryOK'
  BY MishapsAssumption DEF SInv, TypeOK, CreateSnapshot, UserWrites, NoMishap,
     instVars, guestVars, HistoryOK, WorkerOK, StoreOK, GuestOK, PCs
<1>5. GuestOK'
  BY ScheduledAssumption DEF SInv, TypeOK, CreateSnapshot, UserWrites,
     NoMishap, instVars, guestVars, GuestOK, WorkerOK, PCs
<1>6. Copies'
  BY DEF SInv, TypeOK, CreateSnapshot, UserWrites, NoMishap, instVars,
     guestVars, StoreOK, WorkerOK, PCs, Copies, Working, SnapshotPhases
<1>7. Working'
  BY NoSnapshotAssumption DEF SInv, TypeOK, CreateSnapshot, UserWrites,
     NoMishap, instVars, guestVars, StoreOK, WorkerOK, PCs, SnapshotPhases,
     Copies, Working, Open
<1>8. Backups'
  BY SnapshotsAssumption, NoSnapshotAssumption DEF SInv, TypeOK,
     CreateSnapshot, UserWrites, NoMishap, instVars, guestVars, StoreOK,
     WorkerOK, GuestOK, PCs, Working, Backups, AvailableIsBackedUp
<1>9. Mishap \/ NoMishap
  BY DEF NoMishap, CreateSnapshot, UserWrites, NoMishap, instVars, guestVars
<1>10. runs' = runs /\ created \subseteq created'
  BY DEF CreateSnapshot, UserWrites, NoMishap, instVars, guestVars
<1>11. \A x \in Snapshots : (snap[x] \in Open /\ ~Decided(x))' =>
           \/ snap[x] \in Open /\ (~Decided(x) \/ Mishap)
           \/ x \notin created
  BY NoSnapshotAssumption DEF SInv, TypeOK, CreateSnapshot, UserWrites,
     NoMishap, instVars, guestVars, StoreOK, WorkerOK, PCs, Working, Decided,
     Open, Copies
<1>12. (pc \in {"secret", "ssh"} /\ ~mine)' =>
           /\ key' \in Snapshots
           /\ \/ pc \in {"secret", "ssh"} /\ ~mine /\ key' = key
              \/ Mishap /\ snap[key'] \in Open /\ ~Decided(key')
  BY NoSnapshotAssumption DEF SInv, TypeOK, CreateSnapshot, UserWrites,
     NoMishap, instVars, guestVars, StoreOK, WorkerOK, PCs, Working, Decided,
     Open
<1>13. Account'
  BY <1>9, <1>10, <1>11, <1>12, AccountKept DEF SInv, TypeOK
<1>14. QED
  BY <1>1, <1>2, <1>3, <1>4, <1>5, <1>6, <1>7, <1>8, <1>13 DEF SInv, TypeOK

LEMMA EditKeeps ==
    ASSUME SInv, NEW s \in Snapshots, EditSnapshot(s)
    PROVE  SInv'
<1>1. InstanceOK'
  BY DEF SInv, TypeOK, EditSnapshot, UserWrites, Mishap, instVars, guestVars,
     InstanceOK, Inst!ViewTypeOK
<1>2. StoreOK'
  BY NoSnapshotAssumption DEF SInv, TypeOK, EditSnapshot, UserWrites, Mishap,
     instVars, guestVars, StoreOK, WorkerOK, PCs, SnapshotPhases
<1>3. WorkerOK'
  BY NoSnapshotAssumption DEF SInv, TypeOK, EditSnapshot, UserWrites, Mishap,
     instVars, guestVars, WorkerOK, StoreOK, PCs
<1>4. HistoryOK'
  BY MishapsAssumption DEF SInv, TypeOK, EditSnapshot, UserWrites, Mishap,
     instVars, guestVars, HistoryOK, WorkerOK, StoreOK, GuestOK, PCs
<1>5. GuestOK'
  BY ScheduledAssumption DEF SInv, TypeOK, EditSnapshot, UserWrites, Mishap,
     instVars, guestVars, GuestOK, WorkerOK, PCs
<1>6. Copies'
  BY DEF SInv, TypeOK, EditSnapshot, UserWrites, Mishap, instVars, guestVars,
     StoreOK, WorkerOK, PCs, Copies, Working, SnapshotPhases
<1>7. Working'
  BY NoSnapshotAssumption DEF SInv, TypeOK, EditSnapshot, UserWrites, Mishap,
     instVars, guestVars, StoreOK, WorkerOK, PCs, SnapshotPhases, Copies,
     Working, Open
<1>8. Backups'
  BY SnapshotsAssumption, NoSnapshotAssumption DEF SInv, TypeOK, EditSnapshot,
     UserWrites, Mishap, instVars, guestVars, StoreOK, WorkerOK, GuestOK, PCs,
     Working, Backups, AvailableIsBackedUp
<1>9. Mishap \/ NoMishap
  BY DEF NoMishap, EditSnapshot, UserWrites, instVars, guestVars
<1>10. runs' = runs /\ created \subseteq created'
  BY DEF EditSnapshot, UserWrites, Mishap, instVars, guestVars
<1>11. \A x \in Snapshots : (snap[x] \in Open /\ ~Decided(x))' =>
           \/ snap[x] \in Open /\ (~Decided(x) \/ Mishap)
           \/ x \notin created
  BY NoSnapshotAssumption DEF SInv, TypeOK, EditSnapshot, UserWrites,
     instVars, guestVars, StoreOK, WorkerOK, PCs, Working, Decided, Open,
     Copies
<1>12. (pc \in {"secret", "ssh"} /\ ~mine)' =>
           /\ key' \in Snapshots
           /\ \/ pc \in {"secret", "ssh"} /\ ~mine /\ key' = key
              \/ Mishap /\ snap[key'] \in Open /\ ~Decided(key')
  BY NoSnapshotAssumption DEF SInv, TypeOK, EditSnapshot, UserWrites,
     instVars, guestVars, StoreOK, WorkerOK, PCs, Working, Decided, Open
<1>13. Account'
  BY <1>9, <1>10, <1>11, <1>12, AccountKept DEF SInv, TypeOK
<1>14. QED
  BY <1>1, <1>2, <1>3, <1>4, <1>5, <1>6, <1>7, <1>8, <1>13 DEF SInv, TypeOK

LEMMA DeleteKeeps ==
    ASSUME SInv, NEW s \in Snapshots, DeleteSnapshot(s)
    PROVE  SInv'
<1>1. InstanceOK'
  BY DEF SInv, TypeOK, DeleteSnapshot, UserWrites, Mishap, instVars,
     guestVars, InstanceOK, Inst!ViewTypeOK
<1>2. StoreOK'
  BY NoSnapshotAssumption DEF SInv, TypeOK, DeleteSnapshot, UserWrites,
     Mishap, instVars, guestVars, StoreOK, WorkerOK, PCs, SnapshotPhases
<1>3. WorkerOK'
  BY NoSnapshotAssumption DEF SInv, TypeOK, DeleteSnapshot, UserWrites,
     Mishap, instVars, guestVars, WorkerOK, StoreOK, PCs
<1>4. HistoryOK'
  BY MishapsAssumption DEF SInv, TypeOK, DeleteSnapshot, UserWrites, Mishap,
     instVars, guestVars, HistoryOK, WorkerOK, StoreOK, GuestOK, PCs
<1>5. GuestOK'
  BY ScheduledAssumption DEF SInv, TypeOK, DeleteSnapshot, UserWrites, Mishap,
     instVars, guestVars, GuestOK, WorkerOK, PCs
<1>6. Copies'
  BY DEF SInv, TypeOK, DeleteSnapshot, UserWrites, Mishap, instVars,
     guestVars, StoreOK, WorkerOK, PCs, Copies, Working, SnapshotPhases
<1>7. Working'
  BY NoSnapshotAssumption DEF SInv, TypeOK, DeleteSnapshot, UserWrites,
     Mishap, instVars, guestVars, StoreOK, WorkerOK, PCs, SnapshotPhases,
     Copies, Working, Open
<1>8. Backups'
  BY SnapshotsAssumption, NoSnapshotAssumption DEF SInv, TypeOK,
     DeleteSnapshot, UserWrites, Mishap, instVars, guestVars, StoreOK,
     WorkerOK, GuestOK, PCs, Working, Backups, AvailableIsBackedUp
<1>9. Mishap \/ NoMishap
  BY DEF NoMishap, DeleteSnapshot, UserWrites, instVars, guestVars
<1>10. runs' = runs /\ created \subseteq created'
  BY DEF DeleteSnapshot, UserWrites, Mishap, instVars, guestVars
<1>11. \A x \in Snapshots : (snap[x] \in Open /\ ~Decided(x))' =>
           \/ snap[x] \in Open /\ (~Decided(x) \/ Mishap)
           \/ x \notin created
  BY NoSnapshotAssumption DEF SInv, TypeOK, DeleteSnapshot, UserWrites,
     instVars, guestVars, StoreOK, WorkerOK, PCs, Working, Decided, Open,
     Copies
<1>12. (pc \in {"secret", "ssh"} /\ ~mine)' =>
           /\ key' \in Snapshots
           /\ \/ pc \in {"secret", "ssh"} /\ ~mine /\ key' = key
              \/ Mishap /\ snap[key'] \in Open /\ ~Decided(key')
  BY NoSnapshotAssumption DEF SInv, TypeOK, DeleteSnapshot, UserWrites,
     instVars, guestVars, StoreOK, WorkerOK, PCs, Working, Decided, Open
<1>13. Account'
  BY <1>9, <1>10, <1>11, <1>12, AccountKept DEF SInv, TypeOK
<1>14. QED
  BY <1>1, <1>2, <1>3, <1>4, <1>5, <1>6, <1>7, <1>8, <1>13 DEF SInv, TypeOK

LEMMA InstanceKeeps ==
    ASSUME SInv, InstanceStep
    PROVE  SInv'
<1>1. InstanceOK'
  BY DEF SInv, TypeOK, InstanceStep, Setback, Goto, Mishap, NoMishap, apiVars,
     workerVars, Inst!ViewNext, Inst!Appear, Inst!WriteStatus, Inst!Vanish,
     Inst!MakeSecret, Inst!DropSecret, Inst!Power, InstanceOK, Inst!ViewTypeOK
<1>2. StoreOK'
  BY NoSnapshotAssumption DEF SInv, TypeOK, InstanceStep, Setback, Goto,
     Mishap, NoMishap, apiVars, workerVars, Inst!ViewNext, Inst!Appear,
     Inst!WriteStatus, Inst!Vanish, Inst!MakeSecret, Inst!DropSecret,
     Inst!Power, StoreOK, WorkerOK, PCs, SnapshotPhases
<1>3. WorkerOK'
  BY NoSnapshotAssumption DEF SInv, TypeOK, InstanceStep, Setback, Goto,
     Mishap, NoMishap, apiVars, workerVars, Inst!ViewNext, Inst!Appear,
     Inst!WriteStatus, Inst!Vanish, Inst!MakeSecret, Inst!DropSecret,
     Inst!Power, WorkerOK, StoreOK, PCs
<1>4. HistoryOK'
  BY MishapsAssumption DEF SInv, TypeOK, InstanceStep, Setback, Goto, Mishap,
     NoMishap, apiVars, workerVars, Inst!ViewNext, Inst!Appear,
     Inst!WriteStatus, Inst!Vanish, Inst!MakeSecret, Inst!DropSecret,
     Inst!Power, HistoryOK, WorkerOK, StoreOK, GuestOK, PCs
<1>5. GuestOK'
  BY ScheduledAssumption DEF SInv, TypeOK, InstanceStep, Setback, Goto,
     Mishap, NoMishap, apiVars, workerVars, Inst!ViewNext, Inst!Appear,
     Inst!WriteStatus, Inst!Vanish, Inst!MakeSecret, Inst!DropSecret,
     Inst!Power, GuestOK, WorkerOK, PCs
<1>6. Copies'
  BY DEF SInv, TypeOK, InstanceStep, Setback, Goto, Mishap, NoMishap, apiVars,
     workerVars, Inst!ViewNext, Inst!Appear, Inst!WriteStatus, Inst!Vanish,
     Inst!MakeSecret, Inst!DropSecret, Inst!Power, StoreOK, WorkerOK, PCs,
     Copies, Working, SnapshotPhases
<1>7. Working'
  BY NoSnapshotAssumption DEF SInv, TypeOK, InstanceStep, Setback, Goto,
     Mishap, NoMishap, apiVars, workerVars, Inst!ViewNext, Inst!Appear,
     Inst!WriteStatus, Inst!Vanish, Inst!MakeSecret, Inst!DropSecret,
     Inst!Power, StoreOK, WorkerOK, PCs, SnapshotPhases, Copies, Working, Open
<1>8. Backups'
  BY SnapshotsAssumption, NoSnapshotAssumption DEF SInv, TypeOK, InstanceStep,
     Setback, Goto, Mishap, NoMishap, apiVars, workerVars, Inst!ViewNext,
     Inst!Appear, Inst!WriteStatus, Inst!Vanish, Inst!MakeSecret,
     Inst!DropSecret, Inst!Power, StoreOK, WorkerOK, GuestOK, PCs, Working,
     Backups, AvailableIsBackedUp
<1>9. Mishap \/ NoMishap
  BY DEF NoMishap, InstanceStep, Setback, Goto, NoMishap, apiVars, workerVars,
     Inst!ViewNext, Inst!Appear, Inst!WriteStatus, Inst!Vanish,
     Inst!MakeSecret, Inst!DropSecret, Inst!Power
<1>10. runs' = runs /\ created \subseteq created'
  BY DEF InstanceStep, Setback, Goto, Mishap, NoMishap, apiVars, workerVars,
     Inst!ViewNext, Inst!Appear, Inst!WriteStatus, Inst!Vanish,
     Inst!MakeSecret, Inst!DropSecret, Inst!Power
<1>11. \A x \in Snapshots : (snap[x] \in Open /\ ~Decided(x))' =>
           \/ snap[x] \in Open /\ (~Decided(x) \/ Mishap)
           \/ x \notin created
  BY NoSnapshotAssumption DEF SInv, TypeOK, InstanceStep, Setback, Goto,
     NoMishap, apiVars, workerVars, Inst!ViewNext, Inst!Appear,
     Inst!WriteStatus, Inst!Vanish, Inst!MakeSecret, Inst!DropSecret,
     Inst!Power, StoreOK, WorkerOK, PCs, Working, Decided, Open, Copies
<1>12. (pc \in {"secret", "ssh"} /\ ~mine)' =>
           /\ key' \in Snapshots
           /\ \/ pc \in {"secret", "ssh"} /\ ~mine /\ key' = key
              \/ Mishap /\ snap[key'] \in Open /\ ~Decided(key')
  BY NoSnapshotAssumption DEF SInv, TypeOK, InstanceStep, Setback, Goto,
     NoMishap, apiVars, workerVars, Inst!ViewNext, Inst!Appear,
     Inst!WriteStatus, Inst!Vanish, Inst!MakeSecret, Inst!DropSecret,
     Inst!Power, StoreOK, WorkerOK, PCs, Working, Decided, Open
<1>13. Account'
  BY <1>9, <1>10, <1>11, <1>12, AccountKept DEF SInv, TypeOK
<1>14. QED
  BY <1>1, <1>2, <1>3, <1>4, <1>5, <1>6, <1>7, <1>8, <1>13 DEF SInv, TypeOK

LEMMA GuestKeeps ==
    ASSUME SInv, GuestStep
    PROVE  SInv'
<1>1. InstanceOK'
  BY DEF SInv, TypeOK, GuestStep, Bootstrap, Scheduled, instVars, apiVars,
     workerVars, InstanceOK, Inst!ViewTypeOK
<1>2. StoreOK'
  BY NoSnapshotAssumption DEF SInv, TypeOK, GuestStep, Bootstrap, Scheduled,
     instVars, apiVars, workerVars, StoreOK, WorkerOK, PCs, SnapshotPhases
<1>3. WorkerOK'
  BY NoSnapshotAssumption DEF SInv, TypeOK, GuestStep, Bootstrap, Scheduled,
     instVars, apiVars, workerVars, WorkerOK, StoreOK, PCs
<1>4. HistoryOK'
  BY MishapsAssumption DEF SInv, TypeOK, GuestStep, Bootstrap, Scheduled,
     instVars, apiVars, workerVars, HistoryOK, WorkerOK, StoreOK, GuestOK, PCs
<1>5. GuestOK'
  BY ScheduledAssumption DEF SInv, TypeOK, GuestStep, Bootstrap, Scheduled,
     instVars, apiVars, workerVars, GuestOK, WorkerOK, PCs
<1>6. Copies'
  BY DEF SInv, TypeOK, GuestStep, Bootstrap, Scheduled, instVars, apiVars,
     workerVars, StoreOK, WorkerOK, PCs, Copies, Working, SnapshotPhases
<1>7. Working'
  BY NoSnapshotAssumption DEF SInv, TypeOK, GuestStep, Bootstrap, Scheduled,
     instVars, apiVars, workerVars, StoreOK, WorkerOK, PCs, SnapshotPhases,
     Copies, Working, Open
<1>8. Backups'
  BY SnapshotsAssumption, NoSnapshotAssumption DEF SInv, TypeOK, GuestStep,
     Bootstrap, Scheduled, instVars, apiVars, workerVars, StoreOK, WorkerOK,
     GuestOK, PCs, Working, Backups, AvailableIsBackedUp
<1>9. Mishap \/ NoMishap
  BY DEF NoMishap, GuestStep, Bootstrap, Scheduled, instVars, apiVars,
     workerVars
<1>10. runs' = runs /\ created \subseteq created'
  BY DEF GuestStep, Bootstrap, Scheduled, instVars, apiVars, workerVars
<1>11. \A x \in Snapshots : (snap[x] \in Open /\ ~Decided(x))' =>
           \/ snap[x] \in Open /\ (~Decided(x) \/ Mishap)
           \/ x \notin created
  BY NoSnapshotAssumption DEF SInv, TypeOK, GuestStep, Bootstrap, Scheduled,
     instVars, apiVars, workerVars, StoreOK, WorkerOK, PCs, Working, Decided,
     Open, Copies
<1>12. (pc \in {"secret", "ssh"} /\ ~mine)' =>
           /\ key' \in Snapshots
           /\ \/ pc \in {"secret", "ssh"} /\ ~mine /\ key' = key
              \/ Mishap /\ snap[key'] \in Open /\ ~Decided(key')
  BY NoSnapshotAssumption DEF SInv, TypeOK, GuestStep, Bootstrap, Scheduled,
     instVars, apiVars, workerVars, StoreOK, WorkerOK, PCs, Working, Decided,
     Open
<1>13. Account'
  BY <1>9, <1>10, <1>11, <1>12, AccountKept DEF SInv, TypeOK
<1>14. QED
  BY <1>1, <1>2, <1>3, <1>4, <1>5, <1>6, <1>7, <1>8, <1>13 DEF SInv, TypeOK

LEMMA BackupKeeps ==
    ASSUME SInv, NEW ok \in BOOLEAN, BackupEnds(ok)
    PROVE  SInv'
<1>1. InstanceOK'
  BY DEF SInv, TypeOK, BackupEnds, Attached, Goto, instVars, apiVars,
     workerVars, InstanceOK, Inst!ViewTypeOK
<1>2. StoreOK'
  BY NoSnapshotAssumption DEF SInv, TypeOK, BackupEnds, Attached, Goto,
     instVars, apiVars, workerVars, StoreOK, WorkerOK, PCs, SnapshotPhases
<1>3. WorkerOK'
  BY NoSnapshotAssumption DEF SInv, TypeOK, BackupEnds, Attached, Goto,
     instVars, apiVars, workerVars, WorkerOK, StoreOK, PCs
<1>4. HistoryOK'
  BY MishapsAssumption DEF SInv, TypeOK, BackupEnds, Attached, Goto, instVars,
     apiVars, workerVars, HistoryOK, WorkerOK, StoreOK, GuestOK, PCs
<1>5. GuestOK'
  BY ScheduledAssumption DEF SInv, TypeOK, BackupEnds, Attached, Goto,
     instVars, apiVars, workerVars, GuestOK, WorkerOK, PCs
<1>6. Copies'
  BY DEF SInv, TypeOK, BackupEnds, Attached, Goto, instVars, apiVars,
     workerVars, StoreOK, WorkerOK, PCs, Copies, Working, SnapshotPhases
<1>7. Working'
  BY NoSnapshotAssumption DEF SInv, TypeOK, BackupEnds, Attached, Goto,
     instVars, apiVars, workerVars, StoreOK, WorkerOK, PCs, SnapshotPhases,
     Copies, Working, Open
<1>8. Backups'
  BY SnapshotsAssumption, NoSnapshotAssumption DEF SInv, TypeOK, BackupEnds,
     Attached, Goto, instVars, apiVars, workerVars, StoreOK, WorkerOK,
     GuestOK, PCs, Working, Backups, AvailableIsBackedUp
<1>9. Mishap \/ NoMishap
  BY DEF NoMishap, BackupEnds, Attached, Goto, instVars, apiVars, workerVars
<1>10. runs' = runs /\ created \subseteq created'
  BY DEF BackupEnds, Attached, Goto, instVars, apiVars, workerVars
<1>11. \A x \in Snapshots : (snap[x] \in Open /\ ~Decided(x))' =>
           \/ snap[x] \in Open /\ (~Decided(x) \/ Mishap)
           \/ x \notin created
  BY NoSnapshotAssumption DEF SInv, TypeOK, BackupEnds, Attached, Goto,
     instVars, apiVars, workerVars, StoreOK, WorkerOK, PCs, Working, Decided,
     Open, Copies
<1>12. (pc \in {"secret", "ssh"} /\ ~mine)' =>
           /\ key' \in Snapshots
           /\ \/ pc \in {"secret", "ssh"} /\ ~mine /\ key' = key
              \/ Mishap /\ snap[key'] \in Open /\ ~Decided(key')
  BY NoSnapshotAssumption DEF SInv, TypeOK, BackupEnds, Attached, Goto,
     instVars, apiVars, workerVars, StoreOK, WorkerOK, PCs, Working, Decided,
     Open
<1>13. Account'
  BY <1>9, <1>10, <1>11, <1>12, AccountKept DEF SInv, TypeOK
<1>14. QED
  BY <1>1, <1>2, <1>3, <1>4, <1>5, <1>6, <1>7, <1>8, <1>13 DEF SInv, TypeOK

(* The invariant holds at the start ...                                    *)
LEMMA InitSInv == Init => SInv
<1> SUFFICES ASSUME Init PROVE SInv
  OBVIOUS
<1>1. TypeOK
  <2>1. InstanceOK
    BY DEF Init, InstanceOK, Inst!ViewInit, Inst!ViewTypeOK
  <2>2. GuestOK
    BY ScheduledAssumption DEF Init, GuestOK, GuestInit
  <2>3. StoreOK /\ WorkerOK
    BY DEF Init, StoreOK, WorkerOK, PCs
  <2>4. HistoryOK
    BY MishapsAssumption DEF Init, HistoryOK
  <2>5. QED  BY <2>1, <2>2, <2>3, <2>4 DEF TypeOK
<1>2. Copies /\ Working /\ Backups
  BY NoSnapshotAssumption
     DEF Init, Copies, Working, Backups, AvailableIsBackedUp
<1>3. Account
  <2>1. \A s \in Snapshots : runs[s] = 0  BY DEF Init
  <2>2. mishaps = 0 /\ pc = "idle"  BY DEF Init
  <2>3. QED  BY <2>1, <2>2 DEF Account, BackupsAccountedFor
<1>4. QED  BY <1>1, <1>2, <1>3 DEF SInv

(* ... and every step keeps it.                                            *)
LEMMA StepSInv == ASSUME SInv, [Next]_vars PROVE SInv'
<1>1. ASSUME NEW s \in Snapshots, Take(s) PROVE SInv'
  BY <1>1, SkipKeeps, BeginKeeps DEF Take
<1>2. ASSUME NEW s \in Snapshots, Sync(s) \/ Resync(s) PROVE SInv'
  BY <1>2, SyncKeeps, SkipKeeps
<1>3. ASSUME NEW s \in Snapshots,
             CreateSnapshot(s) \/ EditSnapshot(s) \/ DeleteSnapshot(s)
      PROVE  SInv'
  BY <1>3, CreateKeeps, EditKeeps, DeleteKeeps
<1>4. CASE Handle
  BY <1>4, MarkKeeps, ReadSecretKeeps, SSHExecKeeps, DisconnectKeeps, FinishKeeps,
     FailKeeps DEF Handle
<1>5. CASE SyncInstance \/ vars' = vars \/ \E s \in Snapshots : Wait(s)
  <2>1. queue' \subseteq Snapshots /\ cachedInst' \in {"absent", "not ready", "ready"}
    BY <1>5 DEF SInv, TypeOK, InstanceOK, WorkerOK, SyncInstance, Readiness, Wait, vars
  <2>2. UNCHANGED <<instVars, apiVars, created, workerVars, mishaps, runs, backed,
                    guestVars>>
    BY <1>5 DEF SyncInstance, Wait, vars
  <2>3. QED  BY <2>1, <2>2, QuietKeeps
<1>6. CASE Crash \/ InstanceStep \/ GuestStep \/ BackupStep
  BY <1>6, CrashKeeps, InstanceKeeps, GuestKeeps, BackupKeeps DEF BackupStep
<1>7. QED
  BY <1>1, <1>2, <1>3, <1>4, <1>5, <1>6 DEF Next

(* The inductive invariant of the snapshot controller: what the worker may *)
(* rely on although it decides by a cached copy, and what each backup of   *)
(* a snapshot is owed to.                                                  *)
THEOREM SnapshotInvariance == Spec => []SInv
<1>1. QED  BY InitSInv, StepSInv, PTL DEF Spec

(* The snapshot controller's state stays in its types.                     *)
THEOREM SnapshotTypes == Spec => []TypeOK
<1>1. SInv => TypeOK  BY DEF SInv
<1>2. QED  BY <1>1, SnapshotInvariance, PTL

(* A snapshot that says available was backed up (Reconcile writes it after *)
(* the SSH command came back without an error, and nothing else does).     *)
THEOREM AvailableAlwaysBackedUp == Spec => []AvailableIsBackedUp
<1>1. SInv => AvailableIsBackedUp  BY DEF SInv, Backups
<1>2. QED  BY <1>1, SnapshotInvariance, PTL

(* However many snapshots there are, none is backed up more often than     *)
(* once, and once for each crash, failing request, cut session, write of a *)
(* user or setback of the instance.                                        *)
THEOREM BackupsAlwaysAccountedFor == Spec => []BackupsAccountedFor
<1>1. SInv => BackupsAccountedFor  BY DEF SInv, Account
<1>2. QED  BY <1>1, SnapshotInvariance, PTL

(* Reconcile starts no backup for a snapshot that has ended.               *)
THEOREM EndedAreLeftAlone == Spec => NoBackupAfterEnd
<1> DEFINE A == \A s \in Snapshots : runs'[s] # runs[s] =>
                   snap[s] \in {"creating", NoSnapshot}
<1>1. ASSUME SInv, [Next]_vars PROVE [A]_vars
  <2>1. CASE SSHExec
    <3>1. ASSUME NEW s \in Snapshots, runs'[s] # runs[s] PROVE s = key
      BY <1>1, <2>1, <3>1 DEF SSHExec, SInv, TypeOK, HistoryOK
    <3>2. snap[key] \in {"creating", NoSnapshot}
      BY <1>1, <2>1 DEF SSHExec, SInv, Working
    <3>3. QED  BY <3>1, <3>2
  <2>2. CASE runs' = runs
    BY <2>2
  <2>3. SSHExec \/ runs' = runs
    BY <1>1 DEF Next, Take, Skip, InstanceNotFound, Proceed, Begin, Wait, Sync, Resync,
       CreateSnapshot, EditSnapshot, DeleteSnapshot, UserWrites, Handle, Mark,
       ReadSecret, Disconnect, Finish, Fail, SyncInstance, Crash, InstanceStep,
       GuestStep, BackupStep, BackupEnds, vars
  <2>4. QED  BY <2>1, <2>2, <2>3
<1>2. QED  BY <1>1, SnapshotInvariance, PTL DEF Spec, NoBackupAfterEnd

------------------------------------------------------------------------------
LEMMA SnapshotSuccessors ==
    /\ Life!Successors["absent"] = {"new"}
    /\ Life!Successors["new"] = {"creating", "failed"}
    /\ Life!Successors["creating"] = {"available", "failed"}
BY DEF Life!Successors

(* The moves of one stored snapshot.                                       *)
Moves(p, q) ==
    \/ q = NoSnapshot
    \/ p = NoSnapshot /\ q = ""
    \/ p = "" /\ q \in {"creating", "failed"}
    \/ p = "creating" /\ q \in {"available", "failed"}

SnapStep ==
    \/ snap' = snap
    \/ \E s \in Snapshots, q \in SnapshotPhases \cup {NoSnapshot} :
          Moves(snap[s], q) /\ snap' = [snap EXCEPT ![s] = q]

(* A status write of the worker is a move.                                 *)
LEMMA StoreMoves ==
    ASSUME SInv, pc # "idle", mine, NEW p \in {"creating", "available", "failed"},
           Store(p), p = "creating" => pc = "mark", p = "available" => pc = "finish"
    PROVE  SnapStep
<1>1. key \in Snapshots /\ snap[key] \in Open
  BY DEF SInv, TypeOK, WorkerOK, Working
<1>2. CASE snap[key] = p
  BY <1>1, <1>2 DEF Store, SnapStep, SInv, TypeOK, StoreOK
<1>3. CASE snap[key] # p
  <2>1. p = "available" => snap[key] = "creating"
    BY <1>1, NoSnapshotAssumption DEF SInv, Working, Open
  <2>2. Moves(snap[key], p)
    BY <1>1, <1>3, <2>1 DEF Moves, Open
  <2>3. QED  BY <1>1, <2>2 DEF SnapStep, Store, SnapshotPhases
<1>4. QED  BY <1>2, <1>3

LEMMA SnapSteps == ASSUME SInv, [Next]_vars PROVE SnapStep
<1>1. CASE Mark
  <2>1. (mine /\ Store("creating")) \/ snap' = snap
    BY <1>1 DEF Mark, Update, Refused, apiVars
  <2>2. QED  BY <1>1, <2>1, StoreMoves DEF Mark, SnapStep
<1>2. CASE Finish
  <2>1. (mine /\ Store("available")) \/ snap' = snap
    BY <1>2 DEF Finish, Update, Refused, apiVars
  <2>2. QED  BY <1>2, <2>1, StoreMoves DEF Finish, SnapStep
<1>3. CASE Fail
  <2>1. (mine /\ Store("failed")) \/ snap' = snap
    BY <1>3 DEF Fail, Update, Refused, apiVars
  <2>2. QED  BY <1>3, <2>1, StoreMoves DEF Fail, SnapStep
<1>4. ASSUME NEW s \in Snapshots, CreateSnapshot(s) PROVE SnapStep
  <2>1. snap[s] = NoSnapshot  BY <1>4 DEF SInv, Copies, CreateSnapshot
  <2>2. QED
    BY <1>4, <2>1 DEF CreateSnapshot, UserWrites, SnapStep, Moves, SnapshotPhases
<1>5. ASSUME NEW s \in Snapshots, EditSnapshot(s) PROVE SnapStep
  BY <1>5 DEF EditSnapshot, UserWrites, SnapStep, SInv, TypeOK, StoreOK
<1>6. ASSUME NEW s \in Snapshots, DeleteSnapshot(s) PROVE SnapStep
  BY <1>6 DEF DeleteSnapshot, UserWrites, SnapStep, Moves
<1>7. CASE snap' = snap
  BY <1>7 DEF SnapStep
<1>8. \/ Mark \/ Finish \/ Fail \/ snap' = snap
      \/ \E s \in Snapshots : CreateSnapshot(s) \/ EditSnapshot(s) \/ DeleteSnapshot(s)
  BY DEF Next, Take, Skip, InstanceNotFound, Proceed, Begin, Wait, Sync, Resync, Handle,
     ReadSecret, SSHExec, Disconnect, SyncInstance, Crash, InstanceStep, GuestStep,
     BackupStep, BackupEnds, apiVars, vars
<1>9. QED  BY <1>1, <1>2, <1>3, <1>4, <1>5, <1>6, <1>7, <1>8

(* The snapshot controller implements SnapshotLifecycle: each snapshot is  *)
(* marked, ends once and stays ended, and no step moves two.               *)
THEOREM SnapshotRefinement == Spec => FollowsSnapshotLifecycle
<1>1. Init => Life!Init
  BY DEF Init, Life!Init, LifePhases, LifePhase
<1>2. ASSUME SInv, [Next]_vars PROVE [Life!Next]_LifePhases
  <2>1. CASE snap' = snap
    BY <2>1 DEF LifePhases
  <2>2. ASSUME NEW s \in Snapshots, NEW q \in SnapshotPhases \cup {NoSnapshot},
               Moves(snap[s], q), snap' = [snap EXCEPT ![s] = q]
        PROVE  Life!Next \/ LifePhases' = LifePhases
    <3>1. LifePhases' = [LifePhases EXCEPT ![s] = LifePhase(q)]
      BY <1>2, <2>2 DEF LifePhases, SInv, TypeOK, StoreOK
    <3>2. LifePhases[s] = LifePhase(snap[s])
      BY DEF LifePhases
    <3>3. snap[s] \in SnapshotPhases \cup {NoSnapshot}
      BY <1>2 DEF SInv, TypeOK, StoreOK
    <3>4. CASE q = NoSnapshot
      <4>1. LifePhase(q) = "absent"  BY <3>4 DEF LifePhase
      <4>2. CASE snap[s] = NoSnapshot
        BY <2>2, <3>1, <3>4, <4>2 DEF LifePhases, SInv, TypeOK, StoreOK
      <4>3. CASE snap[s] # NoSnapshot
        BY <3>1, <3>2, <3>3, <4>1, <4>3
           DEF Life!Next, Life!Remove, LifePhase, SnapshotPhases
      <4>4. QED  BY <4>2, <4>3
    <3>5. CASE q # NoSnapshot
      <4>1. LifePhase(q) \in Life!Successors[LifePhases[s]]
        <5>1. CASE snap[s] = NoSnapshot /\ q = ""
          BY <3>2, <3>5, <5>1, SnapshotSuccessors DEF LifePhase
        <5>2. CASE snap[s] = "" /\ q \in {"creating", "failed"}
          BY <3>2, <3>5, <5>2, NoSnapshotAssumption, SnapshotSuccessors
             DEF LifePhase
        <5>3. CASE snap[s] = "creating" /\ q \in {"available", "failed"}
          BY <3>2, <3>5, <5>3, NoSnapshotAssumption, SnapshotSuccessors
             DEF LifePhase
        <5>4. QED  BY <2>2, <3>5, <5>1, <5>2, <5>3 DEF Moves
      <4>2. QED  BY <3>1, <4>1 DEF Life!Next, Life!Advance
    <3>6. QED  BY <3>4, <3>5
  <2>3. QED  BY <1>2, <2>1, <2>2, SnapSteps DEF SnapStep
<1>3. QED
  BY <1>1, <1>2, SnapshotInvariance, PTL DEF Spec, FollowsSnapshotLifecycle, Life!Spec

=============================================================================
