---------------------------- MODULE BackupGuest ----------------------------
(***************************************************************************)
(* internal/harvester/cloudinit.go as far as backups are concerned: the    *)
(* generated bootstrap.sh configures pgBackRest, creates the stanza and    *)
(* takes a first full backup, and a cron file schedules further ones.      *)
(* pgBackRest itself is external: it runs one backup of a stanza at a      *)
(* time, and a second one gives up at once (its lock).                     *)
(***************************************************************************)
EXTENDS Integers

CONSTANTS Window,       \* spec.preferredBackupWindow of the instance
          MaxScheduled, \* bound: backups cron starts
          Nobody        \* no backup is running

VARIABLES stanza,    \* "none", "created", or "broken": bootstrap.sh gave up
          running,   \* whose backup holds pgBackRest's lock
          scheduled  \* backups cron has started so far

guestVars == <<stanza, running, scheduled>>

(* A window by what Sscanf("%d:%d") finds before its first "-": two        *)
(* numbers, whatever they are, or nothing at all.                          *)
Hours == 0..23
Windows == (Nat \X Nat) \cup {<<>>}


backupWindowToCron(window) ==
    IF window = <<>> THEN [incr |-> 2, full |-> 1]
    ELSE [incr |-> window[1], full |-> (window[1] + 23) % 24]

(* The two lines of the cron file, in minutes after midnight: both say     *)
(* minute 0, whatever the minutes of the window are.                       *)
CronTimes(window) ==
    [incr |-> 60 * backupWindowToCron(window).incr,
     full |-> 60 * backupWindowToCron(window).full]

ASSUME WindowAssumption == Window \in Windows
ASSUME ScheduledAssumption == MaxScheduled \in Nat

GuestInit == stanza = "none" /\ running = Nobody /\ scheduled = 0

(* bootstrap.sh, which cloud-init runs once: under set -e any command of   *)
(* it that fails ends it.  Once the stanza is created its own full backup  *)
(* begins.  An instance without S3 has no stanza either, as if it had      *)
(* failed.                                                                 *)
Bootstrap ==
    /\ stanza = "none"
    /\ \/ stanza' = "created" /\ running' = "guest"
       \/ stanza' = "broken" /\ running' = running
    /\ UNCHANGED scheduled

(* The cron file: cron takes it only if both hours are ones.               *)
Scheduled ==
    /\ {backupWindowToCron(Window).incr, backupWindowToCron(Window).full}
          \subseteq Hours
    /\ stanza = "created" /\ running = Nobody
    /\ scheduled < MaxScheduled
    /\ running' = "guest" /\ scheduled' = scheduled + 1
    /\ stanza' = stanza

(* How far the backups of a window that starts at h:m are from its start.  *)
Day == 24 * 60

EarlyByMinutes ==
    \A h \in Hours, m \in 0..59 :
        LET start == 60 * h + m
            at == CronTimes(<<h, m>>)
        IN  /\ at.incr \in 0..(Day - 1) /\ at.full \in 0..(Day - 1)
            /\ at.incr = start - m
            /\ (at.full + 60) % Day = at.incr

=============================================================================
