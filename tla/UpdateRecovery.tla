--------------------------- MODULE UpdateRecovery ---------------------------
(* How the Windows app updates itself and recovers from an update that does *)
(* not work (UpdateRecoveryStore.cs, Program.cs, WindowsOperations.cs): it  *)
(* takes the Worker's execution-maintenance lease, keeps a copy of the      *)
(* installed package and a receipt beside it, hands over to the external    *)
(* updater and exits; the version that starts next decides by the receipt,  *)
(* its own version and a health probe whether to forget the old package or  *)
(* to put it back.  The app, the updater or the machine may stop at any     *)
(* step; a mutex and the Busy flag leave one app with one command at a time.*)
(*                                                                          *)
(* The updater (Velopack) is external: it waits for the app to exit,        *)
(* installs a package and starts what it installed, or fails and changes    *)
(* nothing.                                                                 *)
(*                                                                          *)
(* A definition written just above the one it resembles, and used nowhere,  *)
(* is a mutant: the bug that the properties named in PROJECT.json exclude.  *)
EXTENDS Naturals

CONSTANTS
  Newest,      \* versions are 1 .. Newest
  Dir,         \* backup directories, each named anew
  NoDir,
  None,        \* no receipt, no updater, no lease
  MaxMishaps   \* bound: failures, deaths, damages and changes of health

ASSUME NewestAssumption == Newest \in Nat /\ Newest > 1
ASSUME BoundAssumption == MaxMishaps \in Nat

VARIABLES
  installed,  \* the version on disk
  app,        \* the running app: where it is, its version, its backup directory
  receipt,    \* update-recovery.json
  pkg,        \* the package in each backup directory
  updater,    \* the external updater that waits for the app to exit
  lease,      \* owner of the execution-maintenance lease
  job,        \* some Job is active
  sick,       \* versions that do not pass the health probe now
  mishaps,
  tried,      \* history: rollbacks launched for this receipt
  lapsed,     \* history: since the receipt was written the lease expired or a command
              \* ended it, or the app was started ahead of the updater
  cut         \* history: directories whose deletion a death separated from the receipt's

vars == <<installed, app, receipt, pkg, updater, lease, job, sick, mishaps,
          tried, lapsed, cut>>
history == <<tried, lapsed, cut>>

Version == 1 .. Newest
Owner == {"update", "uninstall"}
Receipt == [state : {"prepared", "rollback_started", "rollback_failed"},
            previous : Version, target : Version, dir : Dir]
Updater == [version : Version, dir : Dir \cup {NoDir}]

ASSUME NamesAssumption == NoDir \notin Dir /\ None \notin Owner \cup Receipt \cup Updater

At(pc) == app.pc = pc
Goes(pc) == app' = [app EXCEPT !.pc = pc]
Starts(v) == app' = [pc |-> "read", version |-> v, dir |-> NoDir]
Exits == Goes("off")
Mishap == mishaps < MaxMishaps /\ mishaps' = mishaps + 1

Init ==
  /\ installed = 1
  /\ app = [pc |-> "off", version |-> 1, dir |-> NoDir]
  /\ receipt = None /\ updater = None /\ lease = None
  /\ pkg = [d \in Dir |-> "absent"]
  /\ job \in BOOLEAN
  /\ sick \in SUBSET Version
  /\ mishaps = 0 /\ tried = 0 /\ lapsed = FALSE /\ cut = {}

-----------------------------------------------------------------------------
(* A start: ProcessStartupAsync, then ReleaseMaintenanceWhenHealthyAsync.   *)

Old == app.version = receipt.previous
New == app.version = receipt.target
Healthy == app.version \notin sick

AfterRead ==
  IF receipt = None THEN "release"
  ELSE CASE receipt.state = "prepared" /\ Old         -> "complete"
         [] receipt.state = "prepared" /\ ~Old /\ New -> "probe"
         [] receipt.state = "rollback_started" /\ Old -> "probe"
         [] receipt.state = "rollback_failed"         -> "release"
         [] OTHER                                     -> "giveup"

Disk == UNCHANGED <<installed, updater, lease, job, sick, mishaps>>
Step(pc) == At(pc) /\ Disk
Quiet == UNCHANGED <<receipt, pkg, history>>

ReadReceipt == Step("read") /\ Goes(AfterRead) /\ Quiet

Probe ==
  /\ Step("probe")
  /\ Goes(IF Healthy THEN "complete"
          ELSE IF receipt.state = "prepared" THEN "verify" ELSE "giveup")
  /\ Quiet

\* An integrity failure is shown to the user; the app runs, the lease stays.
VerifyPackage ==
  /\ Step("verify")
  /\ Goes(IF pkg[receipt.dir] = "whole" THEN "mark" ELSE "up")
  /\ Quiet

WritesState(state, next) ==
  /\ receipt' = [receipt EXCEPT !.state = state]
  /\ Goes(next)
  /\ UNCHANGED <<pkg, history>>

MarkNothing == Step("mark") /\ Goes("launch") /\ Quiet

MarkRollback == Step("mark") /\ WritesState("rollback_started", "launch")
GiveUpSilently == Step("giveup") /\ Goes("release") /\ Quiet

GiveUp == Step("giveup") /\ WritesState("rollback_failed", "release")

LaunchRollback ==
  /\ At("launch")
  /\ updater' = [version |-> receipt.previous, dir |-> receipt.dir]
  /\ tried' = tried + 1
  /\ Exits
  /\ UNCHANGED <<installed, receipt, pkg, lease, job, sick, mishaps, lapsed, cut>>

\* CompleteAsync, first the directory, whose absence is an error, then the
\* receipt.
AfterComplete == IF At("complete") THEN "release" ELSE "endlease"
Complete ==
  /\ At("complete") \/ At("cancel")
  /\ Disk
  /\ IF pkg[receipt.dir] = "absent" THEN Goes("up") /\ UNCHANGED pkg
     ELSE /\ Goes(IF At("complete") THEN "erase" ELSE "erase_cancelled")
          /\ pkg' = [pkg EXCEPT ![receipt.dir] = "absent"]
  /\ UNCHANGED <<receipt, history>>

Erase ==
  /\ At("erase") \/ At("erase_cancelled")
  /\ Disk
  /\ receipt' = None
  /\ tried' = 0
  /\ Goes(IF At("erase") THEN "release" ELSE "endlease")
  /\ UNCHANGED <<pkg, lapsed, cut>>

Release ==
  /\ At("release")
  /\ lease' = IF Healthy THEN None ELSE lease
  /\ Goes("up")
  /\ UNCHANGED <<installed, receipt, pkg, updater, job, sick, mishaps, history>>

-----------------------------------------------------------------------------
(* The commands of a running app: update, uninstall, repair.               *)

AdmittedAnyway(owner) == lease \in {None, owner}

\* maintenance begin: refused while a Job is active or another owner holds it.
Admitted(owner) == lease \in {None, owner} /\ ~job
Takes(owner) ==
  /\ Admitted(owner)
  /\ lease' = owner
  /\ UNCHANGED <<installed, receipt, pkg, updater, job, sick, mishaps, history>>

\* A bound: Dir; the code names each directory by the time and a new GUID.
Unused == {d \in Dir : pkg[d] = "absent" /\ d \notin cut}

BeginUpdate == /\ At("up") /\ app.version < Newest
               /\ Unused # {}
               /\ Takes("update") /\ Goes("backup")
BeginUninstall == At("up") /\ Takes("uninstall") /\ Goes("uninstall")

BackupState ==
  /\ Step("backup")
  /\ app' = [app EXCEPT !.pc = "stage", !.dir = NoDir]
  /\ Quiet

StageUnsealed ==
  /\ Step("stage")
  /\ \E d \in Unused :
       /\ pkg' = [pkg EXCEPT ![d] = "partial"]
       /\ app' = [app EXCEPT !.pc = "record", !.dir = d]
  /\ UNCHANGED <<receipt, history>>

StagePackage ==
  /\ Step("stage")
  /\ \E d \in Unused :
       /\ pkg' = [pkg EXCEPT ![d] = "partial"]
       /\ app' = [app EXCEPT !.pc = "seal", !.dir = d]
  /\ UNCHANGED <<receipt, history>>

SealPackage ==
  /\ Step("seal")
  /\ pkg' = [pkg EXCEPT ![app.dir] = "whole"]
  /\ Goes("record")
  /\ UNCHANGED <<receipt, history>>

RecordReceipt ==
  /\ Step("record")
  /\ \E v \in Version :
       /\ v > app.version
       /\ receipt' = [state |-> "prepared", previous |-> app.version, target |-> v,
                      dir |-> app.dir]
  /\ tried' = 0
  /\ lapsed' = (lease # "update" \/ (lapsed /\ updater # None))
  /\ Goes("download")
  /\ UNCHANGED <<pkg, cut>>

\* Download and verify, then ApplyUpdatesAndRestart.
Apply ==
  /\ At("download")
  /\ updater' = [version |-> receipt.target, dir |-> NoDir]
  /\ Exits
  /\ UNCHANGED <<installed, receipt, pkg, lease, job, sick, mishaps, history>>

\* The catch block of PrepareAsync, then the one of CheckForUpdatesAsync.
Undo ==
  /\ Step("undo")
  /\ pkg' = [d \in Dir |-> IF d = app.dir THEN "absent" ELSE pkg[d]]
  /\ Goes("endlease")
  /\ UNCHANGED <<receipt, history>>

EndLease(owner) ==
  /\ lease' = IF lease = owner THEN None ELSE lease
  /\ lapsed' = (lapsed \/ lease = owner)
  /\ Goes("up")
  /\ UNCHANGED <<installed, receipt, pkg, updater, job, sick, tried, cut>>

EndUpdate == At("endlease") /\ EndLease("update") /\ UNCHANGED mishaps
EndUninstall == At("uninstall") /\ EndLease("uninstall") /\ Mishap

Uninstalled == At("uninstall") /\ Goes("gone") /\ Disk /\ Quiet

\* A repair that verifies ends both leases.
Repair ==
  /\ At("up")
  /\ lease' = None
  /\ lapsed' = TRUE
  /\ UNCHANGED <<installed, app, receipt, pkg, updater, job, sick, mishaps, tried, cut>>

UserQuits == At("up") /\ Exits /\ Disk /\ Quiet

-----------------------------------------------------------------------------
(* The updater, the user and the machine, and what goes wrong.             *)

\* Also ahead of an updater, which then waits or fails.
UserStarts ==
  /\ At("off") /\ Starts(installed) /\ Disk
  /\ lapsed' = (lapsed \/ updater # None)
  /\ UNCHANGED <<receipt, pkg, tried, cut>>

CanInstall == updater.dir \in {NoDir} \cup {d \in Dir : pkg[d] = "whole"}
UpdaterApplies ==
  /\ updater # None /\ At("off") /\ CanInstall
  /\ installed' = updater.version
  /\ updater' = None
  /\ Starts(installed')
  /\ UNCHANGED <<receipt, pkg, lease, job, sick, mishaps, history>>

\* It finds the package damaged, fails, or the machine restarts.
UpdaterFails ==
  /\ updater # None
  /\ IF CanInstall THEN Mishap ELSE UNCHANGED mishaps
  /\ updater' = None
  /\ UNCHANGED <<installed, app, receipt, pkg, lease, job, sick, history>>

UserInstalls(v) ==
  /\ At("off") /\ v # installed /\ Mishap
  /\ installed' = v
  /\ UNCHANGED <<app, receipt, pkg, updater, lease, job, sick, history>>

JobStarts == /\ ~job /\ lease = None /\ job' = TRUE
             /\ UNCHANGED <<installed, app, receipt, pkg, updater, lease, sick, mishaps, history>>
JobEnds == /\ job /\ job' = FALSE
           /\ UNCHANGED <<installed, app, receipt, pkg, updater, lease, sick, mishaps, history>>

LeaseExpires ==
  /\ lease # None /\ Mishap
  /\ lease' = None /\ lapsed' = TRUE
  /\ UNCHANGED <<installed, app, receipt, pkg, updater, job, sick, tried, cut>>

HealthChanges(v) ==
  /\ Mishap
  /\ sick' = IF v \in sick THEN sick \ {v} ELSE sick \cup {v}
  /\ UNCHANGED <<installed, app, receipt, pkg, updater, lease, job, history>>

PackageDamaged(d) ==
  /\ pkg[d] = "whole" /\ Mishap
  /\ pkg' = [pkg EXCEPT ![d] = "damaged"]
  /\ UNCHANGED <<installed, app, receipt, updater, lease, job, sick, history>>

\* A step throws: its effect is missing, and the catch block decides.
AfterFailure ==
  CASE app.pc = "backup"                      -> "endlease"
    [] app.pc \in {"stage", "seal", "record"} -> "undo"
    [] app.pc = "download"                    -> "cancel"
    [] app.pc \in {"read", "mark", "launch", "giveup", "complete", "erase",
                   "cancel", "erase_cancelled", "release", "endlease"} -> "up"
    [] OTHER                                  -> app.pc
StepFails ==
  /\ AfterFailure # app.pc /\ Mishap
  /\ Goes(AfterFailure)
  /\ cut' = IF app.pc \in {"erase", "erase_cancelled"} THEN cut \cup {receipt.dir} ELSE cut
  /\ UNCHANGED <<installed, receipt, pkg, updater, lease, job, sick, tried, lapsed>>

AppDies ==
  /\ app.pc \notin {"off", "gone"} /\ Mishap
  /\ Exits
  /\ cut' = IF app.pc \in {"erase", "erase_cancelled"} THEN cut \cup {receipt.dir} ELSE cut
  /\ UNCHANGED <<installed, receipt, pkg, updater, lease, job, sick, tried, lapsed>>

Startup == ReadReceipt \/ Probe \/ VerifyPackage \/ MarkRollback \/ GiveUp
           \/ LaunchRollback \/ Complete \/ Erase \/ Release
Command == BackupState \/ StagePackage \/ SealPackage \/ RecordReceipt \/ Apply
           \/ Undo \/ EndUpdate \/ EndUninstall \/ Uninstalled

Next ==
  \/ Startup \/ BeginUpdate \/ BeginUninstall \/ Repair \/ Command
  \/ UserQuits \/ UserStarts \/ UpdaterApplies \/ UpdaterFails
  \/ JobStarts \/ JobEnds \/ LeaseExpires \/ StepFails \/ AppDies
  \/ \E v \in Version : UserInstalls(v) \/ HealthChanges(v)
  \/ \E d \in Dir : PackageDamaged(d)

Spec == Init /\ [][Next]_vars

\* The app and the updater go on; a Windows session ends and the next one
\* starts the app (RegisterStartup).
FairSpec == Spec /\ WF_vars(Startup) /\ WF_vars(Command)
                 /\ WF_vars(UpdaterApplies \/ UpdaterFails)
                 /\ WF_vars(UserQuits) /\ WF_vars(UserStarts)

-----------------------------------------------------------------------------
(* Properties. *)

TypeOK ==
  /\ installed \in Version
  /\ app \in [pc : {"off", "gone", "up", "read", "probe", "verify", "mark", "launch", "giveup",
                 "complete", "erase", "release", "backup", "stage", "seal", "record",
                 "download", "undo", "cancel", "erase_cancelled", "endlease", "uninstall"},
            version : Version, dir : Dir \cup {NoDir}]
  /\ receipt \in Receipt \cup {None}
  /\ pkg \in [Dir -> {"absent", "partial", "whole", "damaged"}]
  /\ updater \in Updater \cup {None}
  /\ lease \in Owner \cup {None}
  /\ job \in BOOLEAN /\ lapsed \in BOOLEAN
  /\ sick \subseteq Version /\ cut \subseteq Dir
  /\ mishaps \in 0 .. MaxMishaps /\ tried \in Nat

(* Until its receipt is gone the old package is there, whole unless it was  *)
(* damaged from outside: only a completion that was cut between its two     *)
(* deletions leaves a receipt without a package.  (UpdateRecoveryStore.cs   *)
(* 74-86, 185-195.)                                                         *)
OldPackageKept ==
  receipt # None =>
    \/ pkg[receipt.dir] \in {"whole", "damaged"}
    \/ At("erase") \/ At("erase_cancelled") \/ receipt.dir \in cut

(* A receipt's rollback is launched at most once, whatever dies or fails.   *)
(* (UpdateRecoveryStore.cs 126-130, 133-150; SECURITY.md:115 "instead of a  *)
(* blind retry loop".)                                                      *)
NoRetryLoop == tried <= 1

(* While an updater waits or works no Job is active, unless the lease       *)
(* expired or a repair or a later command ended it, or the app was started  *)
(* ahead of the updater: a start never gives it back with an update open.   *)
(* (WindowsOperations.cs 195-202; Program.cs 36-38, 110-117.)               *)
LeaseCovers == updater # None => lapsed \/ (lease = "update" /\ ~job)

(* What a start finds half done is forgotten, given up or replaced in the   *)
(* end, except for a damaged package or a completion that was cut.          *)
(* (UpdateRecoveryStore.cs 102-153.)                                        *)
Open == receipt # None /\ receipt.state # "rollback_failed"
RecoverySettles ==
  \A d \in Dir :
    At("read") /\ Open /\ receipt.dir = d
      ~> \/ ~Open \/ receipt.dir # d \/ At("gone")
         \/ pkg[d] = "damaged" \/ d \in cut
=============================================================================
