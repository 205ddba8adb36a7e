--------------------------- MODULE TransferCommit ---------------------------
(***************************************************************************)
(* Pushing files and directories to one destination path of the Worker:    *)
(* the Mac's upload, the Worker's begin, chunk and commit handlers, the    *)
(* transfer rows in SQLite that record how far a commit got, and the       *)
(* recovery that finish and cleanupStale run from those rows.              *)
(*                                                                         *)
(* A step is what a handler does between two awaits, so the process may    *)
(* die, and another Worker may act, between any two file operations and    *)
(* between a file operation and the row update that records it.            *)
(*                                                                         *)
(* A definition written just above the one it resembles, and used nowhere, *)
(* is a mutant: the bug that the properties named in PROJECT.json exclude. *)
(***************************************************************************)
EXTENDS Naturals, FiniteSets

CONSTANTS
    Transfer,     \* transfer identifiers (createScopedId: never reused)
    Recoverer,    \* finish handlers and clean-ups in flight, in several Workers
    Chunks,       \* bound: chunks of an upload
    MaxMishaps,   \* bound: crashes and failed file operations, together
    Faults        \* which of the faults below the environment can show

(***************************************************************************)
(* "io"      a rename or removal fails, or the destination's mapping has   *)
(*           changed when it is checked                                    *)
(* "source"  the Mac's source changes between hashing and uploading        *)
(* "late"    a Worker reads the commit line after the Mac has given up     *)
(* "ended"   a Worker ends between the reading of a row that it owns, by a *)
(*           recovery, and that recovery's probe of it                     *)
(* "probe"   the start time of a live process cannot be read, so that      *)
(*           processMatchesStart takes it for dead                         *)
(***************************************************************************)
Fault == {"io", "source", "late", "ended", "probe"}
Missing == "missing"
Old == "old"

ASSUME TransferAssumption ==
    /\ Transfer \cap {Missing, Old, "partial", "corrupt"} = {}
    /\ Chunks \in Nat \ {0}
    /\ MaxMishaps \in Nat
    /\ Faults \subseteq Fault

VARIABLES
    dest,      \* what is at the destination path
    part,      \* each transfer's part file or archive
    stage,     \* each directory transfer's extraction directory
    backup,    \* what each transfer's commit moved out of the way
    rows,      \* the transfers table
    reserved,  \* transfers that hold a row of storage_reservations
    push,      \* where the Mac's upload is
    task,      \* where the Worker handler of the upload's present call is
    owner,     \* the Worker process that has claimed the transfer
    recover,   \* where each recovery is, and its local variables
    mishaps    \* crashes and failed file operations so far

files == <<dest, part, stage, backup>>
vars == <<dest, part, stage, backup, rows, reserved, push, task, owner, recover, mishaps>>

Whole == {Missing, Old} \cup Transfer
Content == Whole \cup {"partial", "corrupt"}

(* staging and backup say whether staging_path and backup_path are         *)
(* recorded, owner whether a commit has claimed the row.                   *)
Phase == {"absent", "receiving", "extracting", "validated", "committing", "backed_up", "installed"}
Row == [phase : Phase, directory : BOOLEAN, overwrite : BOOLEAN, transferred : 0 .. Chunks,
        staging : BOOLEAN, backup : BOOLEAN, owner : BOOLEAN]
NoRow == [phase |-> "absent", directory |-> FALSE, overwrite |-> FALSE, transferred |-> 0,
          staging |-> FALSE, backup |-> FALSE, owner |-> FALSE]

PushState == {"idle", "begin", "ready", "chunk", "committing", "finishing", "ok", "failed"}
Pending == {"begin", "chunk", "committing"}
Over == {"ok", "failed"}

InstallPc == {"survey", "record", "backup", "backed", "check", "place", "placed", "cleanup",
              "rollback", "restore", "restored"}
CommitPc == {"verify", "mkdir", "note", "extract", "archive", "done", "discard", "close"} \cup InstallPc
TaskPc == {"none", "open", "put", "chunk", "count", "queued"} \cup CommitPc

(* directory and overwrite are the columns the handler has read; existed   *)
(* and moved are destinationExists and backedUp of installPath.            *)
Task == [pc : TaskPc, directory : BOOLEAN, overwrite : BOOLEAN, existed : BOOLEAN, moved : BOOLEAN]
NoTask == [pc |-> "none", directory |-> FALSE, overwrite |-> FALSE, existed |-> FALSE, moved |-> FALSE]

RecoverPc == {"idle", "items", "dest", "backup", "act", "clear", "drop"}
Recovery == [pc : RecoverPc, finish : BOOLEAN, item : Transfer \cup {"none"},
             seen : [Transfer -> Row], aged : SUBSET Transfer, dest : BOOLEAN, backup : BOOLEAN]
NoRecovery == [pc |-> "idle", finish |-> FALSE, item |-> "none",
               seen |-> [t \in Transfer |-> NoRow], aged |-> {}, dest |-> FALSE, backup |-> FALSE]

Present(t) == rows[t].phase # "absent"
At(t, pc) == task[t].pc = pc
Goto(t, pc) == task' = [task EXCEPT ![t].pc = pc]
Aged(t) == push[t] \in Over /\ At(t, "none")

Init ==
    /\ dest \in {Missing, Old}
    /\ part = [t \in Transfer |-> Missing]
    /\ stage = [t \in Transfer |-> Missing]
    /\ backup = [t \in Transfer |-> Missing]
    /\ rows = [t \in Transfer |-> NoRow]
    /\ reserved = {}
    /\ push = [t \in Transfer |-> "idle"]
    /\ task = [t \in Transfer |-> NoTask]
    /\ owner = [t \in Transfer |-> "none"]
    /\ recover = [r \in Recoverer |-> NoRecovery]
    /\ mishaps = 0

Mishap == mishaps < MaxMishaps /\ mishaps' = mishaps + 1
Fails(t, pc) == "io" \in Faults /\ Mishap /\ Goto(t, pc)

(* The handler's answer; the Mac may no longer wait for it.                *)
Answer(t, outcome) ==
    /\ task' = [task EXCEPT ![t] = NoTask]
    /\ push' = [push EXCEPT ![t] = IF @ \in Pending THEN outcome ELSE @]

(* rename: an existing file may be replaced by a file, a directory never.  *)
Renamable(directory, target) == target = Missing \/ ~directory

-----------------------------------------------------------------------------
(* Uploading.                                                              *)

BeginPush(t) ==
    \E directory, overwrite \in BOOLEAN :
        /\ push[t] = "idle"
        /\ overwrite \/ dest = Missing
        /\ push' = [push EXCEPT ![t] = "begin"]
        /\ reserved' = reserved \cup {t}
        /\ task' = [task EXCEPT ![t] = [NoTask EXCEPT !.pc = "open", !.directory = directory,
                                                      !.overwrite = overwrite]]
        /\ UNCHANGED <<files, rows, owner, recover, mishaps>>

BeginOpen(t) ==
    /\ At(t, "open")
    /\ part' = [part EXCEPT ![t] = "partial"]
    /\ Goto(t, "put")
    /\ UNCHANGED <<dest, stage, backup, rows, reserved, push, owner, recover, mishaps>>

BeginPut(t) ==
    /\ At(t, "put")
    /\ rows' = [rows EXCEPT ![t] = [NoRow EXCEPT !.phase = "receiving",
                                                 !.directory = task[t].directory,
                                                 !.overwrite = task[t].overwrite]]
    /\ Answer(t, "ready")
    /\ UNCHANGED <<files, reserved, owner, recover, mishaps>>

(* The part file cannot be opened: nothing is left behind. The Mac has no  *)
(* identifier yet and so has nothing to finish.                            *)
BeginFails(t) ==
    /\ At(t, "open")
    /\ "io" \in Faults
    /\ Mishap
    /\ reserved' = reserved \ {t}
    /\ Answer(t, "failed")
    /\ UNCHANGED <<files, rows, owner, recover>>

SendChunk(t) ==
    /\ push[t] = "ready"
    /\ At(t, "none")
    /\ rows[t].transferred < Chunks
    /\ push' = [push EXCEPT ![t] = "chunk"]
    /\ Goto(t, "chunk")
    /\ UNCHANGED <<files, rows, reserved, owner, recover, mishaps>>

(* The last chunk completes the declared content, or another content if    *)
(* the source has changed since it was hashed.                             *)
Received(t) ==
    IF rows[t].transferred + 1 < Chunks THEN {"partial"}
    ELSE {t} \cup (IF "source" \in Faults THEN {"corrupt"} ELSE {})

WriteChunk(t) ==
    /\ At(t, "chunk")
    /\ IF Present(t) /\ part[t] # Missing
       THEN /\ \E c \in Received(t) : part' = [part EXCEPT ![t] = c]
            /\ Goto(t, "count")
            /\ UNCHANGED push
       ELSE Answer(t, "finishing") /\ UNCHANGED part
    /\ UNCHANGED <<dest, stage, backup, rows, reserved, owner, recover, mishaps>>

CountChunk(t) ==
    /\ At(t, "count")
    /\ rows' = IF Present(t) THEN [rows EXCEPT ![t].transferred = @ + 1] ELSE rows
    /\ Answer(t, "ready")
    /\ UNCHANGED <<files, reserved, owner, recover, mishaps>>

SendCommit(t) ==
    /\ push[t] = "ready"
    /\ At(t, "none")
    /\ rows[t].transferred = Chunks
    /\ push' = [push EXCEPT ![t] = "committing"]
    /\ Goto(t, "queued")
    /\ UNCHANGED <<files, rows, reserved, owner, recover, mishaps>>

(* A call fails: the session is lost, its response timer runs out, or the  *)
(* Mac cannot read on. A commit line that no Worker has read goes with its *)
(* session. The Mac finishes what failed, if it lives and has an id.       *)
CallFails(t) ==
    /\ push[t] \in Pending \cup {"ready"}
    /\ \E outcome \in IF push[t] = "begin" THEN {"failed"} ELSE {"finishing", "failed"} :
           push' = [push EXCEPT ![t] = outcome]
    /\ task' = IF At(t, "queued") /\ "late" \notin Faults THEN [task EXCEPT ![t] = NoTask] ELSE task
    /\ UNCHANGED <<files, rows, reserved, owner, recover, mishaps>>
-----------------------------------------------------------------------------
(* Committing.                                                             *)

(* setTransferRecovery updates the row if there still is one.              *)
Note(t, phase, staging, moved) ==
    rows' = IF Present(t)
            THEN [rows EXCEPT ![t].phase = phase, ![t].staging = staging, ![t].backup = moved]
            ELSE rows
Disown(t) == IF Present(t) THEN [rows EXCEPT ![t].owner = FALSE] ELSE rows
ErrorPc(t) == IF task[t].directory THEN "discard" ELSE "close"

CommitClaim(t) ==
    /\ At(t, "queued")
    /\ IF Present(t) /\ ~rows[t].owner
       THEN /\ rows' = [rows EXCEPT ![t].owner = TRUE]
            /\ task' = [task EXCEPT ![t] = [NoTask EXCEPT !.pc = "verify",
                                                          !.directory = rows[t].directory,
                                                          !.overwrite = rows[t].overwrite]]
            /\ owner' = [owner EXCEPT ![t] = "alive"]
            /\ UNCHANGED push
       ELSE Answer(t, "finishing") /\ UNCHANGED <<rows, owner>>
    /\ UNCHANGED <<files, reserved, recover, mishaps>>

VerifiedBySize(t) == part[t] \in {t, "corrupt"}
Verified(t) == part[t] = t
CommitVerify(t) ==
    /\ At(t, "verify")
    /\ Goto(t, IF ~Verified(t) THEN "close" ELSE IF task[t].directory THEN "mkdir" ELSE "survey")
    /\ UNCHANGED <<files, rows, reserved, push, owner, recover, mishaps>>

CommitMkdir(t) ==
    /\ At(t, "mkdir")
    /\ \/ stage' = [stage EXCEPT ![t] = "partial"] /\ Goto(t, "note") /\ UNCHANGED mishaps
       \/ Fails(t, "close") /\ UNCHANGED stage
    /\ UNCHANGED <<dest, part, backup, rows, reserved, push, owner, recover>>

CommitNote(t) ==
    /\ At(t, "note")
    /\ Note(t, "extracting", TRUE, FALSE)
    /\ Goto(t, "extract")
    /\ UNCHANGED <<files, reserved, push, owner, recover, mishaps>>

(* Extraction, and its comparison with the manifest.                       *)
CommitExtract(t) ==
    /\ At(t, "extract")
    /\ \/ /\ Verified(t) /\ stage[t] # Missing
          /\ stage' = [stage EXCEPT ![t] = t]
          /\ Note(t, "validated", TRUE, FALSE)
          /\ Goto(t, "survey")
          /\ UNCHANGED mishaps
       \/ /\ ~Verified(t) \/ stage[t] = Missing
          /\ Goto(t, "discard")
          /\ UNCHANGED <<stage, rows, mishaps>>
       \/ Fails(t, "discard") /\ UNCHANGED <<stage, rows>>
    /\ UNCHANGED <<dest, part, backup, reserved, push, owner, recover>>

Survey(t) ==
    /\ At(t, "survey")
    /\ LET exists == dest # Missing IN
       task' = [task EXCEPT ![t].existed = exists,
                            ![t].pc = IF exists /\ ~task[t].overwrite THEN ErrorPc(t) ELSE "record"]
    /\ UNCHANGED <<files, rows, reserved, push, owner, recover, mishaps>>

(* The backup's name is recorded before anything is moved to it.           *)
RecordPhaseOnly(t) ==
    /\ At(t, "record")
    /\ \/ /\ Note(t, "committing", TRUE, FALSE)
          /\ Goto(t, IF task[t].existed THEN "backup"
                     ELSE IF task[t].overwrite THEN "place" ELSE "check")
          /\ UNCHANGED mishaps
       \/ Fails(t, ErrorPc(t)) /\ UNCHANGED rows
    /\ UNCHANGED <<files, reserved, push, owner, recover>>
Record(t) ==
    /\ At(t, "record")
    /\ \/ /\ Note(t, "committing", TRUE, task[t].existed)
          /\ Goto(t, IF task[t].existed THEN "backup"
                     ELSE IF task[t].overwrite THEN "place" ELSE "check")
          /\ UNCHANGED mishaps
       \/ Fails(t, ErrorPc(t)) /\ UNCHANGED rows
    /\ UNCHANGED <<files, reserved, push, owner, recover>>

MoveAway(t) ==
    /\ At(t, "backup")
    /\ \/ /\ dest # Missing
          /\ dest' = Missing
          /\ backup' = [backup EXCEPT ![t] = dest]
          /\ Goto(t, "backed")
          /\ UNCHANGED mishaps
       \/ dest = Missing /\ Goto(t, ErrorPc(t)) /\ UNCHANGED <<dest, backup, mishaps>>
       \/ Fails(t, ErrorPc(t)) /\ UNCHANGED <<dest, backup>>
    /\ UNCHANGED <<part, stage, rows, reserved, push, owner, recover>>

MovedAway(t) ==
    /\ At(t, "backed")
    /\ Note(t, "backed_up", TRUE, TRUE)
    /\ task' = [task EXCEPT ![t].pc = "place", ![t].moved = TRUE]
    /\ UNCHANGED <<files, reserved, push, owner, recover, mishaps>>

(* Without overwrite the destination is looked at once more.               *)
CheckAgain(t) ==
    /\ At(t, "check")
    /\ Goto(t, IF dest # Missing THEN ErrorPc(t) ELSE "place")
    /\ UNCHANGED <<files, rows, reserved, push, owner, recover, mishaps>>

Upload(t) == IF task[t].directory THEN stage[t] ELSE part[t]
Place(t) ==
    /\ At(t, "place")
    /\ \/ /\ Upload(t) # Missing /\ Renamable(task[t].directory, dest)
          /\ dest' = Upload(t)
          /\ IF task[t].directory
             THEN stage' = [stage EXCEPT ![t] = Missing] /\ UNCHANGED part
             ELSE part' = [part EXCEPT ![t] = Missing] /\ UNCHANGED stage
          /\ Goto(t, "placed")
          /\ UNCHANGED mishaps
       \/ /\ Upload(t) = Missing \/ dest # Missing
          /\ Goto(t, "rollback")
          /\ UNCHANGED <<dest, part, stage, mishaps>>
       \/ Fails(t, "rollback") /\ UNCHANGED <<dest, part, stage>>
    /\ UNCHANGED <<backup, rows, reserved, push, owner, recover>>

InstalledPc(t) == IF task[t].directory THEN "archive" ELSE "done"
Placed(t) ==
    /\ At(t, "placed")
    /\ Note(t, "installed", FALSE, task[t].moved)
    /\ Goto(t, IF task[t].moved THEN "cleanup" ELSE InstalledPc(t))
    /\ UNCHANGED <<files, reserved, push, owner, recover, mishaps>>

(* backup_cleanup_pending when the backup cannot be removed.               *)
CleanUp(t) ==
    /\ At(t, "cleanup")
    /\ \/ /\ backup' = [backup EXCEPT ![t] = Missing]
          /\ Note(t, "installed", FALSE, FALSE)
          /\ task' = [task EXCEPT ![t].pc = InstalledPc(t), ![t].moved = FALSE]
          /\ UNCHANGED mishaps
       \/ Fails(t, InstalledPc(t)) /\ UNCHANGED <<backup, rows>>
    /\ UNCHANGED <<dest, part, stage, reserved, push, owner, recover>>

RemoveArchive(t) ==
    /\ At(t, "archive")
    /\ \/ part' = [part EXCEPT ![t] = Missing] /\ Goto(t, "done") /\ UNCHANGED mishaps
       \/ Fails(t, "close") /\ UNCHANGED part
    /\ UNCHANGED <<dest, stage, backup, rows, reserved, push, owner, recover>>

CommitDone(t) ==
    /\ At(t, "done")
    /\ IF task[t].moved
       THEN rows' = Disown(t) /\ UNCHANGED reserved
       ELSE rows' = [rows EXCEPT ![t] = NoRow] /\ reserved' = reserved \ {t}
    /\ Answer(t, "ok")
    /\ UNCHANGED <<files, owner, recover, mishaps>>

(* The catch block of installPath, ...                                     *)
RollBack(t) ==
    /\ At(t, "rollback")
    /\ Goto(t, IF task[t].moved /\ dest = Missing THEN "restore" ELSE ErrorPc(t))
    /\ UNCHANGED <<files, rows, reserved, push, owner, recover, mishaps>>

Restore(t) ==
    /\ At(t, "restore")
    /\ \/ /\ backup[t] # Missing /\ Renamable(task[t].directory, dest)
          /\ dest' = backup[t]
          /\ backup' = [backup EXCEPT ![t] = Missing]
          /\ Goto(t, "restored")
          /\ UNCHANGED mishaps
       \/ /\ backup[t] = Missing \/ dest # Missing
          /\ Goto(t, ErrorPc(t))
          /\ UNCHANGED <<dest, backup, mishaps>>
       \/ Fails(t, ErrorPc(t)) /\ UNCHANGED <<dest, backup>>
    /\ UNCHANGED <<part, stage, rows, reserved, push, owner, recover>>

Restored(t) ==
    /\ At(t, "restored")
    /\ Note(t, IF task[t].directory THEN "validated" ELSE "receiving", TRUE, FALSE)
    /\ Goto(t, ErrorPc(t))
    /\ UNCHANGED <<files, reserved, push, owner, recover, mishaps>>

(* ... and the catch and finally blocks of commitPush.                     *)
CommitDiscard(t) ==
    /\ At(t, "discard")
    /\ \/ /\ stage' = IF rows[t].phase \in {"installed", "backed_up"} THEN stage
                      ELSE [stage EXCEPT ![t] = Missing]
          /\ Goto(t, "close")
          /\ UNCHANGED mishaps
       \/ Fails(t, "close") /\ UNCHANGED stage
    /\ UNCHANGED <<dest, part, backup, rows, reserved, push, owner, recover>>

CommitClose(t) ==
    /\ At(t, "close")
    /\ rows' = Disown(t)
    /\ Answer(t, "finishing")
    /\ UNCHANGED <<files, reserved, owner, recover, mishaps>>

(* The Worker process dies under the handler, or ends after its commit.    *)
Probed(t) == \E r \in Recoverer : recover[r].pc # "idle" /\ recover[r].seen[t].owner
MayEnd(t) == owner[t] = "alive" => "ended" \in Faults \/ ~Probed(t)

Crash(t) ==
    /\ ~At(t, "none")
    /\ MayEnd(t)
    /\ Mishap
    /\ task' = [task EXCEPT ![t] = NoTask]
    /\ owner' = [owner EXCEPT ![t] = IF @ = "alive" THEN "dead" ELSE @]
    /\ UNCHANGED <<files, rows, reserved, push, recover>>

WorkerEnds(t) ==
    /\ At(t, "none")
    /\ owner[t] = "alive"
    /\ MayEnd(t)
    /\ owner' = [owner EXCEPT ![t] = "dead"]
    /\ UNCHANGED <<files, rows, reserved, push, task, recover, mishaps>>

-----------------------------------------------------------------------------
(* Recovering: finish, of one transfer, and cleanupStale, of all.          *)

Item(r) == recover[r].item
Seen(r) == recover[r].seen[Item(r)]
Working(t) == task[t].pc \in CommitPc
Step(r, pc) == recover' = [recover EXCEPT ![r].pc = pc]

(* On to the next item: this one is done, or an exception has ended it.    *)
Leave(r, t) ==
    recover' = [recover EXCEPT ![r] =
                   [NoRecovery EXCEPT !.pc = "items", !.finish = recover[r].finish,
                                      !.seen = [recover[r].seen EXCEPT ![t] = NoRow],
                                      !.aged = recover[r].aged \ {t}]]
LeaveFailed(r) == "io" \in Faults /\ Mishap /\ Leave(r, Item(r))

(* The Mac ignores what finish answers.                                    *)
Finish(r, t) ==
    /\ push[t] = "finishing"
    /\ recover[r].pc = "idle"
    /\ push' = [push EXCEPT ![t] = "failed"]
    /\ recover' = IF Present(t)
                  THEN [recover EXCEPT ![r] = [NoRecovery EXCEPT !.pc = "items", !.finish = TRUE,
                                                                 !.seen[t] = rows[t]]]
                  ELSE recover
    /\ UNCHANGED <<files, rows, reserved, task, owner, mishaps>>

Sweep(r) ==
    /\ recover[r].pc = "idle"
    /\ recover' = [recover EXCEPT ![r] = [NoRecovery EXCEPT !.pc = "items", !.seen = rows,
                                                            !.aged = {t \in Transfer : Aged(t)}]]
    /\ UNCHANGED <<files, rows, reserved, push, task, owner, mishaps>>

(* processMatchesStart of the row's owner_pid and owner_started_at.        *)
OwnerLivesInPhase(t) == owner[t] = "alive" /\ rows[t].phase # "receiving"
OwnerLives(t) == owner[t] = "alive"
SkipItem(r, t) ==
    /\ recover[r].pc = "items"
    /\ recover[r].seen[t].phase # "absent"
    /\ recover[r].seen[t].owner /\ OwnerLives(t)
    /\ Leave(r, t)
    /\ UNCHANGED <<files, rows, reserved, push, task, owner, mishaps>>

(* A dead owner is abandoned; an upload that was less than 24 hours old    *)
(* when it was listed is left alone, unless the Mac asked to finish it.    *)
FreshForEver(r, t) == ~recover[r].finish /\ recover[r].seen[t].phase = "receiving"
Fresh(r, t) ==
    ~recover[r].finish /\ recover[r].seen[t].phase = "receiving" /\ t \notin recover[r].aged
TakeItem(r, t) ==
    /\ recover[r].pc = "items"
    /\ recover[r].seen[t].phase # "absent"
    /\ recover[r].seen[t].owner => ~OwnerLives(t) \/ "probe" \in Faults
    /\ rows' = IF recover[r].seen[t].owner THEN Disown(t) ELSE rows
    /\ IF Fresh(r, t) THEN Leave(r, t)
       ELSE recover' = [recover EXCEPT ![r].pc = "dest", ![r].item = t]
    /\ UNCHANGED <<files, reserved, push, task, owner, mishaps>>

LookDest(r) ==
    /\ recover[r].pc = "dest"
    /\ recover' = [recover EXCEPT ![r].pc = "backup", ![r].dest = dest # Missing]
    /\ UNCHANGED <<files, rows, reserved, push, task, owner, mishaps>>

LookBackup(r) ==
    /\ recover[r].pc = "backup"
    /\ recover' = [recover EXCEPT ![r].pc = "act",
                                  ![r].backup = Seen(r).backup /\ backup[Item(r)] # Missing]
    /\ UNCHANGED <<files, rows, reserved, push, task, owner, mishaps>>

Installed(r) == Seen(r).phase = "installed"
Refuses(r) ==
    \/ Installed(r) /\ ~recover[r].dest /\ ~recover[r].backup
    \/ ~Installed(r) /\ recover[r].dest /\ recover[r].backup
Restores(r) == recover[r].backup /\ ~recover[r].dest
Removes(r) == Installed(r) /\ recover[r].backup /\ recover[r].dest

RecoverRefuse(r) ==
    /\ recover[r].pc = "act"
    /\ Refuses(r)
    /\ Leave(r, Item(r))
    /\ UNCHANGED <<files, rows, reserved, push, task, owner, mishaps>>

RecoverRestore(r) ==
    /\ recover[r].pc = "act"
    /\ Restores(r)
    /\ LET t == Item(r) IN
       \/ /\ backup[t] # Missing /\ Renamable(Seen(r).directory, dest)
          /\ dest' = backup[t]
          /\ backup' = [backup EXCEPT ![t] = Missing]
          /\ Step(r, "clear")
          /\ UNCHANGED mishaps
       \/ /\ backup[t] = Missing \/ dest # Missing
          /\ Leave(r, t)
          /\ UNCHANGED <<dest, backup, mishaps>>
       \/ LeaveFailed(r) /\ UNCHANGED <<dest, backup>>
    /\ UNCHANGED <<part, stage, rows, reserved, push, task, owner>>

RecoverRemove(r) ==
    /\ recover[r].pc = "act"
    /\ Removes(r)
    /\ \/ backup' = [backup EXCEPT ![Item(r)] = Missing] /\ Step(r, "clear") /\ UNCHANGED mishaps
       \/ LeaveFailed(r) /\ UNCHANGED backup
    /\ UNCHANGED <<dest, part, stage, rows, reserved, push, task, owner>>

RecoverNothing(r) ==
    /\ recover[r].pc = "act"
    /\ ~Refuses(r) /\ ~Restores(r) /\ ~Removes(r)
    /\ Step(r, "clear")
    /\ UNCHANGED <<files, rows, reserved, push, task, owner, mishaps>>

(* The staging path of a file is its part file.                            *)
RecoverClear(r) ==
    /\ recover[r].pc = "clear"
    /\ LET t == Item(r) IN
       \/ /\ part' = [part EXCEPT ![t] = Missing]
          /\ stage' = IF Seen(r).staging /\ Seen(r).directory THEN [stage EXCEPT ![t] = Missing]
                      ELSE stage
          /\ Step(r, "drop")
          /\ UNCHANGED mishaps
       \/ LeaveFailed(r) /\ UNCHANGED <<part, stage>>
    /\ UNCHANGED <<dest, backup, rows, reserved, push, task, owner>>

RecoverDrop(r) ==
    /\ recover[r].pc = "drop"
    /\ rows' = [rows EXCEPT ![Item(r)] = NoRow]
    /\ reserved' = reserved \ {Item(r)}
    /\ Leave(r, Item(r))
    /\ UNCHANGED <<files, push, task, owner, mishaps>>

(* cleanupStale ends with the archives no row names, if they are old. A    *)
(* file's part file lies beside its destination, where nobody looks; what  *)
(* kind a transfer without a row was is forgotten, so any part may go.     *)
RecoverEnd(r) ==
    /\ recover[r].pc = "items"
    /\ \A t \in Transfer : recover[r].seen[t].phase = "absent"
    /\ \E archives \in SUBSET {t \in Transfer : ~Present(t) /\ Aged(t) /\ ~recover[r].finish} :
           part' = [t \in Transfer |-> IF t \in archives THEN Missing ELSE part[t]]
    /\ recover' = [recover EXCEPT ![r] = NoRecovery]
    /\ UNCHANGED <<dest, stage, backup, rows, reserved, push, task, owner, mishaps>>

RecovererCrash(r) ==
    /\ recover[r].pc # "idle"
    /\ Mishap
    /\ recover' = [recover EXCEPT ![r] = NoRecovery]
    /\ UNCHANGED <<files, rows, reserved, push, task, owner>>

(* A reservation lasts 25 hours.                                           *)
ReservationExpires(t) ==
    /\ t \in reserved
    /\ Aged(t)
    /\ reserved' = reserved \ {t}
    /\ UNCHANGED <<files, rows, push, task, owner, recover, mishaps>>

-----------------------------------------------------------------------------
UploadStep(t) ==
    \/ BeginOpen(t) \/ BeginPut(t) \/ BeginFails(t)
    \/ SendChunk(t) \/ WriteChunk(t) \/ CountChunk(t) \/ SendCommit(t)

CommitStep(t) ==
    \/ CommitClaim(t) \/ CommitVerify(t) \/ CommitMkdir(t) \/ CommitNote(t) \/ CommitExtract(t)
    \/ Survey(t) \/ Record(t) \/ MoveAway(t) \/ MovedAway(t) \/ CheckAgain(t) \/ Place(t)
    \/ Placed(t) \/ CleanUp(t) \/ RemoveArchive(t) \/ CommitDone(t) \/ RollBack(t) \/ Restore(t)
    \/ Restored(t) \/ CommitDiscard(t) \/ CommitClose(t)

RecoverStep(r) ==
    \/ \E t \in Transfer : SkipItem(r, t) \/ TakeItem(r, t)
    \/ LookDest(r) \/ LookBackup(r)
    \/ RecoverRefuse(r) \/ RecoverRestore(r) \/ RecoverRemove(r) \/ RecoverNothing(r)
    \/ RecoverClear(r) \/ RecoverDrop(r) \/ RecoverEnd(r)

Next ==
    \/ \E t \in Transfer :
          \/ BeginPush(t) \/ UploadStep(t) \/ CallFails(t)
          \/ CommitStep(t) \/ Crash(t) \/ WorkerEnds(t) \/ ReservationExpires(t)
    \/ \E r \in Recoverer :
          \/ \E t \in Transfer : Finish(r, t)
          \/ Sweep(r) \/ RecoverStep(r) \/ RecovererCrash(r)

Spec == Init /\ [][Next]_vars
-----------------------------------------------------------------------------
(***************************************************************************)
(* Handlers and recoveries are event loops that run on, the Mac's response *)
(* timer and the time limits are timers, and cleanupStale runs at every    *)
(* start of a Worker and on a timer in each.                               *)
(***************************************************************************)
LostCall(t) == At(t, "none") /\ push[t] \in Pending /\ CallFails(t)
MacGivesUp(t) == push[t] = "ready" /\ CallFails(t)
Fairness ==
    /\ \A t \in Transfer :
          /\ WF_vars(UploadStep(t) \/ MacGivesUp(t))
          /\ WF_vars(CommitStep(t))
          /\ WF_vars(LostCall(t))
          /\ WF_vars(ReservationExpires(t))
          /\ SF_vars(\E r \in Recoverer : Finish(r, t))
    /\ \A r \in Recoverer : WF_vars(RecoverStep(r)) /\ WF_vars(Sweep(r))
FairSpec == Spec /\ Fairness

-----------------------------------------------------------------------------
(* The variables have their types.                                         *)
TypeOK ==
    /\ dest \in Content
    /\ part \in [Transfer -> Content]
    /\ stage \in [Transfer -> Content]
    /\ backup \in [Transfer -> Content]
    /\ rows \in [Transfer -> Row]
    /\ reserved \in SUBSET Transfer
    /\ push \in [Transfer -> PushState]
    /\ task \in [Transfer -> Task]
    /\ owner \in [Transfer -> {"none", "alive", "dead"}]
    /\ recover \in [Recoverer -> Recovery]
    /\ mishaps \in Nat

(* What a commit has moved out of the way is always named by a row that    *)
(* recovery will find, whatever crashes: it is never left behind unknown.  *)
BackupRecorded == \A t \in Transfer : backup[t] # Missing => Present(t) /\ rows[t].backup

(* Recovery never acts on a transfer whose commit is running: "a live      *)
(* owner is not touched" (SECURITY.md).                                    *)
Recovering(r, t) == recover[r].pc \notin {"idle", "items"} /\ recover[r].item = t
LiveOwnerUntouched ==
    \A r \in Recoverer, t \in Transfer : Recovering(r, t) => ~Working(t)

(* What the destination holds, or is restored to from a backup, as         *)
(* AtomicReplace promises: the previous content or one whole upload, never *)
(* taken back, and reported only when it is there.                         *)
Held ==
    IF dest # Missing \/ \A t \in Transfer : backup[t] = Missing THEN dest
    ELSE backup[CHOOSE t \in Transfer : backup[t] # Missing]
Reported == {t \in Transfer : push[t] = "ok"}
Replace == INSTANCE AtomicReplace WITH content <- Held, reported <- Reported
AtomicExchange == Replace!Spec

(* Every begun transfer is settled in the end, or retained because its     *)
(* commit was interrupted where only a person can tell which content is    *)
(* wanted; and its reservation comes back.                                 *)
Ambiguous(t) == rows[t].phase # "installed" /\ backup[t] # Missing /\ dest # Missing
EveryTransferSettles ==
    \A t \in Transfer :
        Present(t) \/ t \in reserved ~> t \notin reserved /\ (~Present(t) \/ Ambiguous(t))
=============================================================================
