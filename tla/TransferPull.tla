---------------------------- MODULE TransferPull ----------------------------
(***************************************************************************)
(* Pulling a file or directory of the Worker to a path of the Mac: the     *)
(* begin and chunk handlers, the Mac's download, verification and          *)
(* installation, and the removal of what a pull keeps on the Worker.       *)
(*                                                                         *)
(* The source is read twice, part by part, while others may change it: a   *)
(* file for its hash and again for each chunk, a directory for its         *)
(* manifest and again for the archive. A part is a chunk of a file or a    *)
(* file of a directory; its value counts the changes to it.                *)
(*                                                                         *)
(* A definition written just above the one it resembles, and used nowhere, *)
(* is a mutant: the bug that the properties named in PROJECT.json exclude. *)
(***************************************************************************)
EXTENDS Naturals, FiniteSets

CONSTANTS
    Pull,         \* transfer identifiers (createScopedId: never reused)
    Parts,        \* bound: parts of the source
    MaxEdits,     \* bound: changes of the source
    MaxSetbacks   \* bound: crashes, failed operations, foreign files, slow downloads

ASSUME PullAssumption ==
    /\ Pull \cap {"none", "old", "other"} = {}
    /\ Parts \in Nat \ {0}
    /\ MaxEdits \in Nat
    /\ MaxSetbacks \in Nat

VARIABLES
    source,       \* what is at the source path
    edits,        \* changes of the source so far
    held,         \* history: what the source has held since each pull began
    opening,      \* where each pull's begin handler is, with what it has read
    archive,      \* each pull's archive in the data root
    listed,       \* the transfers table
    booked,       \* pulls that hold a row of storage_reservations
    removal,      \* how far the removal of each pull on the Worker is
    mac,          \* where pullPath is, and its local variables
    destination,  \* what is at the destination path
    staged,       \* what each pull has staged beside the destination
    aside,        \* what each pull has moved out of the way
    setbacks      \* crashes, failed operations and the like so far

workerVars == <<opening, archive, listed, booked, removal>>
localVars == <<destination, staged, aside>>
sourceVars == <<source, edits, held>>
pullVars == <<sourceVars, workerVars, mac, localVars, setbacks>>

Part == 1 .. Parts
Reading == [Part -> Nat]
Blank == [k \in Part |-> 0]

(* size and sha256 of the transfer are digest, those of the manifest sum.  *)
Announced == [digest : Reading, sum : Reading]
Unlisted == [present |-> FALSE, directory |-> FALSE]
Archive == [state : {"none", "partial", "whole"}, data : Reading]
NoArchive == [state |-> "none", data |-> Blank]

OpeningPc == {"none", "list", "tar", "drop"}
Opening == [pc : OpeningPc, directory : BOOLEAN, at : 0 .. Parts, read : Reading, sum : Reading]
NoOpening == [pc |-> "none", directory |-> FALSE, at |-> 0, read |-> Blank, sum |-> Blank]

Entry == [kind : {"none", "file", "directory"}, by : Pull \cup {"none", "old", "other"}]
Nothing == [kind |-> "none", by |-> "none"]

Returned == {"ok", "failed", "dead"}
MacPc == {"idle", "begin", "download", "stage", "install", "unlink", "unpack", "extract",
          "look", "aside", "place", "undo", "restore", "discard", "unstage", "finish", "abandon"}
         \cup Returned
Mac == [pc : MacPc, directory : BOOLEAN, overwrite : BOOLEAN, at : 0 .. Parts, got : Reading,
        told : Announced, moved : BOOLEAN, stuck : BOOLEAN]
NoMac == [pc |-> "idle", directory |-> FALSE, overwrite |-> FALSE, at |-> 0, got |-> Blank,
          told |-> [digest |-> Blank, sum |-> Blank], moved |-> FALSE, stuck |-> FALSE]

MacAt(p, pc) == mac[p].pc = pc
MacGoes(p, pc) == mac' = [mac EXCEPT ![p].pc = pc]
There(item) == item.kind # "none"
Own(p) == [kind |-> IF mac[p].directory THEN "directory" ELSE "file", by |-> p]

PullInit ==
    /\ source = Blank /\ edits = 0
    /\ held = [p \in Pull |-> {}]
    /\ opening = [p \in Pull |-> NoOpening]
    /\ archive = [p \in Pull |-> NoArchive]
    /\ listed = [p \in Pull |-> Unlisted]
    /\ booked = {}
    /\ removal = [p \in Pull |-> "none"]
    /\ mac = [p \in Pull |-> NoMac]
    /\ destination \in {Nothing} \cup [kind : {"file", "directory"}, by : {"old"}]
    /\ staged = [p \in Pull |-> "none"]
    /\ aside = [p \in Pull |-> Nothing]
    /\ setbacks = 0

Setback == setbacks < MaxSetbacks /\ setbacks' = setbacks + 1
MacFails(p, pc) == Setback /\ MacGoes(p, pc)

(* Somebody changes a part of the source.                                  *)
Edit ==
    \E k \in Part :
        /\ edits < MaxEdits
        /\ source' = [source EXCEPT ![k] = @ + 1]
        /\ edits' = edits + 1
        /\ held' = [p \in Pull |-> held[p] \cup {source'}]
        /\ UNCHANGED <<workerVars, mac, localVars, setbacks>>

(* Somebody else creates a file or directory at the destination.           *)
OtherCreates ==
    \E kind \in {"file", "directory"} :
        /\ ~There(destination)
        /\ Setback
        /\ destination' = [kind |-> kind, by |-> "other"]
        /\ UNCHANGED <<sourceVars, workerVars, mac, staged, aside>>

-----------------------------------------------------------------------------
(* The Worker announces a pull.                                            *)

Invoke(p) ==
    \E directory, overwrite \in BOOLEAN :
        /\ MacAt(p, "idle")
        /\ overwrite \/ ~There(destination)
        /\ mac' = [mac EXCEPT ![p] = [@ EXCEPT !.pc = "begin", !.directory = directory,
                                               !.overwrite = overwrite]]
        /\ opening' = [opening EXCEPT ![p] = [@ EXCEPT !.pc = "list", !.directory = directory]]
        /\ held' = [held EXCEPT ![p] = {source}]
        /\ UNCHANGED <<source, edits, archive, listed, booked, removal, localVars, setbacks>>

(* The handler's answer, for which the Mac may no longer wait.             *)
Reply(p, m) == mac' = IF MacAt(p, "begin") THEN [mac EXCEPT ![p] = m] ELSE mac
Refused(p) == [mac[p] EXCEPT !.pc = "failed"]
Accepted(p, digest, sum) ==
    [mac[p] EXCEPT !.pc = "download", !.told = [digest |-> digest, sum |-> sum]]

(* hashFile and buildDirectoryManifest read the source part by part.       *)
ReadsPart(p, pc) ==
    /\ opening[p].pc = pc /\ opening[p].at < Parts
    /\ LET k == opening[p].at + 1 IN
       opening' = [opening EXCEPT ![p] = [@ EXCEPT !.at = k, !.read[k] = source[k]]]

List(p) ==
    /\ ReadsPart(p, "list")
    /\ UNCHANGED <<sourceVars, archive, listed, booked, removal, mac, localVars, setbacks>>

ListFails(p) ==
    /\ opening[p].pc = "list"
    /\ Setback
    /\ opening' = [opening EXCEPT ![p] = NoOpening]
    /\ Reply(p, Refused(p))
    /\ UNCHANGED <<sourceVars, archive, listed, booked, removal, localVars>>

PutFile(p) ==
    /\ opening[p].pc = "list" /\ opening[p].at = Parts /\ ~opening[p].directory
    /\ listed' = [listed EXCEPT ![p] = [present |-> TRUE, directory |-> FALSE]]
    /\ opening' = [opening EXCEPT ![p] = NoOpening]
    /\ Reply(p, Accepted(p, opening[p].read, opening[p].read))
    /\ UNCHANGED <<sourceVars, archive, booked, removal, localVars, setbacks>>

(* ensureStorageCapacity, which may refuse.                                *)
Reserve(p) ==
    /\ opening[p].pc = "list" /\ opening[p].at = Parts /\ opening[p].directory
    /\ \/ /\ booked' = booked \cup {p}
          /\ opening' = [opening EXCEPT ![p] = [@ EXCEPT !.pc = "tar", !.at = 0,
                                                         !.sum = opening[p].read]]
          /\ UNCHANGED <<mac, setbacks>>
       \/ /\ Setback
          /\ opening' = [opening EXCEPT ![p] = NoOpening]
          /\ Reply(p, Refused(p))
          /\ UNCHANGED booked
    /\ UNCHANGED <<sourceVars, archive, listed, removal, localVars>>

Pack(p) ==
    /\ ReadsPart(p, "tar")
    /\ archive' = [archive EXCEPT ![p] =
                      [state |-> IF opening'[p].at = Parts THEN "whole" ELSE "partial",
                       data |-> opening'[p].read]]
    /\ UNCHANGED <<sourceVars, listed, booked, removal, mac, localVars, setbacks>>

PutDirectory(p) ==
    /\ opening[p].pc = "tar" /\ opening[p].at = Parts
    /\ listed' = [listed EXCEPT ![p] = [present |-> TRUE, directory |-> TRUE]]
    /\ opening' = [opening EXCEPT ![p] = NoOpening]
    /\ Reply(p, Accepted(p, archive[p].data, opening[p].sum))
    /\ UNCHANGED <<sourceVars, archive, booked, removal, localVars, setbacks>>

(* tar or the hash of the archive fails; then its removal may fail too.    *)
PackFails(p) ==
    /\ opening[p].pc = "tar"
    /\ Setback
    /\ opening' = [opening EXCEPT ![p].pc = "drop"]
    /\ UNCHANGED <<sourceVars, archive, listed, booked, removal, mac, localVars>>

DropArchive(p) ==
    /\ opening[p].pc = "drop"
    /\ \/ /\ archive' = [archive EXCEPT ![p] = NoArchive]
          /\ booked' = booked \ {p}
          /\ UNCHANGED setbacks
       \/ Setback /\ UNCHANGED <<archive, booked>>
    /\ opening' = [opening EXCEPT ![p] = NoOpening]
    /\ Reply(p, Refused(p))
    /\ UNCHANGED <<sourceVars, listed, removal, localVars>>

WorkerDies(p) ==
    /\ opening[p].pc # "none" \/ removal[p] # "none"
    /\ Setback
    /\ opening' = [opening EXCEPT ![p] = NoOpening]
    /\ removal' = [removal EXCEPT ![p] = "none"]
    /\ UNCHANGED <<sourceVars, archive, listed, booked, mac, localVars>>

-----------------------------------------------------------------------------
(* The Mac downloads and verifies.                                         *)

(* readChunk: the row must be there, and what it names must open.          *)
Readable(p) == listed[p].present /\ (listed[p].directory => archive[p].state = "whole")

ReadChunk(p) ==
    /\ MacAt(p, "download") /\ mac[p].at < Parts
    /\ LET k == mac[p].at + 1
           data == IF listed[p].directory THEN archive[p].data ELSE source IN
       mac' = [mac EXCEPT ![p] =
                 IF Readable(p) THEN [@ EXCEPT !.at = k, !.got[k] = data[k]]
                 ELSE [@ EXCEPT !.pc = "abandon"]]
    /\ UNCHANGED <<sourceVars, workerVars, localVars, setbacks>>

(* Size and hash of the download.                                          *)
VerifyDownload(p) ==
    /\ MacAt(p, "download") /\ mac[p].at = Parts
    /\ MacGoes(p, IF mac[p].got # mac[p].told.digest THEN "abandon"
               ELSE IF mac[p].directory THEN "unpack" ELSE "stage")
    /\ UNCHANGED <<sourceVars, workerVars, localVars, setbacks>>

(* A call is lost, or times out. Without an answer to the first one there  *)
(* is no transfer to finish, and mkdtemp stands before the try block.      *)
CallLost(p) ==
    /\ Setback
    /\ \/ MacAt(p, "begin") /\ MacGoes(p, "failed")
       \/ MacAt(p, "download") /\ MacGoes(p, "abandon")
       \/ MacAt(p, "download") /\ mac[p].at = 0 /\ MacGoes(p, "failed")
    /\ UNCHANGED <<sourceVars, workerVars, localVars>>
NoAnswer(p) ==
    /\ MacAt(p, "begin") /\ opening[p].pc = "none"
    /\ MacGoes(p, "failed")
    /\ UNCHANGED <<sourceVars, workerVars, localVars, setbacks>>

-----------------------------------------------------------------------------
(* The Mac installs a file.                                                *)

(* rename on the Mac replaces a file by a file, and nothing else that is   *)
(* there (directories are taken to have entries).                          *)
Replaceable(item, present) == ~There(present) \/ (item.kind = "file" /\ present.kind = "file")

StageFile(p) ==
    /\ MacAt(p, "stage")
    /\ \/ staged' = [staged EXCEPT ![p] = "whole"] /\ MacGoes(p, "install") /\ UNCHANGED setbacks
       \/ MacFails(p, "abandon") /\ UNCHANGED staged
    /\ UNCHANGED <<sourceVars, workerVars, destination, aside>>

(* rename replaces a file at the destination, link nothing.                *)
InstallFile(p) ==
    /\ MacAt(p, "install")
    /\ \/ /\ IF mac[p].overwrite THEN Replaceable(Own(p), destination) ELSE ~There(destination)
          /\ destination' = Own(p)
          /\ staged' = [staged EXCEPT ![p] = IF mac[p].overwrite THEN "none" ELSE @]
          /\ MacGoes(p, IF mac[p].overwrite THEN "finish" ELSE "unlink")
          /\ UNCHANGED setbacks
       \/ /\ ~(IF mac[p].overwrite THEN Replaceable(Own(p), destination) ELSE ~There(destination))
          /\ MacGoes(p, "unstage")
          /\ UNCHANGED <<destination, staged, setbacks>>
       \/ MacFails(p, "unstage") /\ UNCHANGED <<destination, staged>>
    /\ UNCHANGED <<sourceVars, workerVars, aside>>

Unlink(p) ==
    /\ MacAt(p, "unlink")
    /\ \/ staged' = [staged EXCEPT ![p] = "none"] /\ MacGoes(p, "finish") /\ UNCHANGED setbacks
       \/ MacFails(p, "unstage") /\ UNCHANGED staged
    /\ UNCHANGED <<sourceVars, workerVars, destination, aside>>

-----------------------------------------------------------------------------
(* The Mac installs a directory.                                           *)

(* preflightArchive, and the staging directory.                            *)
Unpack(p) ==
    /\ MacAt(p, "unpack")
    /\ \/ /\ staged' = [staged EXCEPT ![p] = "partial"]
          /\ MacGoes(p, "extract")
          /\ UNCHANGED setbacks
       \/ MacFails(p, "abandon") /\ UNCHANGED staged
    /\ UNCHANGED <<sourceVars, workerVars, destination, aside>>

(* assertManifestMatches compares what tar has packed with the manifest.   *)
MatchesArchive(p) == mac[p].got = mac[p].told.digest
Matches(p) == mac[p].got = mac[p].told.sum

Extract(p) ==
    /\ MacAt(p, "extract")
    /\ \/ /\ staged' = [staged EXCEPT ![p] = "whole"]
          /\ MacGoes(p, IF Matches(p) THEN "look" ELSE "unstage")
          /\ UNCHANGED setbacks
       \/ MacFails(p, "unstage") /\ UNCHANGED staged
    /\ UNCHANGED <<sourceVars, workerVars, destination, aside>>

Look(p) ==
    /\ MacAt(p, "look")
    /\ MacGoes(p, IF ~There(destination) THEN "place"
                  ELSE IF mac[p].overwrite THEN "aside" ELSE "unstage")
    /\ UNCHANGED <<sourceVars, workerVars, localVars, setbacks>>

MoveAside(p) ==
    /\ MacAt(p, "aside")
    /\ \/ /\ There(destination)
          /\ aside' = [aside EXCEPT ![p] = destination]
          /\ destination' = Nothing
          /\ mac' = [mac EXCEPT ![p] = [@ EXCEPT !.pc = "place", !.moved = TRUE]]
          /\ UNCHANGED setbacks
       \/ /\ ~There(destination)
          /\ MacGoes(p, "unstage")
          /\ UNCHANGED <<destination, aside, setbacks>>
       \/ MacFails(p, "unstage") /\ UNCHANGED <<destination, aside>>
    /\ UNCHANGED <<sourceVars, workerVars, staged>>

(* The catch block puts back what was moved, if nothing is there.          *)
ForgetsBackup(p) == "unstage"
CatchPc(p) == IF mac[p].moved THEN "undo" ELSE "unstage"

PlaceDirectory(p) ==
    /\ MacAt(p, "place")
    /\ \/ /\ Replaceable(Own(p), destination)
          /\ destination' = Own(p)
          /\ staged' = [staged EXCEPT ![p] = "none"]
          /\ MacGoes(p, IF mac[p].moved THEN "discard" ELSE "finish")
          /\ UNCHANGED setbacks
       \/ /\ ~Replaceable(Own(p), destination)
          /\ MacGoes(p, CatchPc(p))
          /\ UNCHANGED <<destination, staged, setbacks>>
       \/ MacFails(p, CatchPc(p)) /\ UNCHANGED <<destination, staged>>
    /\ UNCHANGED <<sourceVars, workerVars, aside>>

LookAgain(p) ==
    /\ MacAt(p, "undo")
    /\ MacGoes(p, IF There(destination) THEN "unstage" ELSE "restore")
    /\ UNCHANGED <<sourceVars, workerVars, localVars, setbacks>>

(* The failure of this rename is swallowed.                                *)
PutBack(p) ==
    /\ MacAt(p, "restore")
    /\ \/ /\ Replaceable(aside[p], destination)
          /\ destination' = aside[p]
          /\ aside' = [aside EXCEPT ![p] = Nothing]
          /\ MacGoes(p, "unstage")
          /\ UNCHANGED setbacks
       \/ /\ ~Replaceable(aside[p], destination)
          /\ MacGoes(p, "unstage")
          /\ UNCHANGED <<destination, aside, setbacks>>
       \/ /\ Setback
          /\ mac' = [mac EXCEPT ![p] = [@ EXCEPT !.pc = "unstage", !.stuck = TRUE]]
          /\ UNCHANGED <<destination, aside>>
    /\ UNCHANGED <<sourceVars, workerVars, staged>>

(* backup_cleanup_pending when the backup cannot be removed.               *)
Discard(p) ==
    /\ MacAt(p, "discard")
    /\ \/ aside' = [aside EXCEPT ![p] = Nothing] /\ UNCHANGED setbacks
       \/ Setback /\ UNCHANGED aside
    /\ MacGoes(p, "finish")
    /\ UNCHANGED <<sourceVars, workerVars, destination, staged>>

-----------------------------------------------------------------------------
(* Leaving nothing behind.                                                 *)

Unstage(p) ==
    /\ MacAt(p, "unstage")
    /\ \/ staged' = [staged EXCEPT ![p] = "none"] /\ UNCHANGED setbacks
       \/ Setback /\ UNCHANGED staged
    /\ MacGoes(p, "abandon")
    /\ UNCHANGED <<sourceVars, workerVars, destination, aside>>

(* transfer_finish is asked for once, and its failure is only reported.    *)
AskFinish(p) ==
    /\ MacAt(p, "finish") \/ MacAt(p, "abandon")
    /\ MacGoes(p, IF MacAt(p, "finish") THEN "ok" ELSE "failed")
    /\ \/ /\ removal' = IF listed[p].present /\ removal[p] = "none"
                       THEN [removal EXCEPT ![p] = "archive"] ELSE removal
          /\ UNCHANGED setbacks
       \/ Setback /\ UNCHANGED removal
    /\ UNCHANGED <<sourceVars, opening, archive, listed, booked, localVars>>

MacDies(p) ==
    /\ mac[p].pc \notin Returned \cup {"idle"}
    /\ MacFails(p, "dead")
    /\ UNCHANGED <<sourceVars, workerVars, localVars>>

(* No process of the pull is left; then its row and archive get older than *)
(* 24 hours and its reservation older than 25.                             *)
Rests(p) == mac[p].pc \in Returned /\ opening[p].pc = "none"
StaleArchive(p) == listed[p].present /\ listed[p].directory
Stale(p) == listed[p].present

(* cleanupStale, at the start of a Worker and by its timer.                *)
SweepRow(p) ==
    /\ Rests(p) /\ Stale(p) /\ removal[p] = "none"
    /\ removal' = [removal EXCEPT ![p] = "archive"]
    /\ UNCHANGED <<sourceVars, opening, archive, listed, booked, mac, localVars, setbacks>>

(* A download longer than 24 hours: to read a chunk is no update of a row. *)
SweepSlow(p) ==
    /\ mac[p].pc \notin Returned /\ Stale(p) /\ removal[p] = "none"
    /\ Setback
    /\ removal' = [removal EXCEPT ![p] = "archive"]
    /\ UNCHANGED <<sourceVars, opening, archive, listed, booked, mac, localVars>>

(* An archive that no row names, because a Worker died or a removal failed.*)
SweepOrphan(p) ==
    /\ Rests(p) /\ ~listed[p].present /\ archive[p].state # "none"
    /\ archive' = [archive EXCEPT ![p] = NoArchive]
    /\ UNCHANGED <<sourceVars, opening, listed, booked, removal, mac, localVars, setbacks>>

(* recoverOrRemove of a pull, whose row has neither destination nor backup.*)
RemovePacked(p) ==
    /\ removal[p] = "archive"
    /\ \/ /\ archive' = [archive EXCEPT ![p] = NoArchive]
          /\ removal' = [removal EXCEPT ![p] = "row"]
          /\ UNCHANGED setbacks
       \/ Setback /\ removal' = [removal EXCEPT ![p] = "none"] /\ UNCHANGED archive
    /\ UNCHANGED <<sourceVars, opening, listed, booked, mac, localVars>>

RemoveRow(p) ==
    /\ removal[p] = "row"
    /\ listed' = [listed EXCEPT ![p] = Unlisted]
    /\ booked' = booked \ {p}
    /\ removal' = [removal EXCEPT ![p] = "none"]
    /\ UNCHANGED <<sourceVars, opening, archive, mac, localVars, setbacks>>

BookingExpires(p) ==
    /\ Rests(p) /\ p \in booked
    /\ booked' = booked \ {p}
    /\ UNCHANGED <<sourceVars, opening, archive, listed, removal, mac, localVars, setbacks>>

-----------------------------------------------------------------------------
OpeningStep(p) ==
    List(p) \/ PutFile(p) \/ Reserve(p) \/ Pack(p) \/ PutDirectory(p) \/ DropArchive(p)

MacStep(p) ==
    \/ ReadChunk(p) \/ VerifyDownload(p) \/ NoAnswer(p)
    \/ StageFile(p) \/ InstallFile(p) \/ Unlink(p)
    \/ Unpack(p) \/ Extract(p) \/ Look(p) \/ MoveAside(p) \/ PlaceDirectory(p)
    \/ LookAgain(p) \/ PutBack(p) \/ Discard(p)
    \/ Unstage(p) \/ AskFinish(p)

Clearing(p) == SweepOrphan(p) \/ RemovePacked(p) \/ RemoveRow(p)

PullNext ==
    \/ Edit \/ OtherCreates
    \/ \E p \in Pull :
          \/ Invoke(p) \/ OpeningStep(p) \/ ListFails(p) \/ PackFails(p) \/ WorkerDies(p)
          \/ MacStep(p) \/ CallLost(p) \/ MacDies(p)
          \/ SweepRow(p) \/ SweepSlow(p) \/ Clearing(p) \/ BookingExpires(p)

PullSpec == PullInit /\ [][PullNext]_pullVars

(* Handlers and pullPath run on, calls have timers, cleanupStale is run    *)
(* again and again, and reservations expire. Nothing is assumed of users,  *)
(* of other programs and of crashes.                                       *)
PullFairness ==
    \A p \in Pull :
        /\ WF_pullVars(OpeningStep(p))
        /\ WF_pullVars(MacStep(p))
        /\ WF_pullVars(SweepRow(p))
        /\ WF_pullVars(Clearing(p))
        /\ WF_pullVars(BookingExpires(p))
FairPullSpec == PullSpec /\ PullFairness

-----------------------------------------------------------------------------
(* The variables have their types.                                         *)
PullTypeOK ==
    /\ source \in Reading /\ edits \in Nat
    /\ held \in [Pull -> SUBSET Reading]
    /\ opening \in [Pull -> Opening]
    /\ archive \in [Pull -> Archive]
    /\ listed \in [Pull -> [present : BOOLEAN, directory : BOOLEAN]]
    /\ booked \in SUBSET Pull
    /\ removal \in [Pull -> {"none", "archive", "row"}]
    /\ mac \in [Pull -> Mac]
    /\ destination \in Entry
    /\ staged \in [Pull -> {"none", "partial", "whole"}]
    /\ aside \in [Pull -> Entry]
    /\ setbacks \in Nat

(* What a pull installs is what the source was, as a whole, at one moment  *)
(* of the pull, however it was changed while it was read (hash or manifest *)
(* first, chunks or archive afterwards, compared in downloadArchive and    *)
(* assertManifestMatches), as long as no part is changed back to what it   *)
(* was.                                                                    *)
Vouched == {"stage", "install", "unlink", "look", "aside", "place", "discard", "finish", "ok"}
SnapshotTaken == \A p \in Pull : mac[p].pc \in Vouched => mac[p].got \in held[p]

(* What a pull has moved away leaves the destination empty only between    *)
(* its two renames, by the death of the Mac's process there, or when       *)
(* putting it back fails too; and then it is still there under the name of *)
(* a backup (installDirectory), whatever other pulls do.                   *)
Gap(p) == mac[p].pc \in {"place", "undo", "restore", "dead"} \/ mac[p].stuck
DestinationKept ==
    (\E p \in Pull : mac[p].moved) /\ ~There(destination)
        => \E p \in Pull : There(aside[p]) /\ Gap(p)

(* A pull keeps nothing on the Worker in the end: neither row nor archive  *)
(* nor reservation, whatever is lost or dies (transfer_finish,             *)
(* cleanupStale, the expiry of reservations).                              *)
Keeps(p) == listed[p].present \/ archive[p].state # "none" \/ p \in booked
PullsDrain == \A p \in Pull : Keeps(p) ~> ~Keeps(p)
=============================================================================
