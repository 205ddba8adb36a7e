--------------------------- MODULE WorkspaceFiles ---------------------------
(* The Worker's tools that change or destroy what the user keeps: write_text *)
(* and edit_text (filesystem.ts, writeText, editText, atomicWriteBytes),    *)
(* manage_path (managePath) and empty_recycle_bin (recycle-bin.ts).  Each   *)
(* looks at what it is about to replace, works for a while in hidden names  *)
(* beside it, looks again and acts; several Workers do so at once, other    *)
(* programs write and recycle files meanwhile, any file operation may fail, *)
(* and a Worker may die.  Nothing takes a lock.                             *)
(*                                                                          *)
(* A file has an identity (who created it: dev and ino) and a content (the  *)
(* changes it contains, which is what its SHA-256 tells apart).  Trees are  *)
(* single files; links, encodings and the path policy are left out.         *)
(*                                                                          *)
(* A definition written just above the one it resembles, and used nowhere,  *)
(* is a mutant: the bug that the properties named in PROJECT.json exclude.  *)
EXTENDS Naturals, FiniteSets

CONSTANTS
  Op,          \* calls of the tools
  Path,        \* names of the workspace that callers use
  User,        \* writes by other programs
  Item,        \* what may come to lie in the Recycle Bin
  Drive,       \* volumes
  DriveOf,     \* the volume of an item
  Scan,        \* receipts of scan_recycle_bin
  NoFile,      \* nothing has that name
  NoHash,      \* the caller gave no expected_sha256
  MaxMishaps   \* bound: failed file operations and deaths, together

ASSUME ItemAssumption == DriveOf \in [Item -> Drive]
ASSUME BoundAssumption == MaxMishaps \in Nat

VARIABLES
  fs,        \* the file of each name
  bin,       \* the items in the Recycle Bin
  receipts,  \* rows of recycle_scans
  op,        \* each call: where it is, its arguments, what it has seen
  spare,     \* what other programs have still to write or recycle
  mishaps,
  since      \* history: the target changed after a call's last step

vars == <<fs, bin, receipts, op, spare, mishaps, since>>

Temp(o) == <<"temp", o>>
Backup(o) == <<"backup", o>>
Name == Path \cup ({"temp", "backup"} \X Op)

Content == SUBSET (Path \cup Op \cup User)
File == [by : Path \cup Op \cup User, has : Content, whole : BOOLEAN]

ASSUME NamesAssumption ==
  /\ Path \cap ({"temp", "backup"} \X Op) = {}
  /\ NoFile \notin File

Writes == {"write", "edit"}
Places == {"copy", "move"}
Over == {"idle", "ok", "failed", "dead"}

\* What the caller asks for is known from the start.  The files and the
\* Recycle Bin share no state, so a behaviour is about the one or the other.
Asked(kind) == [pc |-> "idle", kind |-> kind, path |-> NoFile, to |-> NoFile,
                expect |-> NoHash, overwrite |-> FALSE, seen |-> {},
                aside |-> NoFile, hit |-> FALSE]

InitFiles ==
  /\ \E present \in SUBSET Path :
       fs = [n \in Name |-> IF n \in present
                            THEN [by |-> n, has |-> {n}, whole |-> TRUE] ELSE NoFile]
  /\ \E kind \in [Op -> Writes \cup Places \cup {"delete"}] :
       op = [o \in Op |-> Asked(kind[o])]
  /\ bin = {} /\ spare = User
  /\ receipts = [s \in Scan |-> [status |-> "removed", stale |-> FALSE, items |-> {}]]

InitBin ==
  /\ fs = [n \in Name |-> NoFile]
  /\ op = [o \in Op |-> Asked("empty")]
  /\ bin \in SUBSET Item /\ spare = Item \ bin
  /\ receipts = [s \in Scan |-> [status |-> "none", stale |-> FALSE, items |-> {}]]

Init ==
  /\ InitFiles \/ InitBin
  /\ mishaps = 0
  /\ since = [o \in Op |-> FALSE]

-----------------------------------------------------------------------------
(* Steps of a call. *)

There(n) == fs[n] # NoFile
At(o, pc) == op[o].pc = pc
Is(o, kinds) == op[o].kind \in kinds
Goes(o, pc) ==
  op' = [op EXCEPT ![o] = IF pc \in Over
                          THEN [Asked(op[o].kind) EXCEPT !.pc = pc, !.hit = op[o].hit]
                          ELSE [@ EXCEPT !.pc = pc]]
Files == UNCHANGED <<bin, receipts, spare, mishaps>>
Locals == Files /\ UNCHANGED fs

Matches(o) ==
  op[o].expect # NoHash =>
    There(op[o].path) /\ fs[op[o].path].has = op[o].expect

\* What a caller has read of a path, or nothing.
Hashes(p) == {NoHash} \cup (IF There(p) THEN {fs[p].has} ELSE {})

Begin(o) ==
  /\ At(o, "idle")
  /\ \E p \in Path, q \in Path : \E h \in Hashes(p), overwrite \in BOOLEAN :
       /\ \/ Is(o, Writes \cup {"delete"}) /\ q = p /\ ~overwrite
          \/ Is(o, Places) /\ q # p
       /\ Is(o, {"edit"}) => h # NoHash
       /\ op' = [op EXCEPT ![o].pc = IF Is(o, Writes) THEN "compare" ELSE "inspect",
                           ![o].path = p, ![o].to = q, ![o].expect = h,
                           ![o].overwrite = overwrite]
  /\ Locals

\* The hash is compared before the work; an edit also reads the text here.
Compare(o) ==
  /\ At(o, "compare")
  /\ Goes(o, IF Matches(o) THEN "stage" ELSE "failed")
  /\ Locals

Inspect(o) ==
  /\ At(o, "inspect")
  /\ Goes(o, IF Matches(o) THEN "identify" ELSE "failed")
  /\ Locals

\* lstat of the source.
Identify(o) ==
  /\ At(o, "identify")
  /\ LET p == op[o].path
     IN  op' = [op EXCEPT
           ![o].pc = IF ~There(p) THEN "failed"
                     ELSE IF Is(o, {"delete"}) THEN "confirm" ELSE "survey",
           ![o].seen = IF There(p) THEN {fs[p].by} ELSE {}]
  /\ Locals

\* destinationExists is decided here and not again.
AfterStage(o) == IF op[o].seen = {} THEN "commit" ELSE "setaside"
Survey(o) ==
  /\ At(o, "survey")
  /\ LET exists == There(op[o].to)
     IN  op' = [op EXCEPT
           ![o].pc = IF exists /\ ~op[o].overwrite THEN "failed"
                     ELSE IF Is(o, {"copy"}) THEN "stage"
                     ELSE IF exists THEN "setaside" ELSE "commit",
           ![o].seen = IF exists THEN {fs[op[o].to].by} ELSE {}]
  /\ Locals

NewContent(o) == CASE Is(o, {"write"}) -> {o}
                   [] Is(o, {"edit"})  -> op[o].expect \cup {o}
                   [] OTHER            -> fs[op[o].path].has

StageHasty(o) ==
  /\ At(o, "stage")
  /\ IF Is(o, {"copy"}) /\ ~There(op[o].path)
     THEN Goes(o, "undo") /\ UNCHANGED fs
     ELSE /\ fs' = [fs EXCEPT ![Temp(o)] =
                      [by |-> o, has |-> NewContent(o), whole |-> FALSE]]
          /\ Goes(o, IF Is(o, Writes) THEN "recheck" ELSE AfterStage(o))
  /\ Files

\* The hidden file is opened, or the copy begun, and then written and synced.
Stage(o) ==
  /\ At(o, "stage")
  /\ IF Is(o, {"copy"}) /\ ~There(op[o].path)
     THEN Goes(o, "undo") /\ UNCHANGED fs
     ELSE /\ fs' = [fs EXCEPT ![Temp(o)] =
                      [by |-> o, has |-> NewContent(o), whole |-> FALSE]]
          /\ Goes(o, "fill")
  /\ Files

Fill(o) ==
  /\ At(o, "fill")
  /\ fs' = [fs EXCEPT ![Temp(o)].whole = TRUE]
  /\ Goes(o, IF Is(o, Writes) THEN "recheck" ELSE AfterStage(o))
  /\ Files

RecheckTrusts(o) == At(o, "recheck") /\ Goes(o, "commit") /\ Locals

\* The hash is compared once more.
Recheck(o) ==
  /\ At(o, "recheck")
  /\ Goes(o, IF Matches(o) THEN "commit" ELSE "undo")
  /\ Locals

SetAside(o) ==
  /\ At(o, "setaside")
  /\ LET q == op[o].to
     IN  IF There(q)
         THEN /\ fs' = [fs EXCEPT ![Backup(o)] = fs[q], ![q] = NoFile]
              /\ op' = [op EXCEPT ![o].pc = "commit", ![o].aside = fs[q]]
         ELSE Goes(o, "undo") /\ UNCHANGED fs
  /\ Files

\* One rename, which replaces what is there.
Commit(o) ==
  /\ At(o, "commit")
  /\ LET from == IF Is(o, {"move"}) THEN op[o].path ELSE Temp(o)
     IN  IF There(from)
         THEN /\ fs' = [fs EXCEPT ![op[o].to] = fs[from], ![from] = NoFile]
              /\ Goes(o, IF op[o].aside = NoFile THEN "ok" ELSE "discard")
         ELSE Goes(o, "undo") /\ UNCHANGED fs
  /\ Files

Discard(o) ==
  /\ At(o, "discard")
  /\ fs' = [fs EXCEPT ![Backup(o)] = NoFile]
  /\ op' = [op EXCEPT ![o].pc = "ok", ![o].aside = NoFile]
  /\ Files

UndoGivesUp(o) ==
  /\ At(o, "undo")
  /\ fs' = [fs EXCEPT ![Temp(o)] = NoFile]
  /\ Goes(o, "failed")
  /\ Files

UndoLeaves(o) ==
  /\ At(o, "undo")
  /\ Goes(o, IF op[o].aside = NoFile THEN "failed" ELSE "restore")
  /\ Locals

\* The catch blocks: remove the hidden file; put back what was set aside
\* unless something has taken its place.
Undo(o) ==
  /\ At(o, "undo")
  /\ fs' = [fs EXCEPT ![Temp(o)] = NoFile]
  /\ Goes(o, IF op[o].aside = NoFile THEN "failed" ELSE "restore")
  /\ Files

Restore(o) ==
  /\ At(o, "restore")
  /\ Goes(o, IF There(op[o].to) THEN "failed" ELSE "putback")
  /\ Locals

PutBack(o) ==
  /\ At(o, "putback")
  /\ fs' = [fs EXCEPT ![op[o].to] = fs[Backup(o)], ![Backup(o)] = NoFile]
  /\ op' = [op EXCEPT ![o].pc = "failed", ![o].aside = NoFile]
  /\ Files

\* A second lstat must find the file of the first.
Confirm(o) ==
  /\ At(o, "confirm")
  /\ LET p == op[o].path
     IN  Goes(o, IF There(p) /\ op[o].seen = {fs[p].by} THEN "remove" ELSE "failed")
  /\ Locals

Remove(o) ==
  /\ At(o, "remove")
  /\ fs' = [fs EXCEPT ![op[o].path] = NoFile]
  /\ Goes(o, IF There(op[o].path) THEN "ok" ELSE "failed")
  /\ Files
-----------------------------------------------------------------------------
(* The Recycle Bin. *)

Shelf(items) == IF items = {} THEN Drive ELSE {DriveOf[i] : i \in items}
InScope(items) == {i \in bin : DriveOf[i] \in Shelf(items)}
RemoveScan(s) == receipts' = [receipts EXCEPT ![s].status = "removed"]

ScanBin(s) ==
  /\ receipts[s].status = "none"
  /\ receipts' = [receipts EXCEPT ![s] = [status |-> "kept", stale |-> FALSE, items |-> bin]]
  /\ UNCHANGED <<fs, bin, op, spare, mishaps>>

\* Fifteen minutes pass; later, storage governance deletes the row.
ScanExpires(s) ==
  /\ receipts[s].status = "kept"
  /\ IF receipts[s].stale THEN RemoveScan(s)
     ELSE receipts' = [receipts EXCEPT ![s].stale = TRUE]
  /\ UNCHANGED <<fs, bin, op, spare, mishaps>>

BeginEmpty(o) ==
  /\ At(o, "idle") /\ Is(o, {"empty"})
  /\ \E s \in Scan : op' = [op EXCEPT ![o].pc = "lookup", ![o].to = s]
  /\ Locals

Lookup(o) ==
  /\ At(o, "lookup")
  /\ LET s == op[o].to
         good == receipts[s].status = "kept" /\ ~receipts[s].stale
     IN  /\ op' = [op EXCEPT ![o].pc = IF good THEN "resnap" ELSE "failed",
                             ![o].seen = receipts[s].items]
         /\ IF receipts[s].status = "kept" /\ ~good
            THEN RemoveScan(s) ELSE UNCHANGED receipts
  /\ UNCHANGED <<fs, bin, spare, mishaps>>

\* The bin is read again; the receipt is used up whether it matches or not.
Resnap(o) ==
  /\ At(o, "resnap")
  /\ Goes(o, IF InScope(op[o].seen) # op[o].seen THEN "failed"
             ELSE IF op[o].seen = {} THEN "verify" ELSE "clear")
  /\ RemoveScan(op[o].to)
  /\ UNCHANGED <<fs, bin, spare, mishaps>>

\* Whole volumes are cleared, one after the other; one may fail.
Clear(o) ==
  /\ At(o, "clear")
  /\ \E cleared \in SUBSET Shelf(op[o].seen) :
       LET fails == cleared # Shelf(op[o].seen)
       IN  /\ fails => mishaps < MaxMishaps
           /\ bin' = {i \in bin : DriveOf[i] \notin cleared}
           /\ op' = [op EXCEPT ![o].pc = "verify", ![o].hit = fails]
           /\ mishaps' = IF fails THEN mishaps + 1 ELSE mishaps
  /\ UNCHANGED <<fs, receipts, spare>>

Verify(o) ==
  /\ At(o, "verify")
  /\ Goes(o, IF InScope(op[o].seen) = {} /\ ~op[o].hit THEN "ok" ELSE "failed")
  /\ Locals

-----------------------------------------------------------------------------
(* What goes wrong, and what others do. *)

\* A file operation of this step fails, or the path maps to another target.
AfterFailure(o) ==
  CASE op[o].pc \in {"stage", "fill"} -> IF Is(o, Writes) THEN "failed" ELSE "undo"
    [] op[o].pc \in {"setaside", "commit"} -> "undo"
    [] op[o].pc \in {"undo", "putback", "confirm", "remove"} -> "failed"
    [] op[o].pc = "discard" -> "ok"
    [] OTHER -> op[o].pc

\* The failures that no catch block makes good: of the hidden file of a write,
\* of the cleaning up, and of the putting back.
Untended(o) ==
  \/ op[o].pc \in {"undo", "putback", "discard"}
  \/ op[o].pc \in {"stage", "fill"} /\ Is(o, Writes)

StepFails(o) ==
  /\ mishaps < MaxMishaps
  /\ AfterFailure(o) # op[o].pc
  /\ op' = [op EXCEPT ![o].pc = AfterFailure(o), ![o].hit = @ \/ Untended(o)]
  /\ mishaps' = mishaps + 1
  /\ UNCHANGED <<fs, bin, receipts, spare>>

WorkerDies(o) ==
  /\ mishaps < MaxMishaps
  /\ op[o].pc \notin Over
  /\ op' = [op EXCEPT ![o].pc = "dead", ![o].hit = TRUE]
  /\ mishaps' = mishaps + 1
  /\ UNCHANGED <<fs, bin, receipts, spare>>

\* Another program writes a file in place, or creates it.
UserWrites(u, p) ==
  /\ u \in spare
  /\ spare' = spare \ {u}
  /\ fs' = [fs EXCEPT ![p] = IF There(p) THEN [@ EXCEPT !.has = {u}]
                             ELSE [by |-> u, has |-> {u}, whole |-> TRUE]]
  /\ UNCHANGED <<bin, receipts, op, mishaps>>

UserRecycles(i) ==
  /\ i \in spare
  /\ spare' = spare \ {i}
  /\ bin' = bin \cup {i}
  /\ UNCHANGED <<fs, receipts, op, mishaps>>

Step(o) ==
  \/ Begin(o) \/ Compare(o) \/ Inspect(o) \/ Identify(o) \/ Survey(o)
  \/ Stage(o) \/ Fill(o) \/ Recheck(o) \/ SetAside(o) \/ Commit(o)
  \/ Discard(o) \/ Undo(o) \/ Restore(o) \/ PutBack(o) \/ Confirm(o) \/ Remove(o)
  \/ BeginEmpty(o) \/ Lookup(o) \/ Resnap(o) \/ Clear(o) \/ Verify(o)
  \/ StepFails(o) \/ WorkerDies(o)

\* The target of a call changes while the call itself takes no step.
Changed(o) == /\ op[o].pc \notin Over
              /\ IF Is(o, {"empty"}) THEN bin' # bin
                 ELSE fs'[op[o].to] # fs[op[o].to]

Next ==
  /\ \/ \E o \in Op : Step(o)
     \/ \E s \in Scan : ScanBin(s) \/ ScanExpires(s)
     \/ \E u \in User, p \in Path : UserWrites(u, p)
     \/ \E i \in Item : UserRecycles(i)
  /\ since' = [o \in Op |-> op'[o] = op[o] /\ (since[o] \/ Changed(o))]

Spec == Init /\ [][Next]_vars

-----------------------------------------------------------------------------
(* Properties. *)

TypeOK ==
  /\ fs \in [Name -> File \cup {NoFile}]
  /\ bin \subseteq Item
  /\ spare \subseteq User \cup Item
  /\ receipts \in [Scan -> [status : {"none", "kept", "removed"}, stale : BOOLEAN,
                            items : SUBSET Item]]
  /\ op \in [Op -> [pc : Over \cup {"compare", "inspect", "identify", "survey", "stage", "fill",
                                "recheck", "setaside", "commit", "discard", "undo", "restore",
                                "putback", "confirm", "remove", "lookup", "resnap", "clear",
                                "verify"},
                   kind : Writes \cup Places \cup {"delete", "empty"},
                   path : Path \cup {NoFile}, to : Path \cup Scan \cup {NoFile},
                   expect : Content \cup {NoHash}, overwrite : BOOLEAN,
                   seen : SUBSET (Path \cup Op \cup User \cup Item),
                   aside : File \cup {NoFile}, hit : BOOLEAN]]
  /\ mishaps \in 0 .. MaxMishaps
  /\ since \in [Op -> BOOLEAN]

(* No caller's path ever shows part of a file: what appears there was       *)
(* written and synced, or copied, to the end before.  (filesystem.ts        *)
(* 341-358, 384-393, 535-542.)                                              *)
NoPartial == \A p \in Path : There(p) => fs[p].whole

(* A copy or move that fails after it has set the destination aside, at its *)
(* second rename or because its source has gone, leaves a file there: the   *)
(* old one, or one that came in the meantime.  Excused are only the call    *)
(* whose removal of the hidden file or whose putting back fails as well,    *)
(* and the one whose Worker dies.  (filesystem.ts 534-545.)                 *)
FailureRestores ==
  [][\A o \in Op :
       op[o].aside # NoFile /\ ~At(o, "failed") /\ op'[o].pc = "failed" /\ ~op'[o].hit
         => fs'[op[o].to] # NoFile]_vars

(* A call that has returned leaves no hidden file behind, and a success no  *)
(* backup, also when its copying, its renames or its policy check failed:   *)
(* only a write of the hidden file that fails, a clean-up that fails, and   *)
(* the death of the Worker excuse it.                                       *)
(* (filesystem.ts 359-362, 394-397, 543-545, 554-558.)                      *)
TidyUp ==
  \A o \in Op : ~op[o].hit =>
    /\ op[o].pc \in {"ok", "failed"} => fs[Temp(o)] = NoFile
    /\ At(o, "ok") => fs[Backup(o)] = NoFile

(* What a call destroys is what it saw at its last look, or came after that *)
(* look: an edit replaces the content it was made from, a delete removes    *)
(* the file it inspected, and clearing takes the items of the receipt.      *)
(* (filesystem.ts 350-358, 390-393, 518-524; recycle-bin.ts 223-237.)       *)
SeesWhatItDestroys ==
  [][\A o \in Op : ~since[o] =>
       /\ At(o, "commit") /\ Is(o, Writes) /\ op'[o].pc = "ok" => Matches(o)
       /\ At(o, "remove") /\ op'[o].pc = "ok" => op[o].seen = {fs[op[o].path].by}
       /\ At(o, "clear") /\ op'[o].pc = "verify" => bin \ bin' \subseteq op[o].seen]_vars
=============================================================================
