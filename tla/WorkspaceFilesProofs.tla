------------------------ MODULE WorkspaceFilesProofs ------------------------
(* Proofs about WorkspaceFiles, for any number of calls, names, users,      *)
(* items and mishaps: no name of a caller ever shows part of a file, a call *)
(* that ends undisturbed leaves nothing hidden behind, a replacement that   *)
(* fails leaves a file where it had set one aside, and a call destroys what *)
(* it saw at its last look, or what came after.                             *)
(*                                                                          *)
(* A call's hidden names are its own: a step of one call leaves the others' *)
(* alone, so the invariant is one of each call by itself.                   *)
EXTENDS WorkspaceFiles, TLAPS

FilePc == {"compare", "inspect", "identify", "survey", "stage", "fill", "recheck",
           "setaside", "commit", "discard", "undo", "restore", "putback", "confirm", "remove"}
HasAside == {"commit", "discard", "undo", "restore", "putback", "ok", "failed", "dead"}
Unstaged == {"idle", "compare", "inspect", "identify", "survey", "stage", "confirm", "remove",
             "discard", "restore", "putback", "lookup", "resnap", "clear", "verify",
             "ok", "failed"}
Hurt == {"undo", "restore", "putback", "verify", "ok", "failed", "dead"}

Pc == Over \cup {"compare", "inspect", "identify", "survey", "stage", "fill",
                "recheck", "setaside", "commit", "discard", "undo", "restore",
                "putback", "confirm", "remove", "lookup", "resnap", "clear", "verify"}
Seen == SUBSET (Path \cup Op \cup User \cup Item)
Slot == File \cup {NoFile}
Call == [pc : Pc, kind : Writes \cup Places \cup {"delete", "empty"},
         path : Path \cup {NoFile}, to : Path \cup Scan \cup {NoFile},
         expect : Content \cup {NoHash}, overwrite : BOOLEAN,
         seen : Seen, aside : Slot, hit : BOOLEAN]

(* What a call that is under way knows of its arguments.                    *)
Asking(o) ==
  /\ op[o].pc \in FilePc =>
       Is(o, Writes \cup Places \cup {"delete"}) /\ op[o].path \in Path /\ op[o].to \in Path
  /\ op[o].pc \in FilePc /\ Is(o, {"edit"}) => op[o].expect \in Content
  /\ At(o, "compare") => Is(o, Writes)
  /\ op[o].pc \in {"stage", "fill", "recheck"} => ~Is(o, {"move", "delete"})
  /\ op[o].pc \in {"lookup", "resnap", "clear", "verify"} => op[o].to \in Scan
  /\ op[o].hit => op[o].pc \in Hurt

(* The call's temporary file: whole once it is filled, gone unless the call *)
(* is at work on it or the clean-up failed.                                       *)
Temporary(o) ==
  /\ There(Temp(o)) => ~Is(o, {"move"})
  /\ At(o, "fill") => There(Temp(o))
  /\ op[o].pc \in {"recheck", "setaside", "commit"} /\ There(Temp(o)) => fs[Temp(o)].whole
  /\ ~op[o].hit /\ op[o].pc \in Unstaged => ~There(Temp(o))

(* The file that the call has set aside.                                    *)
SetAsideFile(o) ==
  /\ There(Backup(o)) => fs[Backup(o)].whole
  /\ op[o].aside # NoFile => There(Backup(o)) /\ op[o].pc \in HasAside
  /\ op[o].aside # NoFile /\ op[o].pc \in {"ok", "failed"} => op[o].hit
  /\ op[o].pc \in {"discard", "restore", "putback"} => op[o].aside # NoFile
  /\ ~op[o].hit /\ op[o].pc \notin {"failed", "dead"} /\ op[o].aside = NoFile =>
       ~There(Backup(o))

CallInv(o) == Asking(o) /\ Temporary(o) /\ SetAsideFile(o)

FilesInv == TypeOK /\ NoPartial /\ \A o \in Op : CallInv(o)

Receipts == [Scan -> [status : {"none", "kept", "removed"}, stale : BOOLEAN,
                      items : SUBSET Item]]

(* The types of what the calls share.                                       *)
RestTyped ==
  /\ bin \subseteq Item
  /\ spare \subseteq User \cup Item
  /\ receipts \in Receipts
  /\ mishaps \in 0 .. MaxMishaps

(* A step of one call, seen from the others.                                *)
OnlyOf(o) ==
  \A q \in Op \ {o} :
    op'[q] = op[q] /\ fs'[Temp(q)] = fs[Temp(q)] /\ fs'[Backup(q)] = fs[Backup(q)]

-----------------------------------------------------------------------------
(* Names are apart: a call's hidden ones from each other, from the hidden   *)
(* names of other calls and from the callers' paths.                        *)
LEMMA NamesApart ==
  ASSUME NEW o \in Op
  PROVE  /\ Temp(o) \in Name /\ Backup(o) \in Name /\ Path \subseteq Name
         /\ Temp(o) # Backup(o) /\ Temp(o) \notin Path /\ Backup(o) \notin Path
         /\ \A q \in Op \ {o} : /\ Temp(q) \notin {Temp(o), Backup(o)}
                                /\ Backup(q) \notin {Temp(o), Backup(o)}
  BY NamesAssumption DEF Temp, Backup, Name

(* The steps that leave the files alone.                                    *)
Looks(o) ==
  \/ Begin(o) \/ Compare(o) \/ Inspect(o) \/ Identify(o) \/ Survey(o) \/ Recheck(o)
  \/ Restore(o) \/ Confirm(o) \/ BeginEmpty(o) \/ Lookup(o) \/ Resnap(o) \/ Clear(o)
  \/ Verify(o) \/ StepFails(o) \/ WorkerDies(o)
Acts(o) ==
  \/ Stage(o) \/ Fill(o) \/ SetAside(o) \/ Commit(o) \/ Discard(o) \/ Undo(o)
  \/ PutBack(o) \/ Remove(o)

LEMMA StepLooksOrActs == ASSUME NEW o \in Op, Step(o) PROVE Looks(o) \/ Acts(o)
  BY DEF Step, Looks, Acts

LEMMA LooksOnly == ASSUME NEW o \in Op, Looks(o) PROVE UNCHANGED fs
  BY DEF Looks, Begin, Compare, Inspect, Identify, Survey, Recheck, Restore, Confirm,
      BeginEmpty, Lookup, Resnap, Clear, Verify, StepFails, WorkerDies, Locals

(* What a call has become when it goes to another place.                    *)
Moved(o, pc) == op' = [op EXCEPT ![o].pc = pc]
Ended(o, pc) ==
  op' = [op EXCEPT ![o] = [Asked(op[o].kind) EXCEPT !.pc = pc, !.hit = op[o].hit]]

(* Staging writes a file of its own, not yet whole, or gives up a copy whose *)
(* source is gone.                                                          *)
LEMMA StageDoes ==
  ASSUME TypeOK, NEW o \in Op, CallInv(o), Stage(o)
  PROVE  \/ UNCHANGED fs /\ Moved(o, "undo")
         \/ Moved(o, "fill") /\ \E f \in File : fs' = [fs EXCEPT ![Temp(o)] = f]
<1>1. CASE Is(o, {"copy"}) /\ ~There(op[o].path)
  BY <1>1 DEF Stage, Goes, Over, Moved
<1>2. CASE ~(Is(o, {"copy"}) /\ ~There(op[o].path))
  <2>1. op[o].path \in Path /\ op[o].kind \in {"write", "edit", "copy"}
        /\ (op[o].kind = "edit" => op[o].expect \in Content)
    BY DEF Stage, CallInv, Asking, At, FilePc, Is, Writes, Places
  <2>2. NewContent(o) \in Content
    <3>1. CASE op[o].kind = "write"
      BY <3>1 DEF NewContent, Is, Content
    <3>2. CASE op[o].kind = "edit"
      BY <2>1, <3>2 DEF NewContent, Is, Content
    <3>3. CASE op[o].kind = "copy"
      BY <1>2, <2>1, <3>3, NamesApart DEF NewContent, Is, There, TypeOK, File
    <3> QED BY <2>1, <3>1, <3>2, <3>3
  <2>3. [by |-> o, has |-> NewContent(o), whole |-> FALSE] \in File
    BY <2>2 DEF File
  <2> QED BY <1>2, <2>3 DEF Stage, Goes, Over, Moved
<1> QED BY <1>1, <1>2

(* A commit moves a file to the destination and ends, or drops the old one  *)
(* next.                                                                    *)
LEMMA CommitDoes ==
  ASSUME TypeOK, NEW o \in Op, CallInv(o), Commit(o)
  PROVE  \/ UNCHANGED fs /\ Moved(o, "undo")
         \/ /\ \E from \in {op[o].path, Temp(o)} :
                 /\ from = IF op[o].kind = "move" THEN op[o].path ELSE Temp(o)
                 /\ fs[from] # NoFile
                 /\ fs' = [fs EXCEPT ![op[o].to] = fs[from], ![from] = NoFile]
            /\ IF op[o].aside = NoFile THEN Ended(o, "ok") ELSE Moved(o, "discard")
  BY DEF Commit, There, Is, Goes, Over, Moved, Ended

(* The fields of a call that has moved or ended, and the other calls.       *)
LEMMA MovedFields ==
  ASSUME TypeOK, NEW o \in Op, NEW pc, Moved(o, pc)
  PROVE  /\ op'[o].pc = pc /\ op'[o].kind = op[o].kind /\ op'[o].path = op[o].path
         /\ op'[o].to = op[o].to /\ op'[o].expect = op[o].expect
         /\ op'[o].aside = op[o].aside /\ op'[o].hit = op[o].hit
         /\ \A q \in Op \ {o} : op'[q] = op[q]
  BY DEF Moved, TypeOK

LEMMA EndedFields ==
  ASSUME TypeOK, NEW o \in Op, NEW pc, Ended(o, pc)
  PROVE  /\ op'[o].pc = pc /\ op'[o].kind = op[o].kind
         /\ op'[o].aside = NoFile /\ op'[o].hit = op[o].hit
         /\ \A q \in Op \ {o} : op'[q] = op[q]
  BY DEF Ended, TypeOK, Asked

-----------------------------------------------------------------------------
(* Types: a call remains one whatever of its fields a step writes.          *)
LEMMA CallMoves ==
  ASSUME NEW c \in Call, NEW pc \in Pc
  PROVE  [c EXCEPT !.pc = pc] \in Call
  BY DEF Call

LEMMA CallSees ==
  ASSUME NEW c \in Call, NEW pc \in Pc, NEW s \in Seen
  PROVE  [c EXCEPT !.pc = pc, !.seen = s] \in Call
  BY DEF Call

LEMMA CallSlot ==
  ASSUME NEW c \in Call, NEW pc \in Pc, NEW s \in Slot
  PROVE  [c EXCEPT !.pc = pc, !.aside = s] \in Call
  BY DEF Call

LEMMA CallHit ==
  ASSUME NEW c \in Call, NEW pc \in Pc, NEW s \in BOOLEAN
  PROVE  [c EXCEPT !.pc = pc, !.hit = s] \in Call
  BY DEF Call

LEMMA CallScan ==
  ASSUME NEW c \in Call, NEW pc \in Pc, NEW s \in Scan
  PROVE  [c EXCEPT !.pc = pc, !.to = s] \in Call
  BY DEF Call

LEMMA CallAsks ==
  ASSUME NEW c \in Call, NEW pc \in Pc, NEW p \in Path, NEW q \in Path,
         NEW h \in Content \cup {NoHash}, NEW b \in BOOLEAN
  PROVE  [c EXCEPT !.pc = pc, !.path = p, !.to = q, !.expect = h,
                    !.overwrite = b] \in Call
  BY DEF Call

LEMMA CallEnds ==
  ASSUME NEW c \in Call, NEW pc \in Pc
  PROVE  [Asked(c.kind) EXCEPT !.pc = pc, !.hit = c.hit] \in Call
  BY DEF Call, Asked, Seen, Slot

LEMMA TypeCall ==
  ASSUME TypeOK
  PROVE  op \in [Op -> Call]
  BY DEF TypeOK, Call, Pc, Seen, Slot

LEMMA GoesTyped ==
  ASSUME TypeOK, NEW o \in Op, NEW pc \in Pc, Goes(o, pc)
  PROVE  op' \in [Op -> Call]
<1>1. [op[o] EXCEPT !.pc = pc] \in Call
    BY CallMoves, TypeCall
<1>2. [Asked(op[o].kind) EXCEPT !.pc = pc, !.hit = op[o].hit] \in Call
    BY CallEnds, TypeCall
<1> QED BY <1>1, <1>2, TypeCall DEF Goes

LEMMA RemoveTyped ==
  ASSUME TypeOK, NEW s \in Scan, RemoveScan(s)
  PROVE  receipts' \in Receipts
<1> DEFINE Row == [status : {"none", "kept", "removed"}, stale : BOOLEAN, items : SUBSET Item]
<1>1. receipts[s] \in Row
  BY DEF TypeOK
<1>2. [receipts[s] EXCEPT !.status = "removed"] \in Row
  BY <1>1
<1> QED BY <1>2 DEF TypeOK, RemoveScan, Receipts

-----------------------------------------------------------------------------

(* Files stay files.                                                        *)
LEMMA FilesTyped ==
  ASSUME TypeOK, NoPartial, NEW o \in Op, CallInv(o), Acts(o)
  PROVE  fs' \in [Name -> File \cup {NoFile}]
<1>1. CASE Stage(o)
  <2>1. CASE UNCHANGED fs
    BY <2>1 DEF TypeOK
  <2>2. ASSUME NEW f \in File, fs' = [fs EXCEPT ![Temp(o)] = f]
        PROVE  fs' \in [Name -> File \cup {NoFile}]
    BY <2>2, NamesApart DEF TypeOK
  <2> QED BY <1>1, <2>1, <2>2, StageDoes
<1>2. CASE Fill(o)
  <2>1. fs[Temp(o)] \in File
    BY <1>2, NamesApart DEF CallInv, Temporary, Fill, TypeOK, There
  <2>2. [fs[Temp(o)] EXCEPT !.whole = TRUE] \in File
    BY <2>1 DEF File
  <2> QED BY <1>2, <2>2, NamesApart DEF Fill, TypeOK
<1>3. CASE SetAside(o)
  BY <1>3, NamesApart
  DEF CallInv, SetAside, At, There, Goes, Files, Over, Asked, TypeOK, Name, File, Content,
      Asking, FilePc, Writes, Places, Is
<1>4. CASE Commit(o)
  BY <1>4, NamesApart
  DEF CallInv, Commit, At, Is, There, Goes, Files, Over, Asked, TypeOK, Name, File, Content,
      Asking, FilePc, Writes, Places
<1>5. CASE Discard(o)
  BY <1>5, NamesApart
  DEF CallInv, Discard, At, Files, TypeOK, Name, File, Content, Asking, FilePc, Over,
      Writes, Places, There, Is
<1>6. CASE Undo(o)
  BY <1>6, NamesApart
  DEF CallInv, Undo, At, Goes, Files, Over, Asked, TypeOK, Name, File, Content, Asking,
      FilePc, Writes, Places, There, Is
<1>7. CASE PutBack(o)
  BY <1>7, NamesApart
  DEF CallInv, PutBack, At, Files, TypeOK, Name, File, Content, Asking, FilePc, Over,
      Writes, Places, There, Is
<1>8. CASE Remove(o)
  BY <1>8, NamesApart
  DEF CallInv, Remove, At, Goes, There, Files, Over, Asked, TypeOK, Name, File, Content,
      Asking, FilePc, Writes, Places, Is
<1> QED BY <1>1, <1>2, <1>3, <1>4, <1>5, <1>6, <1>7, <1>8 DEF Acts

(* What is moved to a path is whole.                                        *)
LEMMA WholeKept ==
  ASSUME TypeOK, NoPartial, NEW o \in Op, CallInv(o), Acts(o)
  PROVE  NoPartial'
<1>1. CASE Stage(o)
  BY <1>1, NamesApart
  DEF CallInv, Stage, At, Is, There, Goes, Files, Over, Asked, TypeOK, Name, File,
      NoPartial, Asking, Temporary, SetAsideFile, FilePc
<1>2. CASE Fill(o)
  BY <1>2, NamesApart
  DEF CallInv, Fill, At, Goes, Is, Writes, AfterStage, Files, Over, Asked, TypeOK, Name,
      File, NoPartial, Asking, Temporary, SetAsideFile, FilePc, There
<1>3. CASE SetAside(o)
  BY <1>3, NamesApart
  DEF CallInv, SetAside, At, There, Goes, Files, Over, Asked, TypeOK, Name, File, NoPartial,
      Asking, Temporary, SetAsideFile, FilePc, Is
<1>4. CASE Commit(o)
  <2>1. CASE UNCHANGED fs /\ Moved(o, "undo")
    BY <1>4, <2>1, MovedFields, NamesApart DEF CallInv, Commit, At, Is, NoPartial, Temporary, There, TypeOK
  <2>2. ASSUME NEW from \in {op[o].path, Temp(o)},
               from = IF op[o].kind = "move" THEN op[o].path ELSE Temp(o), fs[from] # NoFile,
               fs' = [fs EXCEPT ![op[o].to] = fs[from], ![from] = NoFile]
        PROVE  /\ op[o].aside = NoFile /\ Ended(o, "ok") => NoPartial'
               /\ op[o].aside # NoFile /\ Moved(o, "discard") => NoPartial'
    <3>1. op[o].path \in Path /\ op[o].to \in Path
      BY <1>4 DEF CallInv, Commit, At, Asking, FilePc
    <3>2. from \in Name /\ from # Backup(o) /\ (from # Temp(o) => from \in Path)
      BY <2>2, <3>1, NamesApart
    <3>3. CASE op[o].aside = NoFile /\ Ended(o, "ok")
      BY <1>4, <2>2, <3>1, <3>2, <3>3, EndedFields, NamesApart
      DEF CallInv, Commit, At, Is, NoPartial, Temporary, There, TypeOK
    <3>4. CASE op[o].aside # NoFile /\ Moved(o, "discard")
      BY <1>4, <2>2, <3>1, <3>2, <3>4, MovedFields, NamesApart
      DEF CallInv, Commit, At, Is, NoPartial, Temporary, There, TypeOK
    <3> QED BY <3>3, <3>4
  <2> QED BY <1>4, <2>1, <2>2, CommitDoes
<1>5. CASE Discard(o)
  BY <1>5, NamesApart
  DEF CallInv, Discard, At, Files, TypeOK, Name, File, NoPartial, Asking, Temporary,
      SetAsideFile, FilePc, There, Is
<1>6. CASE Undo(o)
  BY <1>6, NamesApart
  DEF CallInv, Undo, At, Goes, Files, Over, Asked, TypeOK, Name, File, NoPartial, Asking,
      Temporary, SetAsideFile, FilePc, There, Is
<1>7. CASE PutBack(o)
  BY <1>7, NamesApart
  DEF CallInv, PutBack, At, Files, TypeOK, Name, File, NoPartial, Asking, Temporary,
      SetAsideFile, FilePc, There, Is
<1>8. CASE Remove(o)
  BY <1>8, NamesApart
  DEF CallInv, Remove, At, Goes, There, Files, Over, Asked, TypeOK, Name, File, NoPartial,
      Asking, Temporary, SetAsideFile, FilePc, Is
<1> QED BY <1>1, <1>2, <1>3, <1>4, <1>5, <1>6, <1>7, <1>8 DEF Acts

(* Calls stay calls.                                                        *)
LEMMA CallsTyped ==
  ASSUME TypeOK, NoPartial, NEW o \in Op, CallInv(o), Step(o)
  PROVE  op' \in [Op -> Call]
<1>1. CASE Begin(o)
  <2>1. PICK p \in Path, q \in Path : \E h \in Hashes(p), overwrite \in BOOLEAN :
           /\ \/ Is(o, Writes \cup {"delete"}) /\ q = p /\ ~overwrite
              \/ Is(o, Places) /\ q # p
           /\ Is(o, {"edit"}) => h # NoHash
           /\ op' = [op EXCEPT ![o].pc = IF Is(o, Writes) THEN "compare" ELSE "inspect",
                               ![o].path = p, ![o].to = q, ![o].expect = h,
                               ![o].overwrite = overwrite]
    BY <1>1 DEF Begin
  <2>2. PICK h \in Hashes(p), b \in BOOLEAN :
           op' = [op EXCEPT ![o].pc = IF Is(o, Writes) THEN "compare" ELSE "inspect",
                            ![o].path = p, ![o].to = q, ![o].expect = h,
                            ![o].overwrite = b]
    BY <2>1
  <2>3. h \in Content \cup {NoHash}
    BY NamesApart DEF Hashes, There, TypeOK, File
  <2>4. PICK pc \in Pc : op' = [op EXCEPT ![o] = [op[o] EXCEPT !.pc = pc, !.path = p, !.to = q,
                                                       !.expect = h, !.overwrite = b]]
    BY <2>2 DEF Pc
  <2>5. [op[o] EXCEPT !.pc = pc, !.path = p, !.to = q, !.expect = h, !.overwrite = b] \in Call
    BY <2>3, CallAsks, TypeCall
  <2> QED BY <1>1, <2>4, <2>5, TypeCall
<1>2. CASE Compare(o)
  BY <1>2, GoesTyped
  DEF Compare, At, Goes, Locals, Over, Asked, Files, Pc
<1>3. CASE Inspect(o)
  BY <1>3, GoesTyped
  DEF Inspect, At, Goes, Locals, Over, Asked, Files, Pc
<1>4. CASE Identify(o)
  <2>1. op[o].path \in Path
    BY <1>4 DEF CallInv, Asking, Identify, At, FilePc
  <2>2. There(op[o].path) => {fs[op[o].path].by} \in Seen
    BY <2>1, NamesApart DEF There, TypeOK, File, Seen
  <2>3. {} \in Seen
    BY DEF Seen
  <2> QED BY <1>4, <2>2, <2>3, CallSees, TypeCall DEF Identify, Pc, Over
<1>5. CASE Survey(o)
  <2>1. op[o].to \in Path
    BY <1>5 DEF CallInv, Asking, Survey, At, FilePc
  <2>2. There(op[o].to) => {fs[op[o].to].by} \in Seen
    BY <2>1, NamesApart DEF There, TypeOK, File, Seen
  <2>3. {} \in Seen
    BY DEF Seen
  <2> QED BY <1>5, <2>2, <2>3, CallSees, TypeCall DEF Survey, Pc, Over
<1>6. CASE Stage(o)
  BY <1>6, GoesTyped
  DEF Stage, At, Is, There, Goes, Files, Over, Asked, Pc
<1>7. CASE Fill(o)
  BY <1>7, GoesTyped
  DEF Fill, At, Goes, Is, Writes, AfterStage, Files, Over, Asked, Pc
<1>8. CASE Recheck(o)
  BY <1>8, GoesTyped
  DEF Recheck, At, Goes, Locals, Over, Asked, Files, Pc
<1>9. CASE SetAside(o)
  <2>1. op[o].to \in Path
    BY <1>9 DEF CallInv, Asking, SetAside, At, FilePc
  <2>2. fs[op[o].to] \in Slot
    BY <2>1, NamesApart DEF TypeOK, Slot
  <2>3. CASE There(op[o].to)
    <3>1. [op[o] EXCEPT !.pc = "commit", !.aside = fs[op[o].to]] \in Call
     BY <2>2, CallSlot, TypeCall DEF Pc
    <3> QED BY <1>9, <2>3, <3>1, TypeCall DEF SetAside
  <2>4. CASE ~There(op[o].to)
    BY <1>9, <2>4, GoesTyped DEF SetAside, Pc
  <2> QED BY <1>9, <2>3, <2>4
<1>10. CASE Commit(o)
  BY <1>10, GoesTyped
  DEF Commit, At, Is, There, Goes, Files, Over, Asked, Pc
<1>11. CASE Discard(o)
  BY <1>11, CallSlot, TypeCall DEF Discard, Pc, Over, Slot
<1>12. CASE Undo(o)
  BY <1>12, GoesTyped
  DEF Undo, At, Goes, Files, Over, Asked, Pc
<1>13. CASE Restore(o)
  BY <1>13, GoesTyped
  DEF Restore, At, Goes, There, Locals, Over, Asked, Files, Pc
<1>14. CASE PutBack(o)
  BY <1>14, CallSlot, TypeCall DEF PutBack, Pc, Over, Slot
<1>15. CASE Confirm(o)
  BY <1>15, GoesTyped
  DEF Confirm, At, Goes, There, Locals, Over, Asked, Files, Pc
<1>16. CASE Remove(o)
  BY <1>16, GoesTyped
  DEF Remove, At, Goes, There, Files, Over, Asked, Pc
<1>17. CASE BeginEmpty(o)
  <2>1. PICK s \in Scan : op' = [op EXCEPT ![o].pc = "lookup", ![o].to = s]
   BY <1>17 DEF BeginEmpty
  <2>2. [op[o] EXCEPT !.pc = "lookup", !.to = s] \in Call
   BY CallScan, TypeCall DEF Pc
  <2> QED BY <1>17, <2>1, <2>2, TypeCall
<1>18. CASE Lookup(o)
  <2>1. PICK pc \in {"resnap", "failed"}, s \in SUBSET Item :
          op' = [op EXCEPT ![o].pc = pc, ![o].seen = s]
    BY <1>18 DEF Lookup, TypeOK, CallInv, Asking, At
  <2>2. [op[o] EXCEPT !.pc = pc, !.seen = s] \in Call
   BY CallSees, TypeCall DEF Pc, Over, Seen
  <2> QED BY <1>18, <2>1, <2>2, TypeCall
<1>19. CASE Resnap(o)
  BY <1>19, GoesTyped
  DEF Resnap, At, Goes, InScope, RemoveScan, Over, Asked, Shelf, Pc
<1>20. CASE Clear(o)
  <2>1. PICK b \in BOOLEAN : op' = [op EXCEPT ![o].pc = "verify", ![o].hit = b]
   BY <1>20 DEF Clear
  <2>2. [op[o] EXCEPT !.pc = "verify", !.hit = b] \in Call
   BY CallHit, TypeCall DEF Pc
  <2> QED BY <1>20, <2>1, <2>2, TypeCall
<1>21. CASE Verify(o)
  BY <1>21, GoesTyped
  DEF Verify, At, Goes, InScope, Locals, Over, Asked, Shelf, Files, Pc
<1>22. CASE StepFails(o)
  <2>1. AfterFailure(o) \in Pc
   BY <1>22, TypeCall DEF AfterFailure, Pc, Over, StepFails
  <2>2. [op[o] EXCEPT !.pc = AfterFailure(o), !.hit = @ \/ Untended(o)] \in Call
   BY <2>1, CallHit, TypeCall
  <2> QED BY <1>22, <2>2, TypeCall DEF StepFails
<1>23. CASE WorkerDies(o)
  BY <1>23, CallHit, TypeCall DEF WorkerDies, Pc, Over
<1> QED BY <1>1, <1>2, <1>3, <1>4, <1>5, <1>6, <1>7, <1>8, <1>9, <1>10, <1>11, <1>12, <1>13,
      <1>14, <1>15, <1>16, <1>17, <1>18, <1>19, <1>20, <1>21, <1>22, <1>23 DEF Step

(* A call keeps its arguments until it is over.                             *)
LEMMA AskingKept ==
  ASSUME TypeOK, NoPartial, NEW o \in Op, CallInv(o), Step(o)
  PROVE  Asking(o)'
<1>1. CASE Begin(o)
  <2>1. PICK p \in Path, q \in Path : \E h \in Hashes(p), overwrite \in BOOLEAN :
          /\ \/ Is(o, Writes \cup {"delete"}) /\ q = p /\ ~overwrite
             \/ Is(o, Places) /\ q # p
          /\ Is(o, {"edit"}) => h # NoHash
          /\ op' = [op EXCEPT ![o].pc = IF Is(o, Writes) THEN "compare" ELSE "inspect",
                              ![o].path = p, ![o].to = q, ![o].expect = h,
                              ![o].overwrite = overwrite]
    BY <1>1 DEF Begin
  <2>2. \A h \in Hashes(p) : h = NoHash \/ h \in Content
    BY NamesApart DEF Hashes, There, TypeOK, File
  <2> QED
    BY <1>1, <2>1, <2>2
    DEF Begin, CallInv, Asking, At, Is, Hurt, FilePc, TypeOK, Writes, Places
<1>2. CASE Compare(o)
  BY <1>2, NamesApart
  DEF CallInv, Compare, At, Goes, Locals, Over, Asked, Files, TypeOK, Asking, FilePc, Hurt,
      There, Is, Writes, Places
<1>3. CASE Inspect(o)
  BY <1>3, NamesApart
  DEF CallInv, Inspect, At, Goes, Locals, Over, Asked, Files, TypeOK, Asking, FilePc, Hurt,
      There, Is, Writes, Places
<1>4. CASE Identify(o)
  BY <1>4, NamesApart
  DEF CallInv, Identify, At, There, Is, Locals, Files, TypeOK, Asking, FilePc, Hurt, Over,
      Writes, Places
<1>5. CASE Survey(o)
  BY <1>5, NamesApart
  DEF CallInv, Survey, At, There, Is, Locals, Files, TypeOK, Asking, FilePc, Hurt, Over,
      Writes, Places
<1>6. CASE Stage(o)
  <2>1. CASE Moved(o, "undo")
    BY <1>6, <2>1, MovedFields DEF CallInv, Asking, Stage, At, FilePc, Is, Hurt
  <2>2. CASE Moved(o, "fill")
    BY <1>6, <2>2, MovedFields DEF CallInv, Asking, Stage, At, FilePc, Is, Hurt
  <2> QED BY <1>6, <2>1, <2>2, StageDoes
<1>7. CASE Fill(o)
  BY <1>7, NamesApart
  DEF CallInv, Fill, At, Goes, Is, Writes, AfterStage, Files, Over, Asked, TypeOK, Asking,
      FilePc, Hurt, There, Places
<1>8. CASE Recheck(o)
  BY <1>8, NamesApart
  DEF CallInv, Recheck, At, Goes, Locals, Over, Asked, Files, TypeOK, Asking, FilePc, Hurt,
      There, Is, Writes, Places
<1>9. CASE SetAside(o)
  BY <1>9, NamesApart
  DEF CallInv, SetAside, At, There, Goes, Files, Over, Asked, TypeOK, Asking, FilePc, Hurt,
      Is, Writes, Places
<1>10. CASE Commit(o)
  <2>1. CASE UNCHANGED fs /\ Moved(o, "undo")
    BY <1>10, <2>1, MovedFields, NamesApart DEF CallInv, Commit, At, Is, Asking, FilePc, Hurt
  <2>2. ASSUME NEW from \in {op[o].path, Temp(o)},
               from = IF op[o].kind = "move" THEN op[o].path ELSE Temp(o), fs[from] # NoFile,
               fs' = [fs EXCEPT ![op[o].to] = fs[from], ![from] = NoFile]
        PROVE  /\ op[o].aside = NoFile /\ Ended(o, "ok") => Asking(o)'
               /\ op[o].aside # NoFile /\ Moved(o, "discard") => Asking(o)'
    <3>1. op[o].path \in Path /\ op[o].to \in Path
      BY <1>10 DEF CallInv, Commit, At, Asking, FilePc
    <3>2. from \in Name /\ from # Backup(o) /\ (from # Temp(o) => from \in Path)
      BY <2>2, <3>1, NamesApart
    <3>3. CASE op[o].aside = NoFile /\ Ended(o, "ok")
      BY <1>10, <2>2, <3>1, <3>2, <3>3, EndedFields, NamesApart
      DEF CallInv, Commit, At, Is, Asking, FilePc, Hurt
    <3>4. CASE op[o].aside # NoFile /\ Moved(o, "discard")
      BY <1>10, <2>2, <3>1, <3>2, <3>4, MovedFields, NamesApart
      DEF CallInv, Commit, At, Is, Asking, FilePc, Hurt
    <3> QED BY <3>3, <3>4
  <2> QED BY <1>10, <2>1, <2>2, CommitDoes
<1>11. CASE Discard(o)
  BY <1>11, NamesApart
  DEF CallInv, Discard, At, Files, TypeOK, Asking, FilePc, Hurt, There, Is, Over, Writes,
      Places
<1>12. CASE Undo(o)
  BY <1>12, NamesApart
  DEF CallInv, Undo, At, Goes, Files, Over, Asked, TypeOK, Asking, FilePc, Hurt, There, Is,
      Writes, Places
<1>13. CASE Restore(o)
  BY <1>13, NamesApart
  DEF CallInv, Restore, At, Goes, There, Locals, Over, Asked, Files, TypeOK, Asking, FilePc,
      Hurt, Is, Writes, Places
<1>14. CASE PutBack(o)
  BY <1>14, NamesApart
  DEF CallInv, PutBack, At, Files, TypeOK, Asking, FilePc, Hurt, There, Is, Over, Writes,
      Places
<1>15. CASE Confirm(o)
  BY <1>15, NamesApart
  DEF CallInv, Confirm, At, Goes, There, Locals, Over, Asked, Files, TypeOK, Asking, FilePc,
      Hurt, Is, Writes, Places
<1>16. CASE Remove(o)
  BY <1>16, NamesApart
  DEF CallInv, Remove, At, Goes, There, Files, Over, Asked, TypeOK, Asking, FilePc, Hurt,
      Is, Writes, Places
<1>17. CASE BeginEmpty(o)
  BY <1>17, NamesApart
  DEF CallInv, BeginEmpty, At, Is, Locals, Files, TypeOK, Asking, FilePc, Hurt, There, Over,
      Writes, Places
<1>18. CASE Lookup(o)
  BY <1>18, NamesApart
  DEF CallInv, Lookup, At, RemoveScan, TypeOK, Asking, FilePc, Hurt, There, Is, Over,
      Writes, Places
<1>19. CASE Resnap(o)
  <2>1. \/ Ended(o, "failed") \/ Moved(o, "verify") \/ Moved(o, "clear")
    BY <1>19 DEF Resnap, Goes, Over, Moved, Ended
  <2> QED
    BY <1>19, <2>1, EndedFields, MovedFields DEF Resnap, CallInv, Asking, FilePc, Hurt, At, Is
<1>20. CASE Clear(o)
  BY <1>20, NamesApart
  DEF CallInv, Clear, At, Shelf, TypeOK, Asking, FilePc, Hurt, There, Is, Over, Writes,
      Places
<1>21. CASE Verify(o)
  BY <1>21, NamesApart
  DEF CallInv, Verify, At, Goes, InScope, Locals, Over, Asked, Shelf, Files, TypeOK, Asking,
      FilePc, Hurt, There, Is, Writes, Places
<1>22. CASE StepFails(o)
  BY <1>22, NamesApart
  DEF CallInv, StepFails, AfterFailure, Untended, Is, Writes, TypeOK, Asking, FilePc, Hurt, There, At,
      Over, Places
<1>23. CASE WorkerDies(o)
  BY <1>23, NamesApart
  DEF CallInv, WorkerDies, Over, TypeOK, Asking, FilePc, Hurt, There, At, Is, Writes, Places
<1> QED BY <1>1, <1>2, <1>3, <1>4, <1>5, <1>6, <1>7, <1>8, <1>9, <1>10, <1>11, <1>12, <1>13,
      <1>14, <1>15, <1>16, <1>17, <1>18, <1>19, <1>20, <1>21, <1>22, <1>23 DEF Step

(* A call's temporary file goes with the call.                               *)
LEMMA TemporaryKept ==
  ASSUME TypeOK, NoPartial, NEW o \in Op, CallInv(o), Step(o)
  PROVE  Temporary(o)'
<1>1. CASE Begin(o)
  BY <1>1, NamesApart
  DEF CallInv, Begin, At, Is, Writes, Places, Locals, Files, TypeOK, Name, File, Asking,
      FilePc, Temporary, Unstaged, Hurt, Over, There
<1>2. CASE Compare(o)
  BY <1>2, NamesApart
  DEF CallInv, Compare, At, Goes, Locals, Over, Asked, Files, TypeOK, Name, File, Asking,
      FilePc, Temporary, Unstaged, Hurt, Writes, Places, There, Is
<1>3. CASE Inspect(o)
  BY <1>3, NamesApart
  DEF CallInv, Inspect, At, Goes, Locals, Over, Asked, Files, TypeOK, Name, File, Asking,
      FilePc, Temporary, Unstaged, Hurt, Writes, Places, There, Is
<1>4. CASE Identify(o)
  BY <1>4, NamesApart
  DEF CallInv, Identify, At, There, Is, Locals, Files, TypeOK, Name, File, Asking, FilePc,
      Temporary, Unstaged, Hurt, Over, Writes, Places
<1>5. CASE Survey(o)
  BY <1>5, NamesApart
  DEF CallInv, Survey, At, There, Is, Locals, Files, TypeOK, Name, File, Asking, FilePc,
      Temporary, Unstaged, Hurt, Over, Writes, Places
<1>6. CASE Stage(o)
  <2>1. CASE UNCHANGED fs /\ Moved(o, "undo")
    BY <1>6, <2>1, MovedFields
    DEF CallInv, Temporary, Asking, Stage, At, FilePc, There, Is, Unstaged
  <2>2. ASSUME NEW f \in File, fs' = [fs EXCEPT ![Temp(o)] = f], Moved(o, "fill")
        PROVE  Temporary(o)'
    BY <1>6, <2>2, MovedFields, NamesApart, NamesAssumption
    DEF CallInv, Temporary, Asking, Stage, At, FilePc, TypeOK, There, Is, Unstaged
  <2> QED BY <1>6, <2>1, <2>2, StageDoes
<1>7. CASE Fill(o)
  BY <1>7, NamesApart
  DEF CallInv, Fill, At, Goes, Is, Writes, AfterStage, Files, Over, Asked, TypeOK, Name,
      File, Asking, FilePc, Temporary, Unstaged, Hurt, Places, There
<1>8. CASE Recheck(o)
  BY <1>8, NamesApart
  DEF CallInv, Recheck, At, Goes, Locals, Over, Asked, Files, TypeOK, Name, File, Asking,
      FilePc, Temporary, Unstaged, Hurt, Writes, Places, There, Is
<1>9. CASE SetAside(o)
  <2>1. op[o].to \in Path
    BY <1>9 DEF SetAside, CallInv, Asking, FilePc, At
  <2>2. fs'[Temp(o)] = fs[Temp(o)]
    BY <1>9, <2>1, NamesApart DEF SetAside, TypeOK
  <2>3. op'[o].kind = op[o].kind /\ op'[o].hit = op[o].hit /\ op'[o].pc \in {"commit", "undo"}
    BY <1>9 DEF SetAside, TypeOK, Goes, Over
  <2> QED
    BY <1>9, <2>2, <2>3 DEF SetAside, CallInv, Temporary, There, Is, At, Unstaged
<1>10. CASE Commit(o)
  <2>1. CASE UNCHANGED fs /\ Moved(o, "undo")
    BY <1>10, <2>1, MovedFields, NamesApart DEF CallInv, Commit, At, Is, Temporary, There, Unstaged, TypeOK, Asking, FilePc
  <2>2. ASSUME NEW from \in {op[o].path, Temp(o)},
               from = IF op[o].kind = "move" THEN op[o].path ELSE Temp(o), fs[from] # NoFile,
               fs' = [fs EXCEPT ![op[o].to] = fs[from], ![from] = NoFile]
        PROVE  /\ op[o].aside = NoFile /\ Ended(o, "ok") => Temporary(o)'
               /\ op[o].aside # NoFile /\ Moved(o, "discard") => Temporary(o)'
    <3>1. op[o].path \in Path /\ op[o].to \in Path
      BY <1>10 DEF CallInv, Commit, At, Asking, FilePc
    <3>2. from \in Name /\ from # Backup(o) /\ (from # Temp(o) => from \in Path)
      BY <2>2, <3>1, NamesApart
    <3>3. CASE op[o].aside = NoFile /\ Ended(o, "ok")
      BY <1>10, <2>2, <3>1, <3>2, <3>3, EndedFields, NamesApart
      DEF CallInv, Commit, At, Is, Temporary, There, Unstaged, TypeOK, Asking, FilePc
    <3>4. CASE op[o].aside # NoFile /\ Moved(o, "discard")
      BY <1>10, <2>2, <3>1, <3>2, <3>4, MovedFields, NamesApart
      DEF CallInv, Commit, At, Is, Temporary, There, Unstaged, TypeOK, Asking, FilePc
    <3> QED BY <3>3, <3>4
  <2> QED BY <1>10, <2>1, <2>2, CommitDoes
<1>11. CASE Discard(o)
  BY <1>11, NamesApart
  DEF CallInv, Discard, At, Files, TypeOK, Name, File, Asking, FilePc, Temporary, Unstaged,
      Hurt, Over, Writes, Places, There, Is
<1>12. CASE Undo(o)
  BY <1>12, NamesApart
  DEF CallInv, Undo, At, Goes, Files, Over, Asked, TypeOK, Name, File, Asking, FilePc,
      Temporary, Unstaged, Hurt, Writes, Places, There, Is
<1>13. CASE Restore(o)
  BY <1>13, NamesApart
  DEF CallInv, Restore, At, Goes, There, Locals, Over, Asked, Files, TypeOK, Name, File,
      Asking, FilePc, Temporary, Unstaged, Hurt, Writes, Places, Is
<1>14. CASE PutBack(o)
  BY <1>14, NamesApart
  DEF CallInv, PutBack, At, Files, TypeOK, Name, File, Asking, FilePc, Temporary, Unstaged,
      Hurt, Over, Writes, Places, There, Is
<1>15. CASE Confirm(o)
  BY <1>15, NamesApart
  DEF CallInv, Confirm, At, Goes, There, Locals, Over, Asked, Files, TypeOK, Name, File,
      Asking, FilePc, Temporary, Unstaged, Hurt, Writes, Places, Is
<1>16. CASE Remove(o)
  BY <1>16, NamesApart
  DEF CallInv, Remove, At, Goes, There, Files, Over, Asked, TypeOK, Name, File, Asking,
      FilePc, Temporary, Unstaged, Hurt, Writes, Places, Is
<1>17. CASE BeginEmpty(o)
  BY <1>17, NamesApart
  DEF CallInv, BeginEmpty, At, Is, Locals, Files, TypeOK, Name, File, Asking, FilePc,
      Temporary, Unstaged, Hurt, Over, Writes, Places, There
<1>18. CASE Lookup(o)
  BY <1>18, NamesApart
  DEF CallInv, Lookup, At, RemoveScan, TypeOK, Name, File, Asking, FilePc, Temporary,
      Unstaged, Hurt, Over, Writes, Places, There, Is
<1>19. CASE Resnap(o)
  BY <1>19, NamesApart
  DEF CallInv, Resnap, At, Goes, InScope, RemoveScan, Over, Asked, Shelf, TypeOK, Name,
      File, Asking, FilePc, Temporary, Unstaged, Hurt, Writes, Places, There, Is
<1>20. CASE Clear(o)
  BY <1>20, NamesApart
  DEF CallInv, Clear, At, Shelf, TypeOK, Name, File, Asking, FilePc, Temporary, Unstaged,
      Hurt, Over, Writes, Places, There, Is
<1>21. CASE Verify(o)
  BY <1>21, NamesApart
  DEF CallInv, Verify, At, Goes, InScope, Locals, Over, Asked, Shelf, Files, TypeOK, Name,
      File, Asking, FilePc, Temporary, Unstaged, Hurt, Writes, Places, There, Is
<1>22. CASE StepFails(o)
  BY <1>22, NamesApart
  DEF CallInv, StepFails, AfterFailure, Untended, Is, Writes, TypeOK, Name, File, Asking, FilePc,
      Temporary, Unstaged, Hurt, Over, Places, There, At
<1>23. CASE WorkerDies(o)
  BY <1>23, NamesApart
  DEF CallInv, WorkerDies, Over, TypeOK, Name, File, Asking, FilePc, Temporary, Unstaged,
      Hurt, Writes, Places, There, At, Is
<1> QED BY <1>1, <1>2, <1>3, <1>4, <1>5, <1>6, <1>7, <1>8, <1>9, <1>10, <1>11, <1>12, <1>13,
      <1>14, <1>15, <1>16, <1>17, <1>18, <1>19, <1>20, <1>21, <1>22, <1>23 DEF Step

(* What was set aside stays there until it is put back or dropped.          *)
LEMMA SetAsideKept ==
  ASSUME TypeOK, NoPartial, NEW o \in Op, CallInv(o), Step(o)
  PROVE  SetAsideFile(o)'
<1>1. CASE Begin(o)
  BY <1>1, NamesApart
  DEF CallInv, Begin, At, Is, Writes, Places, Locals, Files, TypeOK, Name, File, NoPartial,
      Asking, FilePc, SetAsideFile, HasAside, Hurt, Over, There
<1>2. CASE Compare(o)
  BY <1>2, NamesApart
  DEF CallInv, Compare, At, Goes, Locals, Over, Asked, Files, TypeOK, Name, File, NoPartial,
      Asking, FilePc, SetAsideFile, HasAside, Hurt, Writes, Places, There, Is
<1>3. CASE Inspect(o)
  BY <1>3, NamesApart
  DEF CallInv, Inspect, At, Goes, Locals, Over, Asked, Files, TypeOK, Name, File, NoPartial,
      Asking, FilePc, SetAsideFile, HasAside, Hurt, Writes, Places, There, Is
<1>4. CASE Identify(o)
  BY <1>4, NamesApart
  DEF CallInv, Identify, At, There, Is, Locals, Files, TypeOK, Name, File, NoPartial,
      Asking, FilePc, SetAsideFile, HasAside, Hurt, Over, Writes, Places
<1>5. CASE Survey(o)
  BY <1>5, NamesApart
  DEF CallInv, Survey, At, There, Is, Locals, Files, TypeOK, Name, File, NoPartial, Asking,
      FilePc, SetAsideFile, HasAside, Hurt, Over, Writes, Places
<1>6. CASE Stage(o)
  BY <1>6, NamesApart
  DEF CallInv, Stage, At, Is, There, Goes, Files, Over, Asked, TypeOK, Name, File,
      NoPartial, Asking, FilePc, SetAsideFile, HasAside, Hurt, Writes, Places
<1>7. CASE Fill(o)
  BY <1>7, NamesApart
  DEF CallInv, Fill, At, Goes, Is, Writes, AfterStage, Files, Over, Asked, TypeOK, Name,
      File, NoPartial, Asking, FilePc, SetAsideFile, HasAside, Hurt, Places, There
<1>8. CASE Recheck(o)
  BY <1>8, NamesApart
  DEF CallInv, Recheck, At, Goes, Locals, Over, Asked, Files, TypeOK, Name, File, NoPartial,
      Asking, FilePc, SetAsideFile, HasAside, Hurt, Writes, Places, There, Is
<1>9. CASE SetAside(o)
  BY <1>9, NamesApart
  DEF CallInv, SetAside, At, There, Goes, Files, Over, Asked, TypeOK, Name, File, NoPartial,
      Asking, FilePc, SetAsideFile, HasAside, Hurt, Writes, Places, Is
<1>10. CASE Commit(o)
  <2>1. CASE UNCHANGED fs /\ Moved(o, "undo")
    BY <1>10, <2>1, MovedFields, NamesApart DEF CallInv, Commit, At, Is, SetAsideFile, There, HasAside, TypeOK
  <2>2. ASSUME NEW from \in {op[o].path, Temp(o)},
               from = IF op[o].kind = "move" THEN op[o].path ELSE Temp(o), fs[from] # NoFile,
               fs' = [fs EXCEPT ![op[o].to] = fs[from], ![from] = NoFile]
        PROVE  /\ op[o].aside = NoFile /\ Ended(o, "ok") => SetAsideFile(o)'
               /\ op[o].aside # NoFile /\ Moved(o, "discard") => SetAsideFile(o)'
    <3>1. op[o].path \in Path /\ op[o].to \in Path
      BY <1>10 DEF CallInv, Commit, At, Asking, FilePc
    <3>2. from \in Name /\ from # Backup(o) /\ (from # Temp(o) => from \in Path)
      BY <2>2, <3>1, NamesApart
    <3>3. CASE op[o].aside = NoFile /\ Ended(o, "ok")
      BY <1>10, <2>2, <3>1, <3>2, <3>3, EndedFields, NamesApart
      DEF CallInv, Commit, At, Is, SetAsideFile, There, HasAside, TypeOK
    <3>4. CASE op[o].aside # NoFile /\ Moved(o, "discard")
      BY <1>10, <2>2, <3>1, <3>2, <3>4, MovedFields, NamesApart
      DEF CallInv, Commit, At, Is, SetAsideFile, There, HasAside, TypeOK
    <3> QED BY <3>3, <3>4
  <2> QED BY <1>10, <2>1, <2>2, CommitDoes
<1>11. CASE Discard(o)
  BY <1>11, NamesApart
  DEF CallInv, Discard, At, Files, TypeOK, Name, File, NoPartial, Asking, FilePc,
      SetAsideFile, HasAside, Hurt, Over, Writes, Places, There, Is
<1>12. CASE Undo(o)
  BY <1>12, NamesApart
  DEF CallInv, Undo, At, Goes, Files, Over, Asked, TypeOK, Name, File, NoPartial, Asking,
      FilePc, SetAsideFile, HasAside, Hurt, Writes, Places, There, Is
<1>13. CASE Restore(o)
  BY <1>13, NamesApart
  DEF CallInv, Restore, At, Goes, There, Locals, Over, Asked, Files, TypeOK, Name, File,
      NoPartial, Asking, FilePc, SetAsideFile, HasAside, Hurt, Writes, Places, Is
<1>14. CASE PutBack(o)
  BY <1>14, NamesApart
  DEF CallInv, PutBack, At, Files, TypeOK, Name, File, NoPartial, Asking, FilePc,
      SetAsideFile, HasAside, Hurt, Over, Writes, Places, There, Is
<1>15. CASE Confirm(o)
  BY <1>15, NamesApart
  DEF CallInv, Confirm, At, Goes, There, Locals, Over, Asked, Files, TypeOK, Name, File,
      NoPartial, Asking, FilePc, SetAsideFile, HasAside, Hurt, Writes, Places, Is
<1>16. CASE Remove(o)
  BY <1>16, NamesApart
  DEF CallInv, Remove, At, Goes, There, Files, Over, Asked, TypeOK, Name, File, NoPartial,
      Asking, FilePc, SetAsideFile, HasAside, Hurt, Writes, Places, Is
<1>17. CASE BeginEmpty(o)
  BY <1>17, NamesApart
  DEF CallInv, BeginEmpty, At, Is, Locals, Files, TypeOK, Name, File, NoPartial, Asking,
      FilePc, SetAsideFile, HasAside, Hurt, Over, Writes, Places, There
<1>18. CASE Lookup(o)
  BY <1>18, NamesApart
  DEF CallInv, Lookup, At, RemoveScan, TypeOK, Name, File, NoPartial, Asking, FilePc,
      SetAsideFile, HasAside, Hurt, Over, Writes, Places, There, Is
<1>19. CASE Resnap(o)
  BY <1>19, NamesApart
  DEF CallInv, Resnap, At, Goes, InScope, RemoveScan, Over, Asked, Shelf, TypeOK, Name,
      File, NoPartial, Asking, FilePc, SetAsideFile, HasAside, Hurt, Writes, Places, There,
      Is
<1>20. CASE Clear(o)
  BY <1>20, NamesApart
  DEF CallInv, Clear, At, Shelf, TypeOK, Name, File, NoPartial, Asking, FilePc,
      SetAsideFile, HasAside, Hurt, Over, Writes, Places, There, Is
<1>21. CASE Verify(o)
  BY <1>21, NamesApart
  DEF CallInv, Verify, At, Goes, InScope, Locals, Over, Asked, Shelf, Files, TypeOK, Name,
      File, NoPartial, Asking, FilePc, SetAsideFile, HasAside, Hurt, Writes, Places, There,
      Is
<1>22. CASE StepFails(o)
  <2>1. /\ UNCHANGED fs
        /\ op' = [op EXCEPT ![o].pc = AfterFailure(o), ![o].hit = @ \/ Untended(o)]
        /\ AfterFailure(o) # op[o].pc
    BY <1>22 DEF StepFails
  <2>2. /\ op'[o].pc = AfterFailure(o) /\ op'[o].aside = op[o].aside
        /\ op'[o].hit = (op[o].hit \/ Untended(o))
    BY <2>1 DEF TypeOK
  <2>3. CASE op[o].pc \in {"undo", "putback"}
    <3>1. op'[o].pc = "failed" /\ op'[o].hit
      BY <2>2, <2>3 DEF AfterFailure, Untended
    <3> QED BY <2>1, <2>2, <2>3, <3>1 DEF CallInv, SetAsideFile, There, HasAside
  <2>4. CASE op[o].pc = "discard"
    <3>1. op'[o].pc = "ok" /\ op'[o].hit
      BY <2>2, <2>4 DEF AfterFailure, Untended
    <3> QED BY <2>1, <2>2, <2>4, <3>1 DEF CallInv, SetAsideFile, There, HasAside
  <2>5. CASE op[o].pc \in {"confirm", "remove"}
    <3>1. op'[o].pc = "failed" /\ op[o].aside = NoFile
      BY <2>2, <2>5 DEF AfterFailure, CallInv, SetAsideFile, HasAside
    <3> QED BY <2>1, <2>2, <2>5, <3>1 DEF CallInv, SetAsideFile, There, HasAside
  <2>6. CASE op[o].pc \in {"stage", "fill"} /\ Is(o, Writes)
    <3>1. op'[o].pc = "failed" /\ op[o].aside = NoFile
      BY <2>2, <2>6 DEF AfterFailure, CallInv, SetAsideFile, HasAside
    <3> QED BY <2>1, <2>2, <2>6, <3>1 DEF CallInv, SetAsideFile, There, HasAside
  <2>7. CASE /\ op[o].pc \in {"stage", "fill", "setaside", "commit"}
             /\ op[o].pc \in {"stage", "fill"} => ~Is(o, Writes)
    <3>1. op'[o].pc = "undo"
      BY <2>2, <2>7 DEF AfterFailure
    <3>2. ~Untended(o)
      BY <2>7 DEF Untended
    <3>3. op'[o].hit => op[o].hit
      BY <2>2, <3>2
    <3>4. op[o].hit => op'[o].hit
      BY <2>2
    <3> QED BY <2>1, <2>2, <2>7, <3>1, <3>3, <3>4 DEF CallInv, SetAsideFile, There, HasAside
  <2> QED BY <2>1, <2>3, <2>4, <2>5, <2>6, <2>7 DEF AfterFailure
<1>23. CASE WorkerDies(o)
  BY <1>23, NamesApart
  DEF CallInv, WorkerDies, Over, TypeOK, Name, File, NoPartial, Asking, FilePc,
      SetAsideFile, HasAside, Hurt, Writes, Places, There, At, Is
<1> QED BY <1>1, <1>2, <1>3, <1>4, <1>5, <1>6, <1>7, <1>8, <1>9, <1>10, <1>11, <1>12, <1>13,
      <1>14, <1>15, <1>16, <1>17, <1>18, <1>19, <1>20, <1>21, <1>22, <1>23 DEF Step

(* A step of one call leaves the others alone.                              *)
LEMMA OthersKept ==
  ASSUME TypeOK, NoPartial, NEW o \in Op, CallInv(o), Step(o)
  PROVE  OnlyOf(o)
<1>1. CASE Begin(o)
  BY <1>1, NamesApart
  DEF CallInv, Begin, At, Is, Writes, Places, Locals, Files, TypeOK, Name, Asking, FilePc,
      OnlyOf, There
<1>2. CASE Compare(o)
  BY <1>2, NamesApart
  DEF CallInv, Compare, At, Goes, Locals, Over, Asked, Files, TypeOK, Name, Asking, FilePc,
      OnlyOf, There, Is
<1>3. CASE Inspect(o)
  BY <1>3, NamesApart
  DEF CallInv, Inspect, At, Goes, Locals, Over, Asked, Files, TypeOK, Name, Asking, FilePc,
      OnlyOf, There, Is
<1>4. CASE Identify(o)
  BY <1>4, NamesApart
  DEF CallInv, Identify, At, There, Is, Locals, Files, TypeOK, Name, Asking, FilePc, OnlyOf
<1>5. CASE Survey(o)
  BY <1>5, NamesApart
  DEF CallInv, Survey, At, There, Is, Locals, Files, TypeOK, Name, Asking, FilePc, OnlyOf
<1>6. CASE Stage(o)
  BY <1>6, NamesApart
  DEF CallInv, Stage, At, Is, There, Goes, Files, Over, Asked, TypeOK, Name, Asking, FilePc,
      OnlyOf
<1>7. CASE Fill(o)
  BY <1>7, NamesApart
  DEF CallInv, Fill, At, Goes, Is, Writes, AfterStage, Files, Over, Asked, TypeOK, Name,
      Asking, FilePc, OnlyOf, There
<1>8. CASE Recheck(o)
  BY <1>8, NamesApart
  DEF CallInv, Recheck, At, Goes, Locals, Over, Asked, Files, TypeOK, Name, Asking, FilePc,
      OnlyOf, There, Is
<1>9. CASE SetAside(o)
  BY <1>9, NamesApart
  DEF CallInv, SetAside, At, There, Goes, Files, Over, Asked, TypeOK, Name, Asking, FilePc,
      OnlyOf, Is
<1>10. CASE Commit(o)
  <2>1. CASE UNCHANGED fs /\ Moved(o, "undo")
    BY <1>10, <2>1, MovedFields, NamesApart DEF CallInv, Commit, At, Is, OnlyOf, TypeOK
  <2>2. ASSUME NEW from \in {op[o].path, Temp(o)},
               from = IF op[o].kind = "move" THEN op[o].path ELSE Temp(o), fs[from] # NoFile,
               fs' = [fs EXCEPT ![op[o].to] = fs[from], ![from] = NoFile]
        PROVE  /\ op[o].aside = NoFile /\ Ended(o, "ok") => OnlyOf(o)
               /\ op[o].aside # NoFile /\ Moved(o, "discard") => OnlyOf(o)
    <3>1. op[o].path \in Path /\ op[o].to \in Path
      BY <1>10 DEF CallInv, Commit, At, Asking, FilePc
    <3>2. from \in Name /\ from # Backup(o) /\ (from # Temp(o) => from \in Path)
      BY <2>2, <3>1, NamesApart
    <3>3. CASE op[o].aside = NoFile /\ Ended(o, "ok")
      BY <1>10, <2>2, <3>1, <3>2, <3>3, EndedFields, NamesApart
      DEF CallInv, Commit, At, Is, OnlyOf, TypeOK
    <3>4. CASE op[o].aside # NoFile /\ Moved(o, "discard")
      BY <1>10, <2>2, <3>1, <3>2, <3>4, MovedFields, NamesApart
      DEF CallInv, Commit, At, Is, OnlyOf, TypeOK
    <3> QED BY <3>3, <3>4
  <2> QED BY <1>10, <2>1, <2>2, CommitDoes
<1>11. CASE Discard(o)
  BY <1>11, NamesApart
  DEF CallInv, Discard, At, Files, TypeOK, Name, Asking, FilePc, OnlyOf, There, Is
<1>12. CASE Undo(o)
  BY <1>12, NamesApart
  DEF CallInv, Undo, At, Goes, Files, Over, Asked, TypeOK, Name, Asking, FilePc, OnlyOf,
      There, Is
<1>13. CASE Restore(o)
  BY <1>13, NamesApart
  DEF CallInv, Restore, At, Goes, There, Locals, Over, Asked, Files, TypeOK, Name, Asking,
      FilePc, OnlyOf, Is
<1>14. CASE PutBack(o)
  BY <1>14, NamesApart
  DEF CallInv, PutBack, At, Files, TypeOK, Name, Asking, FilePc, OnlyOf, There, Is
<1>15. CASE Confirm(o)
  BY <1>15, NamesApart
  DEF CallInv, Confirm, At, Goes, There, Locals, Over, Asked, Files, TypeOK, Name, Asking,
      FilePc, OnlyOf, Is
<1>16. CASE Remove(o)
  BY <1>16, NamesApart
  DEF CallInv, Remove, At, Goes, There, Files, Over, Asked, TypeOK, Name, Asking, FilePc,
      OnlyOf, Is
<1>17. CASE BeginEmpty(o)
  BY <1>17, NamesApart
  DEF CallInv, BeginEmpty, At, Is, Locals, Files, TypeOK, Name, Asking, FilePc, OnlyOf,
      There
<1>18. CASE Lookup(o)
  BY <1>18, NamesApart
  DEF CallInv, Lookup, At, RemoveScan, TypeOK, Name, Asking, FilePc, OnlyOf, There, Is
<1>19. CASE Resnap(o)
  BY <1>19, NamesApart
  DEF CallInv, Resnap, At, Goes, InScope, RemoveScan, Over, Asked, Shelf, TypeOK, Name,
      Asking, FilePc, OnlyOf, There, Is
<1>20. CASE Clear(o)
  BY <1>20, NamesApart
  DEF CallInv, Clear, At, Shelf, TypeOK, Name, Asking, FilePc, OnlyOf, There, Is
<1>21. CASE Verify(o)
  BY <1>21, NamesApart
  DEF CallInv, Verify, At, Goes, InScope, Locals, Over, Asked, Shelf, Files, TypeOK, Name,
      Asking, FilePc, OnlyOf, There, Is
<1>22. CASE StepFails(o)
  BY <1>22, NamesApart
  DEF CallInv, StepFails, AfterFailure, Untended, Is, Writes, TypeOK, Name, Asking, FilePc, OnlyOf,
      There, At
<1>23. CASE WorkerDies(o)
  BY <1>23, NamesApart
  DEF CallInv, WorkerDies, Over, TypeOK, Name, Asking, FilePc, OnlyOf, There, At, Is
<1> QED BY <1>1, <1>2, <1>3, <1>4, <1>5, <1>6, <1>7, <1>8, <1>9, <1>10, <1>11, <1>12, <1>13,
      <1>14, <1>15, <1>16, <1>17, <1>18, <1>19, <1>20, <1>21, <1>22, <1>23 DEF Step

(* A call that fails after setting a file aside has put a file back.        *)
LEMMA RestoredStep ==
  ASSUME TypeOK, NoPartial, NEW o \in Op, CallInv(o), Step(o)
  PROVE  op[o].aside # NoFile /\ ~At(o, "failed") /\ op'[o].pc = "failed" /\ ~op'[o].hit
           => fs'[op[o].to] # NoFile
<1>1. CASE Begin(o)
  BY <1>1, NamesApart
  DEF CallInv, Begin, At, Is, Writes, Places, Locals, Files, TypeOK, Name, Asking, FilePc,
      SetAsideFile, HasAside, There
<1>2. CASE Compare(o)
  BY <1>2, NamesApart
  DEF CallInv, Compare, At, Goes, Locals, Over, Asked, Files, TypeOK, Name, Asking, FilePc,
      SetAsideFile, HasAside, There, Is
<1>3. CASE Inspect(o)
  BY <1>3, NamesApart
  DEF CallInv, Inspect, At, Goes, Locals, Over, Asked, Files, TypeOK, Name, Asking, FilePc,
      SetAsideFile, HasAside, There, Is
<1>4. CASE Identify(o)
  BY <1>4, NamesApart
  DEF CallInv, Identify, At, There, Is, Locals, Files, TypeOK, Name, Asking, FilePc,
      SetAsideFile, HasAside
<1>5. CASE Survey(o)
  BY <1>5, NamesApart
  DEF CallInv, Survey, At, There, Is, Locals, Files, TypeOK, Name, Asking, FilePc,
      SetAsideFile, HasAside
<1>6. CASE Stage(o)
  BY <1>6, NamesApart
  DEF CallInv, Stage, At, Is, There, Goes, Files, Over, Asked, TypeOK, Name, Asking, FilePc,
      SetAsideFile, HasAside
<1>7. CASE Fill(o)
  BY <1>7, NamesApart
  DEF CallInv, Fill, At, Goes, Is, Writes, AfterStage, Files, Over, Asked, TypeOK, Name,
      Asking, FilePc, SetAsideFile, HasAside, There
<1>8. CASE Recheck(o)
  BY <1>8, NamesApart
  DEF CallInv, Recheck, At, Goes, Locals, Over, Asked, Files, TypeOK, Name, Asking, FilePc,
      SetAsideFile, HasAside, There, Is
<1>9. CASE SetAside(o)
  BY <1>9, NamesApart
  DEF CallInv, SetAside, At, There, Goes, Files, Over, Asked, TypeOK, Name, Asking, FilePc,
      SetAsideFile, HasAside, Is
<1>10. CASE Commit(o)
  BY <1>10, NamesApart
  DEF CallInv, Commit, At, Is, There, Goes, Files, Over, Asked, TypeOK, Name, Asking,
      FilePc, SetAsideFile, HasAside
<1>11. CASE Discard(o)
  BY <1>11, NamesApart
  DEF CallInv, Discard, At, Files, TypeOK, Name, Asking, FilePc, SetAsideFile, HasAside,
      There, Is
<1>12. CASE Undo(o)
  BY <1>12, NamesApart
  DEF CallInv, Undo, At, Goes, Files, Over, Asked, TypeOK, Name, Asking, FilePc,
      SetAsideFile, HasAside, There, Is
<1>13. CASE Restore(o)
  BY <1>13, NamesApart
  DEF CallInv, Restore, At, Goes, There, Locals, Over, Asked, Files, TypeOK, Name, Asking,
      FilePc, SetAsideFile, HasAside, Is
<1>14. CASE PutBack(o)
  BY <1>14, NamesApart
  DEF CallInv, PutBack, At, Files, TypeOK, Name, Asking, FilePc, SetAsideFile, HasAside,
      There, Is
<1>15. CASE Confirm(o)
  BY <1>15, NamesApart
  DEF CallInv, Confirm, At, Goes, There, Locals, Over, Asked, Files, TypeOK, Name, Asking,
      FilePc, SetAsideFile, HasAside, Is
<1>16. CASE Remove(o)
  BY <1>16, NamesApart
  DEF CallInv, Remove, At, Goes, There, Files, Over, Asked, TypeOK, Name, Asking, FilePc,
      SetAsideFile, HasAside, Is
<1>17. CASE BeginEmpty(o)
  BY <1>17, NamesApart
  DEF CallInv, BeginEmpty, At, Is, Locals, Files, TypeOK, Name, Asking, FilePc,
      SetAsideFile, HasAside, There
<1>18. CASE Lookup(o)
  BY <1>18, NamesApart
  DEF CallInv, Lookup, At, RemoveScan, TypeOK, Name, Asking, FilePc, SetAsideFile, HasAside,
      There, Is
<1>19. CASE Resnap(o)
  BY <1>19, NamesApart
  DEF CallInv, Resnap, At, Goes, InScope, RemoveScan, Over, Asked, Shelf, TypeOK, Name,
      Asking, FilePc, SetAsideFile, HasAside, There, Is
<1>20. CASE Clear(o)
  BY <1>20, NamesApart
  DEF CallInv, Clear, At, Shelf, TypeOK, Name, Asking, FilePc, SetAsideFile, HasAside,
      There, Is
<1>21. CASE Verify(o)
  BY <1>21, NamesApart
  DEF CallInv, Verify, At, Goes, InScope, Locals, Over, Asked, Shelf, Files, TypeOK, Name,
      Asking, FilePc, SetAsideFile, HasAside, There, Is
<1>22. CASE StepFails(o)
  BY <1>22, NamesApart
  DEF CallInv, StepFails, AfterFailure, Untended, Is, Writes, TypeOK, Name, Asking, FilePc,
      SetAsideFile, HasAside, There, At
<1>23. CASE WorkerDies(o)
  BY <1>23, NamesApart
  DEF CallInv, WorkerDies, Over, TypeOK, Name, Asking, FilePc, SetAsideFile, HasAside,
      There, At, Is
<1> QED BY <1>1, <1>2, <1>3, <1>4, <1>5, <1>6, <1>7, <1>8, <1>9, <1>10, <1>11, <1>12, <1>13,
      <1>14, <1>15, <1>16, <1>17, <1>18, <1>19, <1>20, <1>21, <1>22, <1>23 DEF Step

(* The rest of the state keeps its types.                                   *)
LEMMA OthersTyped ==
  ASSUME TypeOK, NoPartial, NEW o \in Op, CallInv(o), Step(o)
  PROVE  RestTyped'
<1>1. CASE Begin(o)
  BY <1>1, BoundAssumption
  DEF Begin, At, Is, Writes, Places, Locals, Files, TypeOK, RestTyped, Receipts
<1>2. CASE Compare(o)
  BY <1>2, BoundAssumption
  DEF Compare, At, Goes, Locals, Over, Asked, Files, TypeOK, RestTyped, Receipts
<1>3. CASE Inspect(o)
  BY <1>3, BoundAssumption
  DEF Inspect, At, Goes, Locals, Over, Asked, Files, TypeOK, RestTyped, Receipts
<1>4. CASE Identify(o)
  BY <1>4, BoundAssumption
  DEF Identify, At, There, Is, Locals, Files, TypeOK, RestTyped, Receipts
<1>5. CASE Survey(o)
  BY <1>5, BoundAssumption
  DEF Survey, At, There, Is, Locals, Files, TypeOK, RestTyped, Receipts
<1>6. CASE Stage(o)
  BY <1>6, BoundAssumption
  DEF Stage, At, Is, There, Goes, Files, Over, Asked, TypeOK, RestTyped, Receipts
<1>7. CASE Fill(o)
  BY <1>7, BoundAssumption
  DEF Fill, At, Goes, Is, Writes, AfterStage, Files, Over, Asked, TypeOK, RestTyped,
      Receipts
<1>8. CASE Recheck(o)
  BY <1>8, BoundAssumption
  DEF Recheck, At, Goes, Locals, Over, Asked, Files, TypeOK, RestTyped, Receipts
<1>9. CASE SetAside(o)
  BY <1>9, BoundAssumption
  DEF SetAside, At, There, Goes, Files, Over, Asked, TypeOK, RestTyped, Receipts
<1>10. CASE Commit(o)
  BY <1>10, BoundAssumption
  DEF Commit, At, Is, There, Goes, Files, Over, Asked, TypeOK, RestTyped, Receipts
<1>11. CASE Discard(o)
  BY <1>11, BoundAssumption
  DEF Discard, At, Files, TypeOK, RestTyped, Receipts
<1>12. CASE Undo(o)
  BY <1>12, BoundAssumption
  DEF Undo, At, Goes, Files, Over, Asked, TypeOK, RestTyped, Receipts
<1>13. CASE Restore(o)
  BY <1>13, BoundAssumption
  DEF Restore, At, Goes, There, Locals, Over, Asked, Files, TypeOK, RestTyped, Receipts
<1>14. CASE PutBack(o)
  BY <1>14, BoundAssumption
  DEF PutBack, At, Files, TypeOK, RestTyped, Receipts
<1>15. CASE Confirm(o)
  BY <1>15, BoundAssumption
  DEF Confirm, At, Goes, There, Locals, Over, Asked, Files, TypeOK, RestTyped, Receipts
<1>16. CASE Remove(o)
  BY <1>16, BoundAssumption
  DEF Remove, At, Goes, There, Files, Over, Asked, TypeOK, RestTyped, Receipts
<1>17. CASE BeginEmpty(o)
  BY <1>17, BoundAssumption
  DEF BeginEmpty, At, Is, Locals, Files, TypeOK, RestTyped, Receipts
<1>18. CASE Lookup(o)
  <2>1. op[o].to \in Scan
    BY <1>18 DEF Lookup, CallInv, Asking, At
  <2>2. receipts' \in Receipts
    BY <1>18, <2>1, RemoveTyped DEF Lookup, TypeOK, Receipts
  <2> QED BY <1>18, <2>2 DEF Lookup, TypeOK, RestTyped
<1>19. CASE Resnap(o)
  <2>1. op[o].to \in Scan
    BY <1>19 DEF Resnap, CallInv, Asking, At
  <2>2. receipts' \in Receipts
    BY <1>19, <2>1, RemoveTyped DEF Resnap
  <2> QED BY <1>19, <2>2 DEF Resnap, TypeOK, RestTyped
<1>20. CASE Clear(o)
  BY <1>20, BoundAssumption
  DEF Clear, At, Shelf, TypeOK, RestTyped, Receipts
<1>21. CASE Verify(o)
  BY <1>21, BoundAssumption
  DEF Verify, At, Goes, InScope, Locals, Over, Asked, Shelf, Files, TypeOK, RestTyped,
      Receipts
<1>22. CASE StepFails(o)
  BY <1>22, BoundAssumption
  DEF StepFails, AfterFailure, Untended, Is, Writes, TypeOK, RestTyped, Receipts
<1>23. CASE WorkerDies(o)
  BY <1>23, BoundAssumption
  DEF WorkerDies, Over, TypeOK, RestTyped, Receipts
<1> QED BY <1>1, <1>2, <1>3, <1>4, <1>5, <1>6, <1>7, <1>8, <1>9, <1>10, <1>11, <1>12, <1>13,
      <1>14, <1>15, <1>16, <1>17, <1>18, <1>19, <1>20, <1>21, <1>22, <1>23 DEF Step

-----------------------------------------------------------------------------
(* The invariant.                                                           *)

(* What a step of a call makes of it, and what a step of anyone else.       *)
LEMMA StepKeeps ==
  ASSUME FilesInv, NEW o \in Op, Step(o), since' \in [Op -> BOOLEAN]
  PROVE  FilesInv'
<1>1. CallInv(o)
  BY DEF FilesInv
<1>2. fs' \in [Name -> File \cup {NoFile}] /\ NoPartial'
  <2>1. CASE Looks(o)
    BY <2>1, LooksOnly DEF FilesInv, TypeOK, NoPartial, There
  <2>2. CASE Acts(o)
    BY <1>1, <2>2, FilesTyped, WholeKept DEF FilesInv
  <2> QED BY <2>1, <2>2, StepLooksOrActs
<1>3. TypeOK'
  <2>1. op' \in [Op -> Call] /\ RestTyped'
    BY <1>1, CallsTyped, OthersTyped DEF FilesInv
  <2> QED BY <1>2, <2>1 DEF TypeOK, RestTyped, Receipts, Call, Pc, Seen, Slot
<1>4. CallInv(o)'
  BY <1>1, AskingKept, TemporaryKept, SetAsideKept DEF FilesInv, CallInv
<1>5. ASSUME NEW q \in Op \ {o} PROVE CallInv(q)'
  <2>1. op'[q] = op[q] /\ fs'[Temp(q)] = fs[Temp(q)] /\ fs'[Backup(q)] = fs[Backup(q)]
    BY <1>1, OthersKept DEF FilesInv, OnlyOf
  <2> QED
    BY <2>1 DEF FilesInv, CallInv, Asking, Temporary, SetAsideFile, There, At, Is
<1> QED BY <1>2, <1>3, <1>4, <1>5 DEF FilesInv

LEMMA CallsUntouched ==
  ASSUME FilesInv, UNCHANGED op,
         \A o \in Op : fs'[Temp(o)] = fs[Temp(o)] /\ fs'[Backup(o)] = fs[Backup(o)]
  PROVE  \A o \in Op : CallInv(o)'
  BY DEF FilesInv, CallInv, Asking, Temporary, SetAsideFile, There, At, Is

LEMMA UserKeeps ==
  ASSUME FilesInv, NEW u \in User, NEW p \in Path, UserWrites(u, p),
         since' \in [Op -> BOOLEAN]
  PROVE  FilesInv'
<1>1. p \in Name
  BY DEF Name
<1>2. PICK f \in File : f.whole /\ fs' = [fs EXCEPT ![p] = f]
  <2>1. CASE There(p)
    <3>1. fs[p] \in File /\ fs[p].whole
      BY <1>1, <2>1 DEF FilesInv, TypeOK, NoPartial, There
    <3>2. [fs[p] EXCEPT !.has = {u}] \in File /\ [fs[p] EXCEPT !.has = {u}].whole
      BY <3>1 DEF File, Content
    <3> QED BY <2>1, <3>2 DEF UserWrites
  <2>2. CASE ~There(p)
    <3>1. [by |-> u, has |-> {u}, whole |-> TRUE] \in File
      BY DEF File, Content
    <3> QED BY <2>2, <3>1 DEF UserWrites
  <2> QED BY <2>1, <2>2
<1>3. \A o \in Op : fs'[Temp(o)] = fs[Temp(o)] /\ fs'[Backup(o)] = fs[Backup(o)]
  BY <1>2, NamesApart DEF FilesInv, TypeOK
<1>4. fs' \in [Name -> File \cup {NoFile}] /\ NoPartial'
  BY <1>1, <1>2, NamesAssumption DEF FilesInv, TypeOK, NoPartial, There
<1>5. UNCHANGED <<op, bin, receipts, mishaps>> /\ spare' \subseteq User \cup Item
  BY DEF UserWrites, FilesInv, TypeOK
<1>6. TypeOK'
  BY <1>4, <1>5 DEF FilesInv, TypeOK
<1> QED BY <1>3, <1>4, <1>5, <1>6, CallsUntouched DEF FilesInv

LEMMA BinKeeps ==
  ASSUME FilesInv, since' \in [Op -> BOOLEAN],
         \/ \E s \in Scan : ScanBin(s) \/ ScanExpires(s)
         \/ \E i \in Item : UserRecycles(i)
  PROVE  FilesInv'
<1>1. UNCHANGED <<fs, op, mishaps>>
  BY DEF ScanBin, ScanExpires, UserRecycles
<1>2. bin' \subseteq Item /\ spare' \subseteq User \cup Item
  BY DEF ScanBin, ScanExpires, UserRecycles, FilesInv, TypeOK
<1>3. receipts' \in Receipts
  <2>1. CASE \E i \in Item : UserRecycles(i)
    BY <2>1 DEF UserRecycles, FilesInv, TypeOK, Receipts
  <2>2. ASSUME NEW s \in Scan, ScanBin(s) PROVE receipts' \in Receipts
    <3>1. [status |-> "kept", stale |-> FALSE, items |-> bin]
            \in [status : {"none", "kept", "removed"}, stale : BOOLEAN, items : SUBSET Item]
      BY DEF FilesInv, TypeOK
    <3> QED BY <2>2, <3>1 DEF ScanBin, FilesInv, TypeOK, Receipts
  <2>3. ASSUME NEW s \in Scan, ScanExpires(s) PROVE receipts' \in Receipts
    <3>1. CASE receipts[s].stale
      BY <2>3, <3>1, RemoveTyped DEF ScanExpires, FilesInv
    <3>2. CASE ~receipts[s].stale
      <4>1. [receipts[s] EXCEPT !.stale = TRUE]
              \in [status : {"none", "kept", "removed"}, stale : BOOLEAN, items : SUBSET Item]
        BY DEF FilesInv, TypeOK
      <4> QED BY <2>3, <3>2, <4>1 DEF ScanExpires, FilesInv, TypeOK, Receipts
    <3> QED BY <3>1, <3>2
  <2> QED BY <2>1, <2>2, <2>3
<1>4. TypeOK'
  BY <1>1, <1>2, <1>3 DEF FilesInv, TypeOK, Receipts
<1> QED BY <1>1, <1>4, CallsUntouched DEF FilesInv, NoPartial, There

LEMMA InitKeeps == Init => FilesInv
<1> SUFFICES ASSUME Init PROVE FilesInv
  OBVIOUS
<1>1. fs \in [Name -> File \cup {NoFile}] /\ NoPartial
      /\ \A o \in Op : ~There(Temp(o)) /\ ~There(Backup(o))
  <2>1. CASE InitFiles
    <3>1. PICK present \in SUBSET Path :
            fs = [n \in Name |-> IF n \in present
                                 THEN [by |-> n, has |-> {n}, whole |-> TRUE] ELSE NoFile]
      BY <2>1 DEF InitFiles
    <3>2. \A n \in present : [by |-> n, has |-> {n}, whole |-> TRUE] \in File
      BY DEF File, Content
    <3>3. \A p \in Path : p \in Name
      BY DEF Name
    <3> QED BY <3>1, <3>2, <3>3, NamesApart DEF NoPartial, There
  <2>2. CASE InitBin
    BY <2>2, NamesApart DEF InitBin, NoPartial, There, Name
  <2> QED BY <2>1, <2>2 DEF Init
<1>2. PICK kind \in [Op -> Writes \cup Places \cup {"delete", "empty"}] :
        op = [o \in Op |-> Asked(kind[o])]
  <2>1. CASE InitFiles
    BY <2>1 DEF InitFiles
  <2>2. CASE InitBin
    <3>1. [o \in Op |-> "empty"] \in [Op -> Writes \cup Places \cup {"delete", "empty"}]
      OBVIOUS
    <3> QED BY <2>2, <3>1 DEF InitBin
  <2> QED BY <2>1, <2>2 DEF Init
<1>3. op \in [Op -> Call]
  <2>1. \A k \in Writes \cup Places \cup {"delete", "empty"} : Asked(k) \in Call
    BY DEF Asked, Call, Pc, Over, Seen, Slot
  <2> QED BY <1>2, <2>1
<1>4. RestTyped /\ since \in [Op -> BOOLEAN]
  <2>1. receipts \in Receipts
    <3>1. \A x \in {"none", "removed"} :
            [status |-> x, stale |-> FALSE, items |-> {}]
              \in [status : {"none", "kept", "removed"}, stale : BOOLEAN, items : SUBSET Item]
      OBVIOUS
    <3> QED BY <3>1 DEF Init, InitFiles, InitBin, Receipts
  <2>2. bin \subseteq Item /\ spare \subseteq User \cup Item
    BY DEF Init, InitFiles, InitBin
  <2>3. mishaps \in 0 .. MaxMishaps /\ since \in [Op -> BOOLEAN]
    BY BoundAssumption DEF Init
  <2> QED BY <2>1, <2>2, <2>3 DEF RestTyped
<1>5. TypeOK
  BY <1>1, <1>3, <1>4 DEF TypeOK, RestTyped, Receipts, Call, Pc, Seen, Slot
<1>6. \A o \in Op : op[o].pc = "idle" /\ op[o].aside = NoFile /\ ~op[o].hit
  BY <1>2 DEF Asked
<1>7. \A o \in Op : CallInv(o)
  BY <1>1, <1>6 DEF CallInv, Asking, Temporary, SetAsideFile, FilePc, HasAside, Hurt, There, At
<1> QED BY <1>1, <1>5, <1>7 DEF FilesInv

LEMMA NextKeeps ==
  ASSUME FilesInv, Next
  PROVE  FilesInv'
<1>1. since' \in [Op -> BOOLEAN]
  BY DEF Next
<1>2. CASE \E o \in Op : Step(o)
  BY <1>1, <1>2, StepKeeps
<1>3. CASE \E u \in User, p \in Path : UserWrites(u, p)
  BY <1>1, <1>3, UserKeeps
<1>4. CASE \/ \E s \in Scan : ScanBin(s) \/ ScanExpires(s)
           \/ \E i \in Item : UserRecycles(i)
  BY <1>1, <1>4, BinKeeps
<1> QED BY <1>2, <1>3, <1>4 DEF Next

(* The invariant is one of every behaviour.                                 *)
THEOREM InvHolds == Spec => []FilesInv
<1>1. FilesInv /\ [Next]_vars => FilesInv'
  <2> SUFFICES ASSUME FilesInv, [Next]_vars PROVE FilesInv'
    OBVIOUS
  <2>1. CASE UNCHANGED vars
    BY <2>1 DEF vars, FilesInv, TypeOK, NoPartial, CallInv, Asking, Temporary, SetAsideFile,
        There, At, Is
  <2> QED BY <2>1, NextKeeps
<1> QED BY <1>1, InitKeeps, PTL DEF Spec

-----------------------------------------------------------------------------
(* What it shows.                                                           *)

(* Type correctness, for any calls, names, users, items and mishaps.        *)
THEOREM TypeCorrect == Spec => []TypeOK
<1>1. FilesInv => TypeOK
  BY DEF FilesInv
<1> QED BY <1>1, InvHolds, PTL

(* No path of a caller ever shows part of a file, whatever dies or fails.   *)
(* (filesystem.ts 341-358, 384-393, 535-542.)                               *)
THEOREM NeverPartial == Spec => []NoPartial
<1>1. FilesInv => NoPartial
  BY DEF FilesInv
<1> QED BY <1>1, InvHolds, PTL

(* A call that ends undisturbed leaves nothing hidden behind.               *)
(* (filesystem.ts 359-362, 394-397, 543-545, 554-558.)                      *)
THEOREM LeavesTidy == Spec => []TidyUp
<1>1. FilesInv => TidyUp
  BY DEF FilesInv, CallInv, Temporary, SetAsideFile, TidyUp, Unstaged, There, At
<1> QED BY <1>1, InvHolds, PTL

(* A copy or move that fails after it has set the destination aside leaves  *)
(* a file there, whichever of its operations failed, unless the clean-up or *)
(* the putting back fails as well or the Worker dies.                       *)
(* (filesystem.ts 534-545.)                                                 *)
THEOREM RestoresOnFailure == Spec => FailureRestores
<1> DEFINE Restores ==
       \A o \in Op :
         op[o].aside # NoFile /\ ~At(o, "failed") /\ op'[o].pc = "failed" /\ ~op'[o].hit
           => fs'[op[o].to] # NoFile
<1>1. FilesInv /\ [Next]_vars => [Restores]_vars
  <2> SUFFICES ASSUME FilesInv, Next PROVE Restores
    OBVIOUS
  <2> SUFFICES ASSUME NEW o \in Op, op[o].aside # NoFile, ~At(o, "failed"),
                      op'[o].pc = "failed", ~op'[o].hit
               PROVE  fs'[op[o].to] # NoFile
    OBVIOUS
  <2>1. CASE Step(o)
    BY <2>1, RestoredStep DEF FilesInv
  <2>2. ASSUME NEW q \in Op \ {o}, Step(q) PROVE FALSE
    <3>1. op'[o] = op[o]
      BY <2>2, OthersKept DEF FilesInv, OnlyOf
    <3> QED BY <3>1 DEF At
  <2>3. CASE \/ \E u \in User, p \in Path : UserWrites(u, p)
             \/ \E s \in Scan : ScanBin(s) \/ ScanExpires(s)
             \/ \E i \in Item : UserRecycles(i)
    <3>1. UNCHANGED op
      BY <2>3 DEF UserWrites, ScanBin, ScanExpires, UserRecycles
    <3> QED BY <3>1 DEF At
  <2> QED BY <2>1, <2>2, <2>3 DEF Next
<1> QED BY <1>1, InvHolds, PTL DEF Spec, FailureRestores

-----------------------------------------------------------------------------
(* Where each kind of call can be, and what its target is.                  *)
KindOfPlace(o) ==
  /\ op[o].pc \in FilePc /\ Is(o, Writes \cup {"delete"}) => op[o].to = op[o].path
  /\ op[o].pc \in {"inspect", "identify", "survey", "setaside"} => ~Is(o, Writes)
  /\ op[o].pc \in {"confirm", "remove"} => Is(o, {"delete"})
  /\ op[o].pc \in {"lookup", "resnap", "clear", "verify"} => Is(o, {"empty"})

(* What a call is about to destroy is what it has seen.                     *)
Fresh(o) ==
  /\ At(o, "commit") /\ Is(o, Writes) => Matches(o)
  /\ At(o, "remove") => op[o].seen = {fs[op[o].path].by}
  /\ At(o, "clear") => InScope(op[o].seen) = op[o].seen

LookInv == \A o \in Op : KindOfPlace(o) /\ (~since[o] => Fresh(o))

(* After its own step.                                                      *)
LEMMA LookTaken ==
  ASSUME TypeOK, NEW o \in Op, CallInv(o), KindOfPlace(o), Step(o)
  PROVE  KindOfPlace(o)' /\ Fresh(o)'
<1> DEFINE Looked == KindOfPlace(o)' /\ Fresh(o)'
<1>a. ASSUME op'[o].pc \in Over PROVE Looked
  BY <1>a DEF KindOfPlace, Fresh, At, Over, FilePc
<1>m. ASSUME NEW pc, Moved(o, pc), pc \in FilePc \ {"commit", "remove", "confirm"},
             op[o].pc \in FilePc,
             pc \in {"inspect", "identify", "survey", "setaside"} => ~Is(o, Writes)
      PROVE  Looked
  BY <1>m, MovedFields DEF KindOfPlace, Fresh, At, Is, FilePc
<1>c. ASSUME Moved(o, "commit"), op[o].pc \in FilePc, ~Is(o, Writes) PROVE Looked
  BY <1>c, MovedFields DEF KindOfPlace, Fresh, At, Is, FilePc
<1>1. CASE Begin(o)
  <2>1. PICK p \in Path, q \in Path : \E h \in Hashes(p), overwrite \in BOOLEAN :
          /\ \/ Is(o, Writes \cup {"delete"}) /\ q = p /\ ~overwrite
             \/ Is(o, Places) /\ q # p
          /\ Is(o, {"edit"}) => h # NoHash
          /\ op' = [op EXCEPT ![o].pc = IF Is(o, Writes) THEN "compare" ELSE "inspect",
                              ![o].path = p, ![o].to = q, ![o].expect = h,
                              ![o].overwrite = overwrite]
    BY <1>1 DEF Begin
  <2> QED BY <2>1 DEF KindOfPlace, Fresh, At, Is, FilePc, TypeOK, Writes, Places
<1>2. CASE Compare(o)
  <2>1. Moved(o, "stage") \/ Ended(o, "failed")
    BY <1>2 DEF Compare, Goes, Over, Moved, Ended
  <2> QED BY <1>2, <1>a, <1>m, <2>1, EndedFields DEF Compare, At, FilePc, Over
<1>3. CASE Inspect(o)
  <2>1. Moved(o, "identify") \/ Ended(o, "failed")
    BY <1>3 DEF Inspect, Goes, Over, Moved, Ended
  <2> QED BY <1>3, <1>a, <1>m, <2>1, EndedFields DEF Inspect, At, FilePc, Over, KindOfPlace
<1>4. CASE Identify(o)
  <2>1. /\ op'[o].kind = op[o].kind /\ op'[o].to = op[o].to /\ op'[o].path = op[o].path
        /\ op'[o].pc = IF ~There(op[o].path) THEN "failed"
                       ELSE IF Is(o, {"delete"}) THEN "confirm" ELSE "survey"
    BY <1>4 DEF Identify, TypeOK
  <2> QED BY <1>4, <2>1 DEF Identify, KindOfPlace, Fresh, At, Is, FilePc
<1>5. CASE Survey(o)
  <2>1. /\ op'[o].kind = op[o].kind /\ op'[o].to = op[o].to /\ op'[o].path = op[o].path
        /\ op'[o].pc \in {"failed", "stage", "setaside", "commit"}
    BY <1>5 DEF Survey, TypeOK
  <2> QED BY <1>5, <2>1 DEF Survey, KindOfPlace, Fresh, At, Is, FilePc
<1>6. CASE Stage(o)
  <2>1. Moved(o, "undo") \/ Moved(o, "fill")
    BY <1>6, StageDoes
  <2> QED BY <1>6, <1>m, <2>1 DEF Stage, At, FilePc
<1>7. CASE Fill(o)
  <2>1. \/ Is(o, Writes) /\ Moved(o, "recheck")
        \/ ~Is(o, Writes) /\ (Moved(o, "commit") \/ Moved(o, "setaside"))
    BY <1>7 DEF Fill, Goes, AfterStage, Over, Moved
  <2> QED BY <1>7, <1>m, <1>c, <2>1 DEF Fill, At, FilePc
<1>8. CASE Recheck(o)
  <2>1. Moved(o, "undo") \/ (Moved(o, "commit") /\ Matches(o))
    BY <1>8 DEF Recheck, Goes, Over, Moved
  <2>2. ASSUME Moved(o, "commit"), Matches(o) PROVE Looked
    <3>1. fs' = fs /\ At(o, "recheck")
      BY <1>8 DEF Recheck, Locals
    <3> QED BY <2>2, <3>1, MovedFields DEF KindOfPlace, Fresh, At, Is, FilePc, Matches, There
  <2> QED BY <1>8, <1>m, <2>1, <2>2 DEF Recheck, At, FilePc
<1>9. CASE SetAside(o)
  <2>1. Moved(o, "undo") \/ op' = [op EXCEPT ![o].pc = "commit", ![o].aside = fs[op[o].to]]
    BY <1>9 DEF SetAside, Goes, Over, Moved
  <2>2. ASSUME op' = [op EXCEPT ![o].pc = "commit", ![o].aside = fs[op[o].to]] PROVE Looked
    BY <1>9, <2>2 DEF SetAside, KindOfPlace, Fresh, At, Is, FilePc, TypeOK
  <2> QED BY <1>9, <1>m, <2>1, <2>2 DEF SetAside, At, FilePc
<1>10. CASE Commit(o)
  <2>1. Moved(o, "undo") \/ Ended(o, "ok") \/ Moved(o, "discard")
    BY <1>10 DEF Commit, Goes, Over, Moved, Ended
  <2> QED BY <1>10, <1>a, <1>m, <2>1, EndedFields DEF Commit, At, FilePc, Over
<1>11. CASE Discard(o) \/ PutBack(o)
  <2>1. op'[o].pc \in {"ok", "failed"}
    BY <1>11 DEF Discard, PutBack, TypeOK
  <2> QED BY <1>a, <2>1 DEF Over
<1>12. CASE Undo(o)
  <2>1. Moved(o, "restore") \/ Ended(o, "failed")
    BY <1>12 DEF Undo, Goes, Over, Moved, Ended
  <2> QED BY <1>12, <1>a, <1>m, <2>1, EndedFields DEF Undo, At, FilePc, Over
<1>13. CASE Restore(o)
  <2>1. Moved(o, "putback") \/ Ended(o, "failed")
    BY <1>13 DEF Restore, Goes, Over, Moved, Ended
  <2> QED BY <1>13, <1>a, <1>m, <2>1, EndedFields DEF Restore, At, FilePc, Over
<1>14. CASE Confirm(o)
  <2>1. Ended(o, "failed")
        \/ (Moved(o, "remove") /\ op[o].seen = {fs[op[o].path].by})
    BY <1>14 DEF Confirm, Goes, Over, Moved, Ended
  <2>2. ASSUME Moved(o, "remove"), op[o].seen = {fs[op[o].path].by} PROVE Looked
    <3>1. fs' = fs /\ At(o, "confirm")
      BY <1>14 DEF Confirm, Locals
    <3>2. op'[o].seen = op[o].seen
      BY <2>2 DEF Moved, TypeOK
    <3> QED BY <2>2, <3>1, <3>2, MovedFields DEF KindOfPlace, Fresh, At, Is, FilePc
  <2> QED BY <1>a, <2>1, <2>2, EndedFields DEF Over
<1>15. CASE Remove(o) \/ Verify(o)
  <2>1. Ended(o, "ok") \/ Ended(o, "failed")
    BY <1>15 DEF Remove, Verify, Goes, Over, Ended
  <2> QED BY <1>a, <2>1, EndedFields DEF Over
<1>16. CASE BeginEmpty(o)
  <2>1. op'[o].pc = "lookup" /\ op'[o].kind = op[o].kind /\ op[o].kind = "empty"
    BY <1>16 DEF BeginEmpty, TypeOK, Is
  <2> QED BY <2>1 DEF KindOfPlace, Fresh, At, Is, FilePc
<1>17. CASE Lookup(o)
  <2>1. op'[o].pc \in {"resnap", "failed"} /\ op'[o].kind = op[o].kind
    BY <1>17 DEF Lookup, TypeOK
  <2> QED BY <1>17, <2>1 DEF Lookup, KindOfPlace, Fresh, At, Is, FilePc
<1>18. CASE Resnap(o)
  <2>1. \/ Ended(o, "failed")
        \/ Moved(o, "verify")
        \/ Moved(o, "clear") /\ InScope(op[o].seen) = op[o].seen
    BY <1>18 DEF Resnap, Goes, Over, Moved, Ended
  <2>2. Is(o, {"empty"}) /\ UNCHANGED bin
    BY <1>18 DEF Resnap, KindOfPlace, At
  <2>3. ASSUME NEW pc, Moved(o, pc) PROVE op'[o].seen = op[o].seen
    BY <2>3 DEF Moved, TypeOK
  <2>4. ASSUME Moved(o, "verify") PROVE Looked
    BY <2>2, <2>4, MovedFields DEF KindOfPlace, Fresh, At, Is, FilePc
  <2>5. ASSUME Moved(o, "clear"), InScope(op[o].seen) = op[o].seen PROVE Looked
    <3>1. op'[o].seen = op[o].seen
      BY <2>3, <2>5
    <3> QED BY <2>2, <2>5, <3>1, MovedFields
            DEF KindOfPlace, Fresh, At, Is, FilePc, InScope, Shelf
  <2> QED BY <1>a, <2>1, <2>4, <2>5, EndedFields DEF Over
<1>19. CASE Clear(o)
  <2>1. op'[o].pc = "verify" /\ op'[o].kind = op[o].kind
    BY <1>19 DEF Clear, TypeOK
  <2> QED BY <1>19, <2>1 DEF Clear, KindOfPlace, Fresh, At, Is, FilePc
<1>20. CASE StepFails(o)
  <2>1. /\ op'[o].pc = AfterFailure(o) /\ op'[o].kind = op[o].kind
        /\ op'[o].path = op[o].path /\ op'[o].to = op[o].to
    BY <1>20 DEF StepFails, TypeOK
  <2>2. op'[o].pc \in {"ok", "failed"} \/ (op'[o].pc = "undo" /\ op[o].pc \in FilePc)
    BY <1>20, <2>1 DEF StepFails, AfterFailure, FilePc
  <2> QED BY <1>a, <2>1, <2>2 DEF KindOfPlace, Fresh, At, Is, FilePc, Over
<1>21. CASE WorkerDies(o)
  <2>1. op'[o].pc = "dead"
    BY <1>21 DEF WorkerDies, TypeOK
  <2> QED BY <1>a, <2>1 DEF Over
<1> QED BY <1>1, <1>2, <1>3, <1>4, <1>5, <1>6, <1>7, <1>8, <1>9, <1>10, <1>11, <1>12, <1>13,
      <1>14, <1>15, <1>16, <1>17, <1>18, <1>19, <1>20, <1>21 DEF Step

(* While it waits, unless what it looked at changes.                        *)
LEMMA LookStands ==
  ASSUME NEW o \in Op, KindOfPlace(o), Fresh(o), op'[o] = op[o], ~Changed(o)
  PROVE  Fresh(o)'
<1>1. CASE At(o, "clear")
  <2>1. bin' = bin
    BY <1>1 DEF Changed, KindOfPlace, At, Over
  <2> QED BY <1>1, <2>1 DEF Fresh, At, InScope, Shelf
<1>2. CASE At(o, "remove") \/ (At(o, "commit") /\ Is(o, Writes))
  <2>1. fs'[op[o].path] = fs[op[o].path]
    BY <1>2 DEF Changed, KindOfPlace, At, Is, Over, Writes, FilePc
  <2> QED BY <1>2, <2>1 DEF Fresh, At, Is, Matches, There
<1>3. CASE ~At(o, "clear") /\ ~At(o, "remove") /\ ~(At(o, "commit") /\ Is(o, Writes))
  BY <1>3 DEF Fresh, At, Is
<1> QED BY <1>1, <1>2, <1>3

(* Only its own step changes a call.                                        *)
LEMMA OwnStep ==
  ASSUME FilesInv, Next, NEW q \in Op, op'[q] # op[q]
  PROVE  Step(q)
<1>1. ASSUME NEW o \in Op, Step(o), o # q PROVE FALSE
  BY <1>1, OthersKept DEF FilesInv, OnlyOf
<1>2. ASSUME \/ \E s \in Scan : ScanBin(s) \/ ScanExpires(s)
             \/ \E u \in User, p \in Path : UserWrites(u, p)
             \/ \E i \in Item : UserRecycles(i)
      PROVE  FALSE
  BY <1>2 DEF ScanBin, ScanExpires, UserWrites, UserRecycles
<1> QED BY <1>1, <1>2 DEF Next

LEMMA LookKept ==
  ASSUME FilesInv, LookInv, Next
  PROVE  LookInv'
<1>1. ASSUME NEW q \in Op PROVE KindOfPlace(q)' /\ (~since'[q] => Fresh(q)')
  <2>1. CASE op'[q] # op[q]
    BY <2>1, OwnStep, LookTaken DEF FilesInv, LookInv
  <2>2. CASE op'[q] = op[q]
    <3>1. ~since'[q] => ~since[q] /\ ~Changed(q)
      BY <2>2 DEF Next
    <3>2. KindOfPlace(q)'
      BY <2>2 DEF LookInv, KindOfPlace, Is
    <3> QED BY <2>2, <3>1, <3>2, LookStands DEF LookInv
  <2> QED BY <2>1, <2>2
<1> QED BY <1>1 DEF LookInv

(* What a call destroys is what it saw at its last look, or came after that *)
(* look, whatever other calls and programs do, fail or die.                 *)
(* (filesystem.ts 350-358, 390-393, 518-524; recycle-bin.ts 223-237.)       *)
THEOREM DestroysWhatItSaw == Spec => SeesWhatItDestroys
<1> DEFINE Sees ==
       \A o \in Op : ~since[o] =>
         /\ At(o, "commit") /\ Is(o, Writes) /\ op'[o].pc = "ok" => Matches(o)
         /\ At(o, "remove") /\ op'[o].pc = "ok" => op[o].seen = {fs[op[o].path].by}
         /\ At(o, "clear") /\ op'[o].pc = "verify" => bin \ bin' \subseteq op[o].seen
<1>1. Init => LookInv
  <2> SUFFICES ASSUME Init PROVE LookInv
    OBVIOUS
  <2>1. \A o \in Op : op[o].pc = "idle"
    BY DEF Init, InitFiles, InitBin, Asked
  <2> QED BY <2>1 DEF LookInv, KindOfPlace, Fresh, At, FilePc
<1>2. FilesInv /\ LookInv /\ [Next]_vars => LookInv'
  <2> SUFFICES ASSUME FilesInv, LookInv, [Next]_vars PROVE LookInv'
    OBVIOUS
  <2>1. CASE UNCHANGED vars
    BY <2>1 DEF vars, LookInv, KindOfPlace, Fresh, At, Is, Matches, There, InScope, Shelf
  <2> QED BY <2>1, LookKept
<1>3. FilesInv /\ LookInv /\ [Next]_vars => [Sees]_vars
  <2> SUFFICES ASSUME FilesInv, LookInv, Next, NEW o \in Op, ~since[o]
               PROVE  /\ At(o, "commit") /\ Is(o, Writes) /\ op'[o].pc = "ok" => Matches(o)
                      /\ At(o, "remove") /\ op'[o].pc = "ok" =>
                           op[o].seen = {fs[op[o].path].by}
                      /\ At(o, "clear") /\ op'[o].pc = "verify" =>
                           bin \ bin' \subseteq op[o].seen
    OBVIOUS
  <2>1. KindOfPlace(o) /\ Fresh(o) /\ TypeOK
    BY DEF LookInv, FilesInv
  <2>2. ASSUME At(o, "clear"), op'[o].pc = "verify" PROVE bin \ bin' \subseteq op[o].seen
    <3>1. Step(o)
      BY <2>2, OwnStep DEF At
    <3>2. Clear(o)
      <4>1. ~Begin(o) /\ ~Resnap(o)
        BY <2>2 DEF At, Begin, Resnap
      <4>2. ~StepFails(o)
        BY <2>2 DEF At, StepFails, AfterFailure
      <4>3. ~WorkerDies(o)
        BY <2>1, <2>2 DEF WorkerDies, TypeOK
      <4> QED BY <2>2, <3>1, <4>1, <4>2, <4>3
              DEF At, Step, Compare, Inspect, Identify, Survey, Stage, Fill, Recheck,
                  SetAside, Commit, Discard, Undo, Restore, PutBack, Confirm, Remove,
                  BeginEmpty, Lookup, Verify
    <3>3. bin \ bin' \subseteq InScope(op[o].seen)
      BY <3>2 DEF Clear, InScope
    <3> QED BY <2>1, <2>2, <3>3 DEF Fresh
  <2> QED BY <2>1, <2>2 DEF Fresh
<1>4. Spec => [][Sees]_vars
  BY <1>1, <1>2, <1>3, InvHolds, PTL DEF Spec
<1> QED BY <1>4 DEF SeesWhatItDestroys
=============================================================================
