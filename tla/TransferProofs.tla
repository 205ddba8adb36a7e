--------------------------- MODULE TransferProofs ---------------------------
(***************************************************************************)
(* Proofs about TransferCommit and TransferPull.                           *)
(*                                                                         *)
(* Pushes, for any number of transfers, recoveries, chunks and mishaps,    *)
(* where the owner's probe can be trusted: a Worker does not end between a *)
(* recovery's reading of its row and the probe, no probe fails, and no     *)
(* commit starts after the Mac has given it up. A step of one transfer's   *)
(* handler touches that transfer only (and the destination, which the      *)
(* first invariant does not speak of); a recovery's step touches its own   *)
(* locals and takes things away. So the invariant is one of each transfer, *)
(* and one of each recovery with each transfer. The destination comes      *)
(* after that: what is put there is whole, for any number of pushes, and   *)
(* one push replaces it atomically.                                        *)
(*                                                                         *)
(* Pulls, for any number of them, of parts, changes of the source and      *)
(* setbacks. The source is read twice: between the two readings there is a *)
(* version of it that agrees with both as far as they agree with each      *)
(* other. And the destination is empty only where some pull's backup is    *)
(* on its way back, or has been left in its place.                         *)
(***************************************************************************)
EXTENDS TransferCommit, TransferPull, TLAPS

Trusted == Faults \cap {"late", "ended", "probe"} = {}

EarlyPc == {"verify", "mkdir", "note", "extract", "survey", "record", "backup", "check"}
PlacedPc == {"place", "placed", "cleanup", "archive", "done"}

(* A commit that runs owns its row, which stays; the process that owns it  *)
(* is alive.                                                               *)
Owned(t) ==
    /\ Working(t) => owner[t] = "alive" /\ Present(t) /\ rows[t].owner
    /\ At(t, "queued") => owner[t] = "none" /\ push[t] = "committing"
    /\ owner[t] # "none" => /\ push[t] \in {"committing", "finishing"} \cup Over
                            /\ Working(t) \/ At(t, "none")
    /\ rows[t].owner \/ rows[t].phase \notin {"absent", "receiving"} => owner[t] # "none"

(* Where a commit may have something in its backup, its row says so.       *)
BackedUp(t) ==
    /\ owner[t] = "none" \/ task[t].pc \in EarlyPc \cup {"restored"} => backup[t] = Missing
    /\ task[t].pc \in PlacedPc /\ ~task[t].moved => backup[t] = Missing
    /\ At(t, "backup") => rows[t].backup
    /\ backup[t] # Missing => Present(t) /\ rows[t].backup

Counted(t) == task[t].pc \in {"chunk", "count"} => rows[t].transferred < Chunks

TransferInv(t) == Owned(t) /\ BackedUp(t) /\ Counted(t)

(* No commit of the transfer runs, or will.                                *)
Ended(t) == ~Working(t) /\ (push[t] \in Over \/ owner[t] # "none")

(* What a recovery has read of a transfer cannot mislead it: it will skip  *)
(* the transfer, or what it has read still tells where the backup is.      *)
Settled(r, t) == Ended(t) /\ (backup[t] # Missing => recover[r].seen[t].backup)
Passed(r, t) ==
    \/ recover[r].seen[t].owner /\ owner[t] = "alive"
    \/ ~recover[r].seen[t].owner /\ Fresh(r, t)
RecoverInv(r, t) ==
    /\ recover[r].pc # "idle" /\ recover[r].seen[t].phase # "absent" =>
          Settled(r, t) \/ Passed(r, t)
    /\ Recovering(r, t) =>
          /\ Settled(r, t)
          /\ \/ recover[r].pc = "act" /\ ~recover[r].backup
             \/ recover[r].pc \in {"clear", "drop"}
             => backup[t] = Missing

HasItem(r) == recover[r].pc \notin {"idle", "items"} => recover[r].item \in Transfer

TransfersInv == \A t \in Transfer : TransferInv(t)
RecoveriesInv == \A r \in Recoverer : HasItem(r) /\ \A t \in Transfer : RecoverInv(r, t)
CommitInv == TypeOK /\ TransfersInv /\ RecoveriesInv

-----------------------------------------------------------------------------
(* The steps of a transfer: each leaves the other transfers and the        *)
(* recoveries alone, keeps its own invariant, and does not start again     *)
(* what has ended.                                                         *)

TransferStep(t) ==
    \/ BeginPush(t) \/ UploadStep(t) \/ CallFails(t)
    \/ CommitStep(t) \/ Crash(t) \/ WorkerEnds(t) \/ ReservationExpires(t)

(* The types of what the helpers of the actions assign.                    *)
LEMMA PcTypes ==
  ASSUME NEW t \in Transfer
  PROVE  ErrorPc(t) \in TaskPc /\ InstalledPc(t) \in TaskPc
  BY DEF ErrorPc, InstalledPc, TaskPc, CommitPc

LEMMA GotoTypes ==
  ASSUME TypeOK, NEW t \in Transfer, NEW pc \in TaskPc, Goto(t, pc)
  PROVE  task' \in [Transfer -> Task]
  BY DEF TypeOK, Goto, Task

LEMMA AnswerTypes ==
  ASSUME TypeOK, NEW t \in Transfer, NEW outcome \in PushState, Answer(t, outcome)
  PROVE  task' \in [Transfer -> Task] /\ push' \in [Transfer -> PushState]
  BY DEF TypeOK, Answer, NoTask, Task, TaskPc

LEMMA NoteTypes ==
  ASSUME TypeOK, NEW t \in Transfer, NEW phase \in Phase, NEW staging \in BOOLEAN,
         NEW moved \in BOOLEAN, Note(t, phase, staging, moved)
  PROVE  rows' \in [Transfer -> Row]
<1> DEFINE row == [rows[t] EXCEPT !.phase = phase, !.staging = staging, !.backup = moved]
<1>1. row \in Row
  <2>1. rows[t] \in Row
    BY DEF TypeOK
  <2> QED BY <2>1 DEF Row
<1>2. rows' = rows \/ rows' = [rows EXCEPT ![t] = row]
  BY DEF Note, TypeOK
<1> HIDE DEF row
<1> QED BY <1>1, <1>2 DEF TypeOK

LEMMA RowUpdates ==
  ASSUME NEW row \in Row, NEW directory \in BOOLEAN, NEW overwrite \in BOOLEAN
  PROVE  /\ [row EXCEPT !.owner = TRUE] \in Row
         /\ [row EXCEPT !.owner = FALSE] \in Row
         /\ [row EXCEPT !.phase = "receiving", !.directory = directory,
                         !.overwrite = overwrite] \in Row
  BY DEF Row, Phase

LEMMA DisownTypes ==
  ASSUME TypeOK, NEW t \in Transfer
  PROVE  Disown(t) \in [Transfer -> Row]
<1>1. rows[t] \in Row
  BY DEF TypeOK
<1>2. [rows[t] EXCEPT !.owner = FALSE] \in Row
  BY <1>1, RowUpdates
<1>3. Disown(t) \in {rows, [rows EXCEPT ![t] = [rows[t] EXCEPT !.owner = FALSE]]}
  BY DEF Disown
<1> QED BY <1>2, <1>3 DEF TypeOK

LEMMA NoTypes == NoRow \in Row /\ NoTask \in Task
  BY TransferAssumption DEF NoRow, Row, Phase, NoTask, Task, TaskPc

LEMMA ContentTypes == Transfer \cup {Missing, Old, "partial", "corrupt"} = Content
  BY DEF Content, Whole

LEMMA TaskTypes ==
  /\ TaskPc = {"none", "open", "put", "chunk", "count", "queued", "verify", "mkdir", "note",
               "extract", "archive", "done", "discard", "close", "survey", "record", "backup",
               "backed", "check", "place", "placed", "cleanup", "rollback", "restore", "restored"}
  /\ PushState = {"idle", "begin", "ready", "chunk", "committing", "finishing", "ok", "failed"}
  /\ Phase = {"absent", "receiving", "extracting", "validated", "committing", "backed_up",
              "installed"}
  BY DEF TaskPc, CommitPc, InstallPc, PushState, Phase

LEMMA FlagTypes ==
  ASSUME NEW t \in Transfer, TypeOK
  PROVE  /\ task[t].existed \in BOOLEAN /\ task[t].moved \in BOOLEAN
         /\ task[t].directory \in BOOLEAN /\ task[t].overwrite \in BOOLEAN
         /\ rows[t].directory \in BOOLEAN /\ rows[t].overwrite \in BOOLEAN
  BY DEF TypeOK, Row, Task

LEMMA TaskUpdates ==
  ASSUME NEW k \in Task, NEW pc \in TaskPc, NEW b \in BOOLEAN
  PROVE  /\ [k EXCEPT !.pc = pc, !.moved = b] \in Task
         /\ [k EXCEPT !.existed = b, !.pc = pc] \in Task
  BY DEF Task

LEMMA MishapTypes == TypeOK /\ Mishap => mishaps' \in Nat
  BY TransferAssumption DEF TypeOK, Mishap

LEMMA TransferStepTypes ==
  ASSUME NEW t \in Transfer, TypeOK, TransferInv(t), TransferStep(t)
  PROVE  TypeOK'
<1> USE TaskTypes, ContentTypes DEF TypeOK
<1>1. CASE BeginPush(t)
  <2>1. task' \in [Transfer -> Task]
    <3> PICK directory, overwrite \in BOOLEAN :
          task' = [task EXCEPT ![t] = [NoTask EXCEPT !.pc = "open", !.directory = directory,
                                                     !.overwrite = overwrite]]
      BY <1>1 DEF BeginPush
    <3> [NoTask EXCEPT !.pc = "open", !.directory = directory, !.overwrite = overwrite] \in Task
      BY DEF NoTask, Task
    <3> QED OBVIOUS
  <2> QED BY <1>1, <2>1 DEF BeginPush, files
<1>2. CASE BeginOpen(t)
  BY <1>2, GotoTypes DEF BeginOpen, At
<1>3. CASE BeginPut(t)
  <2>1. rows' \in [Transfer -> Row]
    <3>1. [NoRow EXCEPT !.phase = "receiving", !.directory = task[t].directory,
                        !.overwrite = task[t].overwrite] \in Row
      BY FlagTypes, NoTypes, RowUpdates
    <3> QED BY <1>3, <3>1 DEF BeginPut
  <2> QED BY <1>3, <2>1, AnswerTypes DEF BeginPut, files
<1>4. CASE BeginFails(t)
  BY <1>4, AnswerTypes, MishapTypes, NoTypes DEF BeginFails, At, files, Pending
<1>5. CASE SendChunk(t)
  BY <1>5, GotoTypes DEF SendChunk, At, files
<1>6. CASE WriteChunk(t)
  BY <1>6, GotoTypes, AnswerTypes, NoTypes DEF WriteChunk, At, Pending, Received
<1>7. CASE CountChunk(t)
  <2>1. rows' \in [Transfer -> Row]
    <3>1. rows[t].transferred + 1 \in 0 .. Chunks
      BY <1>7, TransferAssumption DEF CountChunk, At, TransferInv, Counted, Row
    <3>2. [rows[t] EXCEPT !.transferred = @ + 1] \in Row
      BY <3>1 DEF Row
    <3>3. rows' = rows \/ rows' = [rows EXCEPT ![t] = [rows[t] EXCEPT !.transferred = @ + 1]]
      BY <1>7 DEF CountChunk
    <3> HIDE DEF TypeOK
    <3> QED BY <3>2, <3>3 DEF TypeOK
  <2> QED BY <1>7, <2>1, AnswerTypes DEF CountChunk, files
<1>8. CASE SendCommit(t)
  BY <1>8, GotoTypes DEF SendCommit, At, files
<1>9. CASE CallFails(t)
  BY <1>9, NoTypes DEF CallFails, At, files, Pending
<1>10. CASE CommitClaim(t)
  <2>1. rows' \in [Transfer -> Row]
    <3>1. [rows[t] EXCEPT !.owner = TRUE] \in Row
      BY RowUpdates
    <3>2. rows' = rows \/ rows' = [rows EXCEPT ![t] = [rows[t] EXCEPT !.owner = TRUE]]
      BY <1>10 DEF CommitClaim
    <3> QED BY <3>1, <3>2
  <2>2. task' \in [Transfer -> Task] /\ push' \in [Transfer -> PushState]
    <3>1. [NoTask EXCEPT !.pc = "verify", !.directory = rows[t].directory,
                         !.overwrite = rows[t].overwrite] \in Task
      BY FlagTypes DEF NoTask, Task
    <3> QED BY <1>10, <3>1, AnswerTypes DEF CommitClaim
  <2>3. owner' \in [Transfer -> {"none", "alive", "dead"}]
    BY <1>10 DEF CommitClaim
  <2> QED BY <1>10, <2>1, <2>2, <2>3 DEF CommitClaim, files
<1>11. CASE CommitVerify(t)
  BY <1>11, GotoTypes DEF CommitVerify, At, files, Verified
<1>12. CASE CommitMkdir(t)
  BY <1>12, GotoTypes, MishapTypes DEF CommitMkdir, At, Fails
<1>13. CASE CommitNote(t)
  BY <1>13, GotoTypes, NoteTypes, FlagTypes DEF CommitNote, At, files
<1>14. CASE CommitExtract(t)
  <2>1. rows' \in [Transfer -> Row]
    BY <1>14, NoteTypes DEF CommitExtract
  <2>2. task' \in [Transfer -> Task]
    BY <1>14, GotoTypes DEF CommitExtract, Fails
  <2>3. stage' \in [Transfer -> Content]
    BY <1>14 DEF CommitExtract
  <2> QED BY <1>14, <2>1, <2>2, <2>3, MishapTypes DEF CommitExtract, Fails
<1>15. CASE Survey(t)
  <2>1. task' \in [Transfer -> Task]
    <3> DEFINE exists == dest # Missing
               pc == IF exists /\ ~task[t].overwrite THEN ErrorPc(t) ELSE "record"
               surveyed == [task[t] EXCEPT !.existed = exists, !.pc = pc]
    <3>1. task[t] \in Task /\ exists \in BOOLEAN /\ pc \in TaskPc
      BY PcTypes
    <3>2. task' = [task EXCEPT ![t] = surveyed]
      BY <1>15, Zenon DEF Survey
    <3> HIDE DEF exists, pc
    <3>3. surveyed \in Task
      BY <3>1, TaskUpdates, ZenonT(40)
    <3> HIDE DEF surveyed
    <3> QED BY <3>2, <3>3
  <2> QED BY <1>15, <2>1 DEF Survey, files
<1>16. CASE Record(t)
  BY <1>16, GotoTypes, NoteTypes, PcTypes, MishapTypes, FlagTypes DEF Record, At, Fails, files
<1>17. CASE MoveAway(t)
  BY <1>17, GotoTypes, PcTypes, MishapTypes DEF MoveAway, At, Fails
<1>18. CASE MovedAway(t)
  <2>1. task' \in [Transfer -> Task]
    <3>0. task[t] \in Task /\ "place" \in TaskPc /\ TRUE \in BOOLEAN
      OBVIOUS
    <3>1. [task[t] EXCEPT !.pc = "place", !.moved = TRUE] \in Task
      BY <3>0, TaskUpdates, ZenonT(40)
    <3>2. task' = [task EXCEPT ![t] = [task[t] EXCEPT !.pc = "place", !.moved = TRUE]]
      BY <1>18 DEF MovedAway
    <3> QED BY <3>1, <3>2
  <2> QED BY <1>18, <2>1, NoteTypes DEF MovedAway, files
<1>19. CASE CheckAgain(t)
  BY <1>19, GotoTypes, PcTypes DEF CheckAgain, At, files
<1>20. CASE Place(t)
  BY <1>20, GotoTypes, MishapTypes DEF Place, At, Fails, Upload
<1>21. CASE Placed(t)
  <2>1. rows' \in [Transfer -> Row]
    BY <1>21, NoteTypes, FlagTypes DEF Placed
  <2>2. task' \in [Transfer -> Task]
    BY <1>21, GotoTypes, PcTypes DEF Placed
  <2> QED BY <1>21, <2>1, <2>2 DEF Placed, files
<1>22. CASE CleanUp(t)
  <2>1. task' \in [Transfer -> Task]
    <3> DEFINE over == [task[t] EXCEPT !.pc = InstalledPc(t), !.moved = FALSE]
    <3>0. task[t] \in Task /\ InstalledPc(t) \in TaskPc
      BY PcTypes
    <3>1. over \in Task
      BY <3>0, TaskUpdates, ZenonT(40)
    <3>2. task' = [task EXCEPT ![t] = over] \/ Goto(t, InstalledPc(t))
      BY <1>22 DEF CleanUp, Fails
    <3> HIDE DEF over
    <3>3. Goto(t, InstalledPc(t)) => task' \in [Transfer -> Task]
      BY PcTypes, GotoTypes
    <3> QED BY <3>1, <3>2, <3>3
  <2>2. rows' \in [Transfer -> Row]
    BY <1>22, NoteTypes DEF CleanUp
  <2>3. backup' \in [Transfer -> Content] /\ mishaps' \in Nat
    BY <1>22, MishapTypes DEF CleanUp, Fails
  <2> QED BY <1>22, <2>1, <2>2, <2>3 DEF CleanUp
<1>23. CASE RemoveArchive(t)
  BY <1>23, GotoTypes, MishapTypes DEF RemoveArchive, At, Fails
<1>24. CASE CommitDone(t)
  BY <1>24, AnswerTypes, DisownTypes, NoTypes DEF CommitDone, At, files, Pending
<1>25. CASE RollBack(t)
  BY <1>25, GotoTypes, PcTypes DEF RollBack, At, files
<1>26. CASE Restore(t)
  BY <1>26, GotoTypes, PcTypes, MishapTypes DEF Restore, At, Fails
<1>27. CASE Restored(t)
  BY <1>27, GotoTypes, NoteTypes, PcTypes, FlagTypes DEF Restored, At, files
<1>28. CASE CommitDiscard(t)
  BY <1>28, GotoTypes, MishapTypes DEF CommitDiscard, At, Fails
<1>29. CASE CommitClose(t)
  BY <1>29, AnswerTypes, DisownTypes, NoTypes DEF CommitClose, At, files, Pending
<1>30. CASE Crash(t)
  BY <1>30, MishapTypes, NoTypes DEF Crash, At, files, MayEnd
<1>31. CASE WorkerEnds(t)
  BY <1>31 DEF WorkerEnds, At, files, MayEnd
<1>32. CASE ReservationExpires(t)
  BY <1>32 DEF ReservationExpires, At, files, Over, Aged
<1> HIDE DEF TypeOK
<1> QED BY <1>1, <1>2, <1>3, <1>4, <1>5, <1>6, <1>7, <1>8, <1>9, <1>10, <1>11, <1>12, <1>13,
        <1>14, <1>15, <1>16, <1>17, <1>18, <1>19, <1>20, <1>21, <1>22, <1>23, <1>24, <1>25,
        <1>26, <1>27, <1>28, <1>29, <1>30, <1>31, <1>32
        DEF TransferStep, UploadStep, CommitStep

Alone(t) ==
    /\ recover' = recover
    /\ \A u \in Transfer \ {t} :
          /\ rows'[u] = rows[u] /\ push'[u] = push[u] /\ task'[u] = task[u]
          /\ owner'[u] = owner[u] /\ backup'[u] = backup[u]

LEMMA TransferStepAlone ==
  ASSUME NEW t \in Transfer, TypeOK, TransferStep(t)
  PROVE  Alone(t)
<1> USE DEF TypeOK, Alone
<1>1. CASE BeginPush(t)
  BY <1>1 DEF BeginPush, files, NoTask
<1>2. CASE BeginOpen(t)
  BY <1>2 DEF BeginOpen, At, Goto
<1>3. CASE BeginPut(t)
  BY <1>3 DEF BeginPut, At, Answer, files, Pending, NoRow, NoTask
<1>4. CASE BeginFails(t)
  BY <1>4 DEF BeginFails, At, Answer, Mishap, files, Pending, NoTask
<1>5. CASE SendChunk(t)
  BY <1>5 DEF SendChunk, At, Goto, files
<1>6. CASE WriteChunk(t)
  BY <1>6 DEF WriteChunk, At, Goto, Answer, Pending, Received, NoTask
<1>7. CASE CountChunk(t)
  BY <1>7 DEF CountChunk, At, Answer, files, Pending, NoTask
<1>8. CASE SendCommit(t)
  BY <1>8 DEF SendCommit, At, Goto, files
<1>9. CASE CallFails(t)
  BY <1>9 DEF CallFails, At, files, Pending, NoTask
<1>10. CASE CommitClaim(t)
  BY <1>10 DEF CommitClaim, At, Answer, files, Pending, NoTask
<1>11. CASE CommitVerify(t)
  BY <1>11 DEF CommitVerify, At, Goto, files, Verified
<1>12. CASE CommitMkdir(t)
  BY <1>12 DEF CommitMkdir, At, Goto, Fails, Mishap
<1>13. CASE CommitNote(t)
  BY <1>13 DEF CommitNote, At, Goto, files, Note
<1>14. CASE CommitExtract(t)
  BY <1>14 DEF CommitExtract, At, Goto, Fails, Mishap, Note, Verified
<1>15. CASE Survey(t)
  BY <1>15 DEF Survey, At, files, ErrorPc
<1>16. CASE Record(t)
  BY <1>16 DEF Record, At, Goto, Fails, Mishap, files, ErrorPc, Note
<1>17. CASE MoveAway(t)
  BY <1>17 DEF MoveAway, At, Goto, Fails, Mishap, ErrorPc
<1>18. CASE MovedAway(t)
  BY <1>18 DEF MovedAway, At, files, Note
<1>19. CASE CheckAgain(t)
  BY <1>19 DEF CheckAgain, At, Goto, files, ErrorPc
<1>20. CASE Place(t)
  BY <1>20 DEF Place, At, Goto, Fails, Mishap, Upload
<1>21. CASE Placed(t)
  BY <1>21 DEF Placed, At, Goto, files, InstalledPc, Note
<1>22. CASE CleanUp(t)
  BY <1>22 DEF CleanUp, At, Goto, Fails, Mishap, InstalledPc, Note
<1>23. CASE RemoveArchive(t)
  BY <1>23 DEF RemoveArchive, At, Goto, Fails, Mishap
<1>24. CASE CommitDone(t)
  BY <1>24 DEF CommitDone, At, Answer, files, Pending, Disown, NoRow, NoTask
<1>25. CASE RollBack(t)
  BY <1>25 DEF RollBack, At, Goto, files, ErrorPc
<1>26. CASE Restore(t)
  BY <1>26 DEF Restore, At, Goto, Fails, Mishap, ErrorPc
<1>27. CASE Restored(t)
  BY <1>27 DEF Restored, At, Goto, files, ErrorPc, Note
<1>28. CASE CommitDiscard(t)
  BY <1>28 DEF CommitDiscard, At, Goto, Fails, Mishap
<1>29. CASE CommitClose(t)
  BY <1>29 DEF CommitClose, At, Answer, files, Pending, Disown, NoTask
<1>30. CASE Crash(t)
  BY <1>30 DEF Crash, At, Mishap, files, NoTask, MayEnd
<1>31. CASE WorkerEnds(t)
  BY <1>31 DEF WorkerEnds, At, files, MayEnd
<1>32. CASE ReservationExpires(t)
  BY <1>32 DEF ReservationExpires, At, files, Over, Aged
<1> HIDE DEF TypeOK, Alone
<1> QED BY <1>1, <1>2, <1>3, <1>4, <1>5, <1>6, <1>7, <1>8, <1>9, <1>10, <1>11, <1>12, <1>13,
        <1>14, <1>15, <1>16, <1>17, <1>18, <1>19, <1>20, <1>21, <1>22, <1>23, <1>24, <1>25,
        <1>26, <1>27, <1>28, <1>29, <1>30, <1>31, <1>32
        DEF TransferStep, UploadStep, CommitStep

LEMMA TransferStepKeeps ==
  ASSUME NEW t \in Transfer, TypeOK, Trusted, TransferInv(t), TransferStep(t)
  PROVE  TransferInv(t)'
<1> USE TransferAssumption DEF TypeOK, Row, Phase, Task, TransferInv, Owned, BackedUp, Counted,
        EarlyPc, PlacedPc, Working, TaskPc, CommitPc, InstallPc, PushState, Over, Trusted, Fault,
        Missing, Present, At
<1>1. CASE BeginPush(t)
  BY <1>1 DEF BeginPush, files, NoTask
<1>2. CASE BeginOpen(t)
  BY <1>2 DEF BeginOpen, Goto
<1>3. CASE BeginPut(t)
  BY <1>3 DEF BeginPut, Answer, files, Pending, NoRow, NoTask
<1>4. CASE BeginFails(t)
  BY <1>4 DEF BeginFails, Answer, Mishap, files, Pending, NoTask
<1>5. CASE SendChunk(t)
  BY <1>5 DEF SendChunk, Goto, files
<1>6. CASE WriteChunk(t)
  BY <1>6 DEF WriteChunk, Goto, Answer, Pending, Received, NoTask
<1>7. CASE CountChunk(t)
  BY <1>7 DEF CountChunk, Answer, files, Pending, NoTask
<1>8. CASE SendCommit(t)
  BY <1>8 DEF SendCommit, Goto, files
<1>9. CASE CallFails(t)
  BY <1>9 DEF CallFails, files, Pending, NoTask
<1>10. CASE CommitClaim(t)
  <2>1. CASE Present(t) /\ ~rows[t].owner
    <3>0. task'[t].pc = "verify"
      <4>1. task'[t] = [NoTask EXCEPT !.pc = "verify", !.directory = rows[t].directory,
                                      !.overwrite = rows[t].overwrite]
        BY <1>10, <2>1 DEF CommitClaim
      <4> QED BY <4>1 DEF NoTask
    <3>1. /\ owner' = [owner EXCEPT ![t] = "alive"] /\ UNCHANGED <<push, backup>>
          /\ rows' = [rows EXCEPT ![t].owner = TRUE]
          /\ task[t].pc = "queued"
      BY <1>10, <2>1 DEF CommitClaim, files
    <3>2. /\ rows'[t].owner /\ rows'[t].phase = rows[t].phase /\ rows'[t].backup = rows[t].backup
          /\ owner'[t] = "alive" /\ push'[t] = "committing" /\ backup'[t] = Missing
      BY <2>1, <3>1
    <3> QED BY <2>1, <3>0, <3>1, <3>2
  <2>2. CASE ~(Present(t) /\ ~rows[t].owner)
    BY <1>10, <2>2 DEF CommitClaim, Answer, files, Pending, NoTask
  <2> QED BY <2>1, <2>2
<1>11. CASE CommitVerify(t)
  BY <1>11 DEF CommitVerify, Goto, files, Verified
<1>12. CASE CommitMkdir(t)
  BY <1>12 DEF CommitMkdir, Goto, Fails, Mishap
<1>13. CASE CommitNote(t)
  BY <1>13 DEF CommitNote, Goto, files, Note
<1>14. CASE CommitExtract(t)
  BY <1>14 DEF CommitExtract, Goto, Fails, Mishap, Note, Verified
<1>15. CASE Survey(t)
  BY <1>15 DEF Survey, files, ErrorPc
<1>16. CASE Record(t)
  BY <1>16 DEF Record, Goto, Fails, Mishap, files, ErrorPc, Note
<1>17. CASE MoveAway(t)
  BY <1>17 DEF MoveAway, Goto, Fails, Mishap, ErrorPc
<1>18. CASE MovedAway(t)
  BY <1>18 DEF MovedAway, files, Note
<1>19. CASE CheckAgain(t)
  BY <1>19 DEF CheckAgain, Goto, files, ErrorPc
<1>20. CASE Place(t)
  <2>1. UNCHANGED <<backup, rows, push, owner>> /\ task[t].pc = "place"
    BY <1>20 DEF Place
  <2>2. task'[t].pc \in {"placed", "rollback"} /\ task'[t].moved = task[t].moved
    BY <1>20 DEF Place, Goto, Fails
  <2> QED BY <2>1, <2>2
<1>21. CASE Placed(t)
  BY <1>21 DEF Placed, Goto, files, InstalledPc, Note
<1>22. CASE CleanUp(t)
  <2>1. task[t].pc = "cleanup" /\ Present(t) /\ UNCHANGED <<push, owner>>
    BY <1>22 DEF CleanUp
  <2>2. CASE /\ backup' = [backup EXCEPT ![t] = Missing]
             /\ Note(t, "installed", FALSE, FALSE)
             /\ task' = [task EXCEPT ![t].pc = InstalledPc(t), ![t].moved = FALSE]
    BY <2>1, <2>2 DEF Note, InstalledPc
  <2>3. CASE Fails(t, InstalledPc(t)) /\ UNCHANGED <<backup, rows>>
    <3>1. task'[t].pc \in {"archive", "done"} /\ task'[t].moved = task[t].moved
      BY <2>3 DEF Fails, Goto, InstalledPc
    <3> QED BY <2>1, <2>3, <3>1
  <2> QED BY <1>22, <2>2, <2>3 DEF CleanUp
<1>23. CASE RemoveArchive(t)
  BY <1>23 DEF RemoveArchive, Goto, Fails, Mishap
<1>24. CASE CommitDone(t)
  BY <1>24 DEF CommitDone, Answer, files, Pending, Disown, NoRow, NoTask
<1>25. CASE RollBack(t)
  BY <1>25 DEF RollBack, Goto, files, ErrorPc
<1>26. CASE Restore(t)
  BY <1>26 DEF Restore, Goto, Fails, Mishap, ErrorPc
<1>27. CASE Restored(t)
  BY <1>27 DEF Restored, Goto, files, ErrorPc, Note
<1>28. CASE CommitDiscard(t)
  BY <1>28 DEF CommitDiscard, Goto, Fails, Mishap
<1>29. CASE CommitClose(t)
  BY <1>29 DEF CommitClose, Answer, files, Pending, Disown, NoTask
<1>30. CASE Crash(t)
  BY <1>30 DEF Crash, Mishap, files, NoTask, MayEnd
<1>31. CASE WorkerEnds(t)
  BY <1>31 DEF WorkerEnds, files, MayEnd
<1>32. CASE ReservationExpires(t)
  BY <1>32 DEF ReservationExpires, files, Aged
<1> HIDE DEF TypeOK, Row, Phase, Task, TransferInv, Owned, BackedUp, Counted,
        EarlyPc, PlacedPc, Working, TaskPc, CommitPc, InstallPc, PushState, Over, Trusted, Fault,
        Missing, Present, At
<1> QED BY <1>1, <1>2, <1>3, <1>4, <1>5, <1>6, <1>7, <1>8, <1>9, <1>10, <1>11, <1>12, <1>13,
        <1>14, <1>15, <1>16, <1>17, <1>18, <1>19, <1>20, <1>21, <1>22, <1>23, <1>24, <1>25,
        <1>26, <1>27, <1>28, <1>29, <1>30, <1>31, <1>32
        DEF TransferStep, UploadStep, CommitStep

(* What has ended does not begin again, and an owner lives while it is      *)
(* probed.                                                                 *)
Stays(t) ==
    /\ Ended(t) => Ended(t)' /\ (backup'[t] # Missing => backup[t] # Missing)
    /\ owner[t] = "alive" /\ Probed(t) => owner'[t] = "alive"

LEMMA TransferStepStays ==
  ASSUME NEW t \in Transfer, TypeOK, Trusted, TransferInv(t), TransferStep(t)
  PROVE  Stays(t)
<1> USE DEF TypeOK, Row, Phase, PushState, Task, Stays, Ended, TransferInv, Owned, Working,
        CommitPc, InstallPc, Trusted, Present, At, Over
<1>1. CASE BeginPush(t)
  BY <1>1 DEF BeginPush, files, NoTask
<1>2. CASE BeginOpen(t)
  BY <1>2 DEF BeginOpen, Goto
<1>3. CASE BeginPut(t)
  BY <1>3 DEF BeginPut, Answer, files, Pending, NoRow, NoTask
<1>4. CASE BeginFails(t)
  BY <1>4 DEF BeginFails, Answer, Mishap, files, Pending, NoTask
<1>5. CASE SendChunk(t)
  BY <1>5 DEF SendChunk, Goto, files
<1>6. CASE WriteChunk(t)
  BY <1>6 DEF WriteChunk, Goto, Answer, Pending, Received, NoTask
<1>7. CASE CountChunk(t)
  BY <1>7 DEF CountChunk, Answer, files, Pending, NoTask
<1>8. CASE SendCommit(t)
  BY <1>8 DEF SendCommit, Goto, files
<1>9. CASE CallFails(t)
  BY <1>9 DEF CallFails, files, Pending, NoTask
<1>10. CASE CommitClaim(t)
  BY <1>10 DEF CommitClaim, Answer, files, Pending, NoTask
<1>11. CASE CommitVerify(t)
  BY <1>11 DEF CommitVerify, Goto, files, Verified
<1>12. CASE CommitMkdir(t)
  BY <1>12 DEF CommitMkdir, Goto, Fails, Mishap
<1>13. CASE CommitNote(t)
  BY <1>13 DEF CommitNote, Goto, files, Note
<1>14. CASE CommitExtract(t)
  BY <1>14 DEF CommitExtract, Goto, Fails, Mishap, Note, Verified
<1>15. CASE Survey(t)
  BY <1>15 DEF Survey, files, ErrorPc
<1>16. CASE Record(t)
  BY <1>16 DEF Record, Goto, Fails, Mishap, files, ErrorPc, Note
<1>17. CASE MoveAway(t)
  BY <1>17 DEF MoveAway, Goto, Fails, Mishap, ErrorPc
<1>18. CASE MovedAway(t)
  BY <1>18 DEF MovedAway, files, Note
<1>19. CASE CheckAgain(t)
  BY <1>19 DEF CheckAgain, Goto, files, ErrorPc
<1>20. CASE Place(t)
  BY <1>20 DEF Place, Goto, Fails, Mishap, Upload
<1>21. CASE Placed(t)
  BY <1>21 DEF Placed, Goto, files, InstalledPc, Note
<1>22. CASE CleanUp(t)
  BY <1>22 DEF CleanUp, Goto, Fails, Mishap, InstalledPc, Note
<1>23. CASE RemoveArchive(t)
  BY <1>23 DEF RemoveArchive, Goto, Fails, Mishap
<1>24. CASE CommitDone(t)
  BY <1>24 DEF CommitDone, Answer, files, Pending, Disown, NoRow, NoTask
<1>25. CASE RollBack(t)
  BY <1>25 DEF RollBack, Goto, files, ErrorPc
<1>26. CASE Restore(t)
  BY <1>26 DEF Restore, Goto, Fails, Mishap, ErrorPc
<1>27. CASE Restored(t)
  BY <1>27 DEF Restored, Goto, files, ErrorPc, Note
<1>28. CASE CommitDiscard(t)
  BY <1>28 DEF CommitDiscard, Goto, Fails, Mishap
<1>29. CASE CommitClose(t)
  BY <1>29 DEF CommitClose, Answer, files, Pending, Disown, NoTask
<1>30. CASE Crash(t)
  BY <1>30 DEF Crash, Mishap, files, NoTask, MayEnd
<1>31. CASE WorkerEnds(t)
  BY <1>31 DEF WorkerEnds, files, MayEnd
<1>32. CASE ReservationExpires(t)
  BY <1>32 DEF ReservationExpires, files, Aged
<1> HIDE DEF TypeOK, Row, Phase, PushState, Task, Stays, Ended, TransferInv, Owned, Working,
        CommitPc, InstallPc, Trusted, Present, At, Over
<1> QED BY <1>1, <1>2, <1>3, <1>4, <1>5, <1>6, <1>7, <1>8, <1>9, <1>10, <1>11, <1>12, <1>13,
        <1>14, <1>15, <1>16, <1>17, <1>18, <1>19, <1>20, <1>21, <1>22, <1>23, <1>24, <1>25,
        <1>26, <1>27, <1>28, <1>29, <1>30, <1>31, <1>32
        DEF TransferStep, UploadStep, CommitStep

-----------------------------------------------------------------------------
(* The steps of a recovery: they start no commit, move nothing to a backup *)
(* and drop a row only after its commit, when its backup is empty.         *)

RecovererStep(r) ==
    \/ \E t \in Transfer : Finish(r, t)
    \/ Sweep(r) \/ RecoverStep(r) \/ RecovererCrash(r)

LEMMA TakeType ==
  ASSUME NEW k \in Recovery, NEW t \in Transfer
  PROVE  [k EXCEPT !.pc = "dest", !.item = t] \in Recovery
  BY DEF Recovery, RecoverPc

LEMMA LookType ==
  ASSUME NEW k \in Recovery, NEW b \in BOOLEAN
  PROVE  /\ [k EXCEPT !.pc = "backup", !.dest = b] \in Recovery
         /\ [k EXCEPT !.pc = "act", !.backup = b] \in Recovery
  BY DEF Recovery, RecoverPc

LEMMA NoRecoveryType == NoRecovery \in Recovery
  BY NoTypes DEF NoRecovery, Recovery, RecoverPc

LEMMA LeaveTypes ==
  ASSUME TypeOK, NEW r \in Recoverer, NEW t \in Transfer, Leave(r, t)
  PROVE  recover' \in [Recoverer -> Recovery]
<1> DEFINE k == recover[r]
           left == [NoRecovery EXCEPT !.pc = "items", !.finish = k.finish,
                                      !.seen = [k.seen EXCEPT ![t] = NoRow],
                                      !.aged = k.aged \ {t}]
<1>1. k \in Recovery
  BY DEF TypeOK
<1>2. [k.seen EXCEPT ![t] = NoRow] \in [Transfer -> Row] /\ k.aged \ {t} \in SUBSET Transfer
  BY <1>1, NoTypes DEF Recovery
<1>3. left \in Recovery
  BY <1>1, <1>2, NoRecoveryType DEF Recovery, RecoverPc
<1>4. recover' = [recover EXCEPT ![r] = left]
  BY DEF Leave
<1> HIDE DEF left
<1> QED BY <1>3, <1>4 DEF TypeOK

LEMMA StepTypes ==
  ASSUME TypeOK, NEW r \in Recoverer, NEW pc \in RecoverPc, Step(r, pc)
  PROVE  recover' \in [Recoverer -> Recovery]
<1>1. recover[r] \in Recovery
  BY DEF TypeOK
<1>2. [recover[r] EXCEPT !.pc = pc] \in Recovery
  BY <1>1 DEF Recovery
<1>3. recover' = [recover EXCEPT ![r] = [recover[r] EXCEPT !.pc = pc]]
  BY DEF Step
<1> QED BY <1>2, <1>3 DEF TypeOK

LEMMA RecovererStepTypes ==
  ASSUME NEW r \in Recoverer, TypeOK, HasItem(r), RecovererStep(r)
  PROVE  TypeOK'
<1> USE TaskTypes, ContentTypes DEF TypeOK, HasItem, RecoverPc
<1>1. ASSUME NEW u \in Transfer, Finish(r, u) PROVE TypeOK'
  <2>1. push' \in [Transfer -> PushState]
    BY <1>1 DEF Finish
  <2>2. recover' \in [Recoverer -> Recovery]
    <3> DEFINE begun == [NoRecovery EXCEPT !.pc = "items", !.finish = TRUE, !.seen[u] = rows[u]]
    <3>1. [NoRecovery.seen EXCEPT ![u] = rows[u]] \in [Transfer -> Row]
      BY NoTypes DEF NoRecovery
    <3>2. begun \in Recovery
      BY <3>1, NoRecoveryType DEF Recovery, RecoverPc
    <3>3. recover' = recover \/ recover' = [recover EXCEPT ![r] = begun]
      BY <1>1 DEF Finish
    <3> HIDE DEF begun
    <3> QED BY <3>2, <3>3
  <2> QED BY <1>1, <2>1, <2>2 DEF Finish, files
<1>2. ASSUME NEW u \in Transfer, SkipItem(r, u) PROVE TypeOK'
  BY <1>2, LeaveTypes, NoTypes DEF SkipItem, files
<1>3. ASSUME NEW u \in Transfer, TakeItem(r, u) PROVE TypeOK'
  <2>1. recover' = [recover EXCEPT ![r] = [recover[r] EXCEPT !.pc = "dest", !.item = u]]
        \/ Leave(r, u)
    BY <1>3 DEF TakeItem
  <2>2. [recover[r] EXCEPT !.pc = "dest", !.item = u] \in Recovery
    BY TakeType
  <2>3. recover' \in [Recoverer -> Recovery]
    BY <2>1, <2>2, LeaveTypes
  <2> QED BY <1>3, <2>3, DisownTypes DEF TakeItem, files
<1>4. CASE Sweep(r)
  <2> DEFINE old == {t \in Transfer : Aged(t)}
             begun == [NoRecovery EXCEPT !.pc = "items", !.seen = rows, !.aged = old]
  <2>1. old \in SUBSET Transfer
    OBVIOUS
  <2> HIDE DEF old
  <2>2. begun \in Recovery
    BY <2>1, NoRecoveryType DEF Recovery, RecoverPc
  <2>3. recover' = [recover EXCEPT ![r] = begun]
    BY <1>4 DEF Sweep, old
  <2> HIDE DEF begun
  <2> QED BY <1>4, <2>2, <2>3 DEF Sweep, files
<1>5. CASE LookDest(r)
  <2> DEFINE there == dest # Missing
             looked == [recover[r] EXCEPT !.pc = "backup", !.dest = there]
  <2>1. looked \in Recovery
    <3>1. there \in BOOLEAN
      OBVIOUS
    <3> HIDE DEF there
    <3> QED BY <3>1, LookType
  <2>2. recover' = [recover EXCEPT ![r] = looked]
    BY <1>5 DEF LookDest
  <2> HIDE DEF looked
  <2> QED BY <1>5, <2>1, <2>2, ZenonT(40) DEF LookDest, files
<1>6. CASE LookBackup(r)
  <2> DEFINE there == Seen(r).backup /\ backup[Item(r)] # Missing
             looked == [recover[r] EXCEPT !.pc = "act", !.backup = there]
  <2>1. there \in BOOLEAN
    BY DEF HasItem, Seen, Item, Recovery, Row
  <2> HIDE DEF there
  <2>2. looked \in Recovery
    BY <2>1, LookType
  <2>3. recover' = [recover EXCEPT ![r] = looked]
    BY <1>6 DEF LookBackup, there
  <2> HIDE DEF looked
  <2> QED BY <1>6, <2>2, <2>3, ZenonT(40) DEF LookBackup, files
<1>7. CASE RecoverRefuse(r)
  BY <1>7, LeaveTypes, NoTypes DEF RecoverRefuse, Item, Seen, files
<1>8. CASE RecoverRestore(r)
  BY <1>8, LeaveTypes, StepTypes, NoTypes, MishapTypes DEF RecoverRestore, LeaveFailed, Item,
        Seen, Renamable
<1>9. CASE RecoverRemove(r)
  BY <1>9, LeaveTypes, StepTypes, NoTypes, MishapTypes DEF RecoverRemove, LeaveFailed, Item,
        Seen
<1>10. CASE RecoverNothing(r)
  BY <1>10, StepTypes DEF RecoverNothing, Item, Seen, files
<1>11. CASE RecoverClear(r)
  BY <1>11, LeaveTypes, StepTypes, NoTypes, MishapTypes DEF RecoverClear, LeaveFailed, Item,
        Seen
<1>12. CASE RecoverDrop(r)
  BY <1>12, LeaveTypes, NoTypes DEF RecoverDrop, Item, files
<1>13. CASE RecoverEnd(r)
  <2>1. part' \in [Transfer -> Content]
    BY <1>13 DEF RecoverEnd
  <2> QED BY <1>13, <2>1, NoRecoveryType DEF RecoverEnd
<1>14. CASE RecovererCrash(r)
  BY <1>14, MishapTypes, NoRecoveryType DEF RecovererCrash, files
<1> QED BY <1>1, <1>2, <1>3, <1>4, <1>5, <1>6, <1>7, <1>8, <1>9, <1>10, <1>11, <1>12, <1>13,
        <1>14
        DEF RecovererStep, RecoverStep

(* What a step of recovery r does to the transfers and to the others.      *)
Takes(r) ==
    /\ task' = task /\ owner' = owner
    /\ \A q \in Recoverer \ {r} : recover'[q] = recover[q]
    /\ \A t \in Transfer :
          /\ push'[t] = push[t] \/ (push[t] = "finishing" /\ push'[t] = "failed")
          /\ backup'[t] \in {backup[t], Missing}
          /\ \/ rows'[t] = rows[t]
             \/ rows'[t] = NoRow /\ ~Working(t) /\ backup[t] = Missing
             \/ rows'[t] = [rows[t] EXCEPT !.owner = FALSE] /\ ~Working(t)

LEMMA RecovererStepTakes ==
  ASSUME NEW r \in Recoverer, CommitInv, Trusted, RecovererStep(r)
  PROVE  Takes(r)
<1> USE DEF CommitInv, TypeOK, Takes
<1>1. ASSUME NEW u \in Transfer, Finish(r, u) PROVE Takes(r)
  BY <1>1 DEF Finish, Present, files, NoRecovery
<1>2. ASSUME NEW u \in Transfer, SkipItem(r, u) PROVE Takes(r)
  BY <1>2 DEF SkipItem, Leave, files, OwnerLives
<1>3. ASSUME NEW u \in Transfer, TakeItem(r, u) PROVE Takes(r)
  <2>1. recover[r].seen[u].owner => ~Working(u)
    BY <1>3 DEF TakeItem, OwnerLives, Trusted, RecoveriesInv, RecoverInv, Settled, Passed, Ended
  <2>2. \A t \in Transfer : rows'[t] = rows[t]
           \/ (rows'[t] = [rows[t] EXCEPT !.owner = FALSE] /\ ~Working(t))
    BY <1>3, <2>1 DEF TakeItem, Disown
  <2>3. \A q \in Recoverer \ {r} : recover'[q] = recover[q]
    BY <1>3 DEF TakeItem, Leave
  <2> QED BY <1>3, <2>2, <2>3 DEF TakeItem, files
<1>4. CASE Sweep(r)
  BY <1>4 DEF Sweep, files, NoRecovery, Aged
<1>5. CASE LookDest(r)
  BY <1>5 DEF LookDest, files
<1>6. CASE LookBackup(r)
  BY <1>6 DEF LookBackup, Item, Seen, files
<1>7. CASE RecoverRefuse(r)
  BY <1>7 DEF RecoverRefuse, Leave, Item, Seen, files
<1>8. CASE RecoverRestore(r)
  BY <1>8 DEF RecoverRestore, Leave, LeaveFailed, Step, Item, Seen, Mishap, Renamable
<1>9. CASE RecoverRemove(r)
  BY <1>9 DEF RecoverRemove, Leave, LeaveFailed, Step, Item, Seen, Mishap
<1>10. CASE RecoverNothing(r)
  BY <1>10 DEF RecoverNothing, Step, Item, Seen, files
<1>11. CASE RecoverClear(r)
  BY <1>11 DEF RecoverClear, Leave, LeaveFailed, Step, Item, Seen, Mishap
<1>12. CASE RecoverDrop(r)
  <2>1. ~Working(Item(r)) /\ backup[Item(r)] = Missing /\ Item(r) \in Transfer
    BY <1>12 DEF RecoverDrop, RecoveriesInv, HasItem, RecoverInv, Recovering, Settled, Ended, Item
  <2>2. \A t \in Transfer : rows'[t] = rows[t] \/ (t = Item(r) /\ rows'[t] = NoRow)
    BY <1>12 DEF RecoverDrop
  <2>3. \A q \in Recoverer \ {r} : recover'[q] = recover[q]
    BY <1>12 DEF RecoverDrop, Leave
  <2> QED BY <1>12, <2>1, <2>2, <2>3 DEF RecoverDrop, files
<1>13. CASE RecoverEnd(r)
  BY <1>13 DEF RecoverEnd, Present, NoRecovery, Aged
<1>14. CASE RecovererCrash(r)
  BY <1>14 DEF RecovererCrash, Mishap, files, NoRecovery
<1> QED BY <1>1, <1>2, <1>3, <1>4, <1>5, <1>6, <1>7, <1>8, <1>9, <1>10, <1>11, <1>12, <1>13,
        <1>14
        DEF RecovererStep, RecoverStep

(* What it makes of its own locals.                                        *)
OwnRecovery(r) == HasItem(r) /\ \A t \in Transfer : RecoverInv(r, t)

LEMMA EndedStays ==
  ASSUME CommitInv, NEW r \in Recoverer, Takes(r), NEW t \in Transfer, Ended(t)
  PROVE  Ended(t)' /\ (backup'[t] # Missing => backup[t] # Missing)
  BY DEF Takes, Ended, Working, Over

(* A row that is read names its owner, or tells all there is to know.      *)
LEMMA RowTells ==
  ASSUME CommitInv, NEW t \in Transfer
  PROVE  \/ rows[t].owner /\ owner[t] = "alive"
         \/ Ended(t) /\ (backup[t] # Missing => rows[t].backup)
         \/ ~rows[t].owner /\ rows[t].phase \in {"absent", "receiving"} /\ push[t] \notin Over
<1>1. TransferInv(t) /\ owner[t] \in {"none", "alive", "dead"}
  BY DEF CommitInv, TransfersInv, TypeOK
<1>2. Working(t) => rows[t].owner /\ owner[t] = "alive"
  BY <1>1 DEF TransferInv, Owned
<1>3. backup[t] # Missing => rows[t].backup
  BY <1>1 DEF TransferInv, BackedUp
<1>4. rows[t].owner \/ rows[t].phase \notin {"absent", "receiving"} => owner[t] # "none"
  BY <1>1 DEF TransferInv, Owned
<1> QED BY <1>2, <1>3, <1>4 DEF Ended

LEMMA LeaveKeeps ==
  ASSUME CommitInv, NEW r \in Recoverer, Takes(r), recover[r].pc # "idle",
         NEW t \in Transfer, Leave(r, t)
  PROVE  OwnRecovery(r)'
<1>1. /\ recover'[r].pc = "items" /\ recover'[r].finish = recover[r].finish
      /\ recover'[r].seen = [recover[r].seen EXCEPT ![t] = NoRow]
      /\ recover'[r].aged = recover[r].aged \ {t}
  BY DEF Leave, CommitInv, TypeOK, NoRecovery
<1>2. recover[r].seen \in [Transfer -> Row]
  BY DEF CommitInv, TypeOK, Recovery
<1>3. recover'[r].seen[t].phase = "absent"
  BY <1>1, <1>2 DEF NoRow
<1>4. HasItem(r)' /\ \A u \in Transfer : ~Recovering(r, u)'
  BY <1>1 DEF HasItem, Recovering
<1>5. ASSUME NEW u \in Transfer, u # t, recover'[r].seen[u].phase # "absent"
      PROVE  Settled(r, u)' \/ Passed(r, u)'
  <2>1. recover'[r].seen[u] = recover[r].seen[u]
    BY <1>1, <1>2, <1>5
  <2>2. Settled(r, u) \/ Passed(r, u)
    BY <1>5, <2>1 DEF CommitInv, RecoveriesInv, RecoverInv
  <2>3. CASE Settled(r, u)
    BY <2>1, <2>3, EndedStays DEF Settled
  <2>4. CASE Passed(r, u)
    BY <1>1, <1>5, <2>1, <2>4 DEF Passed, Fresh, Takes
  <2> QED BY <2>2, <2>3, <2>4
<1> QED BY <1>3, <1>4, <1>5 DEF OwnRecovery, RecoverInv

(* Going on with the same item, what was read of it still holds.           *)
LEMMA GoingOnKeeps ==
  ASSUME CommitInv, NEW r \in Recoverer, Takes(r), NEW t \in Transfer, Settled(r, t),
         recover[r].pc # "idle",
         recover'[r].pc \in {"dest", "backup", "act", "clear", "drop"},
         recover'[r].item = t, recover'[r].seen = recover[r].seen,
         recover'[r].aged = recover[r].aged, recover'[r].finish = recover[r].finish,
         (recover'[r].pc = "act" /\ ~recover'[r].backup) \/ recover'[r].pc \in {"clear", "drop"}
            => backup'[t] = Missing
  PROVE  OwnRecovery(r)'
<1>1. HasItem(r)'
  BY DEF HasItem
<1>2. ASSUME NEW u \in Transfer, Settled(r, u) PROVE Settled(r, u)'
  BY <1>2, EndedStays DEF Settled
<1>3. ASSUME NEW u \in Transfer, Passed(r, u) PROVE Passed(r, u)'
  BY <1>3 DEF Passed, Fresh, Takes
<1>4. ASSUME NEW u \in Transfer PROVE RecoverInv(r, u)'
  <2>1. recover'[r].seen[u].phase # "absent" => Settled(r, u)' \/ Passed(r, u)'
    BY <1>2, <1>3 DEF CommitInv, RecoveriesInv, RecoverInv
  <2>2. Recovering(r, u)' => u = t
    BY DEF Recovering
  <2> QED BY <1>2, <2>1, <2>2 DEF RecoverInv
<1> QED BY <1>1, <1>4 DEF OwnRecovery

LEMMA ItemSettled ==
  ASSUME CommitInv, NEW r \in Recoverer, recover[r].pc \notin {"idle", "items"}
  PROVE  Item(r) \in Transfer /\ Settled(r, Item(r)) /\ RecoverInv(r, Item(r))
  BY DEF CommitInv, RecoveriesInv, HasItem, RecoverInv, Recovering, Item

LEMMA StepKeeps ==
  ASSUME CommitInv, NEW r \in Recoverer, Takes(r), recover[r].pc \notin {"idle", "items"},
         NEW pc \in {"clear", "drop"}, Step(r, pc), backup'[Item(r)] = Missing
  PROVE  OwnRecovery(r)'
<1>1. /\ recover'[r].pc = pc /\ recover'[r].item = Item(r)
      /\ recover'[r].seen = recover[r].seen
      /\ recover'[r].aged = recover[r].aged /\ recover'[r].finish = recover[r].finish
  BY DEF Step, Item, CommitInv, TypeOK, Recovery
<1> QED BY <1>1, ItemSettled, GoingOnKeeps

LEMMA RecovererStepKeeps ==
  ASSUME NEW r \in Recoverer, CommitInv, Trusted, RecovererStep(r)
  PROVE  OwnRecovery(r)'
<1>0. Takes(r)
  BY RecovererStepTakes
<1>1. ASSUME NEW u \in Transfer, Finish(r, u) PROVE OwnRecovery(r)'
  <2>1. CASE Present(u)
    <3>1. /\ recover'[r].pc = "items"
          /\ recover'[r].seen = [[t \in Transfer |-> NoRow] EXCEPT ![u] = rows[u]]
      BY <1>1, <2>1 DEF Finish, NoRecovery, CommitInv, TypeOK
    <3>2. push'[u] = "failed"
      BY <1>1 DEF Finish, CommitInv, TypeOK
    <3>3. HasItem(r)' /\ \A t \in Transfer : ~Recovering(r, t)'
      BY <3>1 DEF HasItem, Recovering
    <3>4. \A t \in Transfer : t # u => recover'[r].seen[t].phase = "absent"
      BY <3>1 DEF NoRow
    <3>5. recover'[r].seen[u] = rows[u] /\ UNCHANGED <<rows, task, owner, backup>>
      BY <1>1, <3>1 DEF Finish, files
    <3>6. Settled(r, u)' \/ Passed(r, u)'
      BY <3>2, <3>5, RowTells, EndedStays, <1>0 DEF Settled, Passed, Ended, Over, Working,
         CommitInv, TransfersInv, TransferInv, Owned, BackedUp
    <3> QED BY <3>3, <3>4, <3>6 DEF OwnRecovery, RecoverInv
  <2>2. CASE ~Present(u)
    <3>1. recover'[r] = recover[r] /\ recover[r].pc = "idle"
      BY <1>1, <2>2 DEF Finish
    <3> QED BY <3>1 DEF OwnRecovery, HasItem, RecoverInv, Recovering
  <2> QED BY <2>1, <2>2
<1>2. ASSUME NEW u \in Transfer, SkipItem(r, u) PROVE OwnRecovery(r)'
  BY <1>0, <1>2, LeaveKeeps DEF SkipItem
<1>3. ASSUME NEW u \in Transfer, TakeItem(r, u) PROVE OwnRecovery(r)'
  <2>1. recover[r].pc = "items" /\ recover[r].seen[u].phase # "absent"
    BY <1>3 DEF TakeItem
  <2>2. CASE Fresh(r, u)
    BY <1>0, <1>3, <2>1, <2>2, LeaveKeeps DEF TakeItem
  <2>3. CASE ~Fresh(r, u)
    <3>1. Settled(r, u)
      BY <1>3, <2>1, <2>3
         DEF TakeItem, OwnerLives, Trusted, CommitInv, RecoveriesInv, RecoverInv, Passed
    <3>2. recover'[r] = [recover[r] EXCEPT !.pc = "dest", !.item = u]
      BY <1>3, <2>3 DEF TakeItem, CommitInv, TypeOK
    <3>3. /\ recover'[r].pc = "dest" /\ recover'[r].item = u
          /\ recover'[r].seen = recover[r].seen
          /\ recover'[r].aged = recover[r].aged /\ recover'[r].finish = recover[r].finish
      BY <3>2 DEF CommitInv, TypeOK, Recovery
    <3> QED BY <1>0, <2>1, <3>1, <3>3, GoingOnKeeps
  <2> QED BY <2>2, <2>3
<1>4. CASE Sweep(r)
  <2>1. /\ recover'[r].pc = "items" /\ recover'[r].seen = rows /\ ~recover'[r].finish
        /\ recover'[r].aged = {t \in Transfer : Aged(t)}
        /\ UNCHANGED <<rows, push, task, owner, backup>>
    BY <1>4 DEF Sweep, NoRecovery, CommitInv, TypeOK, files
  <2>2. HasItem(r)' /\ \A t \in Transfer : ~Recovering(r, t)'
    BY <2>1 DEF HasItem, Recovering
  <2>3. ASSUME NEW t \in Transfer, rows[t].phase # "absent"
        PROVE  Settled(r, t)' \/ Passed(r, t)'
    <3>1. CASE rows[t].owner /\ owner[t] = "alive"
      BY <2>1, <3>1 DEF Passed
    <3>2. CASE Ended(t) /\ (backup[t] # Missing => rows[t].backup)
      BY <2>1, <3>2 DEF Settled, Ended, Working
    <3>3. CASE ~rows[t].owner /\ rows[t].phase \in {"absent", "receiving"} /\ push[t] \notin Over
      BY <2>1, <2>3, <3>3 DEF Passed, Fresh, Aged
    <3> QED BY <3>1, <3>2, <3>3, RowTells
  <2> QED BY <2>1, <2>2, <2>3 DEF OwnRecovery, RecoverInv
<1>5. CASE LookDest(r)
  <2>1. recover[r].pc = "dest" /\ Settled(r, Item(r)) /\ Item(r) \in Transfer
    BY <1>5, ItemSettled DEF LookDest
  <2>2. recover'[r] = [recover[r] EXCEPT !.pc = "backup", !.dest = dest # Missing]
    BY <1>5 DEF LookDest, CommitInv, TypeOK
  <2>3. /\ recover'[r].pc = "backup" /\ recover'[r].item = Item(r)
        /\ recover'[r].seen = recover[r].seen
        /\ recover'[r].aged = recover[r].aged /\ recover'[r].finish = recover[r].finish
    BY <2>2 DEF Item, CommitInv, TypeOK, Recovery
  <2> QED BY <1>0, <2>1, <2>3, GoingOnKeeps
<1>6. CASE LookBackup(r)
  <2> DEFINE there == Seen(r).backup /\ backup[Item(r)] # Missing
  <2>1. recover[r].pc = "backup" /\ Settled(r, Item(r)) /\ Item(r) \in Transfer
    BY <1>6, ItemSettled DEF LookBackup
  <2>2. recover'[r] = [recover[r] EXCEPT !.pc = "act", !.backup = there]
    BY <1>6 DEF LookBackup, CommitInv, TypeOK
  <2>3. /\ recover'[r].pc = "act" /\ recover'[r].item = Item(r)
        /\ recover'[r].seen = recover[r].seen
        /\ recover'[r].aged = recover[r].aged /\ recover'[r].finish = recover[r].finish
    BY <2>2 DEF Item, CommitInv, TypeOK, Recovery
  <2>4. ~there => backup'[Item(r)] = Missing
    BY <1>6, <2>1 DEF Settled, Seen, Item, LookBackup, files
  <2>5. recover'[r].backup = there
    BY <2>2 DEF CommitInv, TypeOK, Recovery
  <2> HIDE DEF there
  <2> QED BY <1>0, <2>1, <2>3, <2>4, <2>5, GoingOnKeeps
<1>7. CASE RecoverRefuse(r)
  BY <1>0, <1>7, LeaveKeeps, ItemSettled DEF RecoverRefuse
<1>8. CASE RecoverRestore(r)
  <2>1. recover[r].pc = "act" /\ Item(r) \in Transfer
    BY <1>8, ItemSettled DEF RecoverRestore
  <2>2. Leave(r, Item(r)) \/ (Step(r, "clear") /\ backup' = [backup EXCEPT ![Item(r)] = Missing])
    BY <1>8 DEF RecoverRestore, LeaveFailed
  <2>3. Leave(r, Item(r)) \/ (Step(r, "clear") /\ backup'[Item(r)] = Missing)
    BY <2>1, <2>2 DEF CommitInv, TypeOK
  <2> QED BY <1>0, <2>1, <2>3, LeaveKeeps, StepKeeps
<1>9. CASE RecoverRemove(r)
  <2>1. recover[r].pc = "act" /\ Item(r) \in Transfer
    BY <1>9, ItemSettled DEF RecoverRemove
  <2>2. Leave(r, Item(r)) \/ (Step(r, "clear") /\ backup' = [backup EXCEPT ![Item(r)] = Missing])
    BY <1>9 DEF RecoverRemove, LeaveFailed
  <2>3. Leave(r, Item(r)) \/ (Step(r, "clear") /\ backup'[Item(r)] = Missing)
    BY <2>1, <2>2 DEF CommitInv, TypeOK
  <2> QED BY <1>0, <2>1, <2>3, LeaveKeeps, StepKeeps
<1>10. CASE RecoverNothing(r)
  <2>1. recover[r].pc = "act" /\ Item(r) \in Transfer /\ RecoverInv(r, Item(r))
    BY <1>10, ItemSettled DEF RecoverNothing
  <2>2. ~recover[r].backup /\ Step(r, "clear") /\ UNCHANGED backup
    BY <1>10 DEF RecoverNothing, Refuses, Restores, Removes, files
  <2>3. backup'[Item(r)] = Missing
    BY <2>1, <2>2 DEF RecoverInv, Recovering, Item
  <2> QED BY <1>0, <2>1, <2>2, <2>3, StepKeeps
<1>11. CASE RecoverClear(r)
  <2>1. recover[r].pc = "clear" /\ Item(r) \in Transfer /\ RecoverInv(r, Item(r))
    BY <1>11, ItemSettled DEF RecoverClear
  <2>2. UNCHANGED backup /\ (Step(r, "drop") \/ Leave(r, Item(r)))
    BY <1>11 DEF RecoverClear, LeaveFailed
  <2>3. backup'[Item(r)] = Missing
    BY <2>1, <2>2 DEF RecoverInv, Recovering, Item
  <2> QED BY <1>0, <2>1, <2>2, <2>3, StepKeeps, LeaveKeeps
<1>12. CASE RecoverDrop(r)
  BY <1>0, <1>12, LeaveKeeps, ItemSettled DEF RecoverDrop
<1>13. CASE RecoverEnd(r) \/ RecovererCrash(r)
  <2>1. recover'[r].pc = "idle"
    BY <1>13 DEF RecoverEnd, RecovererCrash, NoRecovery, CommitInv, TypeOK
  <2> QED BY <2>1 DEF OwnRecovery, HasItem, RecoverInv, Recovering
<1> QED BY <1>1, <1>2, <1>3, <1>4, <1>5, <1>6, <1>7, <1>8, <1>9, <1>10, <1>11, <1>12, <1>13
        DEF RecovererStep, RecoverStep

-----------------------------------------------------------------------------
(* The steps together.                                                     *)

(* Another recovery's reading stands while recovery r takes things away.   *)
LEMMA TakesKeeps ==
  ASSUME CommitInv, NEW r \in Recoverer, Takes(r)
  PROVE  /\ TransfersInv'
         /\ \A q \in Recoverer \ {r} : OwnRecovery(q)'
<1>1. ASSUME NEW t \in Transfer PROVE TransferInv(t)'
  <2> DEFINE row == rows[t]
  <2>1. /\ row \in Row /\ task'[t] = task[t] /\ owner'[t] = owner[t]
        /\ push'[t] = push[t] \/ (push[t] = "finishing" /\ push'[t] = "failed")
        /\ backup'[t] \in {backup[t], Missing}
    BY DEF CommitInv, TypeOK, Takes
  <2>2. TransferInv(t)
    BY DEF CommitInv, TransfersInv
  <2>3. CASE rows'[t] = row
    BY <2>1, <2>2, <2>3 DEF TransferInv, Owned, BackedUp, Counted, Working, At, Present, Over
  <2>4. CASE rows'[t] = NoRow /\ ~Working(t) /\ backup[t] = Missing
    BY <2>1, <2>2, <2>4, TransferAssumption
       DEF TransferInv, Owned, BackedUp, Counted, Working, At, Present, Over, NoRow, CommitPc,
           InstallPc
  <2>5. CASE rows'[t] = [row EXCEPT !.owner = FALSE] /\ ~Working(t)
    <3>1. /\ rows'[t].phase = row.phase /\ rows'[t].backup = row.backup
          /\ rows'[t].transferred = row.transferred /\ ~rows'[t].owner
      BY <2>1, <2>5 DEF Row
    <3> QED BY <2>1, <2>2, <2>5, <3>1
            DEF TransferInv, Owned, BackedUp, Counted, Working, At, Present, Over
  <2> QED BY <2>3, <2>4, <2>5 DEF Takes
<1>2. ASSUME NEW q \in Recoverer \ {r} PROVE OwnRecovery(q)'
  <2>1. recover'[q] = recover[q] /\ owner' = owner
    BY DEF Takes
  <2>2. OwnRecovery(q)
    BY DEF CommitInv, RecoveriesInv, OwnRecovery
  <2>3. ASSUME NEW t \in Transfer, Settled(q, t) PROVE Settled(q, t)'
    BY <2>1, <2>3, EndedStays DEF Settled
  <2>4. ASSUME NEW t \in Transfer PROVE Passed(q, t) => Passed(q, t)'
    BY <2>1 DEF Passed, Fresh
  <2>5. ASSUME NEW t \in Transfer PROVE RecoverInv(q, t)'
    <3>1. RecoverInv(q, t) /\ backup'[t] \in {backup[t], Missing}
      BY <2>2 DEF OwnRecovery, Takes
    <3> QED BY <2>1, <2>3, <2>4, <3>1 DEF RecoverInv, Recovering
  <2> QED BY <2>1, <2>2, <2>5 DEF OwnRecovery, HasItem
<1> QED BY <1>1, <1>2 DEF TransfersInv

LEMMA TransferKeeps ==
  ASSUME NEW t \in Transfer, CommitInv, Trusted, TransferStep(t)
  PROVE  CommitInv'
<1>1. TypeOK /\ TransferInv(t)
  BY DEF CommitInv, TransfersInv
<1>2. TypeOK' /\ Alone(t) /\ TransferInv(t)' /\ Stays(t)
  BY <1>1, TransferStepTypes, TransferStepAlone, TransferStepKeeps, TransferStepStays
<1>3. ASSUME NEW u \in Transfer, u # t PROVE TransferInv(u)'
  BY <1>2, <1>3 DEF CommitInv, TransfersInv, Alone, TransferInv, Owned, BackedUp, Counted,
                    Working, At, Present
<1>4. ASSUME NEW r \in Recoverer, NEW u \in Transfer
      PROVE  /\ Settled(r, u) => Settled(r, u)' /\ (backup'[u] # Missing => backup[u] # Missing)
             /\ recover[r].pc # "idle" /\ Passed(r, u) => Passed(r, u)'
  <2>1. recover' = recover
    BY <1>2 DEF Alone
  <2>2. CASE u = t
    BY <1>2, <2>1, <2>2 DEF Stays, Settled, Passed, Fresh, Probed
  <2>3. CASE u # t
    BY <1>2, <2>1, <2>3 DEF Alone, Settled, Ended, Working, Passed, Fresh
  <2> QED BY <2>2, <2>3
<1>5. ASSUME NEW r \in Recoverer PROVE HasItem(r)'
  BY <1>2 DEF Alone, HasItem, CommitInv, RecoveriesInv
<1>6. ASSUME NEW r \in Recoverer, NEW u \in Transfer PROVE RecoverInv(r, u)'
  <2>1. RecoverInv(r, u) /\ recover' = recover
    BY <1>2 DEF CommitInv, RecoveriesInv, Alone
  <2> QED BY <1>4, <2>1 DEF RecoverInv, Recovering
<1> QED BY <1>2, <1>3, <1>5, <1>6 DEF CommitInv, TransfersInv, RecoveriesInv

LEMMA RecovererKeeps ==
  ASSUME NEW r \in Recoverer, CommitInv, Trusted, RecovererStep(r)
  PROVE  CommitInv'
<1>1. TypeOK'
  BY RecovererStepTypes DEF CommitInv, RecoveriesInv
<1>2. Takes(r) /\ OwnRecovery(r)'
  BY RecovererStepTakes, RecovererStepKeeps
<1>3. TransfersInv' /\ \A q \in Recoverer \ {r} : OwnRecovery(q)'
  BY <1>2, TakesKeeps
<1> QED BY <1>1, <1>2, <1>3 DEF CommitInv, RecoveriesInv, OwnRecovery

LEMMA CommitInvInit == Init => CommitInv
<1> SUFFICES ASSUME Init PROVE CommitInv
  OBVIOUS
<1>1. TypeOK
  <2>1. dest \in Content /\ mishaps \in Nat /\ reserved \in SUBSET Transfer
    BY DEF Init, Content, Whole
  <2>2. /\ part \in [Transfer -> Content] /\ stage \in [Transfer -> Content]
        /\ backup \in [Transfer -> Content]
    BY DEF Init, Content, Whole
  <2>3. rows \in [Transfer -> Row] /\ task \in [Transfer -> Task]
    BY NoTypes DEF Init
  <2>4. /\ push \in [Transfer -> PushState] /\ owner \in [Transfer -> {"none", "alive", "dead"}]
        /\ recover \in [Recoverer -> Recovery]
    BY NoRecoveryType DEF Init, PushState
  <2> QED BY <2>1, <2>2, <2>3, <2>4 DEF TypeOK
<1>2. ASSUME NEW t \in Transfer PROVE TransferInv(t)
  <2>1. /\ owner[t] = "none" /\ push[t] = "idle" /\ backup[t] = Missing
        /\ rows[t].phase = "absent" /\ ~rows[t].owner /\ task[t].pc = "none"
    BY DEF Init, NoRow, NoTask
  <2> QED BY <2>1 DEF TransferInv, Owned, BackedUp, Counted, Working, CommitPc, InstallPc, At
<1>3. ASSUME NEW r \in Recoverer PROVE recover[r].pc = "idle"
  BY DEF Init, NoRecovery
<1> QED BY <1>1, <1>2, <1>3
        DEF CommitInv, TransfersInv, RecoveriesInv, HasItem, RecoverInv, Recovering

LEMMA CommitInvStep == Trusted /\ CommitInv /\ [Next]_vars => CommitInv'
<1> SUFFICES ASSUME Trusted, CommitInv, [Next]_vars PROVE CommitInv'
  OBVIOUS
<1>1. ASSUME NEW t \in Transfer, TransferStep(t) PROVE CommitInv'
  BY <1>1, TransferKeeps
<1>2. ASSUME NEW r \in Recoverer, RecovererStep(r) PROVE CommitInv'
  BY <1>2, RecovererKeeps
<1>3. CASE UNCHANGED vars
  BY <1>3 DEF vars, CommitInv, TypeOK, TransfersInv, TransferInv, Owned, BackedUp, Counted,
              Working, At, Present, RecoveriesInv, HasItem, RecoverInv, Recovering, Settled,
              Ended, Passed, Fresh
<1> QED BY <1>1, <1>2, <1>3 DEF Next, TransferStep, RecovererStep

(* CommitInv holds in every reachable state: a running commit owns its row *)
(* and its process lives, and what a recovery has read of a row cannot     *)
(* lead it to drop the row while the commit's backup holds something.      *)
THEOREM CommitInvariant ==
  ASSUME Trusted
  PROVE  Spec => []CommitInv
<1>1. CommitInv /\ [Next]_vars => CommitInv'
  BY CommitInvStep
<1> QED BY <1>1, CommitInvInit, PTL DEF Spec

(* The state keeps its type.                                               *)
THEOREM TypeCorrect ==
  ASSUME Trusted
  PROVE  Spec => []TypeOK
<1>1. CommitInv => TypeOK
  BY DEF CommitInv
<1> QED BY <1>1, CommitInvariant, PTL

(* What a commit has moved away is named by its row, whichever processes   *)
(* die and whichever file operations fail (installPath, recoverOrRemove).  *)
THEOREM BackupAlwaysRecorded ==
  ASSUME Trusted
  PROVE  Spec => []BackupRecorded
<1>1. CommitInv => BackupRecorded
  BY DEF CommitInv, TransfersInv, TransferInv, BackedUp, BackupRecorded
<1> QED BY <1>1, CommitInvariant, PTL

(* Neither finish nor a clean-up recovers a transfer whose commit runs, of *)
(* however many Workers (finish, cleanupStale, claimTransferOwner).        *)
THEOREM LiveOwnerIsUntouched ==
  ASSUME Trusted
  PROVE  Spec => []LiveOwnerUntouched
<1>1. CommitInv => LiveOwnerUntouched
  BY DEF CommitInv, RecoveriesInv, RecoverInv, Settled, Ended, LiveOwnerUntouched
<1> QED BY <1>1, CommitInvariant, PTL

-----------------------------------------------------------------------------
(* A commit has verified what it is about to put there.                    *)
ReadyPc == {"survey", "record", "backup", "backed", "check", "place"}
ReadyInv(t) ==
    /\ task[t].pc \in {"mkdir", "note", "extract"} => task[t].directory
    /\ task[t].pc \in ReadyPc => Upload(t) = t
WholeInv ==
    /\ dest \in Whole
    /\ \A t \in Transfer : backup[t] \in Whole /\ ReadyInv(t)

StepKeepsWhole(t) ==
    /\ ReadyInv(t)'
    /\ dest' \in Whole /\ backup'[t] \in Whole
    /\ \A u \in Transfer \ {t} : part'[u] = part[u] /\ stage'[u] = stage[u]
    /\ Working(t) \/ UNCHANGED <<dest, backup>>

LEMMA TransferStepWhole ==
  ASSUME NEW t \in Transfer, TypeOK, dest \in Whole, backup[t] \in Whole, ReadyInv(t),
         TransferStep(t)
  PROVE  StepKeepsWhole(t)
<1>0. t \in Whole
  BY DEF Whole
<1> USE <1>0 DEF TypeOK, Task, ReadyInv, Upload, ReadyPc, Working, CommitPc, InstallPc, At,
         StepKeepsWhole
<1>1. CASE BeginPush(t)
  BY <1>1 DEF BeginPush, files, NoTask
<1>2. CASE BeginOpen(t)
  BY <1>2 DEF BeginOpen, Goto
<1>3. CASE BeginPut(t)
  BY <1>3 DEF BeginPut, Answer, files, Pending, NoRow, NoTask
<1>4. CASE BeginFails(t)
  BY <1>4 DEF BeginFails, Answer, Mishap, files, Pending, NoTask
<1>5. CASE SendChunk(t)
  BY <1>5 DEF SendChunk, Goto, files
<1>6. CASE WriteChunk(t)
  BY <1>6 DEF WriteChunk, Goto, Answer, Pending, Received, NoTask
<1>7. CASE CountChunk(t)
  BY <1>7 DEF CountChunk, Answer, files, Pending, NoTask
<1>8. CASE SendCommit(t)
  BY <1>8 DEF SendCommit, Goto, files
<1>9. CASE CallFails(t)
  BY <1>9 DEF CallFails, files, Pending, NoTask
<1>10. CASE CommitClaim(t)
  <2>1. CASE Present(t) /\ ~rows[t].owner
    <3>1. task'[t].pc = "verify"
      <4>1. task'[t] = [NoTask EXCEPT !.pc = "verify", !.directory = rows[t].directory,
                                      !.overwrite = rows[t].overwrite]
        BY <1>10, <2>1 DEF CommitClaim
      <4> QED BY <4>1 DEF NoTask
    <3> QED BY <1>10, <2>1, <3>1 DEF CommitClaim, files
  <2>2. CASE ~(Present(t) /\ ~rows[t].owner)
    BY <1>10, <2>2 DEF CommitClaim, Answer, files, NoTask
  <2> QED BY <2>1, <2>2
<1>11. CASE CommitVerify(t)
  BY <1>11 DEF CommitVerify, Goto, files, Verified
<1>12. CASE CommitMkdir(t)
  BY <1>12 DEF CommitMkdir, Goto, Fails, Mishap
<1>13. CASE CommitNote(t)
  BY <1>13 DEF CommitNote, Goto, files, Note
<1>14. CASE CommitExtract(t)
  BY <1>14 DEF CommitExtract, Goto, Fails, Mishap, Note, Verified
<1>15. CASE Survey(t)
  BY <1>15 DEF Survey, files, ErrorPc
<1>16. CASE Record(t)
  BY <1>16 DEF Record, Goto, Fails, Mishap, files, ErrorPc, Note
<1>17. CASE MoveAway(t)
  <2>1. UNCHANGED <<part, stage>> /\ task'[t].pc \in {"backed", "discard", "close"}
        /\ task'[t].directory = task[t].directory
    BY <1>17 DEF MoveAway, Goto, Fails, ErrorPc
  <2>2. task'[t].pc = "backed" => Upload(t) = t
    BY <1>17 DEF MoveAway
  <2>3. dest' \in Whole /\ backup'[t] \in Whole
    BY <1>17 DEF MoveAway, Whole
  <2> QED BY <1>17, <2>1, <2>2, <2>3 DEF MoveAway
<1>18. CASE MovedAway(t)
  BY <1>18 DEF MovedAway, files, Note
<1>19. CASE CheckAgain(t)
  BY <1>19 DEF CheckAgain, Goto, files, ErrorPc
<1>20. CASE Place(t)
  BY <1>20 DEF Place, Goto, Fails, Mishap
<1>21. CASE Placed(t)
  BY <1>21 DEF Placed, Goto, files, InstalledPc, Note
<1>22. CASE CleanUp(t)
  <2>0. InstalledPc(t) \in {"archive", "done"}
    BY DEF InstalledPc
  <2>1. task'[t].pc = InstalledPc(t)
    <3>1. task' = [task EXCEPT ![t] = [task[t] EXCEPT !.pc = InstalledPc(t), !.moved = FALSE]]
          \/ Goto(t, InstalledPc(t))
      BY <1>22 DEF CleanUp, Fails
    <3> DEFINE over == [task[t] EXCEPT !.pc = InstalledPc(t), !.moved = FALSE]
    <3>2. over.pc = InstalledPc(t)
      OBVIOUS
    <3>3. ASSUME task' = [task EXCEPT ![t] = over] PROVE task'[t].pc = over.pc
      <4> HIDE DEF over
      <4> QED BY <3>3
    <3>4. CASE Goto(t, InstalledPc(t))
      BY <3>4 DEF Goto
    <3> QED BY <3>1, <3>2, <3>3, <3>4
  <2>2. backup'[t] \in Whole
    BY <1>22 DEF CleanUp, Whole
  <2> QED BY <1>22, <2>0, <2>1, <2>2 DEF CleanUp, Fails
<1>23. CASE RemoveArchive(t)
  BY <1>23 DEF RemoveArchive, Goto, Fails, Mishap
<1>24. CASE CommitDone(t)
  BY <1>24 DEF CommitDone, Answer, files, Pending, Disown, NoRow, NoTask
<1>25. CASE RollBack(t)
  BY <1>25 DEF RollBack, Goto, files, ErrorPc
<1>26. CASE Restore(t)
  <2>1. UNCHANGED <<part, stage>> /\ task'[t].pc \in {"restored", "discard", "close"}
    BY <1>26 DEF Restore, Goto, Fails, ErrorPc
  <2>2. dest' \in Whole /\ backup'[t] \in Whole
    BY <1>26 DEF Restore, Whole
  <2> QED BY <1>26, <2>1, <2>2 DEF Restore
<1>27. CASE Restored(t)
  BY <1>27 DEF Restored, Goto, files, ErrorPc, Note
<1>28. CASE CommitDiscard(t)
  BY <1>28 DEF CommitDiscard, Goto, Fails, Mishap
<1>29. CASE CommitClose(t)
  BY <1>29 DEF CommitClose, Answer, files, Pending, Disown, NoTask
<1>30. CASE Crash(t)
  BY <1>30 DEF Crash, Mishap, files, NoTask, MayEnd
<1>31. CASE WorkerEnds(t)
  BY <1>31 DEF WorkerEnds, files, MayEnd
<1>32. CASE ReservationExpires(t)
  BY <1>32 DEF ReservationExpires, files, Over, Aged
<1> HIDE DEF TypeOK, Task, ReadyInv, Upload, ReadyPc, Working, CommitPc, InstallPc, At,
         StepKeepsWhole
<1> QED BY <1>1, <1>2, <1>3, <1>4, <1>5, <1>6, <1>7, <1>8, <1>9, <1>10, <1>11, <1>12, <1>13,
        <1>14, <1>15, <1>16, <1>17, <1>18, <1>19, <1>20, <1>21, <1>22, <1>23, <1>24, <1>25,
        <1>26, <1>27, <1>28, <1>29, <1>30, <1>31, <1>32
        DEF TransferStep, UploadStep, CommitStep

(* What a recovery does to the files: it leaves those of a running commit  *)
(* alone, puts back what was there, and forgets no backup without having   *)
(* seen something at the destination.                                      *)
Clears(r) ==
    /\ \A t \in Transfer : Working(t) => part'[t] = part[t] /\ stage'[t] = stage[t]
    /\ \/ UNCHANGED <<dest, backup>>
       \/ /\ recover[r].pc = "act" /\ recover[r].dest /\ recover[r].backup
          /\ backup' = [backup EXCEPT ![Item(r)] = Missing]
          /\ UNCHANGED dest
       \/ /\ recover[r].pc = "act" /\ ~recover[r].dest /\ backup[Item(r)] # Missing
          /\ backup' = [backup EXCEPT ![Item(r)] = Missing]
          /\ dest' = backup[Item(r)]

LEMMA RecovererStepClears ==
  ASSUME NEW r \in Recoverer, CommitInv, RecovererStep(r)
  PROVE  Clears(r)
<1> USE DEF Clears, files
<1>1. ASSUME NEW u \in Transfer, Finish(r, u) \/ SkipItem(r, u) \/ TakeItem(r, u) PROVE Clears(r)
  BY <1>1 DEF Finish, SkipItem, TakeItem
<1>2. CASE Sweep(r) \/ LookDest(r) \/ LookBackup(r) \/ RecoverRefuse(r) \/ RecoverNothing(r)
           \/ RecoverDrop(r) \/ RecovererCrash(r)
  BY <1>2 DEF Sweep, LookDest, LookBackup, RecoverRefuse, RecoverNothing, RecoverDrop,
              RecovererCrash
<1>3. CASE RecoverRestore(r)
  BY <1>3 DEF RecoverRestore, Restores, LeaveFailed
<1>4. CASE RecoverRemove(r)
  BY <1>4 DEF RecoverRemove, Removes, LeaveFailed
<1>5. CASE RecoverClear(r)
  <2>1. Item(r) \in Transfer /\ ~Working(Item(r))
    BY <1>5, ItemSettled DEF RecoverClear, Settled, Ended
  <2>2. \A t \in Transfer \ {Item(r)} : part'[t] = part[t] /\ stage'[t] = stage[t]
    BY <1>5 DEF RecoverClear, LeaveFailed, CommitInv, TypeOK
  <2> QED BY <1>5, <2>1, <2>2 DEF RecoverClear
<1>6. CASE RecoverEnd(r)
  <2>1. \A t \in Transfer : Working(t) => Present(t)
    BY DEF CommitInv, TransfersInv, TransferInv, Owned
  <2> QED BY <1>6, <2>1 DEF RecoverEnd
<1> QED BY <1>1, <1>2, <1>3, <1>4, <1>5, <1>6 DEF RecovererStep, RecoverStep

LEMMA WholeInvStep == Trusted /\ CommitInv /\ WholeInv /\ [Next]_vars => WholeInv'
<1> SUFFICES ASSUME Trusted, CommitInv, WholeInv, [Next]_vars PROVE WholeInv'
  OBVIOUS
<1>1. ASSUME NEW t \in Transfer, TransferStep(t) PROVE WholeInv'
  <2>1. StepKeepsWhole(t) /\ Alone(t)
    BY <1>1, TransferStepWhole, TransferStepAlone DEF CommitInv, WholeInv
  <2>2. ASSUME NEW u \in Transfer, u # t PROVE backup'[u] \in Whole /\ ReadyInv(u)'
    BY <2>1, <2>2 DEF StepKeepsWhole, Alone, WholeInv, ReadyInv, Upload
  <2> QED BY <2>1, <2>2 DEF StepKeepsWhole, WholeInv
<1>2. ASSUME NEW r \in Recoverer, RecovererStep(r) PROVE WholeInv'
  <2>1. Clears(r) /\ Takes(r)
    BY <1>2, RecovererStepClears, RecovererStepTakes
  <2>2. recover[r].pc = "act" => Item(r) \in Transfer
    BY ItemSettled
  <2>3. dest' \in Whole
    BY <2>1, <2>2 DEF Clears, WholeInv
  <2>4. ASSUME NEW u \in Transfer PROVE backup'[u] \in Whole
    BY <2>1 DEF Takes, WholeInv, Whole
  <2>5. ASSUME NEW u \in Transfer PROVE ReadyInv(u)'
    <3>1. task'[u] = task[u] /\ ReadyInv(u)
      BY <2>1 DEF Takes, WholeInv
    <3>2. task[u].pc \in ReadyPc => Working(u)
      BY DEF ReadyPc, Working, CommitPc, InstallPc
    <3> QED BY <2>1, <3>1, <3>2 DEF Clears, ReadyInv, Upload
  <2> QED BY <2>3, <2>4, <2>5 DEF WholeInv
<1>3. CASE UNCHANGED vars
  BY <1>3 DEF vars, WholeInv, ReadyInv, Upload
<1> QED BY <1>1, <1>2, <1>3 DEF Next, TransferStep, RecovererStep

LEMMA WholeInvInit == Init => WholeInv
<1> SUFFICES ASSUME Init PROVE WholeInv
  OBVIOUS
<1>1. \A t \in Transfer : task[t].pc = "none" /\ backup[t] = Missing
  BY DEF Init, NoTask
<1> QED BY <1>1 DEF Init, WholeInv, ReadyInv, ReadyPc, Whole

(* Neither the destination nor a backup ever holds part of an upload, or   *)
(* one that does not match what the Mac declared, however many pushes,     *)
(* recoveries, crashes and failed file operations meet there (commitPush,  *)
(* installPath, recoverOrRemove).                                          *)
DestinationWhole == dest \in Whole /\ \A t \in Transfer : backup[t] \in Whole
THEOREM DestinationIsWhole ==
  ASSUME Trusted
  PROVE  Spec => []DestinationWhole
<1>1. CommitInv /\ WholeInv /\ [Next]_vars => WholeInv'
  BY WholeInvStep
<1>2. WholeInv => DestinationWhole
  BY DEF WholeInv, DestinationWhole
<1> QED BY <1>1, <1>2, WholeInvInit, CommitInvariant, PTL DEF Spec

-----------------------------------------------------------------------------
(* One push at a time: the promise of AtomicReplace.                       *)
Single == \A t, u \in Transfer : t = u

(* Where the one push has got to tells what is at the destination ...      *)
ExchangeInv(t) ==
    /\ dest \in {Missing, Old, t} /\ backup[t] \in {Missing, Old}
    /\ owner[t] = "none" \/ task[t].pc \in EarlyPc => dest # t
    /\ task[t].pc \in {"backed", "place", "restore"} => dest = Missing
    /\ At(t, "record") /\ ~task[t].existed => dest = Missing
    /\ task[t].pc \in {"placed", "cleanup", "archive", "done"} => dest = t
    /\ push[t] = "ok" => dest = t /\ At(t, "none") /\ owner[t] # "none"

(* ... and what a recovery saw of it is still so, unless another recovery  *)
(* has put the backup back.                                                *)
LookedInv(r, t) ==
    Recovering(r, t) /\ recover[r].pc \in {"backup", "act"} =>
       /\ recover[r].dest => dest # Missing
       /\ ~recover[r].dest /\ backup[t] # Missing => dest = Missing

HoldsInv == \A t \in Transfer : ExchangeInv(t) /\ \A r \in Recoverer : LookedInv(r, t)
ReplaceStep == [Replace!Next]_(Replace!vars)

LEMMA HeldIs ==
  ASSUME Single, NEW t \in Transfer
  PROVE  /\ Held = IF dest # Missing THEN dest ELSE backup[t]
         /\ Held' = IF dest' # Missing THEN dest' ELSE backup'[t]
<1>1. \A u \in Transfer : u = t
  BY DEF Single
<1>2. ASSUME backup[t] # Missing PROVE (CHOOSE u \in Transfer : backup[u] # Missing) = t
  BY <1>1, <1>2
<1>3. ASSUME backup'[t] # Missing PROVE (CHOOSE u \in Transfer : backup'[u] # Missing) = t
  BY <1>1, <1>3
<1>4. Held = IF dest # Missing THEN dest ELSE backup[t]
  BY <1>1, <1>2 DEF Held
<1>5. Held' = IF dest' # Missing THEN dest' ELSE backup'[t]
  BY <1>1, <1>3 DEF Held
<1> QED BY <1>4, <1>5

(* A step that leaves what is held, and reports nothing, is no step of     *)
(* AtomicReplace.                                                          *)
LEMMA HoldStep ==
  ASSUME Single, NEW t \in Transfer, push'[t] = "ok" <=> push[t] = "ok",
         \/ UNCHANGED dest /\ (backup'[t] = backup[t] \/ dest # Missing)
         \/ dest # Missing /\ dest' = Missing /\ backup'[t] = dest
         \/ dest = Missing /\ backup[t] # Missing /\ dest' = backup[t]
  PROVE  ReplaceStep
<1>1. Held' = Held
  BY HeldIs
<1>2. Reported' = Reported
  BY DEF Reported, Single
<1> QED BY <1>1, <1>2 DEF ReplaceStep, Replace!vars

(* The upload is put there.                                                *)
LEMMA PlaceStep ==
  ASSUME Single, NEW t \in Transfer, push'[t] = push[t], push[t] # "ok",
         dest = Missing, backup[t] # t, t # Missing, dest' = t
  PROVE  ReplaceStep
<1>1. Held # t /\ Held' = t
  BY HeldIs
<1>2. Reported' = Reported /\ t \notin Reported
  BY DEF Reported, Single
<1>3. Replace!Install(t)
  BY <1>1, <1>2 DEF Replace!Install
<1> QED BY <1>3 DEF ReplaceStep, Replace!Next

(* It is reported.                                                         *)
LEMMA ReportStep ==
  ASSUME Single, NEW t \in Transfer, push'[t] = "ok", dest = t, t # Missing,
         UNCHANGED <<dest, backup>>
  PROVE  ReplaceStep
<1>1. Held = t /\ Held' = t
  BY HeldIs
<1>2. Reported' = Reported \cup {t}
  BY DEF Reported, Single
<1>3. Replace!Report(t)
  BY <1>1, <1>2 DEF Replace!Report
<1> QED BY <1>3 DEF ReplaceStep, Replace!Next

(* A step of the push keeps what is held, puts the upload there, or        *)
(* reports it.                                                             *)
StillHeld(t) ==
    /\ push'[t] = "ok" <=> push[t] = "ok"
    /\ \/ UNCHANGED dest /\ (backup'[t] = backup[t] \/ dest # Missing)
       \/ dest # Missing /\ dest' = Missing /\ backup'[t] = dest
       \/ dest = Missing /\ backup[t] # Missing /\ dest' = backup[t]
Puts(t) == push'[t] = push[t] /\ push[t] # "ok" /\ dest = Missing /\ backup[t] # t /\ dest' = t
Reports(t) == push'[t] = "ok" /\ dest = t /\ UNCHANGED <<dest, backup>>
ExchangeStep(t) == ExchangeInv(t)' /\ (StillHeld(t) \/ Puts(t) \/ Reports(t))

LEMMA TransferStepExchange ==
  ASSUME NEW t \in Transfer, TypeOK, Trusted, TransferInv(t), ReadyInv(t), ExchangeInv(t),
         TransferStep(t)
  PROVE  ExchangeStep(t)
<1>0. t \notin {Missing, Old}
  BY TransferAssumption
<1> USE <1>0
    DEF TypeOK, Task, TransferInv, Owned, BackedUp, Counted, ReadyInv, ReadyPc, ExchangeInv,
        ExchangeStep, StillHeld, Puts, Reports, EarlyPc, PlacedPc, Working, TaskPc, CommitPc,
        InstallPc, PushState, Over, Present, At
<1>1. CASE BeginPush(t)
  BY <1>1 DEF BeginPush, files, NoTask
<1>2. CASE BeginOpen(t)
  BY <1>2 DEF BeginOpen, Goto
<1>3. CASE BeginPut(t)
  BY <1>3 DEF BeginPut, Answer, files, Pending, NoRow, NoTask
<1>4. CASE BeginFails(t)
  BY <1>4 DEF BeginFails, Answer, Mishap, files, Pending, NoTask
<1>5. CASE SendChunk(t)
  BY <1>5 DEF SendChunk, Goto, files
<1>6. CASE WriteChunk(t)
  BY <1>6 DEF WriteChunk, Goto, Answer, Pending, Received, NoTask
<1>7. CASE CountChunk(t)
  BY <1>7 DEF CountChunk, Answer, files, Pending, NoTask
<1>8. CASE SendCommit(t)
  BY <1>8 DEF SendCommit, Goto, files
<1>9. CASE CallFails(t)
  BY <1>9 DEF CallFails, files, Pending, NoTask
<1>10. CASE CommitClaim(t)
  <2>1. CASE Present(t) /\ ~rows[t].owner
    <3>0. task'[t].pc = "verify"
      <4>1. task'[t] = [NoTask EXCEPT !.pc = "verify", !.directory = rows[t].directory,
                                      !.overwrite = rows[t].overwrite]
        BY <1>10, <2>1 DEF CommitClaim
      <4> QED BY <4>1 DEF NoTask
    <3>1. UNCHANGED <<dest, backup, push>>
      BY <1>10, <2>1 DEF CommitClaim, files
    <3> QED BY <1>10, <3>0, <3>1 DEF CommitClaim
  <2>2. CASE ~(Present(t) /\ ~rows[t].owner)
    BY <1>10, <2>2 DEF CommitClaim, Answer, files, NoTask, Pending
  <2> QED BY <2>1, <2>2
<1>11. CASE CommitVerify(t)
  BY <1>11 DEF CommitVerify, Goto, files, Verified
<1>12. CASE CommitMkdir(t)
  BY <1>12 DEF CommitMkdir, Goto, Fails, Mishap
<1>13. CASE CommitNote(t)
  BY <1>13 DEF CommitNote, Goto, files, Note
<1>14. CASE CommitExtract(t)
  BY <1>14 DEF CommitExtract, Goto, Fails, Mishap, Note, Verified
<1>15. CASE Survey(t)
  BY <1>15 DEF Survey, files, ErrorPc
<1>16. CASE Record(t)
  BY <1>16 DEF Record, Goto, Fails, Mishap, files, ErrorPc, Note
<1>17. CASE MoveAway(t)
  BY <1>17 DEF MoveAway, Goto, Fails, Mishap, ErrorPc
<1>18. CASE MovedAway(t)
  BY <1>18 DEF MovedAway, files, Note
<1>19. CASE CheckAgain(t)
  BY <1>19 DEF CheckAgain, Goto, files, ErrorPc
<1>20. CASE Place(t)
  BY <1>20 DEF Place, Goto, Fails, Mishap
<1>21. CASE Placed(t)
  BY <1>21 DEF Placed, Goto, files, InstalledPc, Note
<1>22. CASE CleanUp(t)
  <2>0. InstalledPc(t) \in {"archive", "done"}
    BY DEF InstalledPc
  <2>1. task'[t].pc = InstalledPc(t)
    <3> DEFINE over == [task[t] EXCEPT !.pc = InstalledPc(t), !.moved = FALSE]
    <3>1. task' = [task EXCEPT ![t] = over] \/ Goto(t, InstalledPc(t))
      BY <1>22 DEF CleanUp, Fails
    <3>2. over.pc = InstalledPc(t)
      OBVIOUS
    <3>3. ASSUME task' = [task EXCEPT ![t] = over] PROVE task'[t].pc = over.pc
      <4> HIDE DEF over
      <4> QED BY <3>3
    <3>4. CASE Goto(t, InstalledPc(t))
      BY <3>4 DEF Goto
    <3> QED BY <3>1, <3>2, <3>3, <3>4
  <2>2. UNCHANGED <<dest, push, owner>> /\ backup'[t] \in {backup[t], Missing}
    BY <1>22 DEF CleanUp
  <2> QED BY <1>22, <2>0, <2>1, <2>2 DEF CleanUp
<1>23. CASE RemoveArchive(t)
  BY <1>23 DEF RemoveArchive, Goto, Fails, Mishap
<1>24. CASE CommitDone(t)
  BY <1>24 DEF CommitDone, Answer, files, Pending, Disown, NoRow, NoTask
<1>25. CASE RollBack(t)
  BY <1>25 DEF RollBack, Goto, files, ErrorPc
<1>26. CASE Restore(t)
  BY <1>26 DEF Restore, Goto, Fails, Mishap, ErrorPc
<1>27. CASE Restored(t)
  BY <1>27 DEF Restored, Goto, files, ErrorPc, Note
<1>28. CASE CommitDiscard(t)
  BY <1>28 DEF CommitDiscard, Goto, Fails, Mishap
<1>29. CASE CommitClose(t)
  BY <1>29 DEF CommitClose, Answer, files, Pending, Disown, NoTask
<1>30. CASE Crash(t)
  BY <1>30 DEF Crash, Mishap, files, NoTask, MayEnd
<1>31. CASE WorkerEnds(t)
  BY <1>31 DEF WorkerEnds, files, MayEnd
<1>32. CASE ReservationExpires(t)
  BY <1>32 DEF ReservationExpires, files, Over, Aged
<1> HIDE DEF TypeOK, Task, TransferInv, Owned, BackedUp, Counted, ReadyInv, ReadyPc, ExchangeInv,
        ExchangeStep, StillHeld, Puts, Reports, EarlyPc, PlacedPc, Working, TaskPc, CommitPc,
        InstallPc, PushState, Over, Present, At
<1> QED BY <1>1, <1>2, <1>3, <1>4, <1>5, <1>6, <1>7, <1>8, <1>9, <1>10, <1>11, <1>12, <1>13,
        <1>14, <1>15, <1>16, <1>17, <1>18, <1>19, <1>20, <1>21, <1>22, <1>23, <1>24, <1>25,
        <1>26, <1>27, <1>28, <1>29, <1>30, <1>31, <1>32
        DEF TransferStep, UploadStep, CommitStep

(* All that is known while one push is made.                              *)
PushInv == CommitInv /\ WholeInv /\ HoldsInv

LEMMA TransferStepHolds ==
  ASSUME Single, Trusted, PushInv, NEW t \in Transfer, TransferStep(t)
  PROVE  HoldsInv' /\ ReplaceStep
<1>0. \A u \in Transfer : u = t
  BY DEF Single
<1>1. /\ TypeOK /\ TransferInv(t) /\ ReadyInv(t) /\ ExchangeInv(t)
      /\ dest \in Whole /\ backup[t] \in Whole
  BY DEF PushInv, CommitInv, TransfersInv, WholeInv, HoldsInv
<1>2. ExchangeStep(t) /\ StepKeepsWhole(t) /\ Alone(t)
  BY <1>1, TransferStepExchange, TransferStepWhole, TransferStepAlone
<1>3. ASSUME NEW r \in Recoverer PROVE LookedInv(r, t)'
  <2>1. recover' = recover /\ LookedInv(r, t)
    BY <1>2 DEF Alone, PushInv, HoldsInv
  <2>2. Recovering(r, t) => UNCHANGED <<dest, backup>>
    BY <1>2 DEF StepKeepsWhole, PushInv, CommitInv, RecoveriesInv, RecoverInv, Settled, Ended
  <2> QED BY <2>1, <2>2 DEF LookedInv, Recovering
<1>4. HoldsInv'
  BY <1>0, <1>2, <1>3 DEF HoldsInv, ExchangeStep
<1>5. ReplaceStep
  <2>1. CASE StillHeld(t)
    BY <2>1, HoldStep DEF StillHeld
  <2>2. t # Missing
    BY TransferAssumption
  <2>3. CASE Puts(t)
    BY <2>2, <2>3, PlaceStep DEF Puts
  <2>4. CASE Reports(t)
    BY <2>2, <2>4, ReportStep DEF Reports
  <2> QED BY <1>2, <2>1, <2>3, <2>4 DEF ExchangeStep
<1> QED BY <1>4, <1>5

LEMMA RecovererStepHolds ==
  ASSUME Single, Trusted, PushInv, NEW r \in Recoverer, RecovererStep(r), NEW t \in Transfer
  PROVE  HoldsInv' /\ ReplaceStep
<1>0. \A u \in Transfer : u = t
  BY DEF Single
<1>1. /\ CommitInv /\ TypeOK /\ TransferInv(t) /\ ExchangeInv(t)
      /\ \A q \in Recoverer : LookedInv(q, t)
  BY DEF PushInv, CommitInv, TransfersInv, HoldsInv
<1>2. Clears(r) /\ Takes(r)
  BY <1>1, RecovererStepClears, RecovererStepTakes
<1>3. recover[r].pc = "act" => Item(r) = t /\ Recovering(r, t)
  BY <1>0, <1>1, ItemSettled DEF Recovering, Item
<1>4. \/ UNCHANGED <<dest, backup>>
      \/ Recovering(r, t) /\ dest # Missing /\ UNCHANGED dest /\ backup'[t] = Missing
      \/ /\ Recovering(r, t) /\ dest = Missing /\ backup[t] # Missing
         /\ dest' = backup[t] /\ backup'[t] = Missing
  BY <1>1, <1>2, <1>3 DEF Clears, LookedInv, TypeOK
<1>5. Recovering(r, t) => Ended(t)
  BY <1>1 DEF CommitInv, RecoveriesInv, RecoverInv, Settled
<1>6. task' = task /\ owner' = owner /\ (push'[t] = "ok" <=> push[t] = "ok")
  BY <1>2 DEF Takes
<1>7. ExchangeInv(t)'
  <2>1. CASE UNCHANGED <<dest, backup>>
    BY <1>1, <1>6, <2>1 DEF ExchangeInv, At
  <2>2. CASE Recovering(r, t) /\ dest # Missing /\ UNCHANGED dest /\ backup'[t] = Missing
    BY <1>1, <1>6, <2>2 DEF ExchangeInv, At
  <2>3. CASE Recovering(r, t) /\ dest = Missing /\ backup[t] # Missing /\ dest' = backup[t]
             /\ backup'[t] = Missing
    <3>1. dest' = Old
      BY <1>1, <2>3 DEF ExchangeInv
    <3>2. t # Old /\ t # Missing
      BY TransferAssumption
    <3>3. Old # Missing
      BY DEF Old, Missing
    <3>4. ~Working(t)
      BY <1>5, <2>3 DEF Ended
    <3> QED BY <1>1, <1>6, <2>3, <3>1, <3>2, <3>3, <3>4
            DEF ExchangeInv, At, Working, CommitPc, InstallPc
  <2> QED BY <1>4, <2>1, <2>2, <2>3
<1>8. ASSUME NEW q \in Recoverer PROVE LookedInv(q, t)'
  <2>1. CASE q # r
    <3>1. recover'[q] = recover[q] /\ LookedInv(q, t)
      BY <1>1, <1>2, <2>1 DEF Takes
    <3> QED BY <1>4, <3>1 DEF LookedInv, Recovering
  <2>2. CASE q = r
    <3> SUFFICES ASSUME Recovering(r, t)', recover'[r].pc \in {"backup", "act"}
                 PROVE  /\ recover'[r].dest => dest' # Missing
                        /\ ~recover'[r].dest /\ backup'[t] # Missing => dest' = Missing
      BY <2>2 DEF LookedInv
    <3>1. LookDest(r) \/ LookBackup(r) \/ recover'[r] = recover[r]
      <4>0. recover \in [Recoverer -> Recovery]
        BY <1>1 DEF TypeOK
      <4>1. ASSUME NEW u \in Transfer, Leave(r, u) PROVE FALSE
        BY <4>0, <4>1 DEF Leave, NoRecovery
      <4>2. ASSUME NEW pc \in {"clear", "drop"}, Step(r, pc) PROVE FALSE
        BY <4>0, <4>2 DEF Step
      <4>3. ASSUME NEW u \in Transfer, Finish(r, u) PROVE recover'[r] = recover[r]
        BY <4>0, <4>3 DEF Finish, NoRecovery
      <4>4. ASSUME NEW u \in Transfer PROVE ~SkipItem(r, u)
        BY <4>1 DEF SkipItem
      <4>5. ASSUME NEW u \in Transfer PROVE ~TakeItem(r, u)
        <5>1. ASSUME recover' = [recover EXCEPT ![r].pc = "dest", ![r].item = u] PROVE FALSE
          <6>1. recover'[r] = [recover[r] EXCEPT !.pc = "dest", !.item = u]
            BY <4>0, <5>1
          <6>2. recover'[r].pc = "dest"
            BY <4>0, <6>1 DEF Recovery
          <6> QED BY <6>2
        <5> QED BY <4>1, <5>1 DEF TakeItem
      <4>6. ~Sweep(r) /\ ~RecoverEnd(r) /\ ~RecovererCrash(r)
        <5>1. ASSUME Sweep(r) PROVE FALSE
          <6>1. recover'[r].pc = "items"
            BY <4>0, <5>1 DEF Sweep, NoRecovery
          <6> QED BY <6>1
        <5>2. ASSUME RecoverEnd(r) \/ RecovererCrash(r) PROVE FALSE
          <6>1. recover'[r].pc = "idle"
            BY <4>0, <5>2 DEF RecoverEnd, RecovererCrash, NoRecovery
          <6> QED BY <6>1
        <5> QED BY <5>1, <5>2
      <4>7. ~RecoverRefuse(r) /\ ~RecoverRestore(r) /\ ~RecoverRemove(r) /\ ~RecoverNothing(r)
            /\ ~RecoverClear(r) /\ ~RecoverDrop(r)
        <5>1. recover[r].pc \in {"act", "clear", "drop"} => Item(r) \in Transfer
          BY <1>1, ItemSettled
        <5> QED BY <4>1, <4>2, <5>1 DEF RecoverRefuse, RecoverRestore, RecoverRemove,
               RecoverNothing, RecoverClear, RecoverDrop, LeaveFailed
      <4> QED BY <4>3, <4>4, <4>5, <4>6, <4>7 DEF RecovererStep, RecoverStep
    <3>2. CASE LookDest(r)
      <4>1. recover'[r].dest = (dest # Missing) /\ UNCHANGED <<dest, backup>>
        <5>1. recover'[r] = [recover[r] EXCEPT !.pc = "backup", !.dest = dest # Missing]
          BY <1>1, <3>2 DEF LookDest, TypeOK
        <5>2. recover[r] \in Recovery
          BY <1>1 DEF TypeOK
        <5> QED BY <3>2, <5>1, <5>2 DEF LookDest, files, Recovery
      <4> QED BY <4>1
    <3>3. CASE LookBackup(r)
      <4>1. /\ recover[r].pc = "backup" /\ recover'[r].dest = recover[r].dest
            /\ recover'[r].item = recover[r].item /\ UNCHANGED <<dest, backup>>
        <5> DEFINE there == Seen(r).backup /\ backup[Item(r)] # Missing
        <5>1. recover'[r] = [recover[r] EXCEPT !.pc = "act", !.backup = there]
          BY <1>1, <3>3 DEF LookBackup, TypeOK
        <5>2. recover[r] \in Recovery
          BY <1>1 DEF TypeOK
        <5> HIDE DEF there
        <5>3. recover'[r].dest = recover[r].dest /\ recover'[r].item = recover[r].item
          BY <5>1, <5>2 DEF Recovery
        <5> QED BY <3>3, <5>3 DEF LookBackup, files
      <4> QED BY <1>1, <4>1 DEF LookedInv, Recovering
    <3>4. CASE recover'[r] = recover[r]
      BY <1>1, <1>4, <3>4 DEF LookedInv, Recovering
    <3> QED BY <3>1, <3>2, <3>3, <3>4
  <2> QED BY <2>1, <2>2
<1>9. HoldsInv'
  BY <1>0, <1>7, <1>8 DEF HoldsInv
<1>10. ReplaceStep
  BY <1>4, <1>6, HoldStep
<1> QED BY <1>9, <1>10

LEMMA HoldsInvStep ==
  Single /\ Trusted /\ PushInv /\ [Next]_vars => HoldsInv' /\ ReplaceStep
<1> SUFFICES ASSUME Single, Trusted, PushInv, [Next]_vars PROVE HoldsInv' /\ ReplaceStep
  OBVIOUS
<1>1. ASSUME NEW t \in Transfer, TransferStep(t) PROVE HoldsInv' /\ ReplaceStep
  BY <1>1, TransferStepHolds
<1>2. ASSUME NEW r \in Recoverer, RecovererStep(r) PROVE HoldsInv' /\ ReplaceStep
  <2>1. CASE Transfer # {}
    BY <1>2, <2>1, RecovererStepHolds
  <2>2. CASE Transfer = {}
    <3>1. Clears(r)
      BY <1>2, RecovererStepClears DEF PushInv
    <3>2. UNCHANGED dest
      BY <2>2, <3>1, ItemSettled DEF Clears, PushInv
    <3>3. Held = dest /\ Held' = dest' /\ Reported = {} /\ Reported' = {}
      BY <2>2 DEF Held, Reported
    <3> QED BY <2>2, <3>2, <3>3 DEF HoldsInv, ReplaceStep, Replace!vars
  <2> QED BY <2>1, <2>2
<1>3. CASE UNCHANGED vars
  <2>1. HoldsInv'
    BY <1>3 DEF vars, PushInv, HoldsInv, ExchangeInv, LookedInv, Recovering, At
  <2>2. Held' = Held /\ Reported' = Reported
    BY <1>3 DEF vars, Held, Reported
  <2> QED BY <2>1, <2>2 DEF ReplaceStep, Replace!vars
<1> QED BY <1>1, <1>2, <1>3 DEF Next, TransferStep, RecovererStep

LEMMA HoldsInvInit == Init => HoldsInv /\ Replace!Init
<1> SUFFICES ASSUME Init PROVE HoldsInv /\ Replace!Init
  OBVIOUS
<1>1. \A t \in Transfer : /\ task[t].pc = "none" /\ backup[t] = Missing /\ push[t] = "idle"
                          /\ t \notin {Missing, Old}
  BY TransferAssumption DEF Init, NoTask
<1>2. \A r \in Recoverer : recover[r].pc = "idle"
  BY DEF Init, NoRecovery
<1>3. HoldsInv
  BY <1>1, <1>2 DEF Init, HoldsInv, ExchangeInv, LookedInv, Recovering, At
<1>4. Held = dest /\ Reported = {}
  BY <1>1 DEF Held, Reported
<1> QED BY <1>3, <1>4 DEF Init, Replace!Init

(* One push, whatever crashes and fails on its way and however many        *)
(* recoveries look at it, implements AtomicReplace: the destination holds, *)
(* or can be given back, what it held or the whole upload, which is put    *)
(* there once, not taken back, and reported only when it is there          *)
(* (installPath, commitPush, recoverOrRemove).                             *)
THEOREM PushReplacesAtomically ==
  ASSUME Trusted, Single
  PROVE  Spec => AtomicExchange
<1>1. CommitInv /\ WholeInv /\ [Next]_vars => WholeInv'
  BY WholeInvStep
<1>2. CommitInv /\ WholeInv /\ HoldsInv /\ [Next]_vars => HoldsInv' /\ ReplaceStep
  BY HoldsInvStep DEF PushInv
<1>3. Spec => Replace!Init /\ [][Replace!Next]_(Replace!vars)
  BY <1>1, <1>2, WholeInvInit, HoldsInvInit, CommitInvariant, PTL DEF Spec, ReplaceStep
<1> QED BY <1>3 DEF AtomicExchange, Replace!Spec

-----------------------------------------------------------------------------
(* Pulling. The variables have their types, step by step.                  *)

LEMMA ReadingTypes ==
    /\ Blank \in Reading
    /\ \A f \in Reading, k \in Part, n \in Nat : [f EXCEPT ![k] = n] \in Reading
  BY DEF Blank, Reading

LEMMA OpeningTypes ==
    /\ NoOpening \in Opening
    /\ \A o \in Opening :
          /\ o.pc \in OpeningPc /\ o.directory \in BOOLEAN /\ o.at \in 0 .. Parts
          /\ o.read \in Reading /\ o.sum \in Reading
          /\ \A pc \in OpeningPc : [o EXCEPT !.pc = pc] \in Opening
          /\ \A pc \in OpeningPc, d \in BOOLEAN :
                [o EXCEPT !.pc = pc, !.directory = d] \in Opening
          /\ \A pc \in OpeningPc, s \in Reading :
                [o EXCEPT !.pc = pc, !.at = 0, !.sum = s] \in Opening
          /\ \A k \in Part, n \in Nat : [o EXCEPT !.at = k, !.read[k] = n] \in Opening
<1>1. NoOpening \in Opening
  BY ReadingTypes, PullAssumption DEF NoOpening, Opening, OpeningPc
<1>2. ASSUME NEW o \in Opening
      PROVE  /\ o.pc \in OpeningPc /\ o.directory \in BOOLEAN /\ o.at \in 0 .. Parts
             /\ o.read \in Reading /\ o.sum \in Reading
  BY <1>2 DEF Opening
<1>3. ASSUME NEW o \in Opening, NEW pc \in OpeningPc PROVE [o EXCEPT !.pc = pc] \in Opening
  BY <1>3 DEF Opening
<1>4. ASSUME NEW o \in Opening, NEW pc \in OpeningPc, NEW d \in BOOLEAN
      PROVE  [o EXCEPT !.pc = pc, !.directory = d] \in Opening
  BY <1>4 DEF Opening
<1>5. ASSUME NEW o \in Opening, NEW pc \in OpeningPc, NEW s \in Reading
      PROVE  [o EXCEPT !.pc = pc, !.at = 0, !.sum = s] \in Opening
  <2>1. 0 \in 0 .. Parts
    BY PullAssumption
  <2> QED BY <1>5, <2>1 DEF Opening
<1>6. ASSUME NEW o \in Opening, NEW k \in Part, NEW n \in Nat
      PROVE  [o EXCEPT !.at = k, !.read[k] = n] \in Opening
  <2>1. [o.read EXCEPT ![k] = n] \in Reading /\ k \in 0 .. Parts
    BY <1>2, <1>6, ReadingTypes, PullAssumption DEF Part
  <2>2. [o EXCEPT !.at = k, !.read = [o.read EXCEPT ![k] = n]] \in Opening
    BY <2>1 DEF Opening
  <2> QED BY <2>2, <2>1
<1> QED BY <1>1, <1>2, <1>3, <1>4, <1>5, <1>6

LEMMA MacTypes ==
    \A m \in Mac :
       /\ m.pc \in MacPc /\ m.directory \in BOOLEAN /\ m.overwrite \in BOOLEAN
       /\ m.at \in 0 .. Parts /\ m.got \in Reading /\ m.told.digest \in Reading
       /\ m.told.sum \in Reading /\ m.moved \in BOOLEAN /\ m.stuck \in BOOLEAN
       /\ \A pc \in MacPc : [m EXCEPT !.pc = pc] \in Mac
       /\ \A pc \in MacPc, d, o \in BOOLEAN :
             [m EXCEPT !.pc = pc, !.directory = d, !.overwrite = o] \in Mac
       /\ \A pc \in MacPc, d, s \in Reading :
             [m EXCEPT !.pc = pc, !.told = [digest |-> d, sum |-> s]] \in Mac
       /\ \A pc \in MacPc : [m EXCEPT !.pc = pc, !.moved = TRUE] \in Mac
       /\ \A pc \in MacPc : [m EXCEPT !.pc = pc, !.stuck = TRUE] \in Mac
       /\ \A k \in Part, n \in Nat : [m EXCEPT !.at = k, !.got[k] = n] \in Mac
<1>1. ASSUME NEW m \in Mac
      PROVE  /\ m.pc \in MacPc /\ m.directory \in BOOLEAN /\ m.overwrite \in BOOLEAN
             /\ m.at \in 0 .. Parts /\ m.got \in Reading /\ m.told.digest \in Reading
             /\ m.told.sum \in Reading /\ m.moved \in BOOLEAN /\ m.stuck \in BOOLEAN
  BY <1>1 DEF Mac, Announced
<1>2. ASSUME NEW m \in Mac, NEW pc \in MacPc
      PROVE  /\ [m EXCEPT !.pc = pc] \in Mac
             /\ \A d, o \in BOOLEAN :
                   [m EXCEPT !.pc = pc, !.directory = d, !.overwrite = o] \in Mac
             /\ [m EXCEPT !.pc = pc, !.moved = TRUE] \in Mac
             /\ [m EXCEPT !.pc = pc, !.stuck = TRUE] \in Mac
  BY <1>2 DEF Mac
<1>3. ASSUME NEW m \in Mac, NEW pc \in MacPc, NEW d \in Reading, NEW s \in Reading
      PROVE  [m EXCEPT !.pc = pc, !.told = [digest |-> d, sum |-> s]] \in Mac
  BY <1>3 DEF Mac, Announced
<1>4. ASSUME NEW m \in Mac, NEW k \in Part, NEW n \in Nat
      PROVE  [m EXCEPT !.at = k, !.got[k] = n] \in Mac
  <2>1. [m.got EXCEPT ![k] = n] \in Reading /\ k \in 0 .. Parts
    BY <1>1, <1>4, ReadingTypes, PullAssumption DEF Part
  <2>2. [m EXCEPT !.at = k, !.got = [m.got EXCEPT ![k] = n]] \in Mac
    BY <2>1 DEF Mac
  <2> QED BY <2>2, <2>1
<1> QED BY <1>1, <1>2, <1>3, <1>4

LEMMA PullTypesBegin == PullInit => PullTypeOK
<1>1. ASSUME PullInit PROVE PullTypeOK
  <2>1. NoArchive \in Archive /\ NoMac \in Mac /\ destination \in Entry /\ Nothing \in Entry
    BY <1>1, ReadingTypes, PullAssumption DEF PullInit, NoArchive, Archive, NoMac, Mac, MacPc,
       Announced, Entry, Nothing
  <2> QED BY <1>1, <2>1, OpeningTypes, ReadingTypes DEF PullInit, PullTypeOK, Unlisted
<1> QED BY <1>1

(* A step of a pull's handler, or of its removal.                          *)
WorkerStep(p) ==
    \/ OpeningStep(p) \/ ListFails(p) \/ PackFails(p) \/ WorkerDies(p)
    \/ SweepRow(p) \/ SweepSlow(p) \/ Clearing(p) \/ BookingExpires(p)
LocalStep(p) == MacStep(p) \/ CallLost(p) \/ MacDies(p)

LEMMA ReadTypes ==
  ASSUME PullTypeOK, NEW p \in Pull, NEW pc \in OpeningPc, ReadsPart(p, pc)
  PROVE  /\ opening' \in [Pull -> Opening]
         /\ opening[p].at + 1 \in Part /\ opening'[p].read \in Reading
<1>1. opening[p] \in Opening /\ opening[p].at \in 0 .. Parts
  BY OpeningTypes DEF PullTypeOK
<1>2. opening[p].at + 1 \in Part /\ source[opening[p].at + 1] \in Nat
  <2>1. opening[p].at < Parts
    BY DEF ReadsPart
  <2>2. opening[p].at + 1 \in Part
    BY <1>1, <2>1, PullAssumption DEF Part
  <2> QED BY <2>2 DEF PullTypeOK, Reading
<1>3. opening' \in [Pull -> Opening]
  BY <1>1, <1>2, OpeningTypes DEF ReadsPart, PullTypeOK
<1> QED BY <1>2, <1>3, OpeningTypes

LEMMA ReplyTypes ==
  ASSUME PullTypeOK, NEW p \in Pull, NEW m \in Mac, Reply(p, m)
  PROVE  mac' \in [Pull -> Mac]
  BY DEF Reply, PullTypeOK

LEMMA RefusedTypes ==
  ASSUME PullTypeOK, NEW p \in Pull
  PROVE  /\ Refused(p) \in Mac
         /\ \A digest, sum \in Reading : Accepted(p, digest, sum) \in Mac
<1>1. mac[p] \in Mac /\ "failed" \in MacPc /\ "download" \in MacPc
  BY DEF PullTypeOK, MacPc, Returned
<1> QED BY <1>1, MacTypes DEF Refused, Accepted

LEMMA WorkerTypes ==
  ASSUME PullTypeOK, NEW p \in Pull, WorkerStep(p)
  PROVE  PullTypeOK'
<1> DEFINE Rest == /\ source' \in Reading /\ edits' \in Nat
                   /\ held' \in [Pull -> SUBSET Reading] /\ destination' \in Entry
                   /\ staged' \in [Pull -> {"none", "partial", "whole"}]
                   /\ aside' \in [Pull -> Entry] /\ setbacks' \in Nat
<1>1. Rest
  BY DEF WorkerStep, OpeningStep, Clearing, PullTypeOK, List, PutFile, Reserve, Pack,
     PutDirectory, DropArchive, ListFails, PackFails, WorkerDies, SweepRow, SweepSlow,
     SweepOrphan, RemovePacked,
     RemoveRow, BookingExpires, sourceVars, localVars, Setback
<1>2. opening[p] \in Opening /\ archive[p] \in Archive /\ NoArchive \in Archive
  BY ReadingTypes DEF PullTypeOK, NoArchive, Archive
<1>3. /\ opening[p].read \in Reading /\ opening[p].sum \in Reading
      /\ archive[p].data \in Reading /\ opening[p].at \in 0 .. Parts
       /\ archive[p].state \in {"none", "partial", "whole"}
  BY <1>2, OpeningTypes DEF Archive
<1>4. NoOpening \in Opening /\ {"tar", "drop", "list"} \subseteq OpeningPc
  BY OpeningTypes DEF OpeningPc
<1>5. CASE List(p)
  BY <1>1, <1>4, <1>5, ReadTypes DEF List, PullTypeOK
<1>6. CASE PutFile(p)
  <2>1. mac' \in [Pull -> Mac]
    BY <1>3, <1>6, ReplyTypes, RefusedTypes DEF PutFile
  <2> QED BY <1>1, <1>4, <1>6, <2>1 DEF PutFile, PullTypeOK
<1>7. CASE Reserve(p)
  <2>1. mac' \in [Pull -> Mac]
    BY <1>7, ReplyTypes, RefusedTypes DEF Reserve, PullTypeOK
  <2>2. opening' \in [Pull -> Opening]
    <3>1. [opening[p] EXCEPT !.pc = "tar", !.at = 0, !.sum = opening[p].read] \in Opening
      BY <1>2, <1>3, <1>4, OpeningTypes
    <3>2. \E o \in Opening : opening' = [opening EXCEPT ![p] = o]
      BY <1>4, <1>7, <3>1 DEF Reserve
    <3> QED BY <3>2 DEF PullTypeOK
  <2> QED BY <1>1, <1>7, <2>1, <2>2 DEF Reserve, PullTypeOK
<1>8. CASE Pack(p)
  <2>1. opening' \in [Pull -> Opening] /\ opening'[p].read \in Reading
    BY <1>4, <1>8, ReadTypes DEF Pack
  <2>2. archive' \in [Pull -> Archive]
    BY <1>2, <1>8, <2>1 DEF Pack, Archive, PullTypeOK
  <2> QED BY <1>1, <1>8, <2>1, <2>2 DEF Pack, PullTypeOK
<1>9. CASE PutDirectory(p)
  <2>1. mac' \in [Pull -> Mac]
    BY <1>3, <1>9, ReplyTypes, RefusedTypes DEF PutDirectory
  <2> QED BY <1>1, <1>4, <1>9, <2>1 DEF PutDirectory, PullTypeOK
<1>10. CASE DropArchive(p)
  <2>1. mac' \in [Pull -> Mac]
    BY <1>10, ReplyTypes, RefusedTypes DEF DropArchive
  <2>2. opening' \in [Pull -> Opening] /\ archive' \in [Pull -> Archive]
    BY <1>2, <1>4, <1>10 DEF DropArchive, PullTypeOK
  <2>3. booked' \in SUBSET Pull /\ listed' = listed /\ removal' = removal
    BY <1>10 DEF DropArchive, PullTypeOK
  <2> QED BY <1>1, <2>1, <2>2, <2>3 DEF PullTypeOK
<1>11. CASE ListFails(p)
  <2>1. mac' \in [Pull -> Mac]
    BY <1>11, ReplyTypes, RefusedTypes DEF ListFails
  <2> QED BY <1>1, <1>4, <1>11, <2>1 DEF ListFails, PullTypeOK
<1>12. CASE PackFails(p)
  <2>1. opening' \in [Pull -> Opening]
    BY <1>2, <1>4, <1>12, OpeningTypes DEF PackFails, PullTypeOK
  <2> QED BY <1>1, <1>12, <2>1 DEF PackFails, PullTypeOK
<1>13. CASE WorkerDies(p)
  BY <1>1, <1>4, <1>13 DEF WorkerDies, PullTypeOK
<1>14. CASE SweepRow(p) \/ SweepSlow(p) \/ Clearing(p) \/ BookingExpires(p)
  <2>1. mac' \in [Pull -> Mac] /\ opening' \in [Pull -> Opening]
    BY <1>14 DEF SweepRow, SweepSlow, Clearing, SweepOrphan, RemovePacked, RemoveRow,
       BookingExpires, PullTypeOK
  <2>2. archive' \in [Pull -> Archive]
    BY <1>2, <1>14 DEF SweepRow, SweepSlow, Clearing, SweepOrphan, RemovePacked, RemoveRow,
       BookingExpires, PullTypeOK
  <2>3. listed' \in [Pull -> [present : BOOLEAN, directory : BOOLEAN]]
    <3>1. Unlisted \in [present : BOOLEAN, directory : BOOLEAN]
      BY DEF Unlisted
    <3> QED BY <1>14, <3>1 DEF SweepRow, SweepSlow, Clearing, SweepOrphan, RemovePacked,
               RemoveRow, BookingExpires, PullTypeOK
  <2>4. booked' \in SUBSET Pull
    BY <1>14 DEF SweepRow, SweepSlow, Clearing, SweepOrphan, RemovePacked, RemoveRow,
       BookingExpires, PullTypeOK
  <2>5. removal' \in [Pull -> {"none", "archive", "row"}]
    BY <1>14 DEF SweepRow, SweepSlow, Clearing, SweepOrphan, RemovePacked, RemoveRow,
       BookingExpires, PullTypeOK
  <2> QED BY <1>1, <2>1, <2>2, <2>3, <2>4, <2>5 DEF PullTypeOK
<1> QED BY <1>5, <1>6, <1>7, <1>8, <1>9, <1>10, <1>11, <1>12, <1>13, <1>14
        DEF WorkerStep, OpeningStep

LEMMA LocalTypes ==
  ASSUME PullTypeOK, NEW p \in Pull, LocalStep(p)
  PROVE  PullTypeOK'
<1>1. /\ source' \in Reading /\ edits' \in Nat /\ held' \in [Pull -> SUBSET Reading]
      /\ opening' \in [Pull -> Opening] /\ archive' \in [Pull -> Archive]
      /\ listed' \in [Pull -> [present : BOOLEAN, directory : BOOLEAN]]
      /\ booked' \in SUBSET Pull /\ setbacks' \in Nat
  BY DEF LocalStep, MacStep, PullTypeOK, CallLost, MacDies, MacFails, ReadChunk,
     VerifyDownload, NoAnswer, StageFile, InstallFile, Unlink, Unpack, Extract, Look,
     MoveAside, PlaceDirectory, LookAgain,
     PutBack, Discard, Unstage, AskFinish, sourceVars, workerVars, Setback
<1>2. removal' \in [Pull -> {"none", "archive", "row"}]
  BY DEF LocalStep, MacStep, PullTypeOK, CallLost, MacDies, MacFails, ReadChunk,
     VerifyDownload, NoAnswer, StageFile, InstallFile, Unlink, Unpack, Extract, Look,
     MoveAside, PlaceDirectory, LookAgain,
     PutBack, Discard, Unstage, AskFinish, workerVars
<1>3. staged' \in [Pull -> {"none", "partial", "whole"}]
  BY DEF LocalStep, MacStep, PullTypeOK, CallLost, MacDies, MacFails, ReadChunk,
     VerifyDownload, NoAnswer, StageFile, InstallFile, Unlink, Unpack, Extract, Look,
     MoveAside, PlaceDirectory, LookAgain,
     PutBack, Discard, Unstage, AskFinish, localVars
<1>4. destination' \in Entry /\ aside' \in [Pull -> Entry]
  <2>1. Own(p) \in Entry /\ Nothing \in Entry /\ aside[p] \in Entry
    BY DEF Own, Nothing, Entry, PullTypeOK
  <2> QED
  BY <2>1 DEF LocalStep, MacStep, PullTypeOK, CallLost, MacDies, MacFails, ReadChunk,
     VerifyDownload, NoAnswer, StageFile, InstallFile, Unlink, Unpack, Extract, Look,
     MoveAside, PlaceDirectory, LookAgain,
     PutBack, Discard, Unstage, AskFinish, localVars
<1>5. mac' \in [Pull -> Mac]
  <2>1. mac[p] \in Mac /\ mac[p].at \in 0 .. Parts
    BY MacTypes DEF PullTypeOK
  <2>2. ASSUME NEW pc \in MacPc, MacGoes(p, pc) PROVE mac' \in [Pull -> Mac]
    BY <2>1, <2>2, MacTypes DEF MacGoes, PullTypeOK
  <2>3. CASE ReadChunk(p)
    <3> DEFINE k == mac[p].at + 1
               data == IF listed[p].directory THEN archive[p].data ELSE source
    <3>1. k \in Part /\ "abandon" \in MacPc
      BY <2>1, <2>3, PullAssumption DEF ReadChunk, Part, MacPc
    <3>2. data[k] \in Nat
      BY <3>1 DEF PullTypeOK, Archive, Reading
    <3>3. /\ [mac[p] EXCEPT !.at = k, !.got[k] = data[k]] \in Mac
          /\ [mac[p] EXCEPT !.pc = "abandon"] \in Mac
      BY <2>1, <3>1, <3>2, MacTypes
    <3> HIDE DEF k, data
    <3>4. \E m \in Mac : mac' = [mac EXCEPT ![p] = m]
      BY <2>3, <3>3 DEF ReadChunk, k, data
    <3> QED BY <3>4 DEF PullTypeOK
  <2>4. CASE MoveAside(p) \/ PutBack(p)
    <3>1. "place" \in MacPc /\ "unstage" \in MacPc
      BY DEF MacPc
    <3>2. /\ [mac[p] EXCEPT !.pc = "place", !.moved = TRUE] \in Mac
          /\ [mac[p] EXCEPT !.pc = "unstage", !.stuck = TRUE] \in Mac
      BY <2>1, <3>1, MacTypes
    <3>3. MacGoes(p, "unstage") \/ \E m \in Mac : mac' = [mac EXCEPT ![p] = m]
      BY <2>4, <3>2 DEF MoveAside, PutBack, MacFails
    <3> QED BY <2>2, <3>1, <3>3 DEF PullTypeOK
  <2>5. ASSUME ~ReadChunk(p), ~MoveAside(p), ~PutBack(p) PROVE \E pc \in MacPc : MacGoes(p, pc)
    BY <2>5 DEF LocalStep, MacStep, CallLost, MacDies, MacFails, VerifyDownload, NoAnswer,
       StageFile, InstallFile, Unlink, Unpack, Extract, Look, PlaceDirectory, LookAgain,
       Discard, Unstage, AskFinish, CatchPc, MacPc, Returned
  <2> QED BY <2>2, <2>3, <2>4, <2>5
<1> QED BY <1>1, <1>2, <1>3, <1>4, <1>5 DEF PullTypeOK

LEMMA PullTypesKept == PullTypeOK /\ [PullNext]_pullVars => PullTypeOK'
<1> SUFFICES ASSUME PullTypeOK, [PullNext]_pullVars PROVE PullTypeOK'
  OBVIOUS
<1>1. CASE Edit
  <2>1. source' \in Reading
    BY <1>1, ReadingTypes DEF Edit, PullTypeOK, Reading
  <2>2. held' \in [Pull -> SUBSET Reading]
    <3>1. \A p \in Pull : held[p] \cup {source'} \in SUBSET Reading
      BY <2>1 DEF PullTypeOK
    <3>2. held' = [p \in Pull |-> held[p] \cup {source'}]
      BY <1>1 DEF Edit
    <3> QED BY <3>1, <3>2
  <2>3. edits' \in Nat
    BY <1>1 DEF Edit, PullTypeOK
  <2> QED BY <1>1, <2>1, <2>2, <2>3 DEF Edit, PullTypeOK, workerVars, localVars
<1>2. CASE OtherCreates
  BY <1>2 DEF OtherCreates, PullTypeOK, Entry, Setback, sourceVars, workerVars
<1>3. ASSUME NEW p \in Pull, Invoke(p) PROVE PullTypeOK'
  <2>1. mac[p] \in Mac /\ opening[p] \in Opening /\ "begin" \in MacPc /\ "list" \in OpeningPc
    BY DEF PullTypeOK, MacPc, OpeningPc
  <2>2. mac' \in [Pull -> Mac]
    <3>1. \A d, o \in BOOLEAN :
             [mac[p] EXCEPT !.pc = "begin", !.directory = d, !.overwrite = o] \in Mac
      BY <2>1, MacTypes
    <3>2. \E m \in Mac : mac' = [mac EXCEPT ![p] = m]
      BY <1>3, <3>1 DEF Invoke
    <3> QED BY <3>2 DEF PullTypeOK
  <2>3. opening' \in [Pull -> Opening]
    <3>1. \A d \in BOOLEAN : [opening[p] EXCEPT !.pc = "list", !.directory = d] \in Opening
      BY <2>1, OpeningTypes
    <3>2. \E o \in Opening : opening' = [opening EXCEPT ![p] = o]
      BY <1>3, <3>1 DEF Invoke
    <3> QED BY <3>2 DEF PullTypeOK
  <2> QED BY <1>3, <2>2, <2>3 DEF Invoke, PullTypeOK, localVars
<1>4. ASSUME NEW p \in Pull, WorkerStep(p) \/ LocalStep(p) PROVE PullTypeOK'
  BY <1>4, WorkerTypes, LocalTypes
<1>5. CASE UNCHANGED pullVars
  BY <1>5 DEF PullTypeOK, pullVars, sourceVars, workerVars, localVars
<1> QED BY <1>1, <1>2, <1>3, <1>4, <1>5 DEF PullNext, WorkerStep, LocalStep

(* The variables of the pulls have their types.                            *)
THEOREM PullTypeCorrect == PullSpec => []PullTypeOK
<1> QED BY PullTypesBegin, PullTypesKept, PTL DEF PullSpec

-----------------------------------------------------------------------------
(* What a pull installs has been there: a version of the source between    *)
(* the first reading and the second.                                       *)

Version(first, second, n, now, S) ==
    \A k \in Part : first[k] <= S[k] /\ S[k] <= now[k] /\ (k <= n => S[k] <= second[k])

(* Some version of the source lies after all of the first reading and      *)
(* before the parts up to n of the second.                                 *)
Caught(versions, now, first, second, n) == \E S \in versions : Version(first, second, n, now, S)

ReadUpTo(n, read, now) == \A k \in Part : k <= n => read[k] <= now[k]

Unannounced(p) == ~listed[p].present /\ removal[p] = "none"
OpeningSnap(p) ==
    /\ opening[p].pc # "none" =>
          /\ mac[p].pc \in {"begin", "failed", "dead"}
          /\ MacAt(p, "begin") => opening[p].directory = mac[p].directory
          /\ Unannounced(p)
    /\ opening[p].pc = "list" => ReadUpTo(opening[p].at, opening[p].read, source)
    /\ opening[p].pc = "tar" =>
          /\ opening[p].directory
          /\ Caught(held[p], source, opening[p].sum, opening[p].read, opening[p].at)
          /\ opening[p].at > 0 => archive[p].data = opening[p].read

MacSnap(p) ==
    /\ MacAt(p, "idle") => opening[p] = NoOpening /\ Unannounced(p)
    /\ removal[p] # "none" => listed[p].present
    /\ ~MacAt(p, "idle") => source \in held[p]
    /\ mac[p].pc \in {"idle", "begin"} => mac[p].at = 0
    /\ mac[p].pc \in {"download", "unpack", "extract"} /\ mac[p].directory =>
          Caught(held[p], source, mac[p].told.sum, mac[p].told.digest, Parts)
    /\ MacAt(p, "download") /\ ~mac[p].directory =>
          /\ mac[p].told.sum = mac[p].told.digest
          /\ Caught(held[p], source, mac[p].told.sum, mac[p].got, mac[p].at)
          /\ ~listed[p].directory
    /\ mac[p].pc \in {"unpack", "extract"} => mac[p].directory /\ mac[p].got = mac[p].told.digest
    /\ mac[p].pc \in Vouched => mac[p].got \in held[p]

Snap(p) == OpeningSnap(p) /\ MacSnap(p)

LEMMA SnapBegins == PullInit => \A p \in Pull : Snap(p)
  BY DEF PullInit, Snap, OpeningSnap, MacSnap, NoOpening, NoMac, Unlisted, MacAt, Vouched,
     Unannounced

LEMMA SnapGives == PullTypeOK /\ (\A p \in Pull : Snap(p)) => SnapshotTaken
  BY DEF SnapshotTaken, Snap, MacSnap

(* A version between two equal readings is that reading.                   *)
LEMMA Sandwich ==
  ASSUME NEW now, NEW versions \in SUBSET Reading, NEW f \in Reading,
         Caught(versions, now, f, f, Parts)
  PROVE  f \in versions
<1>1. PICK S \in versions : Version(f, f, Parts, now, S)
  BY DEF Caught
<1>2. S \in Reading
  BY <1>1
<1>3. \A k \in Part : f[k] \in Nat /\ S[k] \in Nat /\ k <= Parts
  BY <1>2, PullAssumption DEF Reading, Part
<1>4. \A k \in Part : f[k] = S[k]
  BY <1>1, <1>3 DEF Version
<1>5. f = S
  BY <1>2, <1>4 DEF Reading
<1> QED BY <1>1, <1>5

(* The source itself lies after what was read of it.                       *)
LEMMA CaughtNow ==
  ASSUME NEW now \in Reading, NEW versions, now \in versions, NEW f \in Reading, NEW g,
         ReadUpTo(Parts, f, now)
  PROVE  Caught(versions, now, f, g, 0)
<1>1. \A k \in Part : k <= Parts /\ ~(k <= 0) /\ now[k] <= now[k]
  BY PullAssumption DEF Part, Reading
<1>2. Version(f, g, 0, now, now)
  BY <1>1 DEF Version, ReadUpTo
<1> QED BY <1>2 DEF Caught

(* Reading the next part keeps a version.                                  *)
LEMMA CaughtNext ==
  ASSUME NEW now \in Reading, NEW versions, NEW f \in Reading, NEW g \in Reading, NEW n \in Nat,
         n + 1 \in Part, Caught(versions, now, f, g, n)
  PROVE  Caught(versions, now, f, [g EXCEPT ![n + 1] = now[n + 1]], n + 1)
<1> DEFINE h == [g EXCEPT ![n + 1] = now[n + 1]]
<1>1. PICK S \in versions : Version(f, g, n, now, S)
  BY DEF Caught
<1>2. ASSUME NEW k \in Part, k <= n + 1 PROVE S[k] <= h[k]
  <2>1. CASE k = n + 1
    BY <1>1, <2>1 DEF Version, Reading
  <2>2. CASE k # n + 1
    BY <1>1, <1>2, <2>2 DEF Version, Reading, Part
  <2> QED BY <2>1, <2>2
<1>3. Version(f, h, n + 1, now, S)
  BY <1>1, <1>2 DEF Version
<1> QED BY <1>1, <1>3 DEF Caught

(* A later source, and more versions, keep it too.                         *)
LEMMA CaughtLater ==
  ASSUME NEW now \in Reading, NEW later \in Reading, \A k \in Part : now[k] <= later[k],
         NEW versions \in SUBSET Reading, NEW more, versions \subseteq more,
         NEW f, NEW g, NEW n, Caught(versions, now, f, g, n)
  PROVE  Caught(more, later, f, g, n)
<1>1. PICK S \in versions : Version(f, g, n, now, S)
  BY DEF Caught
<1>2. \A k \in Part : S[k] \in Nat /\ now[k] \in Nat /\ later[k] \in Nat
  BY <1>1 DEF Reading
<1>3. Version(f, g, n, later, S)
  BY <1>1, <1>2 DEF Version
<1> QED BY <1>1, <1>3 DEF Caught

LEMMA ReadLater ==
  ASSUME NEW now \in Reading, NEW later \in Reading, \A k \in Part : now[k] <= later[k],
         NEW n, NEW f \in Reading, ReadUpTo(n, f, now)
  PROVE  ReadUpTo(n, f, later)
<1>1. \A k \in Part : f[k] \in Nat /\ now[k] \in Nat /\ later[k] \in Nat
  BY DEF Reading
<1> QED BY <1>1 DEF ReadUpTo

LEMMA ReadNext ==
  ASSUME NEW now \in Reading, NEW f \in Reading, NEW n \in Nat, n + 1 \in Part,
         ReadUpTo(n, f, now)
  PROVE  ReadUpTo(n + 1, [f EXCEPT ![n + 1] = now[n + 1]], now)
<1> DEFINE h == [f EXCEPT ![n + 1] = now[n + 1]]
<1>1. ASSUME NEW k \in Part, k <= n + 1 PROVE h[k] <= now[k]
  <2>1. CASE k = n + 1
    BY <2>1 DEF Reading
  <2>2. CASE k # n + 1
    BY <1>1, <2>2 DEF ReadUpTo, Reading, Part
  <2> QED BY <2>1, <2>2
<1> QED BY <1>1 DEF ReadUpTo

LEMMA SnapSame ==
  ASSUME NEW p \in Pull, Snap(p), source' = source, held'[p] = held[p],
         opening'[p] = opening[p], archive'[p] = archive[p], listed'[p] = listed[p],
         removal'[p] = removal[p], mac'[p] = mac[p]
  PROVE  Snap(p)'
<1>1. OpeningSnap(p)'
  BY DEF Snap, OpeningSnap, MacAt, Unannounced
<1>2. MacSnap(p)'
  BY DEF Snap, MacSnap, MacAt, Unannounced
<1> QED BY <1>1, <1>2 DEF Snap

(* A step of one pull leaves the others alone.                             *)
LEMMA PullElsewhere ==
  ASSUME PullTypeOK, NEW p \in Pull, WorkerStep(p) \/ LocalStep(p) \/ Invoke(p),
         NEW q \in Pull, q # p
  PROVE  /\ source' = source /\ held'[q] = held[q] /\ opening'[q] = opening[q]
         /\ archive'[q] = archive[q] /\ listed'[q] = listed[q] /\ removal'[q] = removal[q]
         /\ mac'[q] = mac[q] /\ aside'[q] = aside[q]
<1>1. opening'[q] = opening[q]
  BY DEF WorkerStep, OpeningStep, Clearing, PullTypeOK, List, PutFile, Reserve, Pack,
     PutDirectory, DropArchive, ListFails, PackFails, WorkerDies, SweepRow, SweepSlow,
     SweepOrphan, RemovePacked, RemoveRow, BookingExpires, ReadsPart, Invoke, LocalStep,
     MacStep, CallLost, MacDies, ReadChunk, VerifyDownload, NoAnswer, StageFile, InstallFile,
     Unlink, Unpack, Extract, Look,
     MoveAside, PlaceDirectory, LookAgain, PutBack, Discard, Unstage, AskFinish, workerVars
<1>2. archive'[q] = archive[q]
  BY DEF WorkerStep, OpeningStep, Clearing, PullTypeOK, List, PutFile, Reserve, Pack,
     PutDirectory, DropArchive, ListFails, PackFails, WorkerDies, SweepRow, SweepSlow,
     SweepOrphan, RemovePacked, RemoveRow, BookingExpires, Invoke, LocalStep, MacStep,
     CallLost, MacDies, ReadChunk, VerifyDownload, NoAnswer, StageFile, InstallFile, Unlink,
     Unpack, Extract, Look,
     MoveAside, PlaceDirectory, LookAgain, PutBack, Discard, Unstage, AskFinish, workerVars
<1>3. listed'[q] = listed[q] /\ removal'[q] = removal[q]
  BY DEF WorkerStep, OpeningStep, Clearing, PullTypeOK, List, PutFile, Reserve, Pack,
     PutDirectory, DropArchive, ListFails, PackFails, WorkerDies, SweepRow, SweepSlow,
     SweepOrphan, RemovePacked, RemoveRow, BookingExpires, Invoke, LocalStep, MacStep,
     CallLost, MacDies, ReadChunk, VerifyDownload, NoAnswer, StageFile, InstallFile, Unlink,
     Unpack, Extract, Look,
     MoveAside, PlaceDirectory, LookAgain, PutBack, Discard, Unstage, AskFinish, workerVars
<1>4. source' = source /\ held'[q] = held[q]
  BY DEF WorkerStep, OpeningStep, Clearing, PullTypeOK, List, PutFile, Reserve, Pack,
     PutDirectory, DropArchive, ListFails, PackFails, WorkerDies, SweepRow, SweepSlow,
     SweepOrphan, RemovePacked, RemoveRow, BookingExpires, Invoke, LocalStep, MacStep,
     CallLost, MacDies, ReadChunk, VerifyDownload, NoAnswer, StageFile, InstallFile, Unlink,
     Unpack, Extract, Look,
     MoveAside, PlaceDirectory, LookAgain, PutBack, Discard, Unstage, AskFinish, sourceVars
<1>5. mac'[q] = mac[q]
  BY DEF WorkerStep, OpeningStep, Clearing, PullTypeOK, List, PutFile, Reserve, Pack,
     PutDirectory, DropArchive, ListFails, PackFails, WorkerDies, SweepRow, SweepSlow,
     SweepOrphan, RemovePacked, RemoveRow, BookingExpires, Reply, Invoke, LocalStep, MacStep,
     CallLost, MacDies, MacFails, MacGoes, ReadChunk, VerifyDownload, NoAnswer, StageFile,
     InstallFile, Unlink, Unpack, Extract, Look, MoveAside, PlaceDirectory, LookAgain, PutBack,
     Discard, Unstage, AskFinish
<1>6. aside'[q] = aside[q]
  BY DEF WorkerStep, OpeningStep, Clearing, PullTypeOK, List, PutFile, Reserve, Pack,
     PutDirectory, DropArchive, ListFails, PackFails, WorkerDies, SweepRow, SweepSlow,
     SweepOrphan, RemovePacked, RemoveRow, BookingExpires, Invoke, LocalStep, MacStep,
     CallLost, MacDies, ReadChunk, VerifyDownload, NoAnswer, StageFile, InstallFile, Unlink,
     Unpack, Extract, Look,
     MoveAside, PlaceDirectory, LookAgain, PutBack, Discard, Unstage, AskFinish, localVars
<1> QED BY <1>1, <1>2, <1>3, <1>4, <1>5, <1>6

LEMMA SnapOthers ==
  ASSUME PullTypeOK, NEW p \in Pull, WorkerStep(p) \/ LocalStep(p) \/ Invoke(p),
         NEW q \in Pull, q # p, Snap(q)
  PROVE  Snap(q)'
  BY PullElsewhere, SnapSame

LEMMA SnapEdit ==
  ASSUME PullTypeOK, Edit, NEW p \in Pull, Snap(p)
  PROVE  Snap(p)'
<1>1. /\ source \in Reading /\ source' \in Reading /\ \A k \in Part : source[k] <= source'[k]
      /\ held[p] \in SUBSET Reading /\ held[p] \subseteq held'[p] /\ source' \in held'[p]
  <2>1. PullTypeOK'
    BY PullTypesKept DEF PullNext
  <2> QED BY <2>1 DEF Edit, PullTypeOK, Reading
<1>2. /\ opening'[p] = opening[p] /\ archive'[p] = archive[p] /\ listed'[p] = listed[p]
      /\ removal'[p] = removal[p] /\ mac'[p] = mac[p]
  BY DEF Edit, workerVars
<1>3. \A f, g, n : Caught(held[p], source, f, g, n) => Caught(held'[p], source', f, g, n)
  BY <1>1, CaughtLater
<1>4. opening[p].read \in Reading
  BY OpeningTypes DEF PullTypeOK
<1>5. ReadUpTo(opening[p].at, opening[p].read, source)
         => ReadUpTo(opening[p].at, opening[p].read, source')
  BY <1>1, <1>4, ReadLater
<1>6. OpeningSnap(p)'
  BY <1>2, <1>3, <1>5 DEF Snap, OpeningSnap, MacAt, Unannounced
<1>7. MacSnap(p)'
  BY <1>1, <1>2, <1>3 DEF Snap, MacSnap, MacAt, Unannounced
<1> QED BY <1>6, <1>7 DEF Snap

LEMMA SnapInvoke ==
  ASSUME PullTypeOK, NEW p \in Pull, Invoke(p), Snap(p)
  PROVE  Snap(p)'
<1>1. /\ source' = source /\ held'[p] = {source} /\ archive'[p] = archive[p]
      /\ listed'[p] = listed[p] /\ removal'[p] = removal[p]
  BY DEF Invoke, PullTypeOK
<1>2. mac[p].at = 0 /\ opening[p] = NoOpening /\ Unannounced(p)
  BY DEF Invoke, Snap, MacSnap, MacAt
<1>3. mac[p] \in Mac /\ opening[p] \in Opening
  BY DEF PullTypeOK
<1>4. PICK d \in BOOLEAN, o \in BOOLEAN :
         /\ mac' = [mac EXCEPT ![p] = [@ EXCEPT !.pc = "begin", !.directory = d,
                                                !.overwrite = o]]
         /\ opening' = [opening EXCEPT ![p] = [@ EXCEPT !.pc = "list", !.directory = d]]
  BY DEF Invoke
<1>5. /\ mac'[p].pc = "begin" /\ mac'[p].directory = d /\ mac'[p].at = 0
  BY <1>2, <1>3, <1>4 DEF PullTypeOK, Mac
<1>6. /\ opening'[p].pc = "list" /\ opening'[p].directory = d /\ opening'[p].at = 0
  BY <1>2, <1>3, <1>4 DEF PullTypeOK, Opening, NoOpening
<1>7. ReadUpTo(0, opening'[p].read, source)
  BY DEF ReadUpTo, Part
<1>8. OpeningSnap(p)'
  BY <1>1, <1>2, <1>5, <1>6, <1>7 DEF OpeningSnap, MacAt, Unannounced
<1>9. MacSnap(p)'
  BY <1>1, <1>2, <1>5, <1>6 DEF Snap, MacSnap, MacAt, Unannounced, Vouched
<1> QED BY <1>8, <1>9 DEF Snap

LEMMA FinishedOpening ==
  ASSUME PullTypeOK, NEW p \in Pull, Snap(p), opening' = [opening EXCEPT ![p] = NoOpening],
         UNCHANGED sourceVars, UNCHANGED listed, removal'[p] \in {removal[p], "none"},
         UNCHANGED mac \/ Reply(p, Refused(p))
  PROVE  Snap(p)'
<1>1. mac[p] \in Mac
  BY DEF PullTypeOK
<1>2. opening'[p] = NoOpening /\ NoOpening.pc = "none"
  BY DEF PullTypeOK, NoOpening
<1>3. source' = source /\ held'[p] = held[p] /\ listed'[p] = listed[p]
  BY DEF sourceVars
<1>4. \/ mac'[p] = mac[p]
      \/ mac[p].pc = "begin" /\ mac'[p] = [mac[p] EXCEPT !.pc = "failed"]
  <2>1. CASE mac' = mac
    BY <2>1
  <2>2. CASE MacAt(p, "begin") /\ mac' = [mac EXCEPT ![p] = Refused(p)]
    BY <2>2 DEF Refused, MacAt, PullTypeOK
  <2> QED BY <2>1, <2>2 DEF Reply
<1>5. OpeningSnap(p)'
  BY <1>2 DEF OpeningSnap
<1>6. CASE mac'[p] = mac[p]
  <2>1. MacSnap(p)'
    BY <1>2, <1>3, <1>6 DEF Snap, MacSnap, MacAt, Unannounced
  <2> QED BY <1>5, <2>1 DEF Snap
<1>7. CASE mac[p].pc = "begin" /\ mac'[p] = [mac[p] EXCEPT !.pc = "failed"]
  <2>1. mac'[p].pc = "failed"
    BY <1>1, <1>7 DEF Mac
  <2>2. MacSnap(p)'
    BY <1>2, <1>3, <1>7, <2>1 DEF Snap, MacSnap, MacAt, Unannounced, Vouched
  <2> QED BY <1>5, <2>2 DEF Snap
<1> QED BY <1>4, <1>6, <1>7

LEMMA SnapRead ==
  ASSUME PullTypeOK, NEW p \in Pull, Snap(p), NEW pc \in OpeningPc, ReadsPart(p, pc),
         UNCHANGED sourceVars
  PROVE  /\ opening'[p].pc = pc /\ opening'[p].directory = opening[p].directory
         /\ opening'[p].at = opening[p].at + 1 /\ opening'[p].sum = opening[p].sum
         /\ opening[p].pc = pc /\ opening[p].at \in Nat
         /\ pc = "list" => ReadUpTo(opening'[p].at, opening'[p].read, source)
         /\ pc = "tar" =>
               Caught(held[p], source, opening'[p].sum, opening'[p].read, opening'[p].at)
<1> DEFINE n == opening[p].at
           f == opening[p].read
<1>1. /\ opening[p] \in Opening /\ source \in Reading /\ f \in Reading
      /\ n \in Nat /\ n + 1 \in Part /\ opening[p].sum \in Reading /\ opening[p].pc = pc
  <2>1. opening[p] \in Opening
    BY DEF PullTypeOK
  <2>2. n \in 0 .. Parts /\ f \in Reading /\ opening[p].sum \in Reading
    BY <2>1, OpeningTypes
  <2>3. n + 1 \in Part
    BY ReadTypes
  <2> QED BY <2>1, <2>2, <2>3, PullAssumption DEF PullTypeOK, ReadsPart
<1>2. opening'[p] = [opening[p] EXCEPT !.at = n + 1,
                                       !.read = [f EXCEPT ![n + 1] = source[n + 1]]]
  BY <1>1 DEF ReadsPart, PullTypeOK
<1>3. /\ opening'[p].pc = pc /\ opening'[p].directory = opening[p].directory
      /\ opening'[p].at = n + 1 /\ opening'[p].sum = opening[p].sum
      /\ opening'[p].read = [f EXCEPT ![n + 1] = source[n + 1]]
  BY <1>1, <1>2 DEF Opening
<1>4. ASSUME pc = "list" PROVE ReadUpTo(n + 1, [f EXCEPT ![n + 1] = source[n + 1]], source)
  <2>1. ReadUpTo(n, f, source)
    BY <1>1, <1>4 DEF Snap, OpeningSnap
  <2> QED BY <1>1, <2>1, ReadNext
<1>5. ASSUME pc = "tar"
      PROVE  Caught(held[p], source, opening[p].sum, [f EXCEPT ![n + 1] = source[n + 1]], n + 1)
  <2>1. Caught(held[p], source, opening[p].sum, f, n)
    BY <1>1, <1>5 DEF Snap, OpeningSnap
  <2> QED BY <1>1, <2>1, CaughtNext
<1> QED BY <1>1, <1>3, <1>4, <1>5

LEMMA Announcing ==
  ASSUME PullTypeOK, NEW p \in Pull, Snap(p), NEW digest \in Reading, NEW sum \in Reading,
         opening' = [opening EXCEPT ![p] = NoOpening], opening[p].pc # "none",
         UNCHANGED sourceVars, UNCHANGED removal,
         listed' = [listed EXCEPT ![p] = [present |-> TRUE,
                                          directory |-> opening[p].directory]],
         Reply(p, Accepted(p, digest, sum)),
         opening[p].directory => Caught(held[p], source, sum, digest, Parts),
         ~opening[p].directory =>
            sum = digest /\ \A g \in Reading : Caught(held[p], source, sum, g, 0)
  PROVE  Snap(p)'
<1>1. mac[p] \in Mac /\ mac[p].got \in Reading
  BY MacTypes DEF PullTypeOK
<1>2. opening'[p] = NoOpening /\ NoOpening.pc = "none"
  BY DEF PullTypeOK, NoOpening
<1>3. /\ source' = source /\ held'[p] = held[p] /\ removal'[p] = removal[p]
      /\ listed'[p].present
      /\ listed'[p].directory = opening[p].directory
  BY DEF sourceVars, PullTypeOK
<1>4. OpeningSnap(p)'
  BY <1>2 DEF OpeningSnap
<1>5. CASE MacAt(p, "begin")
  <2>1. mac'[p] = [mac[p] EXCEPT !.pc = "download", !.told = [digest |-> digest, sum |-> sum]]
    BY <1>5 DEF Reply, Accepted, PullTypeOK
  <2>2. /\ mac'[p].pc = "download" /\ mac'[p].directory = mac[p].directory
        /\ mac'[p].at = mac[p].at /\ mac'[p].got = mac[p].got
        /\ mac'[p].told.digest = digest /\ mac'[p].told.sum = sum
    BY <1>1, <2>1 DEF Mac
  <2>3. /\ mac[p].at = 0 /\ opening[p].directory = mac[p].directory
        /\ source \in held[p]
    BY <1>5 DEF Snap, OpeningSnap, MacSnap, MacAt
  <2>4. MacSnap(p)'
    BY <1>1, <1>3, <2>2, <2>3 DEF MacSnap, MacAt, Vouched
  <2> QED BY <1>4, <2>4 DEF Snap
<1>6. CASE ~MacAt(p, "begin")
  <2>1. mac'[p] = mac[p] /\ mac[p].pc \in {"failed", "dead"}
    BY <1>6 DEF Reply, Snap, OpeningSnap, MacAt
  <2>2. MacSnap(p)'
    BY <1>2, <1>3, <2>1 DEF Snap, MacSnap, MacAt, Vouched
  <2> QED BY <1>4, <2>2 DEF Snap
<1> QED BY <1>5, <1>6

LEMMA SnapWorker ==
  ASSUME PullTypeOK, NEW p \in Pull, WorkerStep(p), Snap(p)
  PROVE  Snap(p)'
<1>1. opening[p] \in Opening /\ mac[p] \in Mac /\ archive[p] \in Archive /\ source \in Reading
  BY DEF PullTypeOK
<1>2. /\ opening[p].read \in Reading /\ opening[p].sum \in Reading
      /\ opening[p].at \in 0 .. Parts /\ archive[p].data \in Reading
  BY <1>1, OpeningTypes DEF Archive
<1>3. CASE List(p)
  <2>1. /\ ReadsPart(p, "list") /\ "list" \in OpeningPc
        /\ UNCHANGED <<source, held, listed, removal, mac>>
    BY <1>3 DEF List, OpeningPc, sourceVars
  <2> UNCHANGED sourceVars
    BY <1>3 DEF List
  <2>2. /\ opening'[p].pc = "list" /\ opening'[p].directory = opening[p].directory
        /\ opening[p].pc = "list"
        /\ ReadUpTo(opening'[p].at, opening'[p].read, source)
    BY <2>1, SnapRead
  <2>3. OpeningSnap(p)'
    BY <2>1, <2>2 DEF Snap, OpeningSnap, MacAt, Unannounced
  <2>4. MacSnap(p)'
    BY <2>1, <2>2 DEF Snap, MacSnap, MacAt, Unannounced, NoOpening
  <2> QED BY <2>3, <2>4 DEF Snap
<1>4. CASE PutFile(p)
  <2>1. ReadUpTo(Parts, opening[p].read, source) /\ mac[p].pc \in {"begin", "failed", "dead"}
        /\ opening[p].pc = "list" /\ ~opening[p].directory
    BY <1>4 DEF PutFile, Snap, OpeningSnap
  <2>2. source \in held[p]
    BY <2>1 DEF Snap, MacSnap, MacAt
  <2>3. \A g \in Reading : Caught(held[p], source, opening[p].read, g, 0)
    BY <1>1, <1>2, <2>1, <2>2, CaughtNow
  <2>4. listed' = [listed EXCEPT ![p] = [present |-> TRUE, directory |-> opening[p].directory]]
    BY <2>1, <1>1, <1>4 DEF PutFile, Opening
  <2>5. /\ opening' = [opening EXCEPT ![p] = NoOpening]
        /\ UNCHANGED sourceVars /\ UNCHANGED removal
        /\ Reply(p, Accepted(p, opening[p].read, opening[p].read))
    BY <1>4 DEF PutFile
  <2> QED BY <1>2, <2>1, <2>3, <2>4, <2>5, Announcing
<1>5. CASE Reserve(p)
  <2>1. /\ ReadUpTo(Parts, opening[p].read, source) /\ mac[p].pc \in {"begin", "failed", "dead"}
        /\ opening[p].pc = "list" /\ opening[p].directory /\ Unannounced(p)
    BY <1>5 DEF Reserve, Snap, OpeningSnap
  <2>2. source \in held[p]
    BY <2>1 DEF Snap, MacSnap, MacAt
  <2>3. Caught(held[p], source, opening[p].read, opening[p].read, 0)
    BY <1>1, <1>2, <2>1, <2>2, CaughtNow
  <2>4. CASE /\ opening' = [opening EXCEPT ![p] = [@ EXCEPT !.pc = "tar", !.at = 0,
                                                            !.sum = opening[p].read]]
             /\ UNCHANGED mac
    <3>1. /\ opening'[p].pc = "tar" /\ opening'[p].at = 0 /\ opening'[p].sum = opening[p].read
          /\ opening'[p].read = opening[p].read /\ opening'[p].directory = opening[p].directory
      BY <1>1, <2>4 DEF PullTypeOK, Opening
    <3>2. UNCHANGED <<source, held, listed, removal, archive>>
      BY <1>5 DEF Reserve, sourceVars
    <3>3. OpeningSnap(p)'
      <4>1. Caught(held'[p], source', opening'[p].sum, opening'[p].read, opening'[p].at)
        BY <2>3, <3>1, <3>2
      <4>2. mac'[p] = mac[p] /\ listed'[p] = listed[p] /\ removal'[p] = removal[p]
        BY <2>4, <3>2
      <4>3. opening'[p].pc # "list" /\ ~(opening'[p].at > 0)
        BY <3>1
      <4> QED BY <2>1, <3>1, <4>1, <4>2, <4>3 DEF Snap, OpeningSnap, MacAt, Unannounced
    <3>4. MacSnap(p)'
      BY <2>1, <2>4, <3>1, <3>2 DEF Snap, MacSnap, MacAt, Unannounced, NoOpening
    <3> QED BY <3>3, <3>4 DEF Snap
  <2>5. CASE opening' = [opening EXCEPT ![p] = NoOpening] /\ Reply(p, Refused(p))
    BY <1>5, <2>5, FinishedOpening DEF Reserve
  <2> QED BY <1>5, <2>4, <2>5 DEF Reserve
<1>6. CASE Pack(p)
  <2>1. /\ ReadsPart(p, "tar") /\ "tar" \in OpeningPc
        /\ UNCHANGED <<source, held, listed, removal, mac>>
    BY <1>6 DEF Pack, OpeningPc, sourceVars
  <2> UNCHANGED sourceVars
    BY <1>6 DEF Pack
  <2>2. /\ opening'[p].pc = "tar" /\ opening'[p].directory = opening[p].directory
        /\ opening[p].pc = "tar"
        /\ Caught(held[p], source, opening'[p].sum, opening'[p].read, opening'[p].at)
    BY <2>1, SnapRead
  <2>3. archive'[p].data = opening'[p].read
    BY <1>6 DEF Pack, PullTypeOK
  <2>4. OpeningSnap(p)'
    BY <2>1, <2>2, <2>3 DEF Snap, OpeningSnap, MacAt, Unannounced
  <2>5. MacSnap(p)'
    BY <2>1, <2>2 DEF Snap, MacSnap, MacAt, Unannounced, NoOpening
  <2> QED BY <2>4, <2>5 DEF Snap
<1>7. CASE PutDirectory(p)
  <2>1. /\ opening[p].pc = "tar" /\ opening[p].directory /\ opening[p].at = Parts
        /\ Caught(held[p], source, opening[p].sum, opening[p].read, Parts)
        /\ archive[p].data = opening[p].read
    BY <1>7, PullAssumption DEF PutDirectory, Snap, OpeningSnap
  <2>2. listed' = [listed EXCEPT ![p] = [present |-> TRUE, directory |-> opening[p].directory]]
    BY <2>1, <1>1, <1>7 DEF PutDirectory, Opening
  <2>3. /\ opening' = [opening EXCEPT ![p] = NoOpening]
        /\ UNCHANGED sourceVars /\ UNCHANGED removal
        /\ Reply(p, Accepted(p, archive[p].data, opening[p].sum))
    BY <1>7 DEF PutDirectory
  <2> QED BY <1>2, <2>1, <2>2, <2>3, Announcing
<1>8. CASE ListFails(p)
  BY <1>8, FinishedOpening DEF ListFails
<1>9. CASE DropArchive(p)
  BY <1>9, FinishedOpening DEF DropArchive
<1>10. CASE WorkerDies(p)
  BY <1>10, FinishedOpening DEF WorkerDies, PullTypeOK
<1>11. CASE PackFails(p)
  <2>1. opening'[p] = [opening[p] EXCEPT !.pc = "drop"] /\ opening[p].pc = "tar"
    BY <1>11 DEF PackFails, PullTypeOK
  <2>2. opening'[p].pc = "drop" /\ opening'[p].directory = opening[p].directory
    BY <1>1, <2>1 DEF Opening
  <2>3. UNCHANGED <<source, held, listed, removal, archive, mac>>
    BY <1>11 DEF PackFails, sourceVars
  <2>4. OpeningSnap(p)'
    BY <2>1, <2>2, <2>3 DEF Snap, OpeningSnap, MacAt, Unannounced
  <2>5. MacSnap(p)'
    BY <2>1, <2>2, <2>3 DEF Snap, MacSnap, MacAt, Unannounced, NoOpening
  <2> QED BY <2>4, <2>5 DEF Snap
<1>12. CASE SweepRow(p) \/ SweepSlow(p)
  <2>1. /\ UNCHANGED <<source, held, opening, archive, listed, mac>> /\ listed[p].present
    BY <1>12 DEF SweepRow, SweepSlow, Stale, sourceVars
  <2>2. OpeningSnap(p)'
    BY <2>1 DEF Snap, OpeningSnap, MacAt, Unannounced
  <2>3. MacSnap(p)'
    BY <2>1 DEF Snap, MacSnap, MacAt, Unannounced
  <2> QED BY <2>2, <2>3 DEF Snap
<1>13. CASE BookingExpires(p)
  BY <1>13, SnapSame DEF BookingExpires, sourceVars
<1>14. CASE SweepOrphan(p)
  <2>1. /\ UNCHANGED <<source, held, opening, removal, listed, mac>> /\ opening[p].pc = "none"
    BY <1>14 DEF SweepOrphan, Rests, sourceVars
  <2>2. OpeningSnap(p)'
    BY <2>1 DEF OpeningSnap
  <2>3. MacSnap(p)'
    BY <2>1 DEF Snap, MacSnap, MacAt, Unannounced
  <2> QED BY <2>2, <2>3 DEF Snap
<1>15. CASE RemovePacked(p) \/ RemoveRow(p)
  <2>1. removal[p] # "none" /\ UNCHANGED <<source, held, opening, mac>>
    BY <1>15 DEF RemovePacked, RemoveRow, sourceVars
  <2>2. listed[p].present /\ opening[p].pc = "none" /\ ~MacAt(p, "idle")
    BY <2>1 DEF Snap, OpeningSnap, MacSnap, Unannounced
  <2>3. listed'[p] = listed[p] \/ (removal'[p] = "none" /\ listed'[p] = Unlisted)
    <3>1. CASE RemovePacked(p)
      BY <3>1 DEF RemovePacked
    <3>2. CASE RemoveRow(p)
      BY <3>2 DEF RemoveRow, PullTypeOK
    <3> QED BY <1>15, <3>1, <3>2
  <2>4. OpeningSnap(p)'
    BY <2>1, <2>2 DEF OpeningSnap
  <2>5. MacSnap(p)'
    BY <2>1, <2>2, <2>3 DEF Snap, MacSnap, MacAt, Unlisted
  <2> QED BY <2>4, <2>5 DEF Snap
<1> QED BY <1>3, <1>4, <1>5, <1>6, <1>7, <1>8, <1>9, <1>10, <1>11, <1>12, <1>13, <1>14, <1>15
        DEF WorkerStep, OpeningStep, Clearing

(* The Mac's pullPath goes on: nothing on the Worker changes but that a    *)
(* removal may begin, and of its local variables only where it is and the  *)
(* two of installDirectory.                                                *)
WorkerKeeps(p) ==
    /\ source' = source /\ held'[p] = held[p] /\ opening'[p] = opening[p]
    /\ archive'[p] = archive[p] /\ listed'[p] = listed[p]
    /\ removal'[p] = removal[p] \/ listed[p].present
GoesOn(p, pc) ==
    /\ mac'[p].pc = pc /\ mac'[p].directory = mac[p].directory /\ mac'[p].at = mac[p].at
    /\ mac'[p].got = mac[p].got /\ mac'[p].told = mac[p].told
Unbound == {"undo", "restore", "unstage", "abandon", "failed", "dead"}

LEMMA LocalKeeps ==
  ASSUME PullTypeOK, NEW p \in Pull, LocalStep(p)
  PROVE  WorkerKeeps(p) /\ ~MacAt(p, "idle")
<1>1. UNCHANGED <<source, held, opening, archive, listed>>
  BY DEF LocalStep, MacStep, CallLost, MacDies, ReadChunk, VerifyDownload, NoAnswer, StageFile,
     InstallFile, Unlink, Unpack, Extract, Look, MoveAside, PlaceDirectory, LookAgain,
     PutBack, Discard, Unstage, AskFinish, sourceVars, workerVars
<1>2. removal'[p] = removal[p] \/ listed[p].present
  <2>1. CASE AskFinish(p)
    BY <2>1 DEF AskFinish, PullTypeOK
  <2>2. CASE ~AskFinish(p)
    <3>1. removal' = removal
      BY <2>2 DEF LocalStep, MacStep, CallLost, MacDies, ReadChunk, VerifyDownload, NoAnswer,
         StageFile, InstallFile, Unlink, Unpack, Extract, Look, MoveAside, PlaceDirectory,
         LookAgain,
         PutBack, Discard, Unstage, workerVars
    <3> QED BY <3>1
  <2> QED BY <2>1, <2>2
<1>3. ~MacAt(p, "idle")
  BY DEF MacAt, LocalStep, MacStep, CallLost, MacDies, ReadChunk, VerifyDownload, NoAnswer,
     StageFile, InstallFile, Unlink, Unpack, Extract, Look, MoveAside, PlaceDirectory,
     LookAgain, PutBack, Discard, Unstage, AskFinish
<1> QED BY <1>1, <1>2, <1>3 DEF WorkerKeeps

LEMMA MacGoesOn ==
  ASSUME PullTypeOK, NEW p \in Pull, NEW pc, MacGoes(p, pc)
  PROVE  GoesOn(p, pc)
<1>1. mac[p] \in Mac /\ mac'[p] = [mac[p] EXCEPT !.pc = pc]
  BY DEF MacGoes, PullTypeOK
<1> QED BY <1>1 DEF Mac, GoesOn

LEMMA SnapGoesOn ==
  ASSUME PullTypeOK, NEW p \in Pull, Snap(p), WorkerKeeps(p), ~MacAt(p, "idle"),
         NEW pc, GoesOn(p, pc),
         pc \in Unbound \/ (pc \in Vouched /\ mac[p].got \in held[p]),
         opening[p].pc # "none" => pc \in {"failed", "dead"}
  PROVE  Snap(p)'
<1>1. OpeningSnap(p)'
  BY DEF Snap, OpeningSnap, WorkerKeeps, GoesOn, MacAt, Unannounced
<1>2. MacSnap(p)'
  BY DEF Snap, MacSnap, WorkerKeeps, GoesOn, MacAt, Unannounced, Unbound, Vouched
<1> QED BY <1>1, <1>2 DEF Snap

LEMMA SnapChunk ==
  ASSUME PullTypeOK, NEW p \in Pull, Snap(p), ReadChunk(p)
  PROVE  Snap(p)'
<1> DEFINE k == mac[p].at + 1
           data == IF listed[p].directory THEN archive[p].data ELSE source
<1>1. WorkerKeeps(p) /\ ~MacAt(p, "idle")
  BY LocalKeeps DEF LocalStep, MacStep
<1>2. /\ mac[p] \in Mac /\ mac[p].at \in Nat /\ k \in Part /\ opening[p].pc = "none"
      /\ mac[p].got \in Reading /\ mac[p].told.sum \in Reading /\ source \in Reading
  <2>1. /\ mac[p] \in Mac /\ mac[p].at \in 0 .. Parts
        /\ mac[p].got \in Reading /\ mac[p].told.sum \in Reading
    BY MacTypes DEF PullTypeOK
  <2>2. k \in Part
    BY <2>1, PullAssumption DEF ReadChunk, Part
  <2>3. opening[p].pc = "none"
    BY DEF ReadChunk, MacAt, Snap, OpeningSnap
  <2> QED BY <2>1, <2>2, <2>3, PullAssumption DEF PullTypeOK
<1>3. CASE Readable(p)
  <2> HIDE DEF k, data
  <2>1. mac'[p] = [mac[p] EXCEPT !.at = k, !.got = [mac[p].got EXCEPT ![k] = data[k]]]
    BY <1>2, <1>3 DEF ReadChunk, PullTypeOK, k, data
  <2>2. /\ mac'[p].pc = mac[p].pc /\ mac'[p].directory = mac[p].directory /\ mac'[p].at = k
        /\ mac'[p].told = mac[p].told /\ mac'[p].got = [mac[p].got EXCEPT ![k] = data[k]]
    BY <1>2, <2>1 DEF Mac
  <2>3. mac[p].pc = "download"
    BY DEF ReadChunk, MacAt
  <2>4. OpeningSnap(p)'
    BY <1>1, <1>2 DEF OpeningSnap, WorkerKeeps
  <2>5. ~mac[p].directory => Caught(held[p], source, mac[p].told.sum, mac'[p].got, k)
    <3>1. SUFFICES ASSUME ~mac[p].directory
                   PROVE  Caught(held[p], source, mac[p].told.sum, mac'[p].got, k)
      OBVIOUS
    <3>2. data = source /\ Caught(held[p], source, mac[p].told.sum, mac[p].got, mac[p].at)
      BY <2>3, <3>1 DEF Snap, MacSnap, MacAt, data
    <3> QED BY <1>2, <2>2, <3>2, CaughtNext DEF k
  <2>6. MacSnap(p)'
    BY <1>1, <2>2, <2>3, <2>5 DEF Snap, MacSnap, MacAt, WorkerKeeps, Vouched
  <2> QED BY <2>4, <2>6 DEF Snap
<1>4. CASE ~Readable(p)
  <2>1. mac'[p] = [mac[p] EXCEPT !.pc = "abandon"]
    BY <1>4 DEF ReadChunk, PullTypeOK
  <2>2. GoesOn(p, "abandon")
    BY <1>2, <2>1 DEF Mac, GoesOn
  <2> QED BY <1>1, <1>2, <2>2, SnapGoesOn DEF Unbound
<1> QED BY <1>3, <1>4

LEMMA SnapVerify ==
  ASSUME PullTypeOK, NEW p \in Pull, Snap(p), VerifyDownload(p) \/ Unpack(p) \/ Extract(p)
  PROVE  Snap(p)'
<1>1. WorkerKeeps(p) /\ ~MacAt(p, "idle")
  BY LocalKeeps DEF LocalStep, MacStep
<1>2. opening[p].pc = "none"
  BY DEF VerifyDownload, Unpack, Extract, MacAt, Snap, OpeningSnap
<1>3. held[p] \in SUBSET Reading /\ mac[p].got \in Reading
  BY MacTypes DEF PullTypeOK
<1>4. OpeningSnap(p)'
  BY <1>1, <1>2 DEF OpeningSnap, WorkerKeeps
<1>5. CASE VerifyDownload(p)
  <2>1. CASE mac[p].got # mac[p].told.digest
    <3>1. GoesOn(p, "abandon")
      BY <1>5, <2>1, MacGoesOn DEF VerifyDownload
    <3> QED BY <1>1, <1>2, <3>1, SnapGoesOn DEF Unbound
  <2>2. CASE mac[p].got = mac[p].told.digest /\ mac[p].directory
    <3>1. GoesOn(p, "unpack")
      BY <1>5, <2>2, MacGoesOn DEF VerifyDownload
    <3>2. MacSnap(p)'
      BY <1>1, <1>5, <2>2, <3>1 DEF VerifyDownload, Snap, MacSnap, MacAt, GoesOn, WorkerKeeps,
         Vouched
    <3> QED BY <1>4, <3>2 DEF Snap
  <2>3. CASE mac[p].got = mac[p].told.digest /\ ~mac[p].directory
    <3>1. GoesOn(p, "stage")
      BY <1>5, <2>3, MacGoesOn DEF VerifyDownload
    <3>2. Caught(held[p], source, mac[p].got, mac[p].got, Parts)
      BY <1>5, <2>3 DEF VerifyDownload, Snap, MacSnap, MacAt
    <3>3. mac[p].got \in held[p]
      BY <1>3, <3>2, Sandwich
    <3> QED BY <1>1, <1>2, <3>1, <3>3, SnapGoesOn DEF Vouched
  <2> QED BY <2>1, <2>2, <2>3
<1>6. CASE Unpack(p)
  <2>1. CASE MacGoes(p, "extract")
    <3>1. GoesOn(p, "extract") /\ MacAt(p, "unpack")
      BY <1>6, <2>1, MacGoesOn DEF Unpack
    <3>2. MacSnap(p)'
      BY <1>1, <3>1 DEF Snap, MacSnap, MacAt, GoesOn, WorkerKeeps, Vouched
    <3> QED BY <1>4, <3>2 DEF Snap
  <2>2. CASE MacGoes(p, "abandon")
    BY <1>1, <1>2, <2>2, MacGoesOn, SnapGoesOn DEF Unbound
  <2> QED BY <1>6, <2>1, <2>2 DEF Unpack, MacFails
<1>7. CASE Extract(p)
  <2>1. CASE MacGoes(p, "look") /\ Matches(p)
    <3>1. GoesOn(p, "look") /\ MacAt(p, "extract")
      BY <1>7, <2>1, MacGoesOn DEF Extract
    <3>2. Caught(held[p], source, mac[p].got, mac[p].got, Parts)
      BY <2>1, <3>1 DEF Matches, Snap, MacSnap, MacAt
    <3>3. mac[p].got \in held[p]
      BY <1>3, <3>2, Sandwich
    <3> QED BY <1>1, <1>2, <3>1, <3>3, SnapGoesOn DEF Vouched
  <2>2. CASE MacGoes(p, "unstage")
    BY <1>1, <1>2, <2>2, MacGoesOn, SnapGoesOn DEF Unbound
  <2> QED BY <1>7, <2>1, <2>2 DEF Extract, MacFails
<1> QED BY <1>5, <1>6, <1>7

LEMMA SnapLocal ==
  ASSUME PullTypeOK, NEW p \in Pull, Snap(p), LocalStep(p)
  PROVE  Snap(p)'
<1>1. WorkerKeeps(p) /\ ~MacAt(p, "idle")
  BY LocalKeeps
<1>2. mac[p] \in Mac
  BY DEF PullTypeOK
<1>3. CASE ReadChunk(p)
  BY <1>3, SnapChunk
<1>4. CASE VerifyDownload(p) \/ Unpack(p) \/ Extract(p)
  BY <1>4, SnapVerify
<1>5. ASSUME ~ReadChunk(p), ~VerifyDownload(p), ~Unpack(p), ~Extract(p)
      PROVE  \E pc : /\ GoesOn(p, pc)
                     /\ pc \in Unbound \/ (pc \in Vouched /\ mac[p].pc \in Vouched)
                     /\ mac[p].pc \in {"begin", "failed", "dead"} /\ opening[p].pc # "none"
                           => pc \in {"failed", "dead"}
  <2>1. CASE MoveAside(p)
    <3>1. CASE mac' = [mac EXCEPT ![p] = [@ EXCEPT !.pc = "place", !.moved = TRUE]]
      <4>1. GoesOn(p, "place")
        BY <1>2, <3>1 DEF GoesOn, PullTypeOK, Mac
      <4> QED BY <2>1, <4>1 DEF MoveAside, MacAt, Vouched
    <3>2. CASE MacGoes(p, "unstage")
      BY <2>1, <3>2, MacGoesOn DEF MoveAside, MacAt, Unbound
    <3> QED BY <2>1, <3>1, <3>2 DEF MoveAside, MacFails
  <2>2. CASE PutBack(p)
    <3>1. CASE mac' = [mac EXCEPT ![p] = [@ EXCEPT !.pc = "unstage", !.stuck = TRUE]]
      <4>1. GoesOn(p, "unstage")
        BY <1>2, <3>1 DEF GoesOn, PullTypeOK, Mac
      <4> QED BY <2>2, <4>1 DEF PutBack, MacAt, Unbound
    <3>2. CASE MacGoes(p, "unstage")
      BY <2>2, <3>2, MacGoesOn DEF PutBack, MacAt, Unbound
    <3> QED BY <2>2, <3>1, <3>2 DEF PutBack
  <2>3. CASE ~MoveAside(p) /\ ~PutBack(p)
    <3>1. \E pc : /\ MacGoes(p, pc)
                  /\ pc \in Unbound \/ (pc \in Vouched /\ mac[p].pc \in Vouched)
                  /\ mac[p].pc \in {"begin", "failed", "dead"} /\ opening[p].pc # "none"
                        => pc \in {"failed", "dead"}
      BY <1>5, <2>3 DEF LocalStep, MacStep, CallLost, MacDies, MacFails, NoAnswer, StageFile,
         InstallFile, Unlink, Look, PlaceDirectory, LookAgain, Discard, Unstage, AskFinish,
         CatchPc, MacAt, Vouched, Unbound, Returned
    <3> QED BY <3>1, MacGoesOn
  <2> QED BY <2>1, <2>2, <2>3
<1>6. ASSUME NEW pc, GoesOn(p, pc), pc \in Unbound \/ (pc \in Vouched /\ mac[p].pc \in Vouched),
             mac[p].pc \in {"begin", "failed", "dead"} /\ opening[p].pc # "none"
                 => pc \in {"failed", "dead"}
      PROVE  Snap(p)'
  <2>1. mac[p].pc \in Vouched => mac[p].got \in held[p]
    BY DEF Snap, MacSnap
  <2>2. opening[p].pc # "none" => mac[p].pc \in {"begin", "failed", "dead"}
    BY DEF Snap, OpeningSnap
  <2> QED BY <1>1, <1>6, <2>1, <2>2, SnapGoesOn
<1> QED BY <1>3, <1>4, <1>5, <1>6

PullInv == PullTypeOK /\ \A p \in Pull : Snap(p)

LEMMA SnapKept == PullInv /\ [PullNext]_pullVars => PullInv'
<1> SUFFICES ASSUME PullInv, [PullNext]_pullVars PROVE PullInv'
  OBVIOUS
<1>1. PullTypeOK /\ PullTypeOK' /\ \A p \in Pull : Snap(p)
  BY PullTypesKept DEF PullInv
<1>2. ASSUME NEW q \in Pull PROVE Snap(q)'
  <2>1. CASE Edit
    BY <1>1, <2>1, SnapEdit
  <2>2. CASE OtherCreates
    BY <1>1, <2>2, SnapSame DEF OtherCreates, sourceVars, workerVars
  <2>3. ASSUME NEW p \in Pull, WorkerStep(p) \/ LocalStep(p) \/ Invoke(p) PROVE Snap(q)'
    BY <1>1, <2>3, SnapOthers, SnapWorker, SnapLocal, SnapInvoke
  <2>4. CASE UNCHANGED pullVars
    BY <1>1, <2>4, SnapSame DEF pullVars, sourceVars, workerVars
  <2> QED BY <2>1, <2>2, <2>3, <2>4 DEF PullNext, WorkerStep, LocalStep
<1> QED BY <1>1, <1>2 DEF PullInv

(* What a pull installs is what the source was at one moment of it.        *)
THEOREM PullsTakeSnapshots == PullSpec => []SnapshotTaken
<1>1. PullInit => PullInv
  BY PullTypesBegin, SnapBegins DEF PullInv
<1>2. PullInv => SnapshotTaken
  BY SnapGives DEF PullInv
<1> QED BY <1>1, <1>2, SnapKept, PTL DEF PullSpec

-----------------------------------------------------------------------------
(* The destination is empty only in a gap, and then a backup is there.     *)

Aftermath == {"unstage", "abandon"} \cup Returned
KeepsAside(p) ==
    /\ There(aside[p]) => mac[p].moved
    /\ mac[p].moved =>
          mac[p].pc \in {"place", "undo", "restore", "discard", "finish"} \cup Aftermath
    /\ (MacAt(p, "place") /\ mac[p].moved) \/ mac[p].pc \in {"undo", "restore"}
          => There(aside[p])
    /\ mac[p].stuck => mac[p].pc \in Aftermath

KeptInv == PullTypeOK /\ DestinationKept /\ \A p \in Pull : KeepsAside(p)

LEMMA KeptBegins == PullInit => KeptInv
<1>1. ASSUME PullInit PROVE DestinationKept /\ \A p \in Pull : KeepsAside(p)
  BY <1>1 DEF PullInit, DestinationKept, KeepsAside, NoMac, There, Nothing, MacAt
<1> QED BY <1>1, PullTypesBegin DEF KeptInv

LEMMA GoesMoved ==
  ASSUME PullTypeOK, NEW p \in Pull, NEW pc, MacGoes(p, pc)
  PROVE  mac'[p].pc = pc /\ mac'[p].moved = mac[p].moved /\ mac'[p].stuck = mac[p].stuck
<1>1. mac[p] \in Mac /\ mac'[p] = [mac[p] EXCEPT !.pc = pc]
  BY DEF MacGoes, PullTypeOK
<1> QED BY <1>1 DEF Mac

LEMMA WorkerAside ==
  ASSUME KeptInv, NEW p \in Pull, WorkerStep(p)
  PROVE  /\ aside' = aside /\ destination' = destination
         /\ mac'[p].moved = mac[p].moved /\ mac'[p].stuck = mac[p].stuck
         /\ mac'[p].pc = mac[p].pc \/ (MacAt(p, "begin") /\ mac'[p].pc \in {"failed", "download"})
<1>1. aside' = aside /\ destination' = destination
  BY DEF WorkerStep, OpeningStep, Clearing, List, PutFile, Reserve, Pack, PutDirectory,
     DropArchive, ListFails, PackFails, WorkerDies, SweepRow, SweepSlow, SweepOrphan,
     RemovePacked,
     RemoveRow, BookingExpires, localVars
<1>2. mac[p] \in Mac
  BY DEF KeptInv, PullTypeOK
<1>3. mac' = mac \/ Reply(p, Refused(p)) \/ \E d, s : Reply(p, Accepted(p, d, s))
  BY DEF WorkerStep, OpeningStep, Clearing, List, PutFile, Reserve, Pack, PutDirectory,
     DropArchive, ListFails, PackFails, WorkerDies, SweepRow, SweepSlow, SweepOrphan,
     RemovePacked, RemoveRow, BookingExpires
<1>4. CASE mac' = mac
  BY <1>1, <1>4
<1>5. CASE Reply(p, Refused(p)) /\ mac' # mac
  <2>1. MacAt(p, "begin") /\ mac'[p] = [mac[p] EXCEPT !.pc = "failed"]
    BY <1>5 DEF Reply, Refused, KeptInv, PullTypeOK
  <2> QED BY <1>1, <1>2, <2>1 DEF Mac
<1>6. ASSUME NEW d, NEW s, Reply(p, Accepted(p, d, s)), mac' # mac
      PROVE  /\ MacAt(p, "begin") /\ mac'[p].pc = "download"
             /\ mac'[p].moved = mac[p].moved /\ mac'[p].stuck = mac[p].stuck
  <2>1. MacAt(p, "begin")
    BY <1>6 DEF Reply
  <2>2. mac'[p] = [mac[p] EXCEPT !.pc = "download", !.told = [digest |-> d, sum |-> s]]
    BY <1>6, <2>1 DEF Reply, Accepted, KeptInv, PullTypeOK
  <2> QED BY <1>2, <2>1, <2>2 DEF Mac
<1> QED BY <1>1, <1>3, <1>4, <1>5, <1>6

(* What a step of pullPath changes of where it is and of its backup.       *)
Goes(p, pc) == mac'[p].pc = pc /\ mac'[p].moved = mac[p].moved /\ mac'[p].stuck = mac[p].stuck

LEMMA KeepsAsideKept ==
  ASSUME KeptInv, NEW p \in Pull, LocalStep(p)
  PROVE  KeepsAside(p)' /\ DestinationKept'
<1>1. mac[p] \in Mac /\ KeepsAside(p) /\ DestinationKept /\ PullTypeOK
  BY DEF KeptInv, PullTypeOK
<1>2. \A q \in Pull \ {p} : mac'[q] = mac[q] /\ aside'[q] = aside[q]
  BY <1>1, PullElsewhere
<1>3. \A pc : MacGoes(p, pc) => Goes(p, pc)
  BY <1>1, GoesMoved DEF Goes
<1>4. There(Own(p)) /\ ~There(Nothing)
  BY DEF There, Own, Nothing
(* Nothing leaves the destination empty, and what was aside stays there.   *)
<1>5. ASSUME There(destination) => There(destination'), mac'[p].moved => mac[p].moved,
             There(aside[p]) /\ Gap(p) /\ ~There(destination') => There(aside'[p]) /\ Gap(p)'
      PROVE  DestinationKept'
  <2>1. SUFFICES ASSUME \E q \in Pull : mac'[q].moved, ~There(destination')
                 PROVE  \E q \in Pull : There(aside'[q]) /\ Gap(q)'
    BY DEF DestinationKept
  <2>2. \E q \in Pull : mac[q].moved
    BY <1>2, <1>5, <2>1
  <2>3. PICK q \in Pull : There(aside[q]) /\ Gap(q)
    BY <1>1, <1>5, <2>1, <2>2 DEF DestinationKept
  <2>4. There(aside'[q]) /\ Gap(q)'
    BY <1>2, <1>5, <2>1, <2>3 DEF Gap
  <2> QED BY <2>4
(* Before anything is moved, there is nothing aside.                       *)
<1>6. ASSUME aside' = aside, There(destination) => There(destination'), NEW pc, Goes(p, pc),
             pc \notin {"undo", "restore"}, ~mac[p].moved, ~mac[p].stuck
      PROVE  KeepsAside(p)' /\ DestinationKept'
  <2>1. ~There(aside[p]) /\ ~There(aside'[p])
    BY <1>1, <1>6 DEF KeepsAside
  <2>2. KeepsAside(p)'
    BY <1>6, <2>1 DEF KeepsAside, Goes, MacAt
  <2> QED BY <1>5, <1>6, <2>1, <2>2 DEF Goes
<1>7. CASE ReadChunk(p)
  <2>1. MacAt(p, "download") /\ aside' = aside /\ destination' = destination
    BY <1>7 DEF ReadChunk, localVars
  <2>2. Goes(p, "download") \/ Goes(p, "abandon")
    <3>1. \/ \E k, v : mac'[p] = [mac[p] EXCEPT !.at = k, !.got = v]
          \/ mac'[p] = [mac[p] EXCEPT !.pc = "abandon"]
      BY <1>1, <1>7 DEF ReadChunk, PullTypeOK
    <3> QED BY <1>1, <2>1, <3>1 DEF Goes, Mac, MacAt
  <2>3. ~mac[p].moved /\ ~mac[p].stuck
    BY <1>1, <2>1 DEF KeepsAside, MacAt, Aftermath, Returned
  <2> QED BY <1>6, <2>1, <2>2, <2>3
<1>8. CASE VerifyDownload(p)
  <2>1. MacAt(p, "download") /\ aside' = aside /\ (There(destination) => There(destination'))
    BY <1>4, <1>8 DEF VerifyDownload, localVars
  <2>2. PICK pc : Goes(p, pc) /\ pc \notin {"undo", "restore"}
    BY <1>3, <1>8 DEF VerifyDownload
  <2>3. ~mac[p].moved /\ ~mac[p].stuck
    BY <1>1, <2>1 DEF KeepsAside, MacAt, Aftermath, Returned
  <2> QED BY <1>6, <2>1, <2>2, <2>3
<1>9. CASE NoAnswer(p)
  <2>1. MacAt(p, "begin") /\ aside' = aside /\ (There(destination) => There(destination'))
    BY <1>4, <1>9 DEF NoAnswer, localVars
  <2>2. PICK pc : Goes(p, pc) /\ pc \notin {"undo", "restore"}
    BY <1>3, <1>9 DEF NoAnswer
  <2>3. ~mac[p].moved /\ ~mac[p].stuck
    BY <1>1, <2>1 DEF KeepsAside, MacAt, Aftermath, Returned
  <2> QED BY <1>6, <2>1, <2>2, <2>3
<1>10. CASE StageFile(p)
  <2>1. MacAt(p, "stage") /\ aside' = aside /\ (There(destination) => There(destination'))
    BY <1>4, <1>10 DEF StageFile, localVars
  <2>2. PICK pc : Goes(p, pc) /\ pc \notin {"undo", "restore"}
    BY <1>3, <1>10 DEF StageFile, MacFails
  <2>3. ~mac[p].moved /\ ~mac[p].stuck
    BY <1>1, <2>1 DEF KeepsAside, MacAt, Aftermath, Returned
  <2> QED BY <1>6, <2>1, <2>2, <2>3
<1>11. CASE InstallFile(p)
  <2>1. MacAt(p, "install") /\ aside' = aside /\ (There(destination) => There(destination'))
    BY <1>4, <1>11 DEF InstallFile, localVars
  <2>2. PICK pc : Goes(p, pc) /\ pc \notin {"undo", "restore"}
    BY <1>3, <1>11 DEF InstallFile, MacFails
  <2>3. ~mac[p].moved /\ ~mac[p].stuck
    BY <1>1, <2>1 DEF KeepsAside, MacAt, Aftermath, Returned
  <2> QED BY <1>6, <2>1, <2>2, <2>3
<1>12. CASE Unlink(p)
  <2>1. MacAt(p, "unlink") /\ aside' = aside /\ (There(destination) => There(destination'))
    BY <1>4, <1>12 DEF Unlink, localVars
  <2>2. PICK pc : Goes(p, pc) /\ pc \notin {"undo", "restore"}
    BY <1>3, <1>12 DEF Unlink, MacFails
  <2>3. ~mac[p].moved /\ ~mac[p].stuck
    BY <1>1, <2>1 DEF KeepsAside, MacAt, Aftermath, Returned
  <2> QED BY <1>6, <2>1, <2>2, <2>3
<1>13. CASE Unpack(p)
  <2>1. MacAt(p, "unpack") /\ aside' = aside /\ (There(destination) => There(destination'))
    BY <1>4, <1>13 DEF Unpack, localVars
  <2>2. PICK pc : Goes(p, pc) /\ pc \notin {"undo", "restore"}
    BY <1>3, <1>13 DEF Unpack, MacFails
  <2>3. ~mac[p].moved /\ ~mac[p].stuck
    BY <1>1, <2>1 DEF KeepsAside, MacAt, Aftermath, Returned
  <2> QED BY <1>6, <2>1, <2>2, <2>3
<1>14. CASE Extract(p)
  <2>1. MacAt(p, "extract") /\ aside' = aside /\ (There(destination) => There(destination'))
    BY <1>4, <1>14 DEF Extract, localVars
  <2>2. PICK pc : Goes(p, pc) /\ pc \notin {"undo", "restore"}
    BY <1>3, <1>14 DEF Extract, MacFails
  <2>3. ~mac[p].moved /\ ~mac[p].stuck
    BY <1>1, <2>1 DEF KeepsAside, MacAt, Aftermath, Returned
  <2> QED BY <1>6, <2>1, <2>2, <2>3
<1>15. CASE Look(p)
  <2>1. MacAt(p, "look") /\ aside' = aside /\ (There(destination) => There(destination'))
    BY <1>4, <1>15 DEF Look, localVars
  <2>2. PICK pc : Goes(p, pc) /\ pc \notin {"undo", "restore"}
    BY <1>3, <1>15 DEF Look
  <2>3. ~mac[p].moved /\ ~mac[p].stuck
    BY <1>1, <2>1 DEF KeepsAside, MacAt, Aftermath, Returned
  <2> QED BY <1>6, <2>1, <2>2, <2>3
<1>16. CASE MoveAside(p)
  <2>1. MacAt(p, "aside") /\ ~mac[p].moved /\ ~mac[p].stuck
    BY <1>1, <1>16 DEF MoveAside, KeepsAside, MacAt, Aftermath, Returned
  <2>2. CASE /\ There(destination) /\ aside' = [aside EXCEPT ![p] = destination]
             /\ mac' = [mac EXCEPT ![p] = [@ EXCEPT !.pc = "place", !.moved = TRUE]]
    <3>1. mac'[p].pc = "place" /\ mac'[p].moved /\ mac'[p].stuck = mac[p].stuck
      BY <1>1, <2>2 DEF PullTypeOK, Mac
    <3>2. There(aside'[p])
      BY <1>1, <2>2 DEF PullTypeOK
    <3>3. KeepsAside(p)'
      BY <2>1, <3>1, <3>2 DEF KeepsAside, MacAt
    <3>4. DestinationKept'
      BY <3>1, <3>2 DEF DestinationKept, Gap
    <3> QED BY <3>3, <3>4
  <2>3. CASE MacGoes(p, "unstage") /\ UNCHANGED <<destination, aside>>
    BY <1>3, <1>6, <2>1, <2>3
  <2> QED BY <1>16, <2>2, <2>3 DEF MoveAside, MacFails
<1>17. CASE PlaceDirectory(p)
  <2>1. MacAt(p, "place") /\ ~mac[p].stuck /\ aside' = aside
    BY <1>1, <1>17 DEF PlaceDirectory, KeepsAside, MacAt, Aftermath, Returned
  <2>2. There(aside[p]) <=> mac[p].moved
    BY <1>1, <2>1 DEF KeepsAside
  <2>3. CASE destination' = Own(p) /\ MacGoes(p, IF mac[p].moved THEN "discard" ELSE "finish")
    <3>1. Goes(p, IF mac[p].moved THEN "discard" ELSE "finish") /\ There(destination')
      BY <1>3, <1>4, <2>3
    <3>2. KeepsAside(p)'
      BY <2>1, <2>2, <3>1 DEF KeepsAside, Goes, MacAt
    <3> QED BY <3>1, <3>2 DEF DestinationKept
  <2>4. CASE MacGoes(p, CatchPc(p)) /\ destination' = destination
    <3>1. Goes(p, IF mac[p].moved THEN "undo" ELSE "unstage")
      BY <1>3, <2>4 DEF CatchPc
    <3>2. KeepsAside(p)'
      BY <2>1, <2>2, <3>1 DEF KeepsAside, Goes, MacAt, Aftermath
    <3> QED BY <1>5, <2>1, <2>2, <2>4, <3>1, <3>2 DEF Goes, Gap
  <2> QED BY <1>17, <2>3, <2>4 DEF PlaceDirectory, MacFails
<1>18. CASE LookAgain(p)
  <2>1. /\ MacAt(p, "undo") /\ ~mac[p].stuck /\ There(aside[p]) /\ mac[p].moved
        /\ aside' = aside /\ destination' = destination
    BY <1>1, <1>18 DEF LookAgain, KeepsAside, MacAt, Aftermath, Returned, localVars
  <2>2. Goes(p, IF There(destination) THEN "unstage" ELSE "restore")
    BY <1>3, <1>18 DEF LookAgain
  <2>3. KeepsAside(p)'
    BY <2>1, <2>2 DEF KeepsAside, Goes, MacAt, Aftermath
  <2> QED BY <1>5, <2>1, <2>2, <2>3 DEF Goes, Gap
<1>19. CASE PutBack(p)
  <2>1. MacAt(p, "restore") /\ ~mac[p].stuck /\ There(aside[p]) /\ mac[p].moved
    BY <1>1, <1>19 DEF PutBack, KeepsAside, MacAt, Aftermath, Returned
  <2>2. CASE /\ destination' = aside[p] /\ aside' = [aside EXCEPT ![p] = Nothing]
             /\ MacGoes(p, "unstage")
    <3>1. Goes(p, "unstage") /\ There(destination') /\ ~There(aside'[p])
      BY <1>1, <1>3, <1>4, <2>1, <2>2 DEF PullTypeOK
    <3>2. KeepsAside(p)'
      BY <2>1, <3>1 DEF KeepsAside, Goes, MacAt, Aftermath
    <3> QED BY <3>1, <3>2 DEF DestinationKept
  <2>3. CASE /\ ~Replaceable(aside[p], destination) /\ UNCHANGED <<destination, aside>>
             /\ MacGoes(p, "unstage")
    <3>1. Goes(p, "unstage") /\ There(destination')
      BY <1>3, <2>3 DEF Replaceable
    <3>2. KeepsAside(p)'
      BY <2>1, <2>3, <3>1 DEF KeepsAside, Goes, MacAt, Aftermath
    <3> QED BY <3>1, <3>2 DEF DestinationKept
  <2>4. CASE /\ mac' = [mac EXCEPT ![p] = [@ EXCEPT !.pc = "unstage", !.stuck = TRUE]]
             /\ UNCHANGED <<destination, aside>>
    <3>1. mac'[p].pc = "unstage" /\ mac'[p].stuck /\ mac'[p].moved = mac[p].moved
      BY <1>1, <2>4 DEF PullTypeOK, Mac
    <3>2. KeepsAside(p)'
      BY <2>1, <2>4, <3>1 DEF KeepsAside, MacAt, Aftermath
    <3> QED BY <1>5, <2>1, <2>4, <3>1, <3>2 DEF Gap
  <2> QED BY <1>19, <2>2, <2>3, <2>4 DEF PutBack
<1>20. CASE Discard(p)
  <2>1. MacAt(p, "discard") /\ ~mac[p].stuck /\ destination' = destination
    BY <1>1, <1>20 DEF Discard, KeepsAside, MacAt, Aftermath, Returned
  <2>2. Goes(p, "finish") /\ (There(aside'[p]) => There(aside[p]))
    BY <1>1, <1>3, <1>4, <1>20 DEF Discard, PullTypeOK
  <2>3. KeepsAside(p)'
    BY <1>1, <2>1, <2>2 DEF KeepsAside, Goes, MacAt
  <2>4. ~Gap(p)
    BY <2>1 DEF Gap, MacAt
  <2> QED BY <1>5, <2>1, <2>2, <2>3, <2>4 DEF Goes
<1>21. CASE Unstage(p) \/ AskFinish(p)
  <2>1. /\ mac[p].pc \in {"unstage", "finish", "abandon"}
        /\ aside' = aside /\ destination' = destination
    BY <1>21 DEF Unstage, AskFinish, MacAt, localVars
  <2>2. PICK pc \in Aftermath : Goes(p, pc)
    BY <1>3, <1>21 DEF Unstage, AskFinish, Aftermath, Returned
  <2>3. KeepsAside(p)'
    BY <1>1, <2>1, <2>2 DEF KeepsAside, Goes, MacAt, Aftermath, Returned
  <2>4. Gap(p) => Gap(p)'
    BY <2>1, <2>2 DEF Gap, Goes
  <2> QED BY <1>5, <2>1, <2>2, <2>3, <2>4 DEF Goes
<1>22. CASE MacDies(p)
  <2>1. Goes(p, "dead") /\ aside' = aside /\ destination' = destination
    BY <1>3, <1>22 DEF MacDies, MacFails, localVars
  <2>2. KeepsAside(p)'
    BY <1>1, <2>1 DEF KeepsAside, Goes, MacAt, Aftermath, Returned
  <2>3. Gap(p)'
    BY <2>1 DEF Gap, Goes
  <2> QED BY <1>5, <2>1, <2>2, <2>3 DEF Goes
<1>23. CASE CallLost(p)
  <2>1. mac[p].pc \in {"begin", "download"} /\ aside' = aside /\ destination' = destination
    BY <1>23 DEF CallLost, MacAt, localVars
  <2>2. Goes(p, "failed") \/ Goes(p, "abandon")
    BY <1>3, <1>23 DEF CallLost
  <2>3. ~mac[p].moved /\ ~mac[p].stuck
    BY <1>1, <2>1 DEF KeepsAside, Aftermath, Returned
  <2> QED BY <1>6, <2>1, <2>2, <2>3
<1> QED BY <1>7, <1>8, <1>9, <1>10, <1>11, <1>12, <1>13, <1>14, <1>15, <1>16, <1>17,
           <1>18, <1>19, <1>20, <1>21, <1>22, <1>23
        DEF LocalStep, MacStep

LEMMA KeptKept == KeptInv /\ [PullNext]_pullVars => KeptInv'
<1> SUFFICES ASSUME KeptInv, [PullNext]_pullVars PROVE KeptInv'
  OBVIOUS
<1>1. PullTypeOK' /\ PullTypeOK /\ DestinationKept /\ \A q \in Pull : KeepsAside(q)
  BY PullTypesKept DEF KeptInv
(* Where no pull moves anything, nor does the destination empty.           *)
<1>2. ASSUME aside' = aside, There(destination) => There(destination'),
             \A q \in Pull : mac'[q].moved = mac[q].moved /\ mac'[q].stuck = mac[q].stuck,
             \A q \in Pull : mac'[q].pc = mac[q].pc
                \/ /\ mac[q].pc \in {"idle", "begin"}
                   /\ mac'[q].pc \in {"begin", "failed", "download"}
      PROVE  KeptInv'
  <2>1. ASSUME NEW q \in Pull PROVE KeepsAside(q)' /\ (Gap(q) /\ There(aside[q]) => Gap(q)')
    <3>1. CASE mac'[q].pc = mac[q].pc
      BY <1>1, <1>2, <3>1 DEF KeepsAside, Gap, MacAt
    <3>2. CASE mac[q].pc \in {"idle", "begin"} /\ mac'[q].pc \in {"begin", "failed", "download"}
      <4>1. ~mac[q].moved /\ ~mac[q].stuck /\ ~There(aside[q])
        BY <1>1, <3>2 DEF KeepsAside, Aftermath, Returned
      <4> QED BY <1>2, <3>2, <4>1 DEF KeepsAside, MacAt
    <3> QED BY <1>2, <3>1, <3>2
  <2>2. DestinationKept'
    <3>1. SUFFICES ASSUME \E q \in Pull : mac'[q].moved, ~There(destination')
                   PROVE  \E q \in Pull : There(aside'[q]) /\ Gap(q)'
      BY DEF DestinationKept
    <3>2. PICK q \in Pull : There(aside[q]) /\ Gap(q)
      BY <1>1, <1>2, <3>1 DEF DestinationKept
    <3> QED BY <1>2, <2>1, <3>2
  <2> QED BY <1>1, <2>1, <2>2 DEF KeptInv
<1>3. CASE Edit
  BY <1>2, <1>3 DEF Edit, localVars
<1>4. CASE OtherCreates
  BY <1>2, <1>4 DEF OtherCreates
<1>5. ASSUME NEW p \in Pull, Invoke(p) PROVE KeptInv'
  <2>1. mac[p] \in Mac /\ MacAt(p, "idle") /\ aside' = aside /\ destination' = destination
    BY <1>1, <1>5 DEF Invoke, PullTypeOK, localVars
  <2>2. PICK d, o : mac' = [mac EXCEPT ![p] = [@ EXCEPT !.pc = "begin", !.directory = d,
                                                        !.overwrite = o]]
    BY <1>5 DEF Invoke
  <2>3. Goes(p, "begin")
    BY <1>1, <2>1, <2>2 DEF PullTypeOK, Mac, Goes
  <2>4. \A q \in Pull \ {p} : mac'[q] = mac[q]
    BY <1>1, <1>5, PullElsewhere
  <2> QED BY <1>2, <2>1, <2>3, <2>4 DEF Goes, MacAt
<1>6. ASSUME NEW p \in Pull, WorkerStep(p) PROVE KeptInv'
  <2>1. \A q \in Pull \ {p} : mac'[q] = mac[q]
    BY <1>1, <1>6, PullElsewhere
  <2> QED BY <1>2, <1>6, <2>1, WorkerAside DEF MacAt
<1>7. ASSUME NEW p \in Pull, LocalStep(p) PROVE KeptInv'
  <2>1. KeepsAside(p)' /\ DestinationKept'
    BY <1>7, KeepsAsideKept
  <2>2. ASSUME NEW q \in Pull, q # p PROVE KeepsAside(q)'
    BY <1>1, <1>7, <2>2, PullElsewhere DEF KeepsAside, MacAt
  <2> QED BY <1>1, <2>1, <2>2 DEF KeptInv
<1>8. CASE UNCHANGED pullVars
  BY <1>2, <1>8 DEF pullVars, localVars
<1> QED BY <1>3, <1>4, <1>5, <1>6, <1>7, <1>8 DEF PullNext, WorkerStep, LocalStep

(* The destination is empty only where one pull's backup is about to be    *)
(* put there, or could not be.                                             *)
THEOREM PullsKeepDestination == PullSpec => []DestinationKept
<1>1. KeptInv => DestinationKept
  BY DEF KeptInv
<1> QED BY <1>1, KeptBegins, KeptKept, PTL DEF PullSpec
=============================================================================
