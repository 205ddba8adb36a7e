------------------------- MODULE JobExecutorProofs -------------------------
(***************************************************************************)
(* What holds of the Job executor for every number of Jobs, keys, handlers *)
(* and crashes and under every fault of the environment: the types, one    *)
(* Job per idempotency key, a cancellation that beats the claim, that a    *)
(* Job whose runner is past its claim stays settled, and that the executor *)
(* implements JobOnce.                                                     *)
(*                                                                         *)
(* One inductive invariant carries these. Its steps are proved action      *)
(* by action. All but three actions are "quiet": they admit no Job and     *)
(* start no program, so the lemmas Quiet and QuietPromise derive most of   *)
(* the invariant, and the JobOnce step, from what those actions share.     *)
(*                                                                         *)
(* Three more invariants on top of it, each for what it takes of the host: *)
(* WatchInv under every fault, PunctualInv if launches and heartbeats are  *)
(* in time and nobody cancels, UndisturbedInv if no fault occurs at all.   *)
(***************************************************************************)
EXTENDS JobExecutor, TLAPS, FiniteSetTheorems

(* Nothing belongs to a Job before its row is inserted, except the         *)
(* start_job handler that has drawn its identifier.                        *)
AdmittedFirst ==
    \A j \in JobId : rows[j].status = "absent" =>
        /\ rows[j].key = NoKey /\ ~rows[j].cancel
        /\ runner[j] = "none" /\ child[j] = "none"
        /\ \A h \in Handler : /\ stale[h][j].step = "none"
                              /\ handler[h].job = j => handler[h].pc = "start_insert"

WorksOnJob == {"start_insert", "start_launch",
               "cancel_read", "cancel_request", "cancel_kill", "cancel_write"}
HandlerHasJob ==
    \A h \in Handler : handler[h].pc \in WorksOnJob <=> handler[h].job \in JobId

(* An identifier about to be inserted is still unused, keeps its storage   *)
(* reservation and is known to one handler only.                           *)
InsertOwned ==
    \A h \in Handler : handler[h].pc = "start_insert" =>
        /\ rows[handler[h].job].status = "absent"
        /\ handler[h].job \in reserved
        /\ \A g \in Handler : handler[g].job = handler[h].job => g = h

VerdictReady ==
    \A j \in JobId : runner[j] \in {"writing", "rewriting"} => verdict[j] \in TerminalStatus

ChildAfterClaim ==
    \A j \in JobId :
        child[j] # "none" => runner[j] \notin {"none", "boot", "waiting", "claimed"}

(* The inductive invariant.                                                *)
IInv ==
    /\ TypeOK
    /\ UniqueKey
    /\ AdmittedFirst
    /\ HandlerHasJob
    /\ InsertOwned
    /\ VerdictReady
    /\ ChildAfterClaim

(* A step of the promise, or one that the promise does not see.            *)
OnceStep == [Once!Next]_(Once!vars)

Status == ActiveStatus \cup TerminalStatus

-----------------------------------------------------------------------------
(* What the helpers do.                                                    *)

(* A new status, or the child's pid with it, leaves a well-formed row ...  *)
LEMMA RowStatus ==
  ASSUME NEW r \in Row, NEW s \in Status
  PROVE [r EXCEPT !.status = s] \in Row /\ [r EXCEPT !.status = s, !.pid = TRUE] \in Row
  BY DEF Row, Status

(* ... and so does a recorded cancellation, or a runner that comes or goes. *)
LEMMA RowFlags ==
  ASSUME NEW r \in Row, NEW b \in BOOLEAN
  PROVE [r EXCEPT !.cancel = b] \in Row /\ [r EXCEPT !.runner = b] \in Row
  BY DEF Row

(* A handler that goes on, ...                                             *)
LEMMA HandlerGoes ==
  ASSUME NEW s \in HandlerState, NEW pc \in HandlerPc
  PROVE [s EXCEPT !.pc = pc] \in HandlerState
  BY DEF HandlerState

(* ... draws an identifier, ...                                            *)
LEMMA HandlerDraws ==
  ASSUME NEW s \in HandlerState, NEW pc \in HandlerPc, NEW j \in JobId
  PROVE [s EXCEPT !.pc = pc, !.job = j] \in HandlerState
  BY DEF HandlerState

(* ... or notes what to terminate is in a state it may be in.              *)
LEMMA HandlerAims ==
  ASSUME NEW s \in HandlerState, NEW pc \in HandlerPc, NEW target \in {"none", "runner", "child"}
  PROVE [s EXCEPT !.pc = pc, !.target = target] \in HandlerState
  BY DEF HandlerState

(* setJobStatus (state.ts) changes the status of one row and nothing else. *)
LEMMA SetStatusEffect ==
  ASSUME TypeOK, NEW j \in JobId, NEW s \in Status, SetStatus(j, s)
  PROVE /\ rows' \in [JobId -> Row]
        /\ rows'[j].status = s
        /\ \A i \in JobId : /\ rows'[i].key = rows[i].key /\ rows'[i].cancel = rows[i].cancel
                            /\ i # j => rows'[i] = rows[i]
<1>1. [rows[j] EXCEPT !.status = s] \in Row
  BY RowStatus DEF TypeOK
<1>2. rows' = [rows EXCEPT ![j] = [rows[j] EXCEPT !.status = s]]
  BY DEF SetStatus
<1> QED BY <1>1, <1>2 DEF TypeOK, Row

(* setJobRunner (state.ts) records the runner of a row and leaves its status, *)
(* key and cancellation request alone.                                     *)
LEMMA SetRunnerEffect ==
  ASSUME TypeOK, NEW j \in JobId, SetRunner(j)
  PROVE /\ rows' \in [JobId -> Row]
        /\ \A i \in JobId : /\ rows'[i].key = rows[i].key /\ rows'[i].cancel = rows[i].cancel
                            /\ rows'[i].status = rows[i].status
                            /\ i # j => rows'[i] = rows[i]
<1>1. (rows[j].runner \/ Active(j)) \in BOOLEAN
  BY DEF TypeOK, Row, Active
<1>2. [rows[j] EXCEPT !.runner = rows[j].runner \/ Active(j)] \in Row
  <2> DEFINE b == rows[j].runner \/ Active(j)
  <2>1. b \in BOOLEAN
    BY <1>1
  <2> HIDE DEF b
  <2>2. [rows[j] EXCEPT !.runner = b] \in Row
    BY <2>1, RowFlags DEF TypeOK
  <2> QED BY <2>2 DEF b
<1>3. rows' = [rows EXCEPT ![j] = [rows[j] EXCEPT !.runner = rows[j].runner \/ Active(j)]]
  BY DEF SetRunner
<1> QED BY <1>2, <1>3 DEF TypeOK, Row

(* A handler that goes on keeps its Job.                                   *)
LEMMA GotoEffect ==
  ASSUME TypeOK, NEW h \in Handler, NEW pc \in HandlerPc, Goto(h, pc)
  PROVE /\ handler' \in [Handler -> HandlerState]
        /\ handler'[h].pc = pc /\ handler'[h].job = handler[h].job
        /\ \A g \in Handler : g # h => handler'[g] = handler[g]
<1>1. [handler[h] EXCEPT !.pc = pc] \in HandlerState
  BY HandlerGoes DEF TypeOK
<1> QED BY <1>1 DEF TypeOK, Goto, HandlerState

(* A handler that returns works on no Job any more.                        *)
LEMMA FinishEffect ==
  ASSUME TypeOK, NEW h \in Handler, Finish(h)
  PROVE /\ handler' \in [Handler -> HandlerState]
        /\ handler'[h].pc = "idle" /\ handler'[h].job \notin JobId
        /\ \A g \in Handler : g # h => handler'[g] = handler[g]
  BY ExecutorAssumption
  DEF ExecutorAssumption, TypeOK, Finish, HandlerState, Idle, HandlerPc

(* A reconciliation step changes one entry of one handler's listing.       *)
LEMMA SetStaleEffect ==
  ASSUME TypeOK, NEW h \in Handler, NEW j \in JobId, NEW step \in {"none", "probe", "kill", "write"},
         SetStale(h, j, step)
  PROVE /\ stale' \in [Handler -> [JobId -> StaleEntry]]
        /\ \A g \in Handler, i \in JobId : g # h \/ i # j => stale'[g][i] = stale[g][i]
<1> DEFINE entry == IF step = "none" THEN NotStale ELSE [stale[h][j] EXCEPT !.step = step]
<1>1. entry \in StaleEntry
  <2>1. stale[h][j] \in StaleEntry
    BY DEF TypeOK
  <2>2. [stale[h][j] EXCEPT !.step = step] \in StaleEntry
    BY <2>1 DEF StaleEntry
  <2> QED BY <2>2 DEF StaleEntry, NotStale
<1>2. stale' = [stale EXCEPT ![h] = [stale[h] EXCEPT ![j] = entry]]
  BY DEF SetStale
<1> HIDE DEF entry
<1> QED BY <1>1, <1>2 DEF TypeOK

-----------------------------------------------------------------------------
(* Quiet steps: no row appears, no key changes, no cancellation is         *)
(* forgotten ...                                                           *)
RowsKept ==
    \A j \in JobId :
        /\ rows'[j].key = rows[j].key
        /\ rows'[j].status = "absent" <=> rows[j].status = "absent"
        /\ rows[j].cancel => rows'[j].cancel
        /\ rows[j].status = "absent" =>
              /\ ~rows'[j].cancel /\ runner'[j] = "none" /\ child'[j] = "none"
              /\ \A h \in Handler : stale'[h][j].step = "none"

(* ... no handler acquires a fresh identifier or loses its reservation ... *)
HandlersKept ==
    \A h \in Handler :
        \/ handler'[h].pc \notin WorksOnJob /\ handler'[h].job \notin JobId
        \/ handler'[h] = handler[h] /\ handler[h].pc = "start_insert" /\ handler[h].job \in reserved'
        \/ /\ handler'[h].pc \in WorksOnJob \ {"start_insert"} /\ handler'[h].job \in JobId
           /\ rows[handler'[h].job].status # "absent"

(* ... and at most one Job's processes move, never towards a start.        *)
Advances(j) ==
    /\ \A i \in JobId : i # j => runner'[i] = runner[i] /\ child'[i] = child[i]
    /\ child'[j] = child[j] \/ (child[j] = "alive" /\ child'[j] = "dead")
    /\ runner[j] = "dead" => runner'[j] = "dead"
    /\ \/ runner'[j] = runner[j]
       \/ runner'[j] \notin {"claimed", "spawned"}
       \/ runner'[j] = "claimed" /\ ~rows[j].cancel

QuietStep ==
    /\ RowsKept
    /\ HandlersKept
    /\ UNCHANGED <<runner, child>> \/ \E j \in JobId : Advances(j)

(* A quiet step keeps the part of the invariant that spans rows, handlers and *)
(* reservations.                                                           *)
LEMMA Quiet ==
  ASSUME IInv, QuietStep
  PROVE UniqueKey' /\ AdmittedFirst' /\ HandlerHasJob' /\ InsertOwned'
<1> USE DEF IInv, QuietStep
<1>1. UniqueKey'
  BY DEF RowsKept, UniqueKey
<1>2. AdmittedFirst'
  BY DEF RowsKept, HandlersKept, AdmittedFirst
<1>3. HandlerHasJob'
  BY DEF HandlersKept, HandlerHasJob, WorksOnJob
<1>4. InsertOwned'
  BY DEF RowsKept, HandlersKept, InsertOwned, HandlerHasJob, WorksOnJob
<1> QED BY <1>1, <1>2, <1>3, <1>4

(* An edit of one row that keeps its key and its cancellation.             *)
RowEdited(j) ==
    /\ \A i \in JobId : i # j => rows'[i] = rows[i]
    /\ rows'[j].key = rows[j].key /\ rows'[j].status # "absent"
    /\ rows[j].cancel => rows'[j].cancel

(* A step of the processes of one Job is quiet if it advances them and     *)
(* edits no row but the Job's.                                             *)
LEMMA ProcessQuiet ==
  ASSUME IInv, NEW j \in JobId, runner[j] # "none" \/ child[j] # "none",
         Advances(j), rows' = rows \/ RowEdited(j),
         UNCHANGED <<handler, stale>>, reserved \ {j} \subseteq reserved'
  PROVE QuietStep
<1>1. rows[j].status # "absent"
  BY DEF IInv, AdmittedFirst
<1>2. RowsKept
  BY <1>1 DEF IInv, AdmittedFirst, RowsKept, RowEdited, Advances
<1>3. HandlersKept
  BY <1>1 DEF IInv, AdmittedFirst, HandlerHasJob, WorksOnJob, InsertOwned, HandlersKept
<1> QED BY <1>2, <1>3 DEF QuietStep

(* A quiet step ends at most one Job in the sense of JobOnce, and starts no *)
(* cancelled one.                                                          *)
LEMMA QuietPromise ==
  ASSUME IInv, QuietStep
  PROVE OnceStep /\ CancelStands
<1>1. CancelStands
  BY DEF QuietStep, RowsKept, Advances, CancelStands, Unstarted
<1>2. \A j \in JobId : rows'[j].key = rows[j].key
  BY DEF QuietStep, RowsKept
<1>3. CASE \A j \in JobId : Phase(j)' = Phase(j)
  BY <1>1, <1>2, <1>3 DEF OnceStep, Once!vars
<1>4. ASSUME NEW j \in JobId, Phase(j)' # Phase(j)
      PROVE OnceStep
  <2>1. Advances(j)
    BY <1>4 DEF QuietStep, RowsKept, Advances, Phase
  <2>2. rows[j].status # "absent" /\ child'[j] # "alive"
    BY <1>4, <2>1 DEF IInv, AdmittedFirst, QuietStep, RowsKept, Advances, Phase
  <2>3. Phase(j) \in {"accepted", "started"} /\ Phase(j)' = "ended"
    BY <1>4, <2>1, <2>2 DEF QuietStep, RowsKept, Advances, Phase, IInv, TypeOK
  <2>4. \A i \in JobId : i # j => Phase(i)' = Phase(i)
    BY <2>1 DEF QuietStep, RowsKept, Advances, Phase
  <2>5. Once!End(j)
    BY <1>2, <2>3, <2>4 DEF Once!End
  <2>6. Once!Next
    BY <2>5 DEF Once!Next
  <2> QED BY <2>6 DEF OnceStep
<1> QED BY <1>1, <1>3, <1>4

-----------------------------------------------------------------------------
(* The actions.                                                            *)

(* One lemma per action: the step keeps the invariant, and it is quiet.    *)
LEMMA LookStep ==
  ASSUME IInv, NEW h \in Handler, Look(h)
  PROVE IInv' /\ QuietStep
<1> USE DEF IInv, Look, Idle, Reconciled
<1>1. TypeOK'
  BY FinishEffect DEF TypeOK
<1>2. QuietStep
  BY FinishEffect
  DEF QuietStep, RowsKept, HandlersKept, Advances, TypeOK, AdmittedFirst,
      HandlerHasJob, WorksOnJob, InsertOwned
<1> QED BY Quiet, <1>1, <1>2 DEF TypeOK, VerdictReady, ChildAfterClaim

(* start_job draws an identifier: not quiet, for a handler acquires a Job. *)
LEMMA StartCheckStep ==
  ASSUME IInv, NEW h \in Handler, StartCheck(h)
  PROVE IInv' /\ OnceStep /\ CancelStands
<1> USE DEF IInv
<1>1. CASE Finish(h) /\ UNCHANGED <<rows, reserved, lease, runner, child, verdict, stale, crashes>>
  <2>1. TypeOK'
    BY <1>1, FinishEffect DEF TypeOK
  <2>2. QuietStep
    BY <1>1, FinishEffect
    DEF QuietStep, RowsKept, HandlersKept, Advances, TypeOK, AdmittedFirst,
        HandlerHasJob, WorksOnJob, InsertOwned
  <2> QED BY Quiet, QuietPromise, <1>1, <2>1, <2>2 DEF VerdictReady, ChildAfterClaim
<1>2. ASSUME NEW j \in JobId, Fresh(j), reserved' = reserved \cup {j},
             handler' = [handler EXCEPT ![h].pc = "start_insert", ![h].job = j],
             UNCHANGED <<rows, lease, runner, child, verdict, stale, crashes>>
      PROVE IInv' /\ OnceStep /\ CancelStands
  <2>1. [handler[h] EXCEPT !.pc = "start_insert", !.job = j] \in HandlerState
    <3>1. "start_insert" \in HandlerPc
      BY DEF HandlerPc
    <3> QED BY <3>1, HandlerDraws DEF TypeOK
  <2>2. handler' = [handler EXCEPT ![h] = [handler[h] EXCEPT !.pc = "start_insert", !.job = j]]
    BY <1>2
  <2>3. /\ handler' \in [Handler -> HandlerState]
        /\ handler'[h].pc = "start_insert" /\ handler'[h].job = j
        /\ \A g \in Handler : g # h => handler'[g] = handler[g]
    BY <2>1, <2>2 DEF TypeOK, HandlerState
  <2>4. TypeOK'
    BY <1>2, <2>3 DEF TypeOK
  <2>5. \A g \in Handler : handler[g].job # j
    BY <1>2 DEF Fresh, AdmittedFirst, InsertOwned
  <2>6. AdmittedFirst' /\ HandlerHasJob' /\ InsertOwned'
    BY <1>2, <2>3, <2>5
    DEF Fresh, AdmittedFirst, HandlerHasJob, WorksOnJob, InsertOwned
  <2>7. OnceStep /\ CancelStands
    BY <1>2 DEF OnceStep, Once!vars, Phase, CancelStands, Unstarted
  <2> QED BY <1>2, <2>4, <2>6, <2>7 DEF UniqueKey, VerdictReady, ChildAfterClaim
<1> QED BY <1>1, <1>2 DEF StartCheck

(* The insertion is the Accept of JobOnce, or releases and stutters.       *)
LEMMA StartInsertStep ==
  ASSUME IInv, NEW h \in Handler, StartInsert(h)
  PROVE IInv' /\ OnceStep /\ CancelStands
<1> USE DEF IInv
<1>1. PICK j \in JobId, k \in Key \cup {NoKey} :
         /\ handler[h].pc = "start_insert" /\ j = handler[h].job /\ k = handler[h].key
         /\ rows[j].status = "absent" /\ j \in reserved
         /\ \A g \in Handler : handler[g].job = j => g = h
  BY DEF StartInsert, HandlerHasJob, WorksOnJob, InsertOwned, TypeOK, HandlerState
<1>2. CASE Release(j) /\ Finish(h) /\ UNCHANGED <<rows, lease, runner, child, verdict, stale, crashes>>
  <2>1. TypeOK'
    BY <1>2, FinishEffect DEF TypeOK, Release
  <2>2. QuietStep
    BY <1>1, <1>2, FinishEffect
    DEF QuietStep, RowsKept, HandlersKept, Advances, TypeOK, AdmittedFirst,
        HandlerHasJob, WorksOnJob, InsertOwned, Release
  <2> QED BY Quiet, QuietPromise, <1>2, <2>1, <2>2 DEF VerdictReady, ChildAfterClaim
<1>3. CASE /\ ~KeyOwned(k) /\ rows' = [rows EXCEPT ![j] = NewRow("queued", k)] /\ Goto(h, "start_launch")
           /\ UNCHANGED <<reserved, lease, runner, child, verdict, stale, crashes>>
  <2>1. NewRow("queued", k) \in Row /\ NewRow("queued", k).status = "queued" /\ NewRow("queued", k).key = k
    BY <1>1 DEF NewRow, Row, ActiveStatus
  <2>2. "start_launch" \in HandlerPc
    BY DEF HandlerPc
  <2>3. /\ handler' \in [Handler -> HandlerState]
        /\ handler'[h].pc = "start_launch" /\ handler'[h].job = j
        /\ \A g \in Handler : g # h => handler'[g] = handler[g]
    BY <1>1, <1>3, <2>2, GotoEffect
  <2>4. TypeOK'
    BY <1>1, <1>3, <2>1, <2>3 DEF TypeOK
  <2>5. UniqueKey'
    BY <1>1, <1>3, <2>1 DEF UniqueKey, KeyOwned, TypeOK
  <2>6. AdmittedFirst'
    BY <1>1, <1>3, <2>1, <2>3 DEF TypeOK, AdmittedFirst
  <2>7. HandlerHasJob'
    BY <1>1, <2>3 DEF HandlerHasJob, WorksOnJob
  <2>8. InsertOwned'
    <3> SUFFICES ASSUME NEW g \in Handler, handler'[g].pc = "start_insert"
                 PROVE /\ rows'[handler'[g].job].status = "absent" /\ handler'[g].job \in reserved'
                       /\ \A f \in Handler : handler'[f].job = handler'[g].job => f = g
      BY DEF InsertOwned
    <3>1. g # h /\ handler'[g] = handler[g] /\ handler[g].job \in JobId /\ handler[g].job # j
      BY <1>1, <2>3 DEF HandlerHasJob, WorksOnJob
    <3>2. handler[g].pc = "start_insert" /\ handler[h].pc = "start_insert"
      BY <1>1, <3>1
    <3>3. /\ rows[handler[g].job].status = "absent" /\ handler[g].job \in reserved
          /\ \A f \in Handler : handler[f].job = handler[g].job => f = g
      BY <3>2 DEF InsertOwned
    <3>4. rows'[handler[g].job] = rows[handler[g].job] /\ reserved' = reserved
      BY <1>3, <3>1 DEF TypeOK
    <3>5. \A f \in Handler : handler'[f].job = handler[f].job
      BY <1>1, <2>3
    <3> QED BY <3>1, <3>3, <3>4, <3>5
  <2>9. rows[j].key = NoKey /\ ~rows[j].cancel /\ runner[j] = "none" /\ child[j] = "none"
    BY <1>1 DEF AdmittedFirst
  <2>10. Once!Accept(j, k)
    BY <1>1, <1>3, <2>1, <2>9 DEF Once!Accept, Phase, KeyOwned, TypeOK
  <2>11. OnceStep
    <3>1. Once!Next
      BY <1>1, <2>10 DEF Once!Next
    <3> QED BY <3>1 DEF OnceStep
  <2>12. CancelStands
    BY <1>1, <1>3, <2>9 DEF CancelStands, Unstarted, TypeOK
  <2> QED BY <1>3, <2>4, <2>5, <2>6, <2>7, <2>8, <2>11, <2>12
    DEF VerdictReady, ChildAfterClaim
<1> QED BY <1>1, <1>2, <1>3 DEF StartInsert

(* LaunchRunner keeps the invariant and is quiet.                          *)
LEMMA LaunchRunnerStep ==
  ASSUME IInv, NEW h \in Handler, LaunchRunner(h)
  PROVE IInv' /\ QuietStep
<1> USE DEF IInv, LaunchRunner, RunnerGoto
<1>0. handler[h].job \in JobId
  BY DEF HandlerHasJob, WorksOnJob
<1>1. TypeOK'
  BY <1>0 DEF TypeOK, RunnerPc
<1>2. QuietStep
  BY <1>0
  DEF QuietStep, RowsKept, HandlersKept, Advances, TypeOK, AdmittedFirst,
      HandlerHasJob, WorksOnJob, InsertOwned
<1>3. VerdictReady'
  BY <1>0 DEF TypeOK, VerdictReady, TerminalStatus
<1>4. ChildAfterClaim'
  BY <1>0 DEF TypeOK, ChildAfterClaim, AdmittedFirst
<1> QED BY Quiet, <1>1, <1>2, <1>3, <1>4

(* LaunchDone keeps the invariant and is quiet.                            *)
LEMMA LaunchDoneStep ==
  ASSUME IInv, NEW h \in Handler, LaunchDone(h)
  PROVE IInv' /\ QuietStep
<1> USE DEF IInv, LaunchDone, Idle, Active
<1>0. handler[h].job \in JobId
  BY DEF HandlerHasJob, WorksOnJob
<1>1. TypeOK'
  BY <1>0, SetRunnerEffect, FinishEffect
  DEF TypeOK, Status, ActiveStatus, TerminalStatus
<1>2. QuietStep
  BY <1>0, SetRunnerEffect, FinishEffect
  DEF QuietStep, RowsKept, HandlersKept, Advances, TypeOK, AdmittedFirst,
      HandlerHasJob, WorksOnJob, InsertOwned, Status, ActiveStatus, TerminalStatus
<1> QED BY Quiet, <1>1, <1>2 DEF TypeOK, VerdictReady, ChildAfterClaim

(* LaunchFails keeps the invariant and is quiet.                           *)
LEMMA LaunchFailsStep ==
  ASSUME IInv, NEW h \in Handler, LaunchFails(h)
  PROVE IInv' /\ QuietStep
<1> USE DEF IInv, LaunchFails, Idle, Release, RunnerGoto, Unlaunch
<1>0. handler[h].job \in JobId
  BY DEF HandlerHasJob, WorksOnJob
<1>1. TypeOK'
  BY <1>0, SetStatusEffect, FinishEffect
  DEF TypeOK, RunnerPc, Status, ActiveStatus, TerminalStatus
<1>2. QuietStep
  <2>1. rows[handler[h].job].status # "absent"
    BY <1>0 DEF AdmittedFirst
  <2>2. RowsKept
    BY <1>0, <2>1, SetStatusEffect
    DEF RowsKept, TypeOK, AdmittedFirst, Status, ActiveStatus, TerminalStatus
  <2>3. HandlersKept
    BY <1>0, <2>1, FinishEffect
    DEF HandlersKept, TypeOK, AdmittedFirst, HandlerHasJob, WorksOnJob, InsertOwned
  <2>4. UNCHANGED <<runner, child>> \/ Advances(handler[h].job)
    BY <1>0 DEF Advances, TypeOK
  <2> QED BY <1>0, <2>2, <2>3, <2>4 DEF QuietStep
<1>3. VerdictReady'
  BY <1>0 DEF TypeOK, VerdictReady, TerminalStatus
<1>4. ChildAfterClaim'
  BY <1>0 DEF TypeOK, ChildAfterClaim, AdmittedFirst
<1> QED BY Quiet, <1>1, <1>2, <1>3, <1>4

(* CancelRead keeps the invariant and is quiet.                            *)
LEMMA CancelReadStep ==
  ASSUME IInv, NEW h \in Handler, CancelRead(h)
  PROVE IInv' /\ QuietStep
<1> USE DEF IInv
<1> DEFINE j == handler[h].job
           target == IF rows[j].pid THEN "child" ELSE IF rows[j].runner THEN "runner" ELSE "none"
<1>1. j \in JobId /\ handler[h].pc = "cancel_read" /\ rows[j].status # "absent"
  BY DEF CancelRead, HandlerHasJob, WorksOnJob, AdmittedFirst
<1>2. /\ handler' \in [Handler -> HandlerState]
      /\ \A g \in Handler : g # h => handler'[g] = handler[g]
      /\ \/ handler'[h].pc = "idle" /\ handler'[h].job \notin JobId
         \/ handler'[h].pc = "cancel_request" /\ handler'[h].job = j
  <2>1. CASE Active(j)
    <3>1. [handler[h] EXCEPT !.pc = "cancel_request", !.target = target] \in HandlerState
      <4>1. target \in {"none", "runner", "child"} /\ "cancel_request" \in HandlerPc
        BY DEF HandlerPc
      <4>2. handler[h] \in HandlerState
        BY DEF TypeOK
      <4> HIDE DEF target
      <4> QED BY <4>1, <4>2, HandlerAims
    <3>2. handler' = [handler EXCEPT ![h] = [handler[h] EXCEPT !.pc = "cancel_request", !.target = target]]
      BY <2>1 DEF CancelRead
    <3> HIDE DEF target
    <3> QED BY <3>1, <3>2 DEF TypeOK, HandlerState
  <2>2. CASE ~Active(j)
    BY <2>2, FinishEffect DEF CancelRead
  <2> QED BY <2>1, <2>2
<1>3. reserved' \subseteq reserved /\ \A i \in reserved \ reserved' : rows[i].status # "absent"
  BY DEF CancelRead, Terminal, TerminalStatus
<1>4. UNCHANGED <<rows, lease, runner, child, verdict, stale, crashes>>
  BY DEF CancelRead
<1> HIDE DEF j
<1>5. TypeOK'
  BY <1>2, <1>3, <1>4 DEF TypeOK
<1>6. QuietStep
  BY <1>1, <1>2, <1>3, <1>4
  DEF QuietStep, RowsKept, HandlersKept, Advances, TypeOK, AdmittedFirst,
      HandlerHasJob, WorksOnJob, InsertOwned
<1> QED BY Quiet, <1>4, <1>5, <1>6 DEF TypeOK, VerdictReady, ChildAfterClaim

(* CancelRequest keeps the invariant and is quiet.                         *)
LEMMA CancelRequestStep ==
  ASSUME IInv, NEW h \in Handler, CancelRequest(h)
  PROVE IInv' /\ QuietStep
<1> USE DEF IInv, CancelRequest
<1> DEFINE j == handler[h].job
<1>1. j \in JobId /\ rows[j].status # "absent"
  BY DEF HandlerHasJob, WorksOnJob, AdmittedFirst
<1>2. [rows[j] EXCEPT !.cancel = TRUE] \in Row
  BY <1>1, RowFlags DEF TypeOK
<1>3. rows' = [rows EXCEPT ![j] = [rows[j] EXCEPT !.cancel = TRUE]]
  OBVIOUS
<1>4. Goto(h, "cancel_kill") /\ "cancel_kill" \in HandlerPc
  BY DEF HandlerPc
<1>5. /\ handler' \in [Handler -> HandlerState]
      /\ handler'[h].pc = "cancel_kill" /\ handler'[h].job = j
      /\ \A g \in Handler : g # h => handler'[g] = handler[g]
  BY <1>4, GotoEffect
<1> HIDE DEF j
<1>6. TypeOK'
  <2>1. rows' \in [JobId -> Row]
    BY <1>1, <1>2, <1>3 DEF TypeOK
  <2> QED BY <2>1, <1>5 DEF TypeOK
<1>7. QuietStep
  BY <1>1, <1>2, <1>3, <1>5
  DEF QuietStep, RowsKept, HandlersKept, Advances, TypeOK, Row, AdmittedFirst,
      HandlerHasJob, WorksOnJob, InsertOwned
<1> QED BY Quiet, <1>6, <1>7 DEF TypeOK, VerdictReady, ChildAfterClaim

(* CancelKill keeps the invariant and is quiet.                            *)
LEMMA CancelKillStep ==
  ASSUME IInv, NEW h \in Handler, CancelKill(h)
  PROVE IInv' /\ QuietStep
<1> USE DEF IInv, CancelKill, Idle, RunnerAlive, RunnerGoto, KillChild,
    KillRunnerTree
<1>0. handler[h].job \in JobId
  BY DEF HandlerHasJob, WorksOnJob
<1>1. TypeOK'
  <2>1. "cancel_write" \in HandlerPc
    BY DEF HandlerPc
  <2>2. handler' \in [Handler -> HandlerState]
    BY <2>1, GotoEffect, FinishEffect
  <2>3. runner' \in [JobId -> RunnerPc] /\ child' \in [JobId -> {"none", "alive", "dead"}]
    BY <1>0 DEF TypeOK, RunnerPc
  <2> QED BY <2>2, <2>3 DEF TypeOK
<1>2. QuietStep
  <2>1. rows[handler[h].job].status # "absent"
    BY <1>0 DEF AdmittedFirst
  <2>2. RowsKept
    BY <1>0, <2>1 DEF RowsKept, TypeOK, AdmittedFirst
  <2>3. HandlersKept
    BY <1>0, <2>1, GotoEffect, FinishEffect
    DEF HandlersKept, TypeOK, HandlerPc, AdmittedFirst, HandlerHasJob, WorksOnJob,
        InsertOwned
  <2>4. UNCHANGED <<runner, child>> \/ Advances(handler[h].job)
    BY <1>0 DEF Advances, TypeOK
  <2> QED BY <1>0, <2>2, <2>3, <2>4 DEF QuietStep
<1>3. VerdictReady'
  BY <1>0 DEF TypeOK, VerdictReady, TerminalStatus
<1>4. ChildAfterClaim'
  BY <1>0 DEF TypeOK, ChildAfterClaim, AdmittedFirst
<1> QED BY Quiet, <1>1, <1>2, <1>3, <1>4

(* CancelWrite keeps the invariant and is quiet.                           *)
LEMMA CancelWriteStep ==
  ASSUME IInv, NEW h \in Handler, CancelWrite(h)
  PROVE IInv' /\ QuietStep
<1> USE DEF IInv, CancelWrite, Idle, Release
<1>0. handler[h].job \in JobId
  BY DEF HandlerHasJob, WorksOnJob
<1>1. TypeOK'
  BY <1>0, SetStatusEffect, FinishEffect
  DEF TypeOK, Status, ActiveStatus, TerminalStatus
<1>2. QuietStep
  BY <1>0, SetStatusEffect, FinishEffect
  DEF QuietStep, RowsKept, HandlersKept, Advances, TypeOK, AdmittedFirst,
      HandlerHasJob, WorksOnJob, InsertOwned, Status, ActiveStatus, TerminalStatus
<1> QED BY Quiet, <1>1, <1>2 DEF TypeOK, VerdictReady, ChildAfterClaim

(* MaintenanceBegin keeps the invariant and is quiet.                      *)
LEMMA MaintenanceBeginStep ==
  ASSUME IInv, NEW h \in Handler, MaintenanceBegin(h)
  PROVE IInv' /\ QuietStep
<1> USE DEF IInv, MaintenanceBegin
<1>1. lease' \in Owner \cup {NoOwner}
  BY DEF TypeOK, HandlerState
<1>2. TypeOK'
  BY <1>1, FinishEffect DEF TypeOK
<1>3. QuietStep
  BY FinishEffect
  DEF QuietStep, RowsKept, HandlersKept, Advances, TypeOK, AdmittedFirst,
      HandlerHasJob, WorksOnJob, InsertOwned
<1> QED BY Quiet, <1>2, <1>3 DEF TypeOK, VerdictReady, ChildAfterClaim

(* WorkerCrash keeps the invariant and is quiet.                           *)
LEMMA WorkerCrashStep ==
  ASSUME IInv, NEW h \in Handler, WorkerCrash(h)
  PROVE IInv' /\ QuietStep
<1> USE DEF IInv, WorkerCrash, RunnerGoto
<1> DEFINE j == handler[h].job
<1>1. handler[h].pc = "start_launch" => j \in JobId /\ rows[j].status # "absent"
  BY DEF HandlerHasJob, WorksOnJob, AdmittedFirst
<1>2. /\ stale' \in [Handler -> [JobId -> StaleEntry]]
      /\ \A i \in JobId : stale'[h][i].step = "none"
      /\ \A g \in Handler : g # h => stale'[g] = stale[g]
  BY DEF TypeOK, StaleEntry, NotStale
<1>3. /\ runner' \in [JobId -> RunnerPc]
      /\ \A i \in JobId : runner'[i] # runner[i] => i = j /\ runner'[i] = "dead" /\ handler[h].pc = "start_launch"
  BY DEF TypeOK, RunnerPc
<1>4. crashes' \in 0..MaxCrashes
  BY ExecutorAssumption DEF ExecutorAssumption, TypeOK
<1> HIDE DEF j
<1>5. TypeOK'
  BY <1>2, <1>3, <1>4, FinishEffect DEF TypeOK
<1>6. QuietStep
  BY <1>1, <1>2, <1>3, FinishEffect
  DEF QuietStep, RowsKept, HandlersKept, Advances, TypeOK, AdmittedFirst,
      HandlerHasJob, WorksOnJob, InsertOwned
<1>7. VerdictReady' /\ ChildAfterClaim'
  BY <1>3 DEF TypeOK, VerdictReady, ChildAfterClaim
<1> QED BY Quiet, <1>5, <1>6, <1>7

(* RunnerRegister keeps the invariant and is quiet.                        *)
LEMMA RunnerRegisterStep ==
  ASSUME IInv, NEW j \in JobId, RunnerRegister(j)
  PROVE IInv' /\ QuietStep
<1> USE DEF IInv, RunnerRegister, Active, RunnerGoto
<1>1. TypeOK'
  BY SetRunnerEffect DEF TypeOK, RunnerPc, Status, ActiveStatus, TerminalStatus
<1>2. Advances(j) /\ (rows' = rows \/ RowEdited(j))
  BY SetRunnerEffect
  DEF Advances, RowEdited, TypeOK, Row, AdmittedFirst
<1>3. QuietStep
  BY <1>2, ProcessQuiet
<1>4. VerdictReady'
  BY DEF TypeOK, VerdictReady, TerminalStatus
<1>5. ChildAfterClaim'
  BY DEF TypeOK, ChildAfterClaim, AdmittedFirst
<1> QED BY Quiet, <1>1, <1>3, <1>4, <1>5

(* RunnerClaim keeps the invariant and is quiet.                           *)
LEMMA RunnerClaimStep ==
  ASSUME IInv, NEW j \in JobId, RunnerClaim(j)
  PROVE IInv' /\ QuietStep
<1> USE DEF IInv, RunnerClaim, RunnerGoto, CancelSeen
<1>1. TypeOK'
  BY SetStatusEffect DEF TypeOK, RunnerPc, Status, ActiveStatus, TerminalStatus
<1>2. Advances(j) /\ (rows' = rows \/ RowEdited(j))
  BY SetStatusEffect
  DEF Advances, RowEdited, TypeOK, Status, ActiveStatus, TerminalStatus
<1>3. QuietStep
  BY <1>2, ProcessQuiet
<1>4. VerdictReady'
  BY DEF TypeOK, VerdictReady, TerminalStatus
<1>5. ChildAfterClaim'
  BY DEF TypeOK, ChildAfterClaim, AdmittedFirst
<1> QED BY Quiet, <1>1, <1>3, <1>4, <1>5

(* The spawn is the Start of JobOnce, or a quiet failure.                  *)
LEMMA RunnerSpawnStep ==
  ASSUME IInv, NEW j \in JobId, RunnerSpawn(j)
  PROVE IInv' /\ OnceStep /\ CancelStands
<1> USE DEF IInv
<1>1. runner[j] = "claimed" /\ rows[j].status # "absent" /\ child[j] = "none"
  BY DEF RunnerSpawn, AdmittedFirst, ChildAfterClaim
<1>2. UNCHANGED <<rows, reserved, lease, verdict, handler, stale, crashes>>
  BY DEF RunnerSpawn
<1>3. CASE RunnerGoto(j, "spawned") /\ child' = [child EXCEPT ![j] = "alive"]
  <2>1. runner' = [runner EXCEPT ![j] = "spawned"]
    BY <1>3 DEF RunnerGoto
  <2>2. TypeOK'
    BY <1>2, <1>3, <2>1 DEF TypeOK, RunnerPc
  <2>3. AdmittedFirst' /\ VerdictReady' /\ ChildAfterClaim'
    BY <1>1, <1>2, <1>3, <2>1
    DEF TypeOK, AdmittedFirst, VerdictReady, ChildAfterClaim
  <2>4. Once!Start(j)
    BY <1>1, <1>2, <1>3, <2>1 DEF Once!Start, Phase, TypeOK
  <2>5. CancelStands
    BY <1>1, <1>2, <1>3, <2>1 DEF CancelStands, Unstarted, TypeOK
  <2> QED BY <1>2, <2>2, <2>3, <2>4, <2>5
    DEF UniqueKey, HandlerHasJob, InsertOwned, OnceStep, Once!Next
<1>4. CASE RunnerGoto(j, "failing") /\ UNCHANGED child
  <2>1. runner' = [runner EXCEPT ![j] = "failing"]
    BY <1>4 DEF RunnerGoto
  <2>2. TypeOK'
    BY <1>2, <1>4, <2>1 DEF TypeOK, RunnerPc
  <2>3. AdmittedFirst' /\ VerdictReady' /\ ChildAfterClaim'
    BY <1>1, <1>2, <1>4, <2>1
    DEF TypeOK, AdmittedFirst, VerdictReady, ChildAfterClaim
  <2>4. QuietStep
    BY <1>1, <1>2, <1>4, <2>1
    DEF QuietStep, RowsKept, HandlersKept, Advances, TypeOK, AdmittedFirst,
        HandlerHasJob, WorksOnJob, InsertOwned
  <2> QED BY Quiet, QuietPromise, <1>2, <2>2, <2>3, <2>4
<1> QED BY <1>3, <1>4 DEF RunnerSpawn

(* RunnerRecordPid keeps the invariant and is quiet.                       *)
LEMMA RunnerRecordPidStep ==
  ASSUME IInv, NEW j \in JobId, RunnerRecordPid(j)
  PROVE IInv' /\ QuietStep
<1> USE DEF IInv, RunnerRecordPid, RunnerGoto
<1>1. [rows[j] EXCEPT !.status = "running", !.pid = TRUE] \in Row
  <2>1. "running" \in Status
    BY DEF Status, ActiveStatus
  <2> QED BY <2>1, RowStatus DEF TypeOK
<1>2. rows' = [rows EXCEPT ![j] = [rows[j] EXCEPT !.status = "running", !.pid = TRUE]]
  OBVIOUS
<1>3. TypeOK'
  BY <1>1, <1>2 DEF TypeOK, RunnerPc
<1>4. QuietStep
  <2>1. Advances(j) /\ RowEdited(j)
    BY <1>1, <1>2 DEF Advances, RowEdited, TypeOK, Row, AdmittedFirst
  <2> QED BY <2>1, ProcessQuiet
<1>5. VerdictReady'
  BY DEF TypeOK, VerdictReady
<1>6. ChildAfterClaim'
  BY DEF TypeOK, ChildAfterClaim
<1> QED BY Quiet, <1>3, <1>4, <1>5, <1>6

(* ChildExits keeps the invariant and is quiet.                            *)
LEMMA ChildExitsStep ==
  ASSUME IInv, NEW j \in JobId, ChildExits(j)
  PROVE IInv' /\ QuietStep
<1> USE DEF IInv, ChildExits, KillChild
<1>1. TypeOK'
  BY DEF TypeOK
<1>2. Advances(j) /\ (rows' = rows \/ RowEdited(j))
  BY DEF Advances, TypeOK
<1>3. QuietStep
  BY <1>2, ProcessQuiet
<1>4. ChildAfterClaim'
  BY DEF TypeOK, ChildAfterClaim, AdmittedFirst
<1> QED BY Quiet, <1>1, <1>3, <1>4 DEF TypeOK, VerdictReady

(* RunnerTerminates keeps the invariant and is quiet.                      *)
LEMMA RunnerTerminatesStep ==
  ASSUME IInv, NEW j \in JobId, RunnerTerminates(j)
  PROVE IInv' /\ QuietStep
<1> USE DEF IInv, RunnerTerminates, RunnerGoto, KillChild
<1>1. TypeOK'
  BY DEF TypeOK, RunnerPc
<1>2. Advances(j) /\ (rows' = rows \/ RowEdited(j))
  BY DEF Advances, TypeOK
<1>3. QuietStep
  BY <1>2, ProcessQuiet
<1>4. VerdictReady'
  BY DEF TypeOK, VerdictReady, TerminalStatus
<1>5. ChildAfterClaim'
  BY DEF TypeOK, ChildAfterClaim, AdmittedFirst
<1> QED BY Quiet, <1>1, <1>3, <1>4, <1>5

(* RunnerReadOutcome keeps the invariant and is quiet.                     *)
LEMMA RunnerReadOutcomeStep ==
  ASSUME IInv, NEW j \in JobId, RunnerReadOutcome(j)
  PROVE IInv' /\ QuietStep
<1> USE DEF IInv, RunnerReadOutcome, RunnerGoto
<1>1. TypeOK'
  BY DEF TypeOK, RunnerPc, TerminalStatus
<1>2. Advances(j) /\ (rows' = rows \/ RowEdited(j))
  BY DEF Advances, TypeOK
<1>3. QuietStep
  BY <1>2, ProcessQuiet
<1>4. VerdictReady'
  BY DEF TypeOK, VerdictReady, TerminalStatus
<1>5. ChildAfterClaim'
  BY DEF TypeOK, ChildAfterClaim, AdmittedFirst
<1> QED BY Quiet, <1>1, <1>3, <1>4, <1>5

(* RunnerWriteOutcome keeps the invariant and is quiet.                    *)
LEMMA RunnerWriteOutcomeStep ==
  ASSUME IInv, NEW j \in JobId, RunnerWriteOutcome(j)
  PROVE IInv' /\ QuietStep
<1> USE DEF IInv, RunnerWriteOutcome, Release, RunnerGoto, NoVerdict
<1>1. TypeOK'
  BY SetStatusEffect
  DEF TypeOK, RunnerPc, Status, ActiveStatus, TerminalStatus, VerdictReady
<1>2. Advances(j) /\ (rows' = rows \/ RowEdited(j))
  BY SetStatusEffect
  DEF Advances, RowEdited, TypeOK, Status, ActiveStatus, TerminalStatus, VerdictReady
<1>3. QuietStep
  BY <1>2, ProcessQuiet
<1>4. VerdictReady'
  BY DEF TypeOK, VerdictReady, TerminalStatus
<1>5. ChildAfterClaim'
  BY DEF TypeOK, ChildAfterClaim, AdmittedFirst
<1> QED BY Quiet, <1>1, <1>3, <1>4, <1>5

(* RunnerCatch keeps the invariant and is quiet.                           *)
LEMMA RunnerCatchStep ==
  ASSUME IInv, NEW j \in JobId, RunnerCatch(j)
  PROVE IInv' /\ QuietStep
<1> USE DEF IInv, RunnerCatch, Active, RunnerGoto
<1>1. TypeOK'
  BY DEF TypeOK, RunnerPc, Status, ActiveStatus, TerminalStatus
<1>2. Advances(j) /\ (rows' = rows \/ RowEdited(j))
  BY DEF Advances, TypeOK
<1>3. QuietStep
  BY <1>2, ProcessQuiet
<1>4. VerdictReady'
  BY DEF TypeOK, VerdictReady, TerminalStatus
<1>5. ChildAfterClaim'
  BY DEF TypeOK, ChildAfterClaim, AdmittedFirst
<1> QED BY Quiet, <1>1, <1>3, <1>4, <1>5

(* RunnerRewrite keeps the invariant and is quiet.                         *)
LEMMA RunnerRewriteStep ==
  ASSUME IInv, NEW j \in JobId, RunnerRewrite(j)
  PROVE IInv' /\ QuietStep
<1> USE DEF IInv, RunnerRewrite, RunnerGoto, NoVerdict
<1>1. TypeOK'
  BY SetStatusEffect
  DEF TypeOK, RunnerPc, Status, ActiveStatus, TerminalStatus, VerdictReady
<1>2. Advances(j) /\ (rows' = rows \/ RowEdited(j))
  BY SetStatusEffect
  DEF Advances, RowEdited, TypeOK, Status, ActiveStatus, TerminalStatus, VerdictReady
<1>3. QuietStep
  BY <1>2, ProcessQuiet
<1>4. VerdictReady'
  BY DEF TypeOK, VerdictReady, TerminalStatus
<1>5. ChildAfterClaim'
  BY DEF TypeOK, ChildAfterClaim, AdmittedFirst
<1> QED BY Quiet, <1>1, <1>3, <1>4, <1>5

(* RunnerClose keeps the invariant and is quiet.                           *)
LEMMA RunnerCloseStep ==
  ASSUME IInv, NEW j \in JobId, RunnerClose(j)
  PROVE IInv' /\ QuietStep
<1> USE DEF IInv, RunnerClose, RunnerGoto, Release
<1>1. [rows[j] EXCEPT !.runner = FALSE] \in Row
  BY RowFlags DEF TypeOK
<1>2. rows' = [rows EXCEPT ![j] = [rows[j] EXCEPT !.runner = FALSE]]
  OBVIOUS
<1>3. TypeOK'
  BY <1>1, <1>2 DEF TypeOK, RunnerPc
<1>4. QuietStep
  <2>1. Advances(j) /\ RowEdited(j)
    BY <1>1, <1>2 DEF Advances, RowEdited, TypeOK, Row, AdmittedFirst
  <2> QED BY <2>1, ProcessQuiet
<1>5. VerdictReady'
  BY DEF TypeOK, VerdictReady
<1>6. ChildAfterClaim'
  BY DEF TypeOK, ChildAfterClaim
<1> QED BY Quiet, <1>3, <1>4, <1>5, <1>6

(* RunnerCrash keeps the invariant and is quiet.                           *)
LEMMA RunnerCrashStep ==
  ASSUME IInv, NEW j \in JobId, RunnerCrash(j)
  PROVE IInv' /\ QuietStep
<1> USE DEF IInv, RunnerCrash, RunnerAlive, RunnerGoto, ExecutorAssumption
<1>1. TypeOK'
  BY ExecutorAssumption DEF TypeOK, RunnerPc
<1>2. Advances(j) /\ (rows' = rows \/ RowEdited(j))
  BY DEF Advances, TypeOK
<1>3. QuietStep
  BY <1>2, ProcessQuiet
<1>4. VerdictReady'
  BY ExecutorAssumption DEF TypeOK, VerdictReady, TerminalStatus
<1>5. ChildAfterClaim'
  BY ExecutorAssumption DEF TypeOK, ChildAfterClaim, AdmittedFirst
<1> QED BY Quiet, <1>1, <1>3, <1>4, <1>5

(* ReservationExpires keeps the invariant and is quiet.                    *)
LEMMA ReservationExpiresStep ==
  ASSUME IInv, NEW j \in JobId, ReservationExpires(j)
  PROVE IInv' /\ QuietStep
<1> USE DEF IInv, ReservationExpires, Release
<1>1. TypeOK'
  BY DEF TypeOK
<1>2. QuietStep
  BY DEF QuietStep, RowsKept, HandlersKept, Advances, TypeOK, AdmittedFirst,
      HandlerHasJob, WorksOnJob, InsertOwned
<1> QED BY Quiet, <1>1, <1>2 DEF TypeOK, VerdictReady, ChildAfterClaim

(* ReconcileProbe keeps the invariant and is quiet.                        *)
LEMMA ReconcileProbeStep ==
  ASSUME IInv, NEW h \in Handler, NEW j \in JobId, ReconcileProbe(h, j)
  PROVE IInv' /\ QuietStep
<1> USE DEF IInv, ReconcileProbe, NotStale, RunnerAlive, AfterDeadRunner
<1>1. TypeOK'
  BY SetStaleEffect DEF TypeOK
<1>2. QuietStep
  <2>1. rows[j].status # "absent"
    BY DEF AdmittedFirst
  <2> QED BY <2>1, SetStaleEffect
    DEF QuietStep, RowsKept, HandlersKept, Advances, TypeOK, AdmittedFirst,
        HandlerHasJob, WorksOnJob, InsertOwned
<1> QED BY Quiet, <1>1, <1>2 DEF TypeOK, VerdictReady, ChildAfterClaim

(* ReconcileKill keeps the invariant and is quiet.                         *)
LEMMA ReconcileKillStep ==
  ASSUME IInv, NEW h \in Handler, NEW j \in JobId, ReconcileKill(h, j)
  PROVE IInv' /\ QuietStep
<1> USE DEF IInv, ReconcileKill, NotStale, KillChild
<1>1. TypeOK'
  BY SetStaleEffect DEF TypeOK
<1>2. QuietStep
  BY SetStaleEffect
  DEF QuietStep, RowsKept, HandlersKept, Advances, TypeOK, AdmittedFirst,
      HandlerHasJob, WorksOnJob, InsertOwned
<1>3. ChildAfterClaim'
  BY DEF TypeOK, ChildAfterClaim, AdmittedFirst
<1> QED BY Quiet, <1>1, <1>2, <1>3 DEF TypeOK, VerdictReady

(* ReconcileWrite keeps the invariant and is quiet.                        *)
LEMMA ReconcileWriteStep ==
  ASSUME IInv, NEW h \in Handler, NEW j \in JobId, ReconcileWrite(h, j)
  PROVE IInv' /\ QuietStep
<1> USE DEF IInv, ReconcileWrite, NotStale, Release, StaleVerdict
<1>1. TypeOK'
  BY SetStatusEffect, SetStaleEffect
  DEF TypeOK, Status, ActiveStatus, TerminalStatus
<1>2. QuietStep
  BY SetStatusEffect, SetStaleEffect
  DEF QuietStep, RowsKept, HandlersKept, Advances, TypeOK, AdmittedFirst,
      HandlerHasJob, WorksOnJob, InsertOwned, Status, ActiveStatus, TerminalStatus
<1> QED BY Quiet, <1>1, <1>2 DEF TypeOK, VerdictReady, ChildAfterClaim

(* A request arrives and its reconciliation lists the Jobs (reconcileJobs). *)
LEMMA ReceiveStep ==
  ASSUME IInv, NEW h \in Handler, NEW request \in Request, NEW found \in SUBSET {j \in JobId : MayBeStale(j)},
         Receive(h, request, found)
  PROVE IInv' /\ QuietStep
<1> USE DEF IInv, Receive, List
<1>1. /\ request \in HandlerState
      /\ \/ request.pc \notin WorksOnJob /\ request.job \notin JobId
         \/ request.pc = "cancel_read" /\ request.job \in JobId /\ rows[request.job].status # "absent"
  BY ExecutorAssumption
  DEF ExecutorAssumption, Request, Idle, HandlerState, HandlerPc, WorksOnJob
<1>2. \A j \in JobId : Listed(j) \in StaleEntry /\ NotStale \in StaleEntry
  BY DEF TypeOK, Listed, NotStale, StaleEntry, Row
<1>3. \A j \in found : rows[j].status # "absent"
  BY DEF MayBeStale, Active, ActiveStatus
<1>4. stale' \in [Handler -> [JobId -> StaleEntry]]
  BY <1>2 DEF TypeOK
<1>5. \A g \in Handler, j \in JobId : rows[j].status = "absent" => stale'[g][j].step = "none"
  BY <1>3 DEF TypeOK, AdmittedFirst, NotStale
<1>6. reserved' \subseteq reserved /\ \A i \in reserved \ reserved' : rows[i].status # "absent"
  BY DEF TypeOK, Terminal, TerminalStatus
<1>7. TypeOK'
  BY <1>1, <1>4, <1>6 DEF TypeOK
<1>8. RowsKept
  BY <1>5 DEF RowsKept, AdmittedFirst
<1>9. HandlersKept
  BY <1>1, <1>6
  DEF HandlersKept, TypeOK, AdmittedFirst, HandlerHasJob, WorksOnJob, InsertOwned
<1> QED BY Quiet, <1>7, <1>8, <1>9 DEF QuietStep, VerdictReady, ChildAfterClaim

(* The maintenance lease ends or runs out.                                 *)
LEMMA MaintenanceEndsStep ==
  ASSUME IInv, MaintenanceEnds
  PROVE IInv' /\ QuietStep
<1> USE DEF IInv, MaintenanceEnds
<1>1. TypeOK'
  BY DEF TypeOK
<1>2. QuietStep
  BY DEF QuietStep, RowsKept, HandlersKept, AdmittedFirst, HandlerHasJob, WorksOnJob,
      InsertOwned
<1> QED BY Quiet, <1>1, <1>2 DEF VerdictReady, ChildAfterClaim

(* Every step of the executor keeps the invariant, is a step of JobOnce or *)
(* invisible to it, and starts no program whose cancellation was requested first. *)
LEMMA StepKeeps ==
  ASSUME IInv, [Next]_vars
  PROVE IInv' /\ OnceStep /\ CancelStands
<1>1. CASE UNCHANGED vars
  BY <1>1
  DEF vars, IInv, TypeOK, UniqueKey, AdmittedFirst, HandlerHasJob, InsertOwned,
      VerdictReady,
     ChildAfterClaim, OnceStep, Once!vars, Phase, CancelStands, Unstarted
<1>2. ASSUME NEW h \in Handler, NEW request \in Request,
             NEW found \in SUBSET {j \in JobId : MayBeStale(j)}, Receive(h, request, found)
      PROVE IInv' /\ OnceStep /\ CancelStands
  BY <1>2, ReceiveStep, QuietPromise
<1>3. ASSUME NEW h \in Handler, HandlerStep(h)
      PROVE IInv' /\ OnceStep /\ CancelStands
  <2>1. ASSUME NEW j \in JobId, ReconcileProbe(h, j) \/ ReconcileKill(h, j) \/ ReconcileWrite(h, j)
        PROVE IInv' /\ OnceStep /\ CancelStands
    BY <2>1, ReconcileProbeStep, ReconcileKillStep, ReconcileWriteStep, QuietPromise
  <2>2. CASE StartCheck(h) \/ StartInsert(h)
    BY <2>2, StartCheckStep, StartInsertStep
  <2>3. CASE Look(h) \/ MaintenanceBegin(h) \/ LaunchRunner(h) \/ LaunchDone(h) \/ LaunchFails(h)
    BY <2>3, LookStep, MaintenanceBeginStep, LaunchRunnerStep, LaunchDoneStep,
        LaunchFailsStep, QuietPromise
  <2>4. CASE CancelRead(h) \/ CancelRequest(h) \/ CancelKill(h) \/ CancelWrite(h)
    BY <2>4, CancelReadStep, CancelRequestStep, CancelKillStep, CancelWriteStep,
        QuietPromise
  <2> QED BY <1>3, <2>1, <2>2, <2>3, <2>4 DEF HandlerStep
<1>4. ASSUME NEW j \in JobId, RunnerStep(j)
      PROVE IInv' /\ OnceStep /\ CancelStands
  <2>1. CASE RunnerSpawn(j)
    BY <2>1, RunnerSpawnStep
  <2>2. CASE RunnerRegister(j) \/ RunnerClaim(j) \/ RunnerRecordPid(j) \/ RunnerReadOutcome(j)
    BY <2>2, RunnerRegisterStep, RunnerClaimStep, RunnerRecordPidStep,
        RunnerReadOutcomeStep, QuietPromise
  <2>3. CASE RunnerWriteOutcome(j) \/ RunnerCatch(j) \/ RunnerRewrite(j) \/ RunnerClose(j)
    BY <2>3, RunnerWriteOutcomeStep, RunnerCatchStep, RunnerRewriteStep,
        RunnerCloseStep, QuietPromise
  <2> QED BY <1>4, <2>1, <2>2, <2>3 DEF RunnerStep
<1>5. CASE Environment
  <2>1. ASSUME NEW j \in JobId, ChildExits(j) \/ RunnerTerminates(j) \/ RunnerCrash(j) \/ ReservationExpires(j)
        PROVE IInv' /\ OnceStep /\ CancelStands
    BY <2>1, ChildExitsStep, RunnerTerminatesStep, RunnerCrashStep,
        ReservationExpiresStep, QuietPromise
  <2>2. ASSUME NEW h \in Handler, WorkerCrash(h)
        PROVE IInv' /\ OnceStep /\ CancelStands
    BY <2>2, WorkerCrashStep, QuietPromise
  <2>3. CASE MaintenanceEnds
    BY <2>3, MaintenanceEndsStep, QuietPromise
  <2> QED BY <1>5, <2>1, <2>2, <2>3 DEF Environment
<1> QED BY <1>1, <1>2, <1>3, <1>4, <1>5 DEF Next

-----------------------------------------------------------------------------
(* The theorems.                                                           *)

(* Every initial state satisfies the invariant.                            *)
LEMMA Initially == Init => IInv
  BY ExecutorAssumption
  DEF ExecutorAssumption, Init, IInv, TypeOK, UniqueKey, AdmittedFirst,
      HandlerHasJob, InsertOwned, VerdictReady, ChildAfterClaim, NewRow, Row, Idle,
      NotStale, StaleEntry, HandlerState, HandlerPc, RunnerPc, WorksOnJob,
      TerminalStatus, ActiveStatus, NoVerdict

(* The inductive invariant holds in every state the executor can reach.    *)
THEOREM Invariance == Spec => []IInv
  BY Initially, StepKeeps, PTL DEF Spec

(* Type correctness: every row, process and handler is in a state the code *)
(* knows, whatever fails and however often.                                *)
THEOREM TypeCorrect == Spec => []TypeOK
  BY Invariance, PTL DEF IInv

(* Two start_job calls that carry one idempotency key never create two Jobs, *)
(* for any number of concurrent handlers and Worker crashes.               *)
THEOREM KeysAreUnique == Spec => []UniqueKey
  BY Invariance, PTL DEF IInv

(* A cancel_job recorded before the runner claims the Job keeps the program *)
(* from ever starting, whatever settles, reconciles or relaunches the Job. *)
THEOREM CancellationWins == Spec => CancelBeforeClaim
  BY Invariance, StepKeeps, PTL DEF Spec, CancelBeforeClaim

(* The executor implements JobOnce: one Job per key, at most one start of a *)
(* Job's program, and no way back from its end.                            *)
THEOREM StartsOnce == Spec => StartedOnce
<1>1. Init => Once!Init
  BY DEF Init, NewRow, Phase, Once!Init
<1>2. IInv /\ [Next]_vars => [Once!Next]_(Once!vars)
  BY StepKeeps DEF OnceStep
<1> QED BY <1>1, <1>2, Invariance, PTL DEF Spec, StartedOnce, Once!Spec

-----------------------------------------------------------------------------
(* A child and the runner that watches it, under every fault.              *)

(* A runner that has nothing left but its finally block has a settled Job. *)
ClosedSettled == \A j \in JobId : runner[j] = "closing" => Terminal(j)

WatchInv == ClosedSettled /\ ChildHasRunner

(* Nobody takes a runner from its child, and nobody revives a settled Job  *)
(* whose runner is closing or gone.                                        *)
Watched(j) ==
    /\ runner'[j] = "closing" => Terminal(j)'
    /\ child'[j] = "alive" /\ ~RunnerAlive(j)' => crashes' > 0 \/ Terminal(j)'

(* The row of a Job whose runner is closing or gone only gets a terminal   *)
(* status, and its child is not started again.                             *)
LEMMA SettledWatch ==
  ASSUME WatchInv, NEW j \in JobId,
         Terminal(j) => Terminal(j)' \/ runner'[j] \notin {"closing", "none", "dead"},
         runner'[j] = runner[j], child'[j] = "alive" => child[j] = "alive", crashes' = crashes
  PROVE Watched(j)
  BY DEF WatchInv, ClosedSettled, ChildHasRunner, Watched, RunnerAlive

(* What a handler does keeps children watched (LaunchFails, CancelKill).   *)
LEMMA HandlerWatch ==
  ASSUME IInv, WatchInv, NEW h \in Handler, HandlerStep(h)
  PROVE WatchInv'
<1> SUFFICES ASSUME NEW j \in JobId PROVE Watched(j)
  BY DEF WatchInv, ClosedSettled, ChildHasRunner, Watched
<1> USE DEF IInv
<1>1. ASSUME NEW i \in JobId, ReconcileProbe(h, i) \/ ReconcileKill(h, i) \/ ReconcileWrite(h, i)
      PROVE Watched(j)
  <2>1. CASE ReconcileProbe(h, i) \/ ReconcileKill(h, i)
    BY <2>1, SettledWatch DEF ReconcileProbe, ReconcileKill, KillChild, TypeOK, Terminal
  <2>2. CASE ReconcileWrite(h, i)
    <3>1. StaleVerdict(stale[h][i]) \in TerminalStatus
      BY DEF StaleVerdict, TerminalStatus
    <3>2. Terminal(j) => Terminal(j)'
      BY <2>2, <3>1, SetStatusEffect DEF ReconcileWrite, Terminal, Status
    <3> QED BY <2>2, <3>2, SettledWatch DEF ReconcileWrite
  <2> QED BY <1>1, <2>1, <2>2
<1>2. CASE Look(h) \/ StartCheck(h) \/ CancelRead(h) \/ MaintenanceBegin(h)
  BY <1>2, SettledWatch DEF Look, StartCheck, CancelRead, MaintenanceBegin, Terminal
<1>3. CASE StartInsert(h) \/ CancelRequest(h) \/ LaunchDone(h)
  <2>1. UNCHANGED <<runner, child, crashes>>
    BY <1>3 DEF StartInsert, CancelRequest, LaunchDone
  <2>2. Terminal(j) => Terminal(j)'
    <3>1. CASE StartInsert(h)
      BY <3>1 DEF StartInsert, InsertOwned, TypeOK, Terminal, TerminalStatus
    <3>2. CASE CancelRequest(h)
      BY <3>2 DEF CancelRequest, TypeOK, Row, Terminal
    <3>3. CASE LaunchDone(h)
      <4>1. handler[h].job \in JobId
        BY <3>3 DEF LaunchDone, HandlerHasJob, WorksOnJob
      <4> QED BY <3>3, <4>1, SetRunnerEffect DEF LaunchDone, Terminal
    <3> QED BY <1>3, <3>1, <3>2, <3>3
  <2> QED BY <2>1, <2>2, SettledWatch
<1>4. CASE LaunchRunner(h)
  <2>1. /\ UNCHANGED <<rows, child, crashes>>
        /\ \/ runner'[j] = runner[j]
           \/ runner[j] = "none" /\ runner'[j] = "boot"
    BY <1>4 DEF LaunchRunner, RunnerGoto, TypeOK
  <2> QED BY <2>1, SettledWatch DEF WatchInv, Watched, RunnerAlive, Terminal
<1>5. CASE LaunchFails(h) \/ CancelWrite(h) \/ CancelKill(h)
  <2> DEFINE i == handler[h].job
  <2>1. i \in JobId
    BY <1>5 DEF LaunchFails, CancelWrite, CancelKill, HandlerHasJob, WorksOnJob
  <2>2. Terminal(j) => Terminal(j)'
    <3>1. CASE CancelKill(h)
      BY <3>1 DEF CancelKill, Terminal
    <3>2. CASE LaunchFails(h) \/ CancelWrite(h)
      BY <2>1, <3>2, SetStatusEffect
      DEF LaunchFails, CancelWrite, Terminal, TerminalStatus, Status
    <3> QED BY <1>5, <3>1, <3>2
  <2>3. crashes' = crashes /\ (child'[j] = "alive" => child[j] = "alive")
    BY <1>5, <2>1 DEF LaunchFails, CancelWrite, CancelKill, KillRunnerTree, KillChild, TypeOK
  <2>4. CASE runner'[j] = runner[j]
    BY <2>2, <2>3, <2>4, SettledWatch
  <2>5. CASE runner'[j] # runner[j]
    <3>1. runner'[j] = "dead" /\ child'[j] # "alive"
      BY <1>5, <2>1, <2>5
      DEF LaunchFails, CancelWrite, CancelKill, Unlaunch, RunnerGoto, KillRunnerTree, KillChild,
          TypeOK, ChildAfterClaim
    <3> QED BY <3>1 DEF Watched
  <2> QED BY <2>4, <2>5
<1> QED BY <1>1, <1>2, <1>3, <1>4, <1>5 DEF HandlerStep

(* So does what a runner does, whose last steps come after its verdict.    *)
LEMMA RunnerWatch ==
  ASSUME IInv, WatchInv, NEW i \in JobId, RunnerStep(i)
  PROVE WatchInv'
<1> SUFFICES ASSUME NEW j \in JobId PROVE Watched(j)
  BY DEF WatchInv, ClosedSettled, ChildHasRunner, Watched
<1> USE DEF IInv
<1>1. crashes' = crashes /\ (j # i => runner'[j] = runner[j] /\ child'[j] = child[j])
  BY DEF RunnerStep, RunnerRegister, RunnerClaim, RunnerSpawn, RunnerRecordPid,
         RunnerReadOutcome, RunnerWriteOutcome, RunnerCatch, RunnerRewrite, RunnerClose, RunnerGoto,
         TypeOK
<1>2. j # i => rows'[j].status = rows[j].status
  BY DEF RunnerStep, RunnerRegister, RunnerClaim, RunnerSpawn, RunnerRecordPid,
         RunnerReadOutcome, RunnerWriteOutcome, RunnerCatch, RunnerRewrite, RunnerClose, TypeOK, SetStatus,
         SetRunner
<1>3. CASE j # i
  BY <1>1, <1>2, <1>3, SettledWatch DEF Terminal
<1>4. CASE RunnerAlive(i)' /\ runner'[i] # "closing"
  BY <1>1, <1>3, <1>4 DEF Watched
<1>5. CASE RunnerClaim(i) \/ RunnerWriteOutcome(i) \/ RunnerRewrite(i)
  <2>1. runner'[i] = "closing" => Terminal(i)'
    BY <1>5, SetStatusEffect
    DEF RunnerClaim, RunnerWriteOutcome, RunnerRewrite, RunnerGoto, VerdictReady, Terminal, TerminalStatus,
        Status, TypeOK
  <2>2. runner'[i] \in {"closing", "claimed"}
    BY <1>5 DEF RunnerClaim, RunnerWriteOutcome, RunnerRewrite, RunnerGoto, TypeOK
  <2> QED BY <1>3, <1>4, <2>1, <2>2 DEF Watched, RunnerAlive
<1>6. CASE RunnerCatch(i)
  <2>1. rows[i].status # "absent" /\ rows' = rows
    BY <1>6 DEF RunnerCatch, AdmittedFirst
  <2>2. runner'[i] = "closing" => Terminal(i)'
    BY <1>6, <2>1 DEF RunnerCatch, RunnerGoto, Active, Terminal, TypeOK, Row
  <2>3. runner'[i] \in {"closing", "rewriting"}
    BY <1>6 DEF RunnerCatch, RunnerGoto, TypeOK
  <2> QED BY <1>3, <1>4, <2>2, <2>3 DEF Watched, RunnerAlive
<1>7. CASE RunnerClose(i)
  <2>1. Terminal(i)'
    BY <1>7 DEF RunnerClose, WatchInv, ClosedSettled, Terminal, TypeOK, Row
  <2> QED BY <1>3, <2>1 DEF Watched
<1>8. CASE RunnerRegister(i) \/ RunnerSpawn(i) \/ RunnerRecordPid(i) \/ RunnerReadOutcome(i)
  <2>1. RunnerAlive(i)' /\ runner'[i] # "closing"
    BY <1>8
    DEF RunnerRegister, RunnerSpawn, RunnerRecordPid, RunnerReadOutcome, RunnerGoto, RunnerAlive, TypeOK
  <2> QED BY <1>4, <2>1
<1> QED BY <1>5, <1>6, <1>7, <1>8 DEF RunnerStep

(* A crash is counted, and nothing else takes a runner away.               *)
LEMMA EnvironmentWatch ==
  ASSUME IInv, WatchInv, Environment
  PROVE WatchInv'
<1> SUFFICES ASSUME NEW j \in JobId PROVE Watched(j)
  BY DEF WatchInv, ClosedSettled, ChildHasRunner, Watched
<1> USE DEF IInv
<1>1. rows' = rows
  BY DEF Environment, ChildExits, RunnerTerminates, RunnerCrash, ReservationExpires, WorkerCrash, MaintenanceEnds
<1>2. crashes' = crashes \/ crashes' > 0
  BY ExecutorAssumption
  DEF Environment, ChildExits, RunnerTerminates, RunnerCrash, ReservationExpires, WorkerCrash, MaintenanceEnds,
      ExecutorAssumption, TypeOK
<1>3. child'[j] = "alive" => child[j] = "alive"
  BY DEF Environment, ChildExits, RunnerTerminates, RunnerCrash, ReservationExpires, WorkerCrash, MaintenanceEnds,
         KillChild, TypeOK
<1>4. \/ runner'[j] = runner[j]
      \/ RunnerAlive(j)' /\ runner'[j] # "closing"
      \/ runner'[j] = "dead" /\ crashes' > 0
  BY ExecutorAssumption
  DEF Environment, ChildExits, RunnerTerminates, RunnerCrash, ReservationExpires, WorkerCrash, MaintenanceEnds,
      RunnerGoto, RunnerAlive, ExecutorAssumption, TypeOK
<1> QED BY <1>1, <1>2, <1>3, <1>4 DEF WatchInv, ClosedSettled, ChildHasRunner, Watched, RunnerAlive, Terminal

(* Every step keeps it.                                                    *)
LEMMA WatchStep ==
  ASSUME IInv, WatchInv, [Next]_vars
  PROVE WatchInv'
<1>1. CASE UNCHANGED vars
  BY <1>1 DEF vars, WatchInv, ClosedSettled, ChildHasRunner, RunnerAlive, Terminal
<1>2. ASSUME NEW h \in Handler, NEW request \in Request,
             NEW found \in SUBSET {j \in JobId : MayBeStale(j)}, Receive(h, request, found)
      PROVE WatchInv'
  BY <1>2 DEF Receive, WatchInv, ClosedSettled, ChildHasRunner, RunnerAlive, Terminal
<1> QED BY <1>1, <1>2, HandlerWatch, RunnerWatch, EnvironmentWatch DEF Next

(* A child outlives its runner only after a crash or when its Job has been *)
(* settled, for any numbers of Jobs and handlers and under every fault     *)
(* (cancelJob, launchPersistentRunner, runJob's finally block).            *)
THEOREM ChildrenHaveRunners == Spec => []ChildHasRunner
<1>1. Init => WatchInv
  BY DEF Init, WatchInv, ClosedSettled, ChildHasRunner
<1>2. IInv /\ WatchInv /\ [Next]_vars => WatchInv'
  BY WatchStep
<1>3. WatchInv => ChildHasRunner
  BY DEF WatchInv
<1> QED BY <1>1, <1>2, <1>3, Invariance, PTL DEF Spec

-----------------------------------------------------------------------------
(* A settled Job whose runner is past its claim, under every fault.        *)

ForGood(j) == Terminal(j) /\ PastRevival(j)

(* It stays settled if a step gives its row another terminal status at     *)
(* most, forgets no cancellation and does not move its runner to a claim.  *)
LEMMA StillSettled ==
  ASSUME NEW j \in JobId, ForGood(j), rows'[j].status \in TerminalStatus,
         rows[j].cancel => rows'[j].cancel,
         \/ runner'[j] = runner[j]
         \/ runner'[j] = "dead"
         \/ runner[j] = "none" /\ runner'[j] = "boot"
  PROVE ForGood(j)'
  BY DEF ForGood, PastRevival, Terminal

(* Late verdicts, launches and cancellations settle it again at most.      *)
LEMMA HandlerSettled ==
  ASSUME IInv, NEW h \in Handler, HandlerStep(h), NEW j \in JobId, ForGood(j)
  PROVE ForGood(j)'
<1> USE DEF IInv
<1>1. ASSUME NEW i \in JobId, ReconcileProbe(h, i) \/ ReconcileKill(h, i) \/ ReconcileWrite(h, i)
      PROVE ForGood(j)'
  <2>1. CASE ReconcileProbe(h, i) \/ ReconcileKill(h, i)
    BY <2>1, StillSettled DEF ReconcileProbe, ReconcileKill, ForGood, Terminal
  <2>2. CASE ReconcileWrite(h, i)
    <3>1. StaleVerdict(stale[h][i]) \in TerminalStatus
      BY DEF StaleVerdict, TerminalStatus
    <3>2. rows'[j].status \in TerminalStatus /\ rows'[j].cancel = rows[j].cancel
      BY <2>2, <3>1, SetStatusEffect DEF ReconcileWrite, ForGood, Terminal, Status
    <3> QED BY <2>2, <3>2, StillSettled DEF ReconcileWrite
  <2> QED BY <1>1, <2>1, <2>2
<1>2. CASE Look(h) \/ StartCheck(h) \/ CancelRead(h) \/ MaintenanceBegin(h)
  BY <1>2, StillSettled DEF Look, StartCheck, CancelRead, MaintenanceBegin, ForGood, Terminal
<1>3. CASE StartInsert(h)
  <2>1. rows'[j] = rows[j]
    BY <1>3 DEF StartInsert, InsertOwned, TypeOK, ForGood, Terminal, TerminalStatus
  <2> QED BY <1>3, <2>1, StillSettled DEF StartInsert, ForGood, Terminal
<1>4. CASE CancelRequest(h)
  <2>1. rows'[j].status = rows[j].status /\ (rows[j].cancel => rows'[j].cancel)
    BY <1>4 DEF CancelRequest, TypeOK, Row
  <2> QED BY <1>4, <2>1, StillSettled DEF CancelRequest, ForGood, Terminal
<1>5. CASE LaunchRunner(h)
  <2>1. /\ rows' = rows
        /\ runner'[j] = runner[j] \/ (runner[j] = "none" /\ runner'[j] = "boot")
    BY <1>5 DEF LaunchRunner, RunnerGoto, TypeOK
  <2> QED BY <2>1, StillSettled DEF ForGood, Terminal
<1>6. CASE LaunchDone(h) \/ LaunchFails(h) \/ CancelWrite(h) \/ CancelKill(h)
  <2> DEFINE i == handler[h].job
  <2>1. i \in JobId
    BY <1>6 DEF LaunchDone, LaunchFails, CancelWrite, CancelKill, HandlerHasJob, WorksOnJob
  <2>2. rows'[j].status \in TerminalStatus /\ rows'[j].cancel = rows[j].cancel
    <3>1. CASE LaunchDone(h)
      BY <2>1, <3>1, SetRunnerEffect DEF LaunchDone, ForGood, Terminal
    <3>2. CASE LaunchFails(h) \/ CancelWrite(h)
      BY <2>1, <3>2, SetStatusEffect
      DEF LaunchFails, CancelWrite, ForGood, Terminal, TerminalStatus, Status
    <3>3. CASE CancelKill(h)
      BY <3>3 DEF CancelKill, ForGood, Terminal
    <3> QED BY <1>6, <3>1, <3>2, <3>3
  <2>3. runner'[j] = runner[j] \/ runner'[j] = "dead"
    BY <1>6, <2>1
    DEF LaunchDone, LaunchFails, CancelWrite, CancelKill, Unlaunch, KillRunnerTree, RunnerGoto, TypeOK
  <2> QED BY <2>2, <2>3, StillSettled
<1> QED BY <1>1, <1>2, <1>3, <1>4, <1>5, <1>6 DEF HandlerStep

(* Its runner neither claims nor records a pid any more.                   *)
LEMMA RunnerSettled ==
  ASSUME IInv, NEW i \in JobId, RunnerStep(i), NEW j \in JobId, ForGood(j)
  PROVE ForGood(j)'
<1> USE DEF IInv
<1>1. j # i => runner'[j] = runner[j]
  BY DEF RunnerStep, RunnerRegister, RunnerClaim, RunnerSpawn, RunnerRecordPid, RunnerReadOutcome,
         RunnerWriteOutcome, RunnerCatch, RunnerRewrite, RunnerClose, RunnerGoto, TypeOK
<1>2. /\ j # i => rows'[j].status = rows[j].status
      /\ rows[j].cancel => rows'[j].cancel
  BY DEF RunnerStep, RunnerRegister, RunnerClaim, RunnerSpawn, RunnerRecordPid, RunnerReadOutcome,
         RunnerWriteOutcome, RunnerCatch, RunnerRewrite, RunnerClose, TypeOK, Row, SetStatus, SetRunner
<1>3. CASE j # i
  BY <1>1, <1>2, <1>3, StillSettled DEF ForGood, Terminal
<1>4. ASSUME j = i, rows'[j].status \in TerminalStatus,
             runner'[j] \in {"waiting", "failing", "writing", "rewriting", "closing", "dead"},
             runner'[j] = "waiting" => runner[j] = "boot"
      PROVE ForGood(j)'
  BY <1>2, <1>4 DEF ForGood, PastRevival, Terminal
<1>5. CASE j = i /\ (RunnerRegister(i) \/ RunnerClose(i) \/ RunnerReadOutcome(i) \/ RunnerCatch(i))
  <2>1. rows'[j].status = rows[j].status
    BY <1>5, SetRunnerEffect
    DEF RunnerRegister, RunnerClose, RunnerReadOutcome, RunnerCatch, TypeOK, Row
  <2>2. /\ runner'[j] \in {"waiting", "failing", "writing", "rewriting", "closing", "dead"}
        /\ runner'[j] = "waiting" => runner[j] = "boot"
    BY <1>5 DEF RunnerRegister, RunnerClose, RunnerReadOutcome, RunnerCatch, RunnerGoto, TypeOK
  <2> QED BY <1>4, <1>5, <2>1, <2>2 DEF ForGood, Terminal
<1>6. CASE j = i /\ (RunnerWriteOutcome(i) \/ RunnerRewrite(i))
  <2>1. verdict[i] \in TerminalStatus /\ runner'[i] = "closing"
    BY <1>6 DEF RunnerWriteOutcome, RunnerRewrite, RunnerGoto, VerdictReady, TypeOK
  <2>2. rows'[i].status \in TerminalStatus
    BY <1>6, <2>1, SetStatusEffect DEF RunnerWriteOutcome, RunnerRewrite, Status
  <2> QED BY <1>4, <1>6, <2>1, <2>2
<1>7. CASE j = i /\ RunnerClaim(i)
  <2>1. rows[i].cancel
    BY <1>7 DEF RunnerClaim, ForGood, PastRevival
  <2>2. rows'[i].status = "cancelled" /\ runner'[i] = "closing"
    BY <1>7, <2>1, SetStatusEffect
    DEF RunnerClaim, CancelSeen, RunnerGoto, TypeOK, Status, TerminalStatus
  <2> QED BY <1>4, <1>7, <2>2 DEF TerminalStatus
<1>8. ~(j = i /\ (RunnerSpawn(i) \/ RunnerRecordPid(i)))
  BY DEF RunnerSpawn, RunnerRecordPid, ForGood, PastRevival
<1> QED BY <1>3, <1>5, <1>6, <1>7, <1>8 DEF RunnerStep

(* Crashes, kills and time take runners away and leave the rows alone.     *)
LEMMA EnvironmentSettled ==
  ASSUME IInv, Environment, NEW j \in JobId, ForGood(j)
  PROVE ForGood(j)'
<1>1. rows' = rows
  BY DEF Environment, ChildExits, RunnerTerminates, RunnerCrash, ReservationExpires, WorkerCrash, MaintenanceEnds
<1>2. CASE runner'[j] = runner[j] \/ runner'[j] = "dead"
  BY <1>1, <1>2, StillSettled DEF ForGood, Terminal
<1>3. CASE runner'[j] \in {"overdue", "failing"}
  BY <1>1, <1>3 DEF ForGood, PastRevival, Terminal
<1>4. \/ runner'[j] = runner[j]
      \/ runner'[j] \in {"dead", "overdue", "failing"}
  BY DEF Environment, ChildExits, RunnerTerminates, RunnerCrash, ReservationExpires, WorkerCrash, MaintenanceEnds,
         RunnerGoto, IInv, TypeOK
<1> QED BY <1>2, <1>3, <1>4

(* A settled Job comes back only by a runner that has yet to claim or to   *)
(* record its child's pid: past that, or once a cancellation is recorded   *)
(* ahead of the claim, it stays settled under every fault, cancellation    *)
(* and crash (tryClaimJob, onPid, cancelJob, reconcileJobs).               *)
THEOREM SettledStays == Spec => SettledForGood
<1>1. ASSUME IInv, [Next]_vars, NEW j \in JobId, ForGood(j)
      PROVE ForGood(j)'
  <2>1. CASE UNCHANGED vars
    BY <1>1, <2>1 DEF vars, ForGood, PastRevival, Terminal
  <2>2. ASSUME NEW h \in Handler, NEW request \in Request,
               NEW found \in SUBSET {i \in JobId : MayBeStale(i)}, Receive(h, request, found)
        PROVE ForGood(j)'
    BY <1>1, <2>2 DEF Receive, ForGood, PastRevival, Terminal
  <2> QED BY <1>1, <2>1, <2>2, HandlerSettled, RunnerSettled, EnvironmentSettled DEF Next
<1>2. IInv /\ [Next]_vars =>
        [\A j \in JobId : Terminal(j) /\ PastRevival(j) => (Terminal(j) /\ PastRevival(j))']_vars
  BY <1>1 DEF ForGood
<1> QED BY <1>2, Invariance, PTL DEF Spec, SettledForGood

-----------------------------------------------------------------------------
(* Slots and the maintenance lease, when launches and heartbeats are in    *)
(* time and nobody cancels. A runner killed or given up while it goes on   *)
(* is what these properties do not survive.                                *)

Punctual == Faults \cap {"stall", "slow"} = {} /\ "cancel" \notin Calls

Working == RunnerPc \ {"none", "closing", "dead"}
LaunchedBy(h, j) == handler[h].pc = "start_launch" /\ handler[h].job = j
CancelPc == {"cancel_read", "cancel_request", "cancel_kill", "cancel_write"}

(* No runner works for this Job, and none will.                            *)
NeverRuns(j) ==
    runner[j] = "dead" \/ (runner[j] = "none" /\ \A h \in Handler : ~LaunchedBy(h, j))

(* A Job whose runner works, or is being launched, is active, and has its  *)
(* slot from the claim on; a Job that a reconciliation found stale has no  *)
(* runner any more.                                                        *)
Steady(j) ==
    /\ runner[j] \in Working => Active(j)
    /\ runner[j] \in {"claimed", "spawned"} => j \in Slots
    /\ runner[j] = "none" => \A h \in Handler : LaunchedBy(h, j) => Active(j)
    /\ \A h \in Handler : stale[h][j].step # "none" => NeverRuns(j)

NoCancellation == \A h \in Handler : handler[h].pc \notin CancelPc

SteadyInv ==
    /\ NoCancellation
    /\ \A j \in JobId : Steady(j)
    /\ IsFiniteSet(Slots) /\ SlotBound
    /\ MaintenanceExclusion

(* A runner that has registered is on record until it closes.              *)
RunnerRecorded ==
    \A j \in JobId :
        /\ rows[j].runner => runner[j] # "none"
        /\ runner[j] \in Working \ {"boot"} => rows[j].runner

(* What a step does to a Job: it becomes active only by its admission,     *)
(* without a lease, and gets a slot only from its own claim.               *)
Orderly(j) ==
    /\ Active(j)' => Active(j) \/ (lease = NoOwner /\ lease' = NoOwner)
    /\ j \in Slots' => j \in Slots \/ (RunnerClaim(j) /\ SlotFree)

OrderlyStep == \A j \in JobId : Orderly(j)

(* A step that leaves the Job's row and processes alone, gives it no new   *)
(* launcher and lists it no more.                                          *)
LEMMA Untouched ==
  ASSUME NEW j \in JobId, Steady(j), rows'[j].status = rows[j].status, runner'[j] = runner[j],
         \A h \in Handler : LaunchedBy(h, j)' => LaunchedBy(h, j),
         \A h \in Handler : stale'[h][j].step # "none" => stale[h][j].step # "none"
  PROVE Steady(j)' /\ Orderly(j)
  BY DEF Steady, Orderly, NeverRuns, Active, Terminal, Slots

(* A status that is terminal, once no runner works for the Job.            *)
LEMMA Settled ==
  ASSUME NEW j \in JobId, rows'[j].status \in TerminalStatus, runner'[j] \in {"none", "closing", "dead"},
         runner'[j] = "none" => \A h \in Handler : ~LaunchedBy(h, j)',
         \A h \in Handler : stale'[h][j].step # "none" => runner'[j] # "closing"
  PROVE Steady(j)' /\ Orderly(j)
  BY DEF Steady, Orderly, NeverRuns, Active, Terminal, Slots, Working, RunnerPc, ActiveStatus, TerminalStatus

(* The properties of all Jobs together follow from what happens to each.   *)
LEMMA SteadyTogether ==
  ASSUME TypeOK, SteadyInv, NoCancellation', \A j \in JobId : Steady(j)' /\ Orderly(j),
         lease' \in {lease, NoOwner} \/ ActiveJobs' = {}
  PROVE SteadyInv' /\ OrderlyStep
<1>1. IsFiniteSet(Slots)' /\ SlotBound'
  <2>1. CASE Slots' \subseteq Slots
    BY <2>1, FS_Subset, FS_CardinalityType, ExecutorAssumption DEF SteadyInv, SlotBound, ExecutorAssumption
  <2>2. ASSUME NEW j \in JobId, RunnerClaim(j), SlotFree
        PROVE IsFiniteSet(Slots)' /\ SlotBound'
    <3>1. \A i \in JobId \ {j} : rows'[i] = rows[i]
      BY <2>2 DEF RunnerClaim, SetStatus, TypeOK
    <3>2. Slots' \subseteq Slots \cup {j}
      BY <3>1 DEF Slots
    <3>3. IsFiniteSet(Slots \cup {j}) /\ Cardinality(Slots \cup {j}) <= MaxConcurrent
      <4>1. IsFiniteSet(Slots) /\ Cardinality(Slots) \in Nat
        BY FS_CardinalityType DEF SteadyInv
      <4>2. /\ IsFiniteSet(Slots \cup {j})
            /\ Cardinality(Slots \cup {j}) \in {Cardinality(Slots), Cardinality(Slots) + 1}
        BY <4>1, FS_AddElement
      <4> QED BY <2>2, <4>1, <4>2, ExecutorAssumption DEF SlotFree, ExecutorAssumption
    <3> QED BY <3>2, <3>3, FS_Subset, FS_CardinalityType, ExecutorAssumption DEF SlotBound, ExecutorAssumption
  <2> QED BY <2>1, <2>2 DEF Orderly, Slots
<1>2. MaintenanceExclusion'
  BY DEF SteadyInv, Orderly, MaintenanceExclusion, ActiveJobs
<1> QED BY <1>1, <1>2 DEF SteadyInv, OrderlyStep

(* reconcileJobs only settles Jobs that no runner works for any more.      *)
LEMMA ReconcileSteady ==
  ASSUME Punctual, IInv, SteadyInv, NEW h \in Handler, NEW i \in JobId,
         ReconcileProbe(h, i) \/ ReconcileKill(h, i) \/ ReconcileWrite(h, i)
  PROVE SteadyInv' /\ OrderlyStep
<1> USE DEF IInv
<1>1. UNCHANGED <<runner, lease, handler>>
  BY DEF ReconcileProbe, ReconcileKill, ReconcileWrite
<1>2. stale[h][i].step # "none" /\ NeverRuns(i)
  BY DEF ReconcileProbe, ReconcileKill, ReconcileWrite, SteadyInv, Steady
<1>3. \A g \in Handler, j \in JobId : stale'[g][j].step # "none" => stale[g][j].step # "none"
  <2>1. AfterDeadRunner(stale[h][i]) \in {"none", "probe", "kill", "write"}
    BY DEF AfterDeadRunner
  <2>2. \A g \in Handler, j \in JobId : g # h \/ i # j => stale'[g][j] = stale[g][j]
    BY <2>1, SetStaleEffect DEF ReconcileProbe, ReconcileKill, ReconcileWrite
  <2> QED BY <1>2, <2>2
<1>4. ASSUME NEW j \in JobId PROVE Steady(j)' /\ Orderly(j)
  <2>1. CASE rows'[j].status = rows[j].status
    BY <1>1, <1>3, <2>1, Untouched DEF SteadyInv, LaunchedBy
  <2>2. CASE rows'[j].status # rows[j].status
    <3>1. ReconcileWrite(h, i) /\ StaleVerdict(stale[h][i]) \in TerminalStatus
      BY <2>2 DEF ReconcileProbe, ReconcileKill, StaleVerdict, TerminalStatus
    <3>2. j = i /\ rows'[j].status \in TerminalStatus
      BY <2>2, <3>1, SetStatusEffect DEF ReconcileWrite, Status
    <3> QED BY <1>1, <1>2, <3>2, Settled DEF NeverRuns, LaunchedBy, Working
  <2> QED BY <2>1, <2>2
<1>5. NoCancellation'
  BY <1>1 DEF SteadyInv, NoCancellation
<1> QED BY <1>1, <1>4, <1>5, SteadyTogether

(* The operations that do not touch the Job's processes.                   *)
LEMMA CallSteady ==
  ASSUME Punctual, IInv, SteadyInv, NEW h \in Handler,
         Look(h) \/ StartCheck(h) \/ StartInsert(h) \/ LaunchDone(h) \/ MaintenanceBegin(h)
  PROVE SteadyInv' /\ OrderlyStep
<1> USE DEF IInv
<1>1. UNCHANGED <<runner, stale>>
  BY DEF Look, StartCheck, StartInsert, LaunchDone, MaintenanceBegin
<1>2. /\ \A g \in Handler : g # h => handler'[g] = handler[g]
      /\ handler'[h].pc \in {"idle", "start_insert", "start_launch"}
      /\ handler'[h].pc = "start_launch" => StartInsert(h) /\ handler'[h].job = handler[h].job
  BY DEF Look, StartCheck, StartInsert, LaunchDone, MaintenanceBegin, Finish, Goto, Idle, TypeOK, HandlerState
<1>3. NoCancellation'
  BY <1>2 DEF SteadyInv, NoCancellation, CancelPc
<1>4. lease' \in {lease, NoOwner} \/ ActiveJobs' = {}
  BY DEF Look, StartCheck, StartInsert, LaunchDone, MaintenanceBegin, NothingActive, ActiveJobs, Active
<1>5. ASSUME NEW j \in JobId PROVE Steady(j)' /\ Orderly(j)
  <2>1. CASE rows'[j].status = rows[j].status /\ handler'[h].pc # "start_launch"
    BY <1>1, <1>2, <2>1, Untouched DEF SteadyInv, LaunchedBy
  <2>2. ASSUME StartInsert(h), handler'[h].pc = "start_launch"
        PROVE Steady(j)' /\ Orderly(j)
    <3> DEFINE i == handler[h].job
    <3>1. i \in JobId /\ rows[i].status = "absent"
      BY <2>2 DEF StartInsert, HandlerHasJob, WorksOnJob, InsertOwned
    <3>2. /\ rows' = [rows EXCEPT ![i] = NewRow("queued", handler[h].key)]
          /\ lease = NoOwner /\ lease' = NoOwner
      BY <2>2 DEF StartInsert, Finish, Idle, TypeOK
    <3> HIDE DEF i
    <3>3. CASE j = i
      <4>1. rows'[j].status = "queued" /\ rows[j].status = "absent"
        BY <3>1, <3>2, <3>3 DEF TypeOK, NewRow
      <4>2. runner[j] = "none" /\ \A g \in Handler : stale[g][j].step = "none"
        BY <3>1, <3>3 DEF AdmittedFirst
      <4> QED BY <1>1, <3>2, <4>1, <4>2
        DEF Steady, Orderly, Active, Terminal, Slots, Working, ActiveStatus, TerminalStatus
    <3>4. CASE j # i
      BY <1>1, <1>2, <3>2, <3>4, Untouched DEF SteadyInv, LaunchedBy, TypeOK, i
    <3> QED BY <3>3, <3>4
  <2>3. CASE rows'[j].status # rows[j].status
    <3>1. ~LaunchDone(h)
      BY <2>3, SetRunnerEffect DEF LaunchDone, HandlerHasJob, WorksOnJob
    <3>2. StartInsert(h) /\ handler'[h].pc = "start_launch"
      BY <2>3, <3>1, GotoEffect DEF Look, StartCheck, StartInsert, MaintenanceBegin, HandlerPc
    <3> QED BY <2>2, <3>2
  <2> QED BY <1>2, <2>1, <2>2, <2>3
<1> QED BY <1>3, <1>4, <1>5, SteadyTogether

(* A launch, and one that fails: without a slow host the runner dies with  *)
(* it.                                                                     *)
LEMMA LaunchSteady ==
  ASSUME Punctual, IInv, SteadyInv, NEW h \in Handler, LaunchRunner(h) \/ LaunchFails(h)
  PROVE SteadyInv' /\ OrderlyStep
<1> USE DEF IInv
<1> DEFINE i == handler[h].job
<1>1. i \in JobId /\ UNCHANGED <<lease, stale>>
  BY DEF LaunchRunner, LaunchFails, HandlerHasJob, WorksOnJob
<1>2. /\ \A g \in Handler : g # h => handler'[g] = handler[g]
      /\ handler'[h] = handler[h] \/ handler'[h].pc = "idle"
  BY DEF LaunchRunner, LaunchFails, Finish, Idle, TypeOK
<1>3. NoCancellation'
  BY <1>2 DEF SteadyInv, NoCancellation, CancelPc
<1>4. LaunchedBy(h, i)
  BY DEF LaunchRunner, LaunchFails, LaunchedBy
<1>5. ASSUME NEW j \in JobId PROVE Steady(j)' /\ Orderly(j)
  <2>1. CASE j # i
    <3>1. rows'[j] = rows[j] /\ runner'[j] = runner[j]
      BY <1>1, <2>1, SetStatusEffect
      DEF LaunchRunner, LaunchFails, RunnerGoto, Unlaunch, TypeOK, Status, TerminalStatus
    <3> QED BY <1>1, <1>2, <3>1, Untouched DEF SteadyInv, LaunchedBy
  <2>2. CASE j = i /\ LaunchRunner(h)
    <3>1. runner[j] = "none" /\ runner'[j] = "boot" /\ rows' = rows /\ handler' = handler
      BY <1>1, <2>2 DEF LaunchRunner, RunnerGoto, TypeOK
    <3>2. Active(j) /\ \A g \in Handler : stale[g][j].step = "none"
      BY <1>4, <2>2, <3>1 DEF SteadyInv, Steady, NeverRuns
    <3> QED BY <1>1, <3>1, <3>2 DEF Steady, Orderly, NeverRuns, Active, Terminal, Slots, ActiveStatus, TerminalStatus
  <2>3. CASE j = i /\ LaunchFails(h)
    <3>1. runner'[j] = "dead" /\ rows'[j].status \in TerminalStatus
      BY <1>1, <2>3, SetStatusEffect
      DEF LaunchFails, Unlaunch, RunnerGoto, TypeOK, Punctual, Status, TerminalStatus
    <3> QED BY <3>1, Settled DEF Working
  <2> QED BY <2>1, <2>2, <2>3
<1> QED BY <1>1, <1>3, <1>5, SteadyTogether

(* Nobody cancels, so those are all steps of handlers.                     *)
LEMMA HandlerSteady ==
  ASSUME Punctual, IInv, SteadyInv, NEW h \in Handler, HandlerStep(h)
  PROVE SteadyInv' /\ OrderlyStep
<1>1. ~CancelRead(h) /\ ~CancelRequest(h) /\ ~CancelKill(h) /\ ~CancelWrite(h)
  BY DEF SteadyInv, NoCancellation, CancelPc, CancelRead, CancelRequest, CancelKill, CancelWrite
<1> QED BY <1>1, ReconcileSteady, CallSteady, LaunchSteady DEF HandlerStep

(* The runner: a claim takes a free slot, onPid keeps it.                  *)
LEMMA RunnerSteady ==
  ASSUME Punctual, IInv, SteadyInv, NEW i \in JobId, RunnerStep(i)
  PROVE SteadyInv' /\ OrderlyStep
<1> USE DEF IInv
<1>1. UNCHANGED <<lease, handler, stale>>
  BY DEF RunnerStep, RunnerRegister, RunnerClaim, RunnerSpawn, RunnerRecordPid,
         RunnerReadOutcome, RunnerWriteOutcome, RunnerCatch, RunnerRewrite, RunnerClose
<1>2. \A j \in JobId : j # i => runner'[j] = runner[j] /\ rows'[j].status = rows[j].status
  BY DEF RunnerStep, RunnerRegister, RunnerClaim, RunnerSpawn, RunnerRecordPid,
         RunnerReadOutcome, RunnerWriteOutcome, RunnerCatch, RunnerRewrite, RunnerClose, RunnerGoto,
         TypeOK, SetStatus, SetRunner
<1>3. RunnerAlive(i) /\ runner[i] # "none" /\ \A h \in Handler : stale[h][i].step = "none"
  BY DEF RunnerStep, RunnerRegister, RunnerClaim, RunnerSpawn, RunnerRecordPid,
         RunnerReadOutcome, RunnerWriteOutcome, RunnerCatch, RunnerRewrite, RunnerClose, RunnerAlive,
         SteadyInv, Steady, NeverRuns
<1>4. Steady(i)' /\ Orderly(i)
  <2>1. CASE RunnerRegister(i) \/ RunnerSpawn(i) \/ RunnerReadOutcome(i)
    <3>1. rows'[i].status = rows[i].status /\ Active(i)
      BY <2>1, SetRunnerEffect
      DEF RunnerRegister, RunnerSpawn, RunnerReadOutcome, SteadyInv, Steady, Working, RunnerPc
    <3>2. /\ runner'[i] # "none" /\ runner'[i] # "claimed"
          /\ runner'[i] = "spawned" => runner[i] = "claimed"
      BY <2>1 DEF RunnerRegister, RunnerSpawn, RunnerReadOutcome, RunnerGoto, TypeOK
    <3> QED BY <1>1, <1>3, <3>1, <3>2 DEF SteadyInv, Steady, Orderly, Active, Terminal, Slots
  <2>2. CASE RunnerClaim(i)
    <3>1. CASE SetStatus(i, "cancelled") /\ RunnerGoto(i, "closing")
      BY <1>1, <1>3, <3>1, SetStatusEffect, Settled DEF Status, TerminalStatus, RunnerGoto, TypeOK, Working
    <3>2. CASE SlotFree /\ SetStatus(i, "starting") /\ RunnerGoto(i, "claimed")
      <4>1. rows'[i].status = "starting" /\ runner'[i] = "claimed"
        BY <3>2, SetStatusEffect DEF Status, ActiveStatus, RunnerGoto, TypeOK
      <4>2. Active(i)
        BY <2>2 DEF RunnerClaim, SteadyInv, Steady, Working, RunnerPc
      <4> QED BY <1>1, <1>3, <2>2, <3>2, <4>1, <4>2
        DEF Steady, Orderly, Active, Terminal, Slots, ActiveStatus, TerminalStatus
    <3> QED BY <2>2, <3>1, <3>2 DEF RunnerClaim
  <2>3. CASE RunnerRecordPid(i)
    <3>1. rows'[i].status = "running" /\ runner'[i] = "watching"
      BY <2>3 DEF RunnerRecordPid, RunnerGoto, TypeOK, Row
    <3>2. i \in Slots
      BY <2>3 DEF RunnerRecordPid, SteadyInv, Steady
    <3> QED BY <1>1, <1>3, <3>1, <3>2
      DEF Steady, Orderly, Active, Terminal, Slots, ActiveStatus, TerminalStatus
  <2>4. CASE RunnerWriteOutcome(i) \/ RunnerRewrite(i)
    <3>1. verdict[i] \in TerminalStatus /\ runner'[i] = "closing"
      BY <2>4 DEF RunnerWriteOutcome, RunnerRewrite, VerdictReady, RunnerGoto, TypeOK
    <3>2. rows'[i].status \in TerminalStatus
      BY <2>4, <3>1, SetStatusEffect DEF RunnerWriteOutcome, RunnerRewrite, Status
    <3> QED BY <1>1, <1>3, <3>1, <3>2, Settled DEF Working
  <2>5. CASE RunnerCatch(i)
    <3>1. Active(i) /\ rows' = rows /\ runner'[i] \in {"rewriting"}
      BY <2>5 DEF RunnerCatch, SteadyInv, Steady, Working, RunnerPc, RunnerGoto, TypeOK
    <3> QED BY <1>1, <1>3, <3>1 DEF Steady, Orderly, Active, Terminal, Slots
  <2>6. CASE RunnerClose(i)
    <3>1. rows'[i].status = rows[i].status /\ runner'[i] = "dead"
      BY <2>6 DEF RunnerClose, RunnerGoto, TypeOK, Row
    <3> QED BY <1>1, <1>3, <3>1 DEF Steady, Orderly, Active, Terminal, Slots, Working, NeverRuns
  <2> QED BY <2>1, <2>2, <2>3, <2>4, <2>5, <2>6 DEF RunnerStep
<1>5. ASSUME NEW j \in JobId PROVE Steady(j)' /\ Orderly(j)
  BY <1>1, <1>2, <1>4, Untouched DEF SteadyInv, LaunchedBy
<1>6. NoCancellation'
  BY <1>1 DEF SteadyInv, NoCancellation
<1> QED BY <1>1, <1>5, <1>6, SteadyTogether

(* Crashes and time take runners, launchers and leases away.               *)
LEMMA EnvironmentSteady ==
  ASSUME Punctual, IInv, SteadyInv, Environment
  PROVE SteadyInv' /\ OrderlyStep
<1> USE DEF IInv
<1>1. rows' = rows /\ lease' \in {lease, NoOwner}
  BY DEF Environment, ChildExits, RunnerTerminates, RunnerCrash, ReservationExpires, WorkerCrash, MaintenanceEnds
<1>2. \A h \in Handler : handler'[h] = handler[h] \/ handler'[h].pc = "idle"
  BY DEF Environment, ChildExits, RunnerTerminates, RunnerCrash, ReservationExpires, WorkerCrash, MaintenanceEnds,
         Finish, Idle, TypeOK
<1>3. \A h \in Handler, j \in JobId : stale'[h][j].step # "none" => stale[h][j].step # "none"
  <2>1. CASE stale' = stale
    BY <2>1
  <2>2. ASSUME NEW g \in Handler, WorkerCrash(g)
        PROVE \A h \in Handler, j \in JobId : stale'[h][j].step # "none" => stale[h][j].step # "none"
    BY <2>2 DEF WorkerCrash, NotStale, TypeOK
  <2> QED BY <2>1, <2>2
    DEF Environment, ChildExits, RunnerTerminates, RunnerCrash, ReservationExpires, MaintenanceEnds
<1>4. \A j \in JobId :
         \/ runner'[j] = runner[j]
         \/ runner'[j] = "dead"
         \/ runner[j] = "watching" /\ runner'[j] \in {"overdue", "failing"}
  BY DEF Environment, ChildExits, RunnerTerminates, RunnerCrash, ReservationExpires, WorkerCrash, MaintenanceEnds,
         RunnerGoto, TypeOK
<1>5. ASSUME NEW j \in JobId PROVE Steady(j)' /\ Orderly(j)
  <2>1. CASE runner'[j] = runner[j]
    BY <1>1, <1>2, <1>3, <2>1, Untouched DEF SteadyInv, LaunchedBy
  <2>2. CASE runner'[j] = "dead"
    BY <1>1, <2>2 DEF Steady, Orderly, NeverRuns, Active, Terminal, Slots, Working
  <2>3. CASE runner[j] = "watching" /\ runner'[j] \in {"overdue", "failing"}
    <3>1. Active(j) /\ \A h \in Handler : stale[h][j].step = "none"
      BY <2>3 DEF SteadyInv, Steady, NeverRuns, Working, RunnerPc
    <3> QED BY <1>1, <1>3, <2>3, <3>1 DEF Steady, Orderly, Active, Terminal, Slots
  <2> QED BY <1>4, <2>1, <2>2, <2>3
<1>6. NoCancellation'
  BY <1>2 DEF SteadyInv, NoCancellation, CancelPc
<1> QED BY <1>1, <1>5, <1>6, SteadyTogether

(* Without a late launch or heartbeat a listing finds dead runners only.   *)
LEMMA ReceiveSteady ==
  ASSUME Punctual, IInv, SteadyInv, RunnerRecorded, ClosedSettled, NEW h \in Handler, NEW request \in Request,
         NEW found \in SUBSET {j \in JobId : MayBeStale(j)}, Receive(h, request, found)
  PROVE SteadyInv' /\ OrderlyStep
<1> USE DEF IInv
<1>1. UNCHANGED <<rows, lease, runner>>
  BY DEF Receive
<1>2. request.pc \in {"look", "start_check", "maintain"}
  BY DEF Punctual, Request, Idle
<1>3. \A g \in Handler : IF g = h THEN handler'[g] = request ELSE handler'[g] = handler[g]
  BY DEF Receive, TypeOK
<1>4. ASSUME NEW j \in found PROVE NeverRuns(j)
  <2>1. MayBeStale(j) /\ "stall" \notin Faults /\ "slow" \notin Faults
    BY DEF Punctual
  <2>2. CASE rows[j].runner
    BY <2>1, <2>2 DEF MayBeStale, RunnerAlive, NeverRuns, RunnerRecorded
  <2>3. CASE ~rows[j].runner
    <3>1. ~Launching(j) /\ Active(j)
      BY <2>1, <2>3 DEF MayBeStale
    <3>2. runner[j] \in {"none", "boot", "dead"}
      BY <2>3, <3>1 DEF RunnerRecorded, ClosedSettled, Active, Terminal, ActiveStatus, TerminalStatus, Working, TypeOK
    <3> QED BY <2>3, <3>1, <3>2 DEF NeverRuns, Launching, LaunchedBy
  <2> QED BY <2>2, <2>3
<1>5. \A g \in Handler, j \in JobId : stale'[g][j].step # "none" => NeverRuns(j)
  BY <1>4 DEF Receive, List, NotStale, TypeOK, SteadyInv, Steady
<1>6. \A j \in JobId : NeverRuns(j)' = NeverRuns(j)
  BY <1>1, <1>2, <1>3 DEF NeverRuns, LaunchedBy, Receive
<1>7. ASSUME NEW j \in JobId PROVE Steady(j)' /\ Orderly(j)
  BY <1>1, <1>2, <1>3, <1>5, <1>6 DEF SteadyInv, Steady, Orderly, LaunchedBy, Active, Terminal, Slots
<1>8. NoCancellation'
  BY <1>2, <1>3 DEF SteadyInv, NoCancellation, CancelPc
<1> QED BY <1>1, <1>7, <1>8, SteadyTogether

(* What is recorded of the runner of one Job, and what of it moves.        *)
LEMMA RecordedStep ==
  ASSUME IInv, SteadyInv, RunnerRecorded, [Next]_vars
  PROVE RunnerRecorded'
<1> USE DEF IInv
<1> SUFFICES ASSUME NEW j \in JobId
             PROVE /\ rows'[j].runner => runner'[j] # "none"
                   /\ runner'[j] \in Working \ {"boot"} => rows'[j].runner
  BY DEF RunnerRecorded
<1>0. CASE rows'[j].runner = rows[j].runner /\ (runner'[j] = runner[j] \/ runner'[j] \in {"boot", "dead"})
  BY <1>0 DEF RunnerRecorded, Working
<1>1. CASE UNCHANGED <<rows, runner>>
  BY <1>1 DEF RunnerRecorded
<1>2. ASSUME NEW h \in Handler, HandlerStep(h), ~UNCHANGED <<rows, runner>>
      PROVE /\ rows'[j].runner => runner'[j] # "none"
            /\ runner'[j] \in Working \ {"boot"} => rows'[j].runner
  <2>1. ASSUME NEW i \in JobId, ReconcileWrite(h, i)
        PROVE rows'[j].runner = rows[j].runner /\ runner'[j] = runner[j]
    BY <2>1 DEF ReconcileWrite, SetStatus, TypeOK, Row
  <2> DEFINE i == handler[h].job
  <2>2. ASSUME i \in JobId, LaunchFails(h) \/ LaunchRunner(h) \/ CancelRequest(h) \/ CancelKill(h) \/ CancelWrite(h)
        PROVE rows'[j].runner = rows[j].runner /\ (runner'[j] = runner[j] \/ runner'[j] \in {"boot", "dead"})
    BY <2>2
    DEF LaunchFails, LaunchRunner, CancelRequest, CancelKill, CancelWrite, Unlaunch, RunnerGoto, KillRunnerTree,
        SetStatus, TypeOK, Row
  <2>3. CASE StartInsert(h)
    <3>1. i \in JobId /\ rows[i].status = "absent" /\ runner[i] = "none" /\ runner' = runner
      BY <2>3 DEF StartInsert, HandlerHasJob, WorksOnJob, InsertOwned, AdmittedFirst
    <3>2. rows' = rows \/ rows' = [rows EXCEPT ![i] = NewRow("queued", handler[h].key)]
      BY <2>3 DEF StartInsert
    <3> HIDE DEF i
    <3> QED BY <3>1, <3>2 DEF RunnerRecorded, NewRow, TypeOK, Working
  <2>4. CASE LaunchDone(h)
    <3>1. i \in JobId /\ runner[i] # "none" /\ runner' = runner /\ SetRunner(i)
      BY <2>4 DEF LaunchDone, HandlerHasJob, WorksOnJob
    <3> HIDE DEF i
    <3> QED BY <3>1 DEF RunnerRecorded, SetRunner, TypeOK, Row
  <2>5. LaunchFails(h) \/ LaunchRunner(h) \/ CancelRequest(h) \/ CancelKill(h) \/ CancelWrite(h) => i \in JobId
    BY DEF LaunchFails, LaunchRunner, CancelRequest, CancelKill, CancelWrite, HandlerHasJob, WorksOnJob
  <2>6. \/ \E k \in JobId : ReconcileWrite(h, k)
        \/ LaunchFails(h) \/ LaunchRunner(h) \/ CancelRequest(h) \/ CancelKill(h) \/ CancelWrite(h)
        \/ StartInsert(h) \/ LaunchDone(h)
    BY <1>2
    DEF HandlerStep, ReconcileProbe, ReconcileKill, Look, StartCheck, CancelRead, MaintenanceBegin
  <2> QED BY <1>0, <2>1, <2>2, <2>3, <2>4, <2>5, <2>6
<1>3. ASSUME NEW i \in JobId, RunnerStep(i)
      PROVE /\ rows'[j].runner => runner'[j] # "none"
            /\ runner'[j] \in Working \ {"boot"} => rows'[j].runner
  <2>1. CASE j # i
    <3>1. rows'[j].runner = rows[j].runner /\ runner'[j] = runner[j]
      BY <1>3, <2>1
      DEF RunnerStep, RunnerRegister, RunnerClaim, RunnerSpawn, RunnerRecordPid, RunnerReadOutcome,
          RunnerWriteOutcome, RunnerCatch, RunnerRewrite, RunnerClose, RunnerGoto, TypeOK, SetStatus, SetRunner
    <3> QED BY <1>0, <3>1
  <2>2. CASE RunnerRegister(i)
    <3>1. Active(i)
      BY <2>2 DEF RunnerRegister, SteadyInv, Steady, Working, RunnerPc
    <3>2. rows' = [rows EXCEPT ![i] = [rows[i] EXCEPT !.runner = TRUE]]
      <4>1. (rows[i].runner \/ Active(i)) = TRUE
        BY <3>1
      <4> QED BY <2>2, <4>1 DEF RunnerRegister, SetRunner
    <3>3. rows'[i].runner /\ runner'[i] # "none"
      BY <2>2, <3>2 DEF RunnerRegister, RunnerGoto, TypeOK, Row
    <3> QED BY <2>1, <3>3
  <2>3. CASE RunnerClose(i)
    BY <2>1, <2>3 DEF RunnerClose, RunnerGoto, TypeOK, Working, Row
  <2>4. CASE \/ RunnerClaim(i) \/ RunnerSpawn(i) \/ RunnerRecordPid(i) \/ RunnerReadOutcome(i)
             \/ RunnerWriteOutcome(i) \/ RunnerCatch(i) \/ RunnerRewrite(i)
    <3>1. rows'[i].runner = rows[i].runner
      BY <2>4
      DEF RunnerClaim, RunnerSpawn, RunnerRecordPid, RunnerReadOutcome, RunnerWriteOutcome, RunnerCatch,
          RunnerRewrite, SetStatus, TypeOK, Row
    <3>2. runner[i] \in Working \ {"boot"} /\ runner'[i] # "none"
      BY <2>4
      DEF RunnerClaim, RunnerSpawn, RunnerRecordPid, RunnerReadOutcome, RunnerWriteOutcome, RunnerCatch,
          RunnerRewrite, RunnerGoto, TypeOK, Working, RunnerPc
    <3> QED BY <2>1, <3>1, <3>2 DEF RunnerRecorded
  <2> QED BY <1>3, <2>2, <2>3, <2>4 DEF RunnerStep
<1>4. CASE Environment
  <2>1. rows' = rows /\ (runner'[j] = runner[j] \/ runner'[j] = "dead"
                         \/ (runner[j] = "watching" /\ runner'[j] \in {"overdue", "failing"}))
    BY <1>4
    DEF Environment, ChildExits, RunnerTerminates, RunnerCrash, ReservationExpires, WorkerCrash, MaintenanceEnds,
        RunnerGoto, TypeOK
  <2> QED BY <1>0, <2>1 DEF RunnerRecorded, Working, RunnerPc
<1>5. ASSUME NEW h \in Handler, NEW request \in Request,
             NEW found \in SUBSET {i \in JobId : MayBeStale(i)}, Receive(h, request, found)
      PROVE UNCHANGED <<rows, runner>>
  BY <1>5 DEF Receive
<1> QED BY <1>1, <1>2, <1>3, <1>4, <1>5 DEF Next, vars

-----------------------------------------------------------------------------
(* The children on record, when no fault disturbs the host.                *)

Undisturbed == Faults = {} /\ "cancel" \notin Calls

(* An active Job keeps its reservation; one whose pid is recorded has left *)
(* the queue and has a runner on record; and its child has ended before    *)
(* the runner, or a reconciliation that saw the pid, settles it.           *)
Accounted(j) ==
    /\ Active(j) => j \in reserved
    /\ runner[j] \in {"writing", "failing", "rewriting", "closing"} => child[j] # "alive"
    /\ rows[j].pid => /\ rows[j].status \notin {"queued", "absent"}
                      /\ rows[j].runner \/ Terminal(j)
                      /\ runner[j] \notin {"none", "boot", "waiting", "claimed", "spawned"}
    /\ rows[j].pid /\ child[j] = "alive" =>
          /\ Active(j)
          /\ \A h \in Handler : stale[h][j].step # "none" => stale[h][j].step # "write" /\ stale[h][j].pid

AccountedInv == \A j \in JobId : Accounted(j)

(* A step that leaves the Job's row and runner alone.                      *)
LEMMA AccountKept ==
  ASSUME NEW j \in JobId, Accounted(j), rows'[j] = rows[j], runner'[j] = runner[j],
         child'[j] = "alive" => child[j] = "alive",
         Active(j) /\ j \in reserved => j \in reserved',
         \A h \in Handler : stale'[h][j] = stale[h][j] \/ stale'[h][j].step = "none"
  PROVE Accounted(j)'
  BY DEF Accounted, Active, Terminal

(* A settled Job without a child to account for.                           *)
LEMMA AccountSettled ==
  ASSUME NEW j \in JobId, rows'[j].status \in TerminalStatus, runner'[j] \in {"none", "closing", "dead"},
         child'[j] # "alive" \/ (~rows'[j].pid /\ runner'[j] # "closing"),
         rows'[j].pid => runner'[j] # "none"
  PROVE Accounted(j)'
  BY DEF Accounted, Active, Terminal, ActiveStatus, TerminalStatus

(* reconcileJobs: probe, kill and verdict of one Job.                      *)
LEMMA ReconcileAccount ==
  ASSUME Undisturbed, IInv, SteadyInv, AccountedInv, NEW h \in Handler, NEW i \in JobId,
         ReconcileProbe(h, i) \/ ReconcileKill(h, i) \/ ReconcileWrite(h, i)
  PROVE AccountedInv'
<1> SUFFICES ASSUME NEW j \in JobId PROVE Accounted(j)'
  BY DEF AccountedInv
<1> USE DEF IInv
<1>1. Accounted(j) /\ Accounted(i) /\ stale[h][i].step # "none" /\ NeverRuns(i) /\ runner' = runner
  BY DEF AccountedInv, ReconcileProbe, ReconcileKill, ReconcileWrite, SteadyInv, Steady
<1>2. \A g \in Handler : g # h \/ i # j => stale'[g][j] = stale[g][j]
  <2>1. AfterDeadRunner(stale[h][i]) \in {"none", "probe", "kill", "write"}
    BY DEF AfterDeadRunner
  <2> QED BY <2>1, SetStaleEffect DEF ReconcileProbe, ReconcileKill, ReconcileWrite
<1>3. CASE j # i
  <2>1. rows'[j] = rows[j] /\ child'[j] = child[j] /\ (j \in reserved => j \in reserved')
    BY <1>3
    DEF ReconcileProbe, ReconcileKill, ReconcileWrite, SetStatus, Release, KillChild, TypeOK
  <2> QED BY <1>1, <1>2, <1>3, <2>1, AccountKept
<1>4. CASE j = i /\ ReconcileProbe(h, i)
  <2>1. UNCHANGED <<rows, child, reserved>> /\ stale[h][j].step = "probe"
    BY <1>4 DEF ReconcileProbe
  <2>2. stale'[h][j].step = "none"
        \/ stale'[h][j] = [stale[h][j] EXCEPT !.step = AfterDeadRunner(stale[h][j])]
    BY <1>4 DEF ReconcileProbe, SetStale, AfterDeadRunner, NotStale, TypeOK
  <2>3. CASE stale'[h][j].step = "none"
    BY <1>1, <1>2, <2>1, <2>3, AccountKept
  <2>4. CASE stale'[h][j] = [stale[h][j] EXCEPT !.step = AfterDeadRunner(stale[h][j])]
    <3>1. /\ stale'[h][j].step = AfterDeadRunner(stale[h][j])
          /\ stale'[h][j].pid = stale[h][j].pid
      BY <2>4 DEF TypeOK, StaleEntry
    <3> QED BY <1>1, <1>2, <2>1, <3>1 DEF Accounted, AfterDeadRunner, Active, Terminal
  <2> QED BY <2>2, <2>3, <2>4
<1>5. CASE j = i /\ ReconcileKill(h, i)
  <2>1. UNCHANGED <<rows, reserved>> /\ child'[j] # "alive"
    BY <1>5 DEF ReconcileKill, KillChild, Undisturbed, TypeOK
  <2> QED BY <1>1, <2>1 DEF Accounted, Active, Terminal
<1>6. CASE j = i /\ ReconcileWrite(h, i)
  <2>1. stale[h][j].step = "write" /\ child' = child
    BY <1>6 DEF ReconcileWrite
  <2>2. rows'[j].status \in TerminalStatus /\ rows'[j].pid = rows[j].pid
    BY <1>6 DEF ReconcileWrite, SetStatus, StaleVerdict, TerminalStatus, TypeOK, Row
  <2> QED BY <1>1, <1>6, <2>1, <2>2, AccountSettled DEF NeverRuns, Accounted
<1> QED BY <1>3, <1>4, <1>5, <1>6

(* The calls of clients and of the app.                                    *)
LEMMA CallAccount ==
  ASSUME Undisturbed, IInv, SteadyInv, AccountedInv, NEW h \in Handler,
         \/ Look(h) \/ StartCheck(h) \/ StartInsert(h) \/ LaunchRunner(h) \/ LaunchDone(h)
         \/ LaunchFails(h) \/ MaintenanceBegin(h)
  PROVE AccountedInv'
<1> SUFFICES ASSUME NEW j \in JobId PROVE Accounted(j)'
  BY DEF AccountedInv
<1> USE DEF IInv
<1> DEFINE i == handler[h].job
<1>1. Accounted(j) /\ UNCHANGED <<child, stale>>
  BY DEF AccountedInv, Look, StartCheck, StartInsert, LaunchRunner, LaunchDone, LaunchFails, MaintenanceBegin
<1>2. CASE Look(h) \/ StartCheck(h) \/ MaintenanceBegin(h)
  BY <1>1, <1>2, AccountKept DEF Look, StartCheck, MaintenanceBegin
<1>3. CASE StartInsert(h) \/ LaunchRunner(h) \/ LaunchDone(h) \/ LaunchFails(h)
  <2>1. i \in JobId
    BY <1>3 DEF StartInsert, LaunchRunner, LaunchDone, LaunchFails, HandlerHasJob, WorksOnJob
  <2>2. CASE j # i
    <3>1. rows'[j] = rows[j] /\ runner'[j] = runner[j] /\ (j \in reserved => j \in reserved')
      BY <1>3, <2>1, <2>2
      DEF StartInsert, LaunchRunner, LaunchDone, LaunchFails, SetStatus, SetRunner, Release, Unlaunch, RunnerGoto,
          TypeOK
    <3> QED BY <1>1, <3>1, AccountKept
  <2>3. CASE j = i /\ StartInsert(h)
    <3>1. rows[j].status = "absent" /\ j \in reserved /\ runner' = runner
      BY <2>1, <2>3 DEF StartInsert, InsertOwned
    <3>2. runner[j] = "none" /\ child[j] = "none"
      BY <3>1 DEF AdmittedFirst
    <3>3. CASE rows' = rows
      BY <1>1, <3>1, <3>2, <3>3 DEF Accounted, Active, Terminal, ActiveStatus
    <3>4. CASE rows' = [rows EXCEPT ![i] = NewRow("queued", handler[h].key)] /\ reserved' = reserved
      <4>1. ~rows'[j].pid
        BY <2>1, <2>3, <3>4 DEF NewRow, TypeOK
      <4> QED BY <3>1, <3>2, <3>4, <4>1 DEF Accounted
    <3> QED BY <2>3, <3>3, <3>4 DEF StartInsert
  <2>4. CASE j = i /\ LaunchRunner(h)
    <3>1. runner[j] = "none" /\ runner'[j] = "boot" /\ UNCHANGED <<rows, reserved>>
      BY <2>1, <2>4 DEF LaunchRunner, RunnerGoto, TypeOK
    <3> QED BY <1>1, <3>1 DEF Accounted, Active, Terminal
  <2>5. CASE j = i /\ LaunchDone(h)
    <3>1. /\ rows'[j].status = rows[j].status /\ rows'[j].pid = rows[j].pid
          /\ rows[j].runner => rows'[j].runner
          /\ UNCHANGED <<runner, reserved>>
      BY <2>1, <2>5 DEF LaunchDone, SetRunner, TypeOK, Row
    <3> QED BY <1>1, <3>1 DEF Accounted, Active, Terminal
  <2>6. CASE j = i /\ LaunchFails(h)
    <3>1. runner[j] \in {"none", "boot"} /\ runner'[j] = "dead"
      BY <2>1, <2>6 DEF LaunchFails, Unlaunch, RunnerGoto, Undisturbed, TypeOK
    <3>2. rows'[j].status \in TerminalStatus /\ rows'[j].pid = rows[j].pid
      BY <2>1, <2>6 DEF LaunchFails, SetStatus, TerminalStatus, TypeOK, Row
    <3> QED BY <1>1, <3>1, <3>2, AccountSettled DEF Accounted
  <2> QED BY <1>3, <2>2, <2>3, <2>4, <2>5, <2>6
<1> QED BY <1>2, <1>3

(* The runner: a child's pid is recorded while the Job is active.          *)
LEMMA RunnerAccount ==
  ASSUME Undisturbed, IInv, WatchInv, SteadyInv, RunnerRecorded, AccountedInv, NEW i \in JobId, RunnerStep(i)
  PROVE AccountedInv'
<1> SUFFICES ASSUME NEW j \in JobId PROVE Accounted(j)'
  BY DEF AccountedInv
<1> USE DEF IInv
<1>1. Accounted(j) /\ stale' = stale
  BY DEF AccountedInv, RunnerStep, RunnerRegister, RunnerClaim, RunnerSpawn, RunnerRecordPid,
         RunnerReadOutcome, RunnerWriteOutcome, RunnerCatch, RunnerRewrite, RunnerClose
<1>2. CASE j # i
  <2>1. rows'[j] = rows[j] /\ runner'[j] = runner[j] /\ child'[j] = child[j] /\ (j \in reserved => j \in reserved')
    BY <1>2
    DEF RunnerStep, RunnerRegister, RunnerClaim, RunnerSpawn, RunnerRecordPid,
        RunnerReadOutcome, RunnerWriteOutcome, RunnerCatch, RunnerRewrite, RunnerClose, RunnerGoto,
        TypeOK, SetStatus, SetRunner, Release
  <2> QED BY <1>1, <2>1, AccountKept
<1> SUFFICES ASSUME j = i PROVE Accounted(j)'
  BY <1>2
<1>3. CASE RunnerRegister(j) \/ RunnerSpawn(j)
  <2>1. /\ rows'[j].status = rows[j].status /\ rows'[j].pid = rows[j].pid /\ reserved' = reserved
        /\ ~rows[j].pid
    BY <1>1, <1>3 DEF RunnerRegister, RunnerSpawn, SetRunner, TypeOK, Row, Accounted
  <2>2. runner'[j] \in {"waiting", "failing", "spawned"} /\ (runner'[j] = "failing" => child'[j] # "alive")
    BY <1>3 DEF RunnerRegister, RunnerSpawn, RunnerGoto, TypeOK, ChildAfterClaim
  <2> QED BY <1>1, <2>1, <2>2 DEF Accounted, Active
<1>4. CASE RunnerClaim(j)
  <2>1. /\ ~rows[j].pid /\ rows'[j].pid = rows[j].pid /\ UNCHANGED <<reserved, child>> /\ child[j] # "alive"
        /\ Active(j)
    BY <1>1, <1>4
    DEF RunnerClaim, SetStatus, TypeOK, Row, Accounted, ChildAfterClaim, SteadyInv, Steady, Working, RunnerPc
  <2> QED BY <1>1, <2>1 DEF Accounted, Active
<1>5. CASE RunnerRecordPid(j)
  <2>1. /\ rows'[j].status = "running" /\ rows'[j].runner = rows[j].runner /\ runner'[j] = "watching"
        /\ UNCHANGED <<reserved, child>>
    BY <1>5 DEF RunnerRecordPid, RunnerGoto, TypeOK, Row
  <2>2. rows[j].runner /\ Active(j) /\ \A h \in Handler : stale[h][j].step = "none"
    BY <1>5
    DEF RunnerRecordPid, RunnerRecorded, SteadyInv, Steady, NeverRuns, Working, RunnerPc
  <2> QED BY <1>1, <2>1, <2>2 DEF Accounted, Active, ActiveStatus
<1>6. CASE RunnerReadOutcome(j) \/ RunnerCatch(j)
  <2>1. /\ UNCHANGED <<rows, reserved, child>> /\ child[j] # "alive"
        /\ runner'[j] \in {"writing", "closing", "rewriting"}
    BY <1>1, <1>6 DEF RunnerReadOutcome, RunnerCatch, RunnerGoto, TypeOK, Accounted
  <2> QED BY <1>1, <2>1 DEF Accounted, Active, Terminal
<1>7. CASE RunnerWriteOutcome(j) \/ RunnerRewrite(j)
  <2>1. verdict[j] \in TerminalStatus /\ runner'[j] = "closing" /\ child' = child /\ child[j] # "alive"
    BY <1>1, <1>7 DEF RunnerWriteOutcome, RunnerRewrite, VerdictReady, RunnerGoto, TypeOK, Accounted
  <2>2. rows'[j].status \in TerminalStatus
    BY <1>7, <2>1, SetStatusEffect DEF RunnerWriteOutcome, RunnerRewrite, Status
  <2> QED BY <2>1, <2>2, AccountSettled
<1>8. CASE RunnerClose(j)
  <2>1. runner'[j] = "dead" /\ child' = child /\ child[j] # "alive"
    BY <1>1, <1>8 DEF RunnerClose, RunnerGoto, TypeOK, Accounted
  <2>2. rows'[j].status \in TerminalStatus
    BY <1>8 DEF RunnerClose, WatchInv, ClosedSettled, Terminal, TypeOK, Row
  <2> QED BY <2>1, <2>2, AccountSettled
<1> QED BY <1>3, <1>4, <1>5, <1>6, <1>7, <1>8 DEF RunnerStep

(* A reservation runs out only when its Job is settled or has no row.      *)
LEMMA EnvironmentAccount ==
  ASSUME Undisturbed, IInv, AccountedInv, Environment
  PROVE AccountedInv'
<1> SUFFICES ASSUME NEW j \in JobId PROVE Accounted(j)'
  BY DEF AccountedInv
<1> USE DEF IInv
<1>1. Accounted(j) /\ rows' = rows
  BY DEF AccountedInv, Environment, ChildExits, RunnerTerminates, RunnerCrash, ReservationExpires, WorkerCrash,
         MaintenanceEnds
<1>2. \A h \in Handler : stale'[h][j] = stale[h][j] \/ stale'[h][j].step = "none"
  <2>1. ASSUME NEW g \in Handler, WorkerCrash(g)
        PROVE \A h \in Handler : stale'[h][j] = stale[h][j] \/ stale'[h][j].step = "none"
    BY <2>1 DEF WorkerCrash, NotStale, TypeOK
  <2> QED BY <2>1
    DEF Environment, ChildExits, RunnerTerminates, RunnerCrash, ReservationExpires, MaintenanceEnds
<1>3. Active(j) /\ j \in reserved => j \in reserved'
  BY DEF Environment, ChildExits, RunnerTerminates, RunnerCrash, ReservationExpires, WorkerCrash, MaintenanceEnds,
         Undisturbed, Unreleased, Release, Active, Terminal, ActiveStatus, TerminalStatus
<1>4. /\ child'[j] = "alive" => child[j] = "alive"
      /\ \/ runner'[j] = runner[j]
         \/ runner'[j] = "dead"
         \/ runner[j] = "watching" /\ runner'[j] \in {"overdue", "failing"} /\ child'[j] # "alive"
  BY DEF Environment, ChildExits, RunnerTerminates, RunnerCrash, ReservationExpires, WorkerCrash, MaintenanceEnds,
         RunnerGoto, KillChild, Undisturbed, TypeOK
<1> QED BY <1>1, <1>2, <1>3, <1>4 DEF Accounted, Active, Terminal

(* A listing sees the pid that is recorded.                                *)
LEMMA ReceiveAccount ==
  ASSUME IInv, AccountedInv, NEW h \in Handler, NEW request \in Request,
         NEW found \in SUBSET {j \in JobId : MayBeStale(j)}, Receive(h, request, found)
  PROVE AccountedInv'
<1> SUFFICES ASSUME NEW j \in JobId PROVE Accounted(j)'
  BY DEF AccountedInv
<1> USE DEF IInv
<1>1. Accounted(j) /\ UNCHANGED <<rows, runner, child>>
  BY DEF AccountedInv, Receive
<1>2. Active(j) /\ j \in reserved => j \in reserved'
  BY DEF Receive, List, Active, Terminal, ActiveStatus, TerminalStatus
<1>3. /\ \A g \in Handler : g # h => stale'[g][j] = stale[g][j]
      /\ stale'[h][j] = NotStale \/ stale'[h][j] = Listed(j)
  BY DEF Receive, List, TypeOK
<1>4. rows[j].pid /\ Active(j) => Listed(j).step # "write" /\ Listed(j).pid
  BY <1>1 DEF Listed, Accounted, Active, Terminal, ActiveStatus, TerminalStatus
<1> QED BY <1>1, <1>2, <1>3, <1>4 DEF Accounted, Active, Terminal, NotStale

-----------------------------------------------------------------------------
(* A step keeps what the properties below need.                            *)

(* ... if nothing is late and nobody cancels                               *)
PunctualInv == IInv /\ WatchInv /\ SteadyInv /\ RunnerRecorded

(* Every step keeps it and is orderly.                                     *)
LEMMA PunctualStep ==
  ASSUME Punctual, PunctualInv, [Next]_vars
  PROVE PunctualInv' /\ OrderlyStep
<1> USE DEF PunctualInv
<1>1. ASSUME UNCHANGED vars
      PROVE SteadyInv' /\ OrderlyStep
  <2>1. \A j \in JobId : Steady(j)' /\ Orderly(j)
    BY <1>1, Untouched DEF vars, SteadyInv, LaunchedBy
  <2>2. NoCancellation'
    BY <1>1 DEF vars, SteadyInv, NoCancellation
  <2> QED BY <1>1, <2>1, <2>2, SteadyTogether DEF vars, IInv
<1>2. SteadyInv' /\ OrderlyStep
  BY <1>1, ReceiveSteady, HandlerSteady, RunnerSteady, EnvironmentSteady DEF Next, WatchInv
<1> QED BY <1>2, StepKeeps, WatchStep, RecordedStep

(* ... and if no fault disturbs the host.                                  *)
UndisturbedInv == PunctualInv /\ AccountedInv

(* Every step keeps it.                                                    *)
LEMMA UndisturbedStep ==
  ASSUME Undisturbed, UndisturbedInv, [Next]_vars
  PROVE UndisturbedInv'
<1> USE DEF PunctualInv, UndisturbedInv
<1>1. ASSUME UNCHANGED vars
      PROVE AccountedInv'
  BY <1>1, AccountKept DEF vars, AccountedInv
<1>2. ASSUME NEW h \in Handler, HandlerStep(h)
      PROVE AccountedInv'
  <2>1. ~CancelRead(h) /\ ~CancelRequest(h) /\ ~CancelKill(h) /\ ~CancelWrite(h)
    BY DEF SteadyInv, NoCancellation, CancelPc, CancelRead, CancelRequest, CancelKill, CancelWrite
  <2> QED BY <1>2, <2>1, ReconcileAccount, CallAccount DEF HandlerStep
<1>3. AccountedInv'
  BY <1>1, <1>2, ReceiveAccount, RunnerAccount, EnvironmentAccount DEF Next
<1>4. Punctual
  BY DEF Undisturbed, Punctual
<1> QED BY <1>3, <1>4, PunctualStep

(* It holds at first.                                                      *)
LEMMA PunctualInit ==
  ASSUME Init
  PROVE PunctualInv /\ AccountedInv
<1>1. WatchInv /\ RunnerRecorded /\ AccountedInv /\ NoCancellation
  BY DEF Init, WatchInv, ClosedSettled, ChildHasRunner, RunnerRecorded, AccountedInv, Accounted, NoCancellation,
         CancelPc, NewRow, Working, Idle, Active, ActiveStatus
<1>2. \A j \in JobId : Steady(j)
  BY DEF Init, Steady, LaunchedBy, Working, Idle, NotStale
<1>3. Slots = {} /\ ActiveJobs = {}
  BY DEF Init, Slots, ActiveJobs, Active, ActiveStatus, NewRow
<1>4. IsFiniteSet(Slots) /\ SlotBound /\ MaintenanceExclusion
  BY <1>3, FS_EmptySet, ExecutorAssumption DEF SlotBound, MaintenanceExclusion, ExecutorAssumption
<1> QED BY <1>1, <1>2, <1>4, Initially DEF PunctualInv, SteadyInv

-----------------------------------------------------------------------------
(* The theorems of a host in order.                                        *)

(* No more Jobs are starting or running than the configuration allows, for *)
(* any number of Jobs, handlers and crashes, if launches and heartbeats    *)
(* are in time and nobody cancels (tryClaimJob, onPid): a runner whose row *)
(* another writer had ended would take a slot it no longer counts against. *)
THEOREM SlotsAreBounded ==
  ASSUME Punctual
  PROVE  Spec => []SlotBound
<1>1. Init => PunctualInv
  BY PunctualInit
<1>2. PunctualInv /\ [Next]_vars => PunctualInv'
  BY PunctualStep
<1>3. PunctualInv => SlotBound
  BY DEF PunctualInv, SteadyInv
<1> QED BY <1>1, <1>2, <1>3, PTL DEF Spec

(* On the same terms no Job is queued, starting or running while the app   *)
(* holds the lease (beginExecutionMaintenance, insertJobIdempotent).        *)
THEOREM MaintenanceExcludes ==
  ASSUME Punctual
  PROVE  Spec => []MaintenanceExclusion
<1>1. Init => PunctualInv
  BY PunctualInit
<1>2. PunctualInv /\ [Next]_vars => PunctualInv'
  BY PunctualStep
<1>3. PunctualInv => MaintenanceExclusion
  BY DEF PunctualInv, SteadyInv
<1> QED BY <1>1, <1>2, <1>3, PTL DEF Spec

(* Without a fault of the host, a live child whose pid is recorded belongs *)
(* to a Job that counts against the slots and holds its reservation        *)
(* (reconcileJobs kills the child of a dead runner before it settles the   *)
(* Job).                                                                   *)
THEOREM RecordedChildrenAccounted ==
  ASSUME Undisturbed
  PROVE  Spec => []RecordedChildIsAccounted
<1>1. Init => UndisturbedInv
  BY PunctualInit DEF UndisturbedInv
<1>2. UndisturbedInv /\ [Next]_vars => UndisturbedInv'
  BY UndisturbedStep
<1>3. UndisturbedInv => RecordedChildIsAccounted
  <2> SUFFICES ASSUME UndisturbedInv, NEW j \in JobId, child[j] = "alive", rows[j].pid
               PROVE j \in Slots \cap reserved
    BY DEF RecordedChildIsAccounted
  <2>1. Accounted(j)
    BY DEF UndisturbedInv, AccountedInv
  <2> QED BY <2>1 DEF Accounted, Slots, Active, ActiveStatus
<1> QED BY <1>1, <1>2, <1>3, PTL DEF Spec
=============================================================================
