---------------------------- MODULE JobExecutor ----------------------------
(***************************************************************************)
(* The durable Job executor of the Windows Worker: the jobs table in       *)
(* SQLite, the RPC handlers of the Worker processes that share it, one     *)
(* detached runner process per Job, the child process tree the runner      *)
(* starts, the Job's storage reservation and the execution-maintenance     *)
(* lease the Windows app takes.                                            *)
(*                                                                         *)
(* A step is one SQLite statement or transaction, one probe or kill of a   *)
(* process, or what a runner does between two awaits, so handlers and      *)
(* runners interleave wherever the code reads, awaits and writes.          *)
(*                                                                         *)
(* A definition written just above the one it resembles, and used nowhere, *)
(* is a mutant: the bug that the properties named in PROJECT.json exclude. *)
(***************************************************************************)
EXTENDS Naturals, FiniteSets

CONSTANTS
    JobId,          \* scoped job identifiers (createScopedId: never reused)
    NoJob,
    Key,            \* idempotency keys
    NoKey,          \* start_job without idempotency_key
    Handler,        \* RPC handlers in flight, in one or several Workers
    Owner,          \* owners of the execution-maintenance lease
    NoOwner,        \* no lease, or an expired one
    MaxConcurrent,  \* config.max_concurrent_jobs
    MaxQueued,      \* config.max_queued_jobs
    MaxCrashes,     \* bound: crashes of runners and of Worker processes
    Calls,          \* bound: the operations that clients call
    Faults          \* which of the faults below the environment can show

(***************************************************************************)
(* "probe"   the identity probe of a live process answers nothing, or      *)
(*           taskkill fails                                                *)
(* "stall"   the heartbeat of a live runner is older than 15 s (the host   *)
(*           was suspended or saturated)                                   *)
(* "slow"    a launch outlasts the 30 s that reconciliation waits, or the  *)
(*           CIM call times out although it has created the runner         *)
(* "expiry"  a storage reservation reaches its time limit before the Job   *)
(*           ends                                                          *)
(***************************************************************************)
FaultName == {"probe", "stall", "slow", "expiry"}
CallName == {"look", "start", "cancel", "maintain"}

ASSUME ExecutorAssumption ==
    /\ NoJob \notin JobId
    /\ NoKey \notin Key
    /\ NoOwner \notin Owner
    /\ MaxConcurrent \in Nat \ {0}
    /\ MaxQueued \in Nat \ {0}
    /\ MaxCrashes \in Nat
    /\ Faults \subseteq FaultName
    /\ Calls \subseteq CallName

VARIABLES
    rows,      \* the jobs table: the columns the properties tell apart
    reserved,  \* Jobs that hold a row of storage_reservations
    lease,     \* owner of the unexpired execution_maintenance lease
    runner,    \* where each Job's runner process is
    child,     \* each Job's child process tree: "none", "alive" or "dead"
    verdict,   \* the terminal status a runner is about to write
    handler,   \* where each RPC handler is, and its local variables
    stale,     \* the stale Jobs that a handler's reconciliation works on
    crashes    \* crashes so far

vars == <<rows, reserved, lease, runner, child, verdict, handler, stale, crashes>>

ActiveStatus == {"queued", "starting", "running"}
TerminalStatus == {"exited", "failed_to_start", "cancelled", "timed_out", "lost"}
NoVerdict == "none"

(* pid and runner say whether pid and runner_pid are recorded; the status  *)
(* "absent" stands for no row.                                             *)
Row == [status : ActiveStatus \cup TerminalStatus \cup {"absent"},
        key : Key \cup {NoKey}, pid : BOOLEAN, runner : BOOLEAN, cancel : BOOLEAN]
NewRow(status, k) ==
    [status |-> status, key |-> k, pid |-> FALSE, runner |-> FALSE, cancel |-> FALSE]

RunnerPc == {"none", "boot", "waiting", "claimed", "spawned", "watching", "overdue",
             "writing", "failing", "rewriting", "closing", "dead"}
HandlerPc == {"idle", "look", "start_check", "start_insert", "start_launch",
              "cancel_read", "cancel_request", "cancel_kill", "cancel_write", "maintain"}
HandlerState == [pc : HandlerPc, job : JobId \cup {NoJob}, key : Key \cup {NoKey},
                 owner : Owner \cup {NoOwner}, target : {"none", "runner", "child"}]
Idle == [pc |-> "idle", job |-> NoJob, key |-> NoKey, owner |-> NoOwner, target |-> "none"]

(* One Job of a reconciliation: its next step, and what the listing saw.   *)
StaleEntry == [step : {"none", "probe", "kill", "write"}, queued : BOOLEAN, pid : BOOLEAN]
NotStale == [step |-> "none", queued |-> FALSE, pid |-> FALSE]

Active(j) == rows[j].status \in ActiveStatus
Terminal(j) == rows[j].status \in TerminalStatus
ActiveJobs == {j \in JobId : Active(j)}
Slots == {j \in JobId : rows[j].status \in {"starting", "running"}}
RunnerAlive(j) == runner[j] \notin {"none", "dead"}

SetStatus(j, s) == rows' = [rows EXCEPT ![j].status = s]
Release(j) == reserved' = reserved \ {j}
Goto(h, pc) == handler' = [handler EXCEPT ![h].pc = pc]
Finish(h) == handler' = [handler EXCEPT ![h] = Idle]
RunnerGoto(j, pc) == runner' = [runner EXCEPT ![j] = pc]
KillChild(j) == child' = [child EXCEPT ![j] = IF @ = "alive" THEN "dead" ELSE @]
Reconciled(h) == \A j \in JobId : stale[h][j].step = "none"

Init ==
    /\ rows = [j \in JobId |-> NewRow("absent", NoKey)]
    /\ reserved = {}
    /\ lease = NoOwner
    /\ runner = [j \in JobId |-> "none"]
    /\ child = [j \in JobId |-> "none"]
    /\ verdict = [j \in JobId |-> NoVerdict]
    /\ handler = [h \in Handler |-> Idle]
    /\ stale = [h \in Handler |-> [j \in JobId |-> NotStale]]
    /\ crashes = 0

-----------------------------------------------------------------------------
(* reconcileJobs, which every operation on Jobs runs first.                *)

Launching(j) ==
    runner[j] = "boot" \/ \E h \in Handler : handler[h].pc = "start_launch" /\ handler[h].job = j

(* Rows the listing may find stale: no runner recorded 30 s after the      *)
(* insertion, or a heartbeat older than 15 s.                              *)
StaleWithRunnerOnly(j) == Active(j) /\ rows[j].runner /\ (RunnerAlive(j) => "stall" \in Faults)
MayBeStale(j) ==
    /\ Active(j)
    /\ IF rows[j].runner
       THEN RunnerAlive(j) => "stall" \in Faults
       ELSE Launching(j) => "slow" \in Faults

Listed(j) == [step |-> IF rows[j].runner THEN "probe" ELSE "write",
              queued |-> rows[j].status = "queued", pid |-> rows[j].runner /\ rows[j].pid]

(* The listing reads all rows at once; it releases what terminal rows      *)
(* still reserve and keeps a snapshot of the rows it found stale.          *)
List(h, found) ==
    /\ reserved' = reserved \ {j \in JobId : Terminal(j)}
    /\ stale' = [stale EXCEPT ![h] = [j \in JobId |-> IF j \in found THEN Listed(j) ELSE NotStale]]

Receive(h, request, found) ==
    /\ handler[h].pc = "idle"
    /\ handler' = [handler EXCEPT ![h] = request]
    /\ List(h, found)
    /\ UNCHANGED <<rows, lease, runner, child, verdict, crashes>>

SetStale(h, j, step) ==
    stale' = [stale EXCEPT ![h][j] = IF step = "none" THEN NotStale ELSE [@ EXCEPT !.step = step]]

(* What follows for a Job whose runner is not found alive.                 *)
LeaveChild(entry) == "write"
AfterDeadRunner(entry) == IF entry.pid THEN "kill" ELSE "write"

(* processMatchesStart of the runner: only a probed live runner is kept.   *)
ReconcileProbe(h, j) ==
    /\ stale[h][j].step = "probe"
    /\ \/ RunnerAlive(j) /\ SetStale(h, j, "none")
       \/ /\ ~RunnerAlive(j) \/ "probe" \in Faults
          /\ SetStale(h, j, AfterDeadRunner(stale[h][j]))
    /\ UNCHANGED <<rows, reserved, lease, runner, child, verdict, handler, crashes>>

(* An unowned surviving child is terminated; a failure is swallowed.       *)
ReconcileKill(h, j) ==
    /\ stale[h][j].step = "kill"
    /\ SetStale(h, j, "write")
    /\ KillChild(j) \/ ("probe" \in Faults /\ UNCHANGED child)
    /\ UNCHANGED <<rows, reserved, lease, runner, verdict, handler, crashes>>

StaleVerdict(entry) == IF entry.queued THEN "failed_to_start" ELSE "lost"

(* The verdict comes from the listing's snapshot, not from the row now.    *)
ReconcileWrite(h, j) ==
    /\ stale[h][j].step = "write"
    /\ SetStatus(j, StaleVerdict(stale[h][j]))
    /\ Release(j)
    /\ SetStale(h, j, "none")
    /\ UNCHANGED <<lease, runner, child, verdict, handler, crashes>>

(* get_job, list_jobs, wait_job, the log and terminal reads, job input.    *)
Look(h) ==
    /\ handler[h].pc = "look" /\ Reconciled(h)
    /\ Finish(h)
    /\ UNCHANGED <<rows, reserved, lease, runner, child, verdict, stale, crashes>>

-----------------------------------------------------------------------------
(* start_job: the queue limit is checked before the awaits that reserve    *)
(* storage, the lease and the idempotency key inside the insertion.        *)

Fresh(j) == rows[j].status = "absent" /\ j \notin reserved

StartCheck(h) ==
    /\ handler[h].pc = "start_check" /\ Reconciled(h)
    /\ \/ /\ Cardinality(ActiveJobs) < MaxQueued + MaxConcurrent
          /\ \E j \in JobId :
                /\ Fresh(j)
                /\ reserved' = reserved \cup {j}
                /\ handler' = [handler EXCEPT ![h].pc = "start_insert", ![h].job = j]
       \/ /\ Finish(h)         \* queue limit, path or storage refusal
          /\ UNCHANGED reserved
    /\ UNCHANGED <<rows, lease, runner, child, verdict, stale, crashes>>

KeyOwned(k) == k # NoKey /\ \E i \in JobId : rows[i].status # "absent" /\ rows[i].key = k

(* insertJobIdempotent and the two ways in which it admits nothing.        *)
StartInsert(h) ==
    LET j == handler[h].job
        k == handler[h].key IN
    /\ handler[h].pc = "start_insert"
    /\ IF KeyOwned(k) \/ lease # NoOwner
       THEN Release(j) /\ Finish(h) /\ UNCHANGED rows
       ELSE /\ rows' = [rows EXCEPT ![j] = NewRow("queued", k)]
            /\ Goto(h, "start_launch")
            /\ UNCHANGED reserved
    /\ UNCHANGED <<lease, runner, child, verdict, stale, crashes>>

(* Win32_Process.Create, and the bootstrap delivered over the pipe.        *)
LaunchRetried(h) ==
    LET j == handler[h].job IN
    /\ handler[h].pc = "start_launch" /\ runner[j] \in {"none", "dead"}
    /\ RunnerGoto(j, "boot")
    /\ UNCHANGED <<rows, reserved, lease, child, verdict, handler, stale, crashes>>
LaunchRunner(h) ==
    LET j == handler[h].job IN
    /\ handler[h].pc = "start_launch" /\ runner[j] = "none"
    /\ RunnerGoto(j, "boot")
    /\ UNCHANGED <<rows, reserved, lease, child, verdict, handler, stale, crashes>>

(* setJobRunner writes only while the Job is not terminal.                 *)
SetRunner(j) == rows' = [rows EXCEPT ![j].runner = @ \/ Active(j)]

LaunchDone(h) ==
    LET j == handler[h].job IN
    /\ handler[h].pc = "start_launch" /\ runner[j] # "none"
    /\ SetRunner(j)
    /\ Finish(h)
    /\ UNCHANGED <<reserved, lease, runner, child, verdict, stale, crashes>>

Unlaunch(j) == runner[j] \in {"none", "boot"} /\ RunnerGoto(j, "dead")

(* No process was created, or the bootstrap never arrived and the process  *)
(* is terminated, or the CIM call timed out and the runner goes on.        *)
LaunchFails(h) ==
    LET j == handler[h].job IN
    /\ handler[h].pc = "start_launch"
    /\ \/ Unlaunch(j)
       \/ "slow" \in Faults /\ runner[j] # "none" /\ UNCHANGED runner
    /\ SetStatus(j, "failed_to_start")
    /\ Release(j)
    /\ Finish(h)
    /\ UNCHANGED <<lease, child, verdict, stale, crashes>>

-----------------------------------------------------------------------------
(* cancel_job: the row is read once; what to terminate comes from that.    *)

CancelRead(h) ==
    LET j == handler[h].job IN
    /\ handler[h].pc = "cancel_read" /\ Reconciled(h)
    /\ IF Active(j)
       THEN /\ handler' = [handler EXCEPT ![h].pc = "cancel_request",
                  ![h].target = IF rows[j].pid THEN "child" ELSE IF rows[j].runner THEN "runner" ELSE "none"]
            /\ UNCHANGED reserved
       ELSE /\ Finish(h)
            /\ reserved' = IF Terminal(j) THEN reserved \ {j} ELSE reserved
    /\ UNCHANGED <<rows, lease, runner, child, verdict, stale, crashes>>

CancelRequest(h) ==
    /\ handler[h].pc = "cancel_request"
    /\ rows' = [rows EXCEPT ![handler[h].job].cancel = TRUE]
    /\ Goto(h, "cancel_kill")
    /\ UNCHANGED <<reserved, lease, runner, child, verdict, stale, crashes>>

(* terminateProcessTree of a runner takes its child with it.               *)
KillRunnerOnly(j) == RunnerGoto(j, "dead") /\ UNCHANGED child
KillRunnerTree(j) == RunnerGoto(j, "dead") /\ KillChild(j)

(* terminateProcessTree of the child, else of the runner, else of nothing. *)
(* A failure leaves the request recorded.                                  *)
CancelKill(h) ==
    LET j == handler[h].job IN
    /\ handler[h].pc = "cancel_kill"
    /\ \/ /\ Goto(h, "cancel_write")
          /\ \/ handler[h].target = "child" /\ KillChild(j) /\ UNCHANGED runner
             \/ handler[h].target = "runner" /\ RunnerAlive(j) /\ KillRunnerTree(j)
             \/ /\ handler[h].target = "none" \/ (handler[h].target = "runner" /\ ~RunnerAlive(j))
                /\ UNCHANGED <<runner, child>>
       \/ /\ "probe" \in Faults /\ handler[h].target # "none"
          /\ Finish(h) /\ UNCHANGED <<runner, child>>
    /\ UNCHANGED <<rows, reserved, lease, verdict, stale, crashes>>

CancelWrite(h) ==
    LET j == handler[h].job IN
    /\ handler[h].pc = "cancel_write"
    /\ SetStatus(j, "cancelled")
    /\ Release(j)
    /\ Finish(h)
    /\ UNCHANGED <<lease, runner, child, verdict, stale, crashes>>

-----------------------------------------------------------------------------
(* The execution-maintenance lease of app update and uninstall.            *)

NothingRunning == Slots = {}
NothingActive == ActiveJobs = {}

(* beginExecutionMaintenance: the count and the lease in one transaction.  *)
MaintenanceBegin(h) ==
    /\ handler[h].pc = "maintain" /\ Reconciled(h)
    /\ IF lease \in {NoOwner, handler[h].owner} /\ NothingActive
       THEN lease' = handler[h].owner
       ELSE UNCHANGED lease
    /\ Finish(h)
    /\ UNCHANGED <<rows, reserved, runner, child, verdict, stale, crashes>>

(* endExecutionMaintenance by the owner, or the lease time has passed.     *)
MaintenanceEnds ==
    /\ lease # NoOwner
    /\ lease' = NoOwner
    /\ UNCHANGED <<rows, reserved, runner, child, verdict, handler, stale, crashes>>

-----------------------------------------------------------------------------
(* runJob, in the Job's own detached runner process.                       *)

RunnerRegister(j) ==
    /\ runner[j] = "boot"
    /\ SetRunner(j)
    /\ \/ RunnerGoto(j, "waiting")
       \/ RunnerGoto(j, "failing")       \* the input channel cannot listen
    /\ UNCHANGED <<reserved, lease, child, verdict, handler, stale, crashes>>

CancelSeenWhileActive(j) == rows[j].cancel /\ Active(j)
CancelSeen(j) == rows[j].cancel
SlotFreeOffByOne == Cardinality(Slots) <= MaxConcurrent
SlotFree == Cardinality(Slots) < MaxConcurrent

(* tryClaimJob: a requested cancellation wins, then the slot count; the    *)
(* present status is not looked at. "wait" polls again.                    *)
RunnerClaim(j) ==
    /\ runner[j] = "waiting"
    /\ \/ CancelSeen(j) /\ SetStatus(j, "cancelled") /\ RunnerGoto(j, "closing")
       \/ ~CancelSeen(j) /\ SlotFree /\ SetStatus(j, "starting") /\ RunnerGoto(j, "claimed")
    /\ UNCHANGED <<reserved, lease, child, verdict, handler, stale, crashes>>

RunnerSpawn(j) ==
    /\ runner[j] = "claimed"
    /\ \/ RunnerGoto(j, "spawned") /\ child' = [child EXCEPT ![j] = "alive"]
       \/ RunnerGoto(j, "failing") /\ UNCHANGED child    \* PROGRAM_NOT_FOUND
    /\ UNCHANGED <<rows, reserved, lease, verdict, handler, stale, crashes>>

(* onPid                                                                   *)
RunnerRecordPid(j) ==
    /\ runner[j] = "spawned"
    /\ rows' = [rows EXCEPT ![j].status = "running", ![j].pid = TRUE]
    /\ RunnerGoto(j, "watching")
    /\ UNCHANGED <<reserved, lease, child, verdict, handler, stale, crashes>>

ChildExits(j) ==
    /\ child[j] = "alive"
    /\ KillChild(j)
    /\ UNCHANGED <<rows, reserved, lease, runner, verdict, handler, stale, crashes>>

(* The Job's timeout and a failed output capture both terminate the tree;  *)
(* when that fails, the runner gives up with the child alive.              *)
RunnerTerminates(j) ==
    /\ runner[j] = "watching"
    /\ \/ child[j] = "alive" /\ RunnerGoto(j, "overdue") /\ KillChild(j)
       \/ RunnerGoto(j, "failing") /\ KillChild(j)
       \/ "probe" \in Faults /\ child[j] = "alive" /\ RunnerGoto(j, "failing") /\ UNCHANGED child
    /\ UNCHANGED <<rows, reserved, lease, verdict, handler, stale, crashes>>

(* The row is read for a cancellation before the log sizes are awaited ... *)
RunnerReadOutcome(j) ==
    /\ runner[j] \in {"watching", "overdue"} /\ child[j] # "alive"
    /\ verdict' = [verdict EXCEPT ![j] = IF rows[j].cancel THEN "cancelled"
                                         ELSE IF runner[j] = "overdue" THEN "timed_out" ELSE "exited"]
    /\ RunnerGoto(j, "writing")
    /\ UNCHANGED <<rows, reserved, lease, child, handler, stale, crashes>>

(* ... and the verdict is written after it.                                *)
RunnerWriteOutcome(j) ==
    /\ runner[j] = "writing"
    /\ SetStatus(j, verdict[j])
    /\ Release(j)
    /\ RunnerGoto(j, "closing")
    /\ verdict' = [verdict EXCEPT ![j] = NoVerdict]
    /\ UNCHANGED <<lease, child, handler, stale, crashes>>

(* The catch block: nothing more for a terminal row.                       *)
RunnerCatch(j) ==
    /\ runner[j] = "failing"
    /\ \/ ~Active(j) /\ RunnerGoto(j, "closing") /\ UNCHANGED verdict
       \/ /\ Active(j) /\ RunnerGoto(j, "rewriting")
          /\ \E v \in {"failed_to_start", "exited", "lost"} :
                /\ v = "failed_to_start" <=> ~rows[j].pid
                /\ v = "lost" => child[j] = "alive"
                /\ v = "exited" => child[j] # "alive" \/ "probe" \in Faults
                /\ verdict' = [verdict EXCEPT ![j] = v]
    /\ UNCHANGED <<rows, reserved, lease, child, handler, stale, crashes>>

RunnerRewrite(j) ==
    /\ runner[j] = "rewriting"
    /\ SetStatus(j, verdict[j])
    /\ RunnerGoto(j, "closing")
    /\ verdict' = [verdict EXCEPT ![j] = NoVerdict]
    /\ UNCHANGED <<reserved, lease, child, handler, stale, crashes>>

(* The finally block: clearJobRunner, release, exit.                       *)
RunnerClose(j) ==
    /\ runner[j] = "closing"
    /\ rows' = [rows EXCEPT ![j].runner = FALSE]
    /\ Release(j)
    /\ RunnerGoto(j, "dead")
    /\ UNCHANGED <<lease, child, verdict, handler, stale, crashes>>

-----------------------------------------------------------------------------
(* Crashes and the passing of time.                                        *)

(* The detached child outlives its runner.                                 *)
RunnerCrash(j) ==
    /\ crashes < MaxCrashes
    /\ RunnerAlive(j)
    /\ RunnerGoto(j, "dead")
    /\ crashes' = crashes + 1
    /\ UNCHANGED <<rows, reserved, lease, child, verdict, handler, stale>>

(* A Worker dies in the middle of a handler. A launch dies with it unless  *)
(* the runner already has its bootstrap.                                   *)
WorkerCrash(h) ==
    LET j == handler[h].job IN
    /\ crashes < MaxCrashes
    /\ handler[h].pc # "idle"
    /\ Finish(h)
    /\ stale' = [stale EXCEPT ![h] = [i \in JobId |-> NotStale]]
    /\ IF handler[h].pc = "start_launch" /\ runner[j] = "none"
       THEN RunnerGoto(j, "dead") ELSE UNCHANGED runner
    /\ crashes' = crashes + 1
    /\ UNCHANGED <<rows, reserved, lease, child, verdict>>

Unreleased(j) == rows[j].status = "absent" \/ Terminal(j)

(* A reservation that nothing releases any more runs out.                  *)
ReservationExpires(j) ==
    /\ j \in reserved
    /\ "expiry" \in Faults \/ Unreleased(j)
    /\ \A h \in Handler : handler[h].job = j => handler[h].pc # "start_insert"
    /\ Release(j)
    /\ UNCHANGED <<rows, lease, runner, child, verdict, handler, stale, crashes>>

-----------------------------------------------------------------------------
(* What a client may call, as the first state of its handler.              *)
Request ==
    LET Entry(call, pc) == IF call \in Calls THEN {[Idle EXCEPT !.pc = pc]} ELSE {} IN
    Entry("look", "look")
    \cup {[e EXCEPT !.key = k] : e \in Entry("start", "start_check"), k \in Key \cup {NoKey}}
    \cup {[e EXCEPT !.job = j] : e \in Entry("cancel", "cancel_read"),
                                 j \in {i \in JobId : rows[i].status # "absent"}}
    \cup {[e EXCEPT !.owner = o] : e \in Entry("maintain", "maintain"), o \in Owner}

HandlerStep(h) ==
    \/ \E j \in JobId : ReconcileProbe(h, j) \/ ReconcileKill(h, j) \/ ReconcileWrite(h, j)
    \/ Look(h)
    \/ StartCheck(h) \/ StartInsert(h) \/ LaunchRunner(h) \/ LaunchDone(h) \/ LaunchFails(h)
    \/ CancelRead(h) \/ CancelRequest(h) \/ CancelKill(h) \/ CancelWrite(h)
    \/ MaintenanceBegin(h)

RunnerStep(j) ==
    \/ RunnerRegister(j) \/ RunnerClaim(j) \/ RunnerSpawn(j) \/ RunnerRecordPid(j)
    \/ RunnerReadOutcome(j) \/ RunnerWriteOutcome(j)
    \/ RunnerCatch(j) \/ RunnerRewrite(j) \/ RunnerClose(j)

Environment ==
    \/ \E j \in JobId : ChildExits(j) \/ RunnerTerminates(j) \/ RunnerCrash(j) \/ ReservationExpires(j)
    \/ \E h \in Handler : WorkerCrash(h)
    \/ MaintenanceEnds

Next ==
    \/ \E h \in Handler, found \in SUBSET {j \in JobId : MayBeStale(j)}, request \in Request :
          Receive(h, request, found)
    \/ \E h \in Handler : HandlerStep(h)
    \/ \E j \in JobId : RunnerStep(j)
    \/ Environment

Spec == Init /\ [][Next]_vars

(* Handlers and runners keep running; a Job's timeout ends a child that    *)
(* does not end by itself; a reservation has a time limit; and some client *)
(* keeps asking (wait_job reconciles every second, every other Job         *)
(* operation once), so a stale Job is listed again and again while a       *)
(* handler is free for it.                                                 *)
ReconcileAll ==
    LET found == {j \in JobId : MayBeStale(j)} IN
    found # {} /\ \E h \in Handler : Receive(h, [Idle EXCEPT !.pc = "look"], found)

Fairness ==
    /\ \A h \in Handler : WF_vars(HandlerStep(h))
    /\ \A j \in JobId : WF_vars(RunnerStep(j)) /\ WF_vars(RunnerTerminates(j))
                      /\ WF_vars(ReservationExpires(j))
    /\ SF_vars(ReconcileAll)

FairSpec == Spec /\ Fairness

-----------------------------------------------------------------------------
(* Properties.                                                             *)

TypeOK ==
    /\ rows \in [JobId -> Row]
    /\ reserved \subseteq JobId
    /\ lease \in Owner \cup {NoOwner}
    /\ runner \in [JobId -> RunnerPc]
    /\ child \in [JobId -> {"none", "alive", "dead"}]
    /\ verdict \in [JobId -> TerminalStatus \cup {NoVerdict}]
    /\ handler \in [Handler -> HandlerState]
    /\ stale \in [Handler -> [JobId -> StaleEntry]]
    /\ crashes \in 0..MaxCrashes

(* Two start_job calls with one idempotency key never leave two Jobs,      *)
(* however their checks and insertions interleave (jobs.ts startJob).      *)
UniqueKey ==
    \A i, j \in JobId :
        rows[i].status # "absent" /\ rows[j].status # "absent" /\ rows[i].key = rows[j].key
            => i = j \/ rows[i].key = NoKey

(* No more Jobs are starting or running than the configuration allows,     *)
(* whichever runners claim while handlers reconcile (state.ts tryClaimJob).*)
SlotBound == Cardinality(Slots) <= MaxConcurrent

(* While the app holds the maintenance lease no Job is queued, starting or *)
(* running (ARCHITECTURE.md, Durable Job model).                           *)
MaintenanceExclusion == lease # NoOwner => ActiveJobs = {}

(* The runner is past onPid, or will find the cancellation when it claims. *)
PastRevival(j) ==
    \/ runner[j] \notin {"none", "boot", "waiting", "claimed", "spawned"}
    \/ rows[j].cancel /\ runner[j] \notin {"claimed", "spawned"}

(* A settled Job comes back only by its own runner, which claims without a *)
(* look at the status and records the pid over it: once the runner is past *)
(* that, or a cancellation was recorded ahead of its claim, the Job stays  *)
(* settled for good, whatever late launches, stale verdicts, cancellations *)
(* and crashes there are (state.ts tryClaimJob; jobs.ts onPid, cancelJob,  *)
(* reconcileJobs).                                                         *)
SettledForGood ==
    [][\A j \in JobId : Terminal(j) /\ PastRevival(j) => (Terminal(j) /\ PastRevival(j))']_vars

(* A child whose pid is on record belongs to a Job that still counts       *)
(* against the slots and still holds its storage reservation.              *)
RecordedChildIsAccounted ==
    \A j \in JobId : child[j] = "alive" /\ rows[j].pid => j \in Slots \cap reserved

(* A child outlives the runner that enforces its timeout only after a      *)
(* crash, or when its Job has been settled: cancel_job never leaves it     *)
(* behind by terminating its runner (jobs.ts cancelJob).                   *)
ChildHasRunner ==
    \A j \in JobId : child[j] = "alive" /\ ~RunnerAlive(j) => crashes > 0 \/ Terminal(j)

Unstarted(j) == child[j] = "none" /\ runner[j] \notin {"claimed", "spawned"}
CancelStands == \A j \in JobId : rows[j].cancel /\ Unstarted(j) => rows'[j].cancel /\ Unstarted(j)'

(* A cancellation requested before the claim keeps the program from ever   *)
(* starting, also when the Job is meanwhile settled or reconciled.         *)
CancelBeforeClaim == [][CancelStands]_vars

(* Every Job settles for good, and its storage reservation is given back,  *)
(* through crashes of runners and Workers (reconciliation, the expiry of   *)
(* reservations).                                                          *)
EveryJobSettles ==
    \A j \in JobId :
        /\ rows[j].status # "absent" ~> [](Terminal(j))
        /\ j \in reserved ~> j \notin reserved

(* What the Job's program has done so far: what its child has done tells   *)
(* started and ended apart, and a dead runner without a child can start    *)
(* nothing any more.                                                       *)
Phase(j) ==
    IF rows[j].status = "absent" THEN "new"
    ELSE IF child[j] = "alive" THEN "started"
    ELSE IF child[j] = "dead" \/ runner[j] = "dead" THEN "ended"
    ELSE "accepted"

Once == INSTANCE JobOnce WITH
    phase <- [j \in JobId |-> Phase(j)],
    keyOf <- [j \in JobId |-> rows[j].key]

(* The promise of start_job: one Job per key, one start per Job, no return *)
(* from the end, through every crash, retry and race of the executor.      *)
StartedOnce == Once!Spec
=============================================================================
