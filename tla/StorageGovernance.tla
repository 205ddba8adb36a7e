------------------------- MODULE StorageGovernance -------------------------
(***************************************************************************)
(* The Worker's disk: the collector of pruneStorage with its persisted     *)
(* lease, and the admission of ensureStorageCapacity, which collects,      *)
(* measures, and reserves bytes in one SQLite transaction before an        *)
(* operation may write.  Every SSH session runs a Worker of its own over   *)
(* the same data root and database, so all of these interleave.            *)
(*                                                                         *)
(* A step is what happens between two awaits.  Bytes are counted in units; *)
(* an item is a directory of contents and the row that names it.           *)
(*                                                                         *)
(* A definition written just above the one it resembles, and used nowhere, *)
(* is a mutant: the bug that the properties named in PROJECT.json exclude. *)
(***************************************************************************)
EXTENDS Integers, FiniteSets, Functions

CONSTANTS
    Command,      \* calls of captureProcess and of withStorageReservation
    Job,          \* start_job calls, with their runners
    Sweeper,      \* Workers that collect at startup, on schedule or on demand
    OldOutput,    \* outputs recorded earlier
    OldLog,       \* logs of Jobs that ended earlier
    Size,         \* bytes of the contents of each old item
    Volume,       \* volumes of the computer
    Root,         \* the volume of the data root
    Space,        \* bytes of each volume
    RootBytes,    \* what each operation reserves under the data root
    Target,       \* the volume that each operation writes to besides
    TargetBytes,  \* what it reserves there
    Quota,        \* max_bytes
    MinFree,      \* min_free_bytes
    ContentDays,  \* output_retention_days and job_log_retention_days
    RowDays,      \* metadata_retention_days
    MaxMishaps,   \* bound: crashes, failed file operations and overruns
    Faults        \* which of the faults below the environment can show

(***************************************************************************)
(* "io"       a process fails to run or a directory is not removed         *)
(* "overrun"  a collection lasts longer than its five minutes of lease     *)
(* "stale"    bytes or a reservation go between another Worker's           *)
(*            measurement and the admission or deletion that relies on it  *)
(***************************************************************************)
Fault == {"io", "overrun", "stale"}

Op == Command \cup Job
Log == OldLog \cup Job
Item == Op \cup OldOutput \cup OldLog
Output == Item \ Log
Proc == Op \cup Sweeper
Age == 0 .. 2

ASSUME StorageAssumption ==
    /\ LET Kinds == <<Command, Job, Sweeper, OldOutput, OldLog, {"none", "dead"}>> IN
       \A m, n \in 1 .. 6 : m # n => Kinds[m] \cap Kinds[n] = {}
    /\ Size \in [OldOutput \cup OldLog -> Nat]
    /\ Root \in Volume
    /\ Space \in [Volume -> Nat]
    /\ RootBytes \in [Op -> Nat]
    /\ Target \in [Op -> Volume]
    /\ TargetBytes \in [Op -> Nat]
    /\ Quota \in Nat /\ MinFree \in Nat
    /\ ContentDays \in 1 .. 2 /\ RowDays \in 1 .. 2
    /\ MaxMishaps \in Nat
    /\ Faults \subseteq Fault

(* The disk and the tables hold finitely many items.                       *)
ASSUME ItemsAssumption == IsFiniteSet(Item)

VARIABLES
    bytes,    \* what each item has on disk under the data root
    wrote,    \* what each operation has written to its target
    rows,     \* the outputs and jobs tables
    age,      \* days since each row was written
    reserved, \* the storage_reservations table
    lease,    \* the gc_lease row of the maintenance table
    due,      \* whether last_gc is older than the maintenance interval
    proc,     \* where each process is, and its local variables
    late,     \* processes that have outlasted a lease of theirs
    mishaps   \* mishaps so far

vars == <<bytes, wrote, rows, age, reserved, lease, due, proc, late, mishaps>>
disk == <<bytes, wrote>>

RowState == {"none", "active", "live", "pruned", "deleted"}
Reservation == {"none", "held", "expired"}
NoLease == [owner |-> "none", live |-> FALSE]

Retention == {"contents", "logrows"}
Pressure == {"quotaoutputs", "quotalogs"}
Loop == Retention \cup Pressure
Collecting == {"measure"} \cup Loop \cup {"mark", "again"}
Admission == {"free", "reserve"}
Pc == {"idle", "look", "write", "release", "over", "dead"}
          \cup Collecting \cup Admission

(* used and free are the measured bytes; list is what a loop has still to  *)
(* visit, cur the item it is at, and from the loop itself.                 *)
Local == [pc : Pc, used : Nat, free : [Volume -> Int], list : SUBSET Item,
          cur : Item \cup {"none"}, from : Loop \cup {"none"}, acted : BOOLEAN]
NoLocal == [pc |-> "idle", used |-> 0, free |-> [v \in Volume |-> 0], list |-> {},
            cur |-> "none", from |-> "none", acted |-> FALSE]

At(p, pc) == proc[p].pc = pc
Goto(p, pc) == proc' = [proc EXCEPT ![p].pc = pc]

(* What pathSize finds under the data root, and statfs on a volume.        *)
Used == SumFunction(bytes)
Free(v) ==
    Space[v] - (IF v = Root THEN Used ELSE 0)
             - SumFunctionOnSet(wrote, {o \in Op : Target[o] = v})

(* Those that have measured and still rely on the measurement.             *)
Relies(p) == proc[p].pc \in (Collecting \ {"measure"}) \cup Admission
Undisturbed(o, P) == "stale" \in Faults \/ \A p \in P \ {o} : ~Relies(p)

Mishap == mishaps < MaxMishaps /\ mishaps' = mishaps + 1

Init ==
    /\ bytes = [i \in Item |-> IF i \in Op THEN 0 ELSE Size[i]]
    /\ rows = [i \in Item |-> IF i \in Op THEN "none" ELSE "live"]
    /\ age \in [Item -> Age]
    /\ \A o \in Op : age[o] = 0
    /\ wrote = [o \in Op |-> 0]
    /\ reserved = [o \in Op |-> "none"]
    /\ lease = NoLease
    /\ due = TRUE
    /\ proc = [p \in Proc |-> NoLocal]
    /\ late = {}
    /\ mishaps = 0

-----------------------------------------------------------------------------
(* pruneStorage.                                                           *)

LeaseFreeForLife == lease.owner = "none"
(* Nobody has the lease, or it has run out.                                *)
LeaseFree == lease.owner = "none" \/ ~lease.live

(* ensureStorageCapacity always collects, a Worker on its own account when *)
(* storageMaintenanceDue says so. The first thing that pruneStorage does   *)
(* is tryAcquireMaintenanceLease; the owner is a fresh UUID.               *)
AcquireLease(p) ==
    /\ At(p, "idle")
    /\ p \in Sweeper => due
    /\ IF LeaseFree
       THEN lease' = [owner |-> p, live |-> TRUE] /\ Goto(p, "measure")
       ELSE Goto(p, "look") /\ UNCHANGED lease
    /\ UNCHANGED <<disk, rows, age, reserved, due, late, mishaps>>

ReleaseLeaseBlindly(p) == lease' = NoLease
ReleaseLease(p) == lease' = IF lease.owner = p THEN NoLease ELSE lease
AfterPrune(p) ==
    IF p \in Sweeper THEN "idle" ELSE IF TargetBytes[p] > 0 THEN "free" ELSE "reserve"

(* storageStatus.                                                          *)
Measured(p) ==
    [proc[p] EXCEPT !.used = Used, !.free[Root] = IF p \in Sweeper THEN @ ELSE Free(Root)]

(* Another Worker collects: measure, and leave it at that.                 *)
Look(p) ==
    /\ At(p, "look")
    /\ proc' = [proc EXCEPT ![p] = IF p \in Sweeper THEN NoLocal
                                   ELSE [Measured(p) EXCEPT !.pc = AfterPrune(p)]]
    /\ UNCHANGED <<disk, rows, age, reserved, lease, due, late, mishaps>>

(* The rows that each loop of the collector asks the database for. Rows of *)
(* queued and running Jobs are in none of them.                            *)
Candidates(loop) ==
    CASE loop = "contents"     -> {i \in Item : rows[i] = "live" /\ age[i] >= ContentDays}
      [] loop = "logrows"      -> {i \in Log : rows[i] \in {"live", "pruned"} /\ age[i] >= RowDays}
      [] loop = "quotaoutputs" -> {i \in Output : rows[i] = "live"}
      [] loop = "quotalogs"    -> {i \in Log : rows[i] = "live"}

(* Rows of outputs past the metadata retention, whatever is on disk.       *)
OldOutputRows == {i \in Output : rows[i] \in {"live", "pruned"} /\ age[i] >= RowDays}

EnterLoop(p, loop) == [proc[p] EXCEPT !.pc = loop, !.list = Candidates(loop)]

Survey(p) ==
    /\ At(p, "measure")
    /\ proc' = [proc EXCEPT ![p] = [Measured(p) EXCEPT !.pc = "contents",
                                                       !.list = Candidates("contents")]]
    /\ UNCHANGED <<disk, rows, age, reserved, lease, due, late, mishaps>>

QuotaTargetPercent == Quota * 90
QuotaTarget == (Quota * 9) \div 10
InLoop(p) == proc[p].pc \in Loop
LoopEnds(p) ==
    proc[p].list = {} \/ (proc[p].pc \in Pressure /\ proc[p].used <= QuotaTarget)

CreditNothing(n, b) == n
(* What a removal takes off the estimate, never below zero.                *)
Credit(n, b) == IF b > n THEN 0 ELSE n - b

(* removePath: the contents go before the row says so.                     *)
RemoveContents(p) ==
    /\ InLoop(p) /\ ~LoopEnds(p)
    /\ \E i \in proc[p].list :
           /\ bytes' = [bytes EXCEPT ![i] = 0]
           /\ proc' = [proc EXCEPT ![p].pc = "mark", ![p].from = proc[p].pc, ![p].cur = i,
                                   ![p].used = Credit(@, bytes[i]), ![p].acted = TRUE]
    /\ UNCHANGED <<wrote, rows, age, reserved, lease, due, late, mishaps>>

(* markOutputPruned, markJobLogsPruned and deleteJob.                      *)
MarkRow(p) ==
    /\ At(p, "mark")
    /\ LET i == proc[p].cur IN
       /\ rows' = [rows EXCEPT ![i] = IF proc[p].from = "logrows" THEN "deleted"
                                      ELSE IF @ = "live" THEN "pruned" ELSE @]
       /\ proc' = [proc EXCEPT ![p].pc = proc[p].from, ![p].from = "none", ![p].cur = "none",
                               ![p].list = @ \ {i}]
    /\ UNCHANGED <<disk, age, reserved, lease, due, late, mishaps>>

(* A directory is not, or only partly, removed: pruneStorage throws.       *)
RemoveFails(p) ==
    /\ "io" \in Faults
    /\ Mishap
    /\ InLoop(p) /\ ~LoopEnds(p)
    /\ \E i \in proc[p].list : \E b \in 0 .. bytes[i] : bytes' = [bytes EXCEPT ![i] = b]
    /\ ReleaseLease(p)
    /\ proc' = [proc EXCEPT ![p] = [NoLocal EXCEPT !.pc = IF p \in Sweeper THEN "idle" ELSE "over"]]
    /\ UNCHANGED <<wrote, rows, age, reserved, due, late>>

EndContents(p) ==
    /\ At(p, "contents") /\ LoopEnds(p)
    /\ rows' = [i \in Item |-> IF i \in OldOutputRows THEN "deleted" ELSE rows[i]]
    /\ proc' = [proc EXCEPT ![p] = [EnterLoop(p, "logrows") EXCEPT
                                       !.acted = @ \/ OldOutputRows # {}]]
    /\ UNCHANGED <<disk, age, reserved, lease, due, late, mishaps>>

(* The collection is done and last_gc is written; what was deleted is      *)
(* measured anew, and if nothing was the first measurement stands.         *)
Conclude(p, acted) ==
    /\ due' = FALSE
    /\ IF acted THEN Goto(p, "again") /\ UNCHANGED lease
       ELSE /\ ReleaseLease(p)
            /\ proc' = [proc EXCEPT ![p] = IF p \in Sweeper THEN NoLocal
                                           ELSE [@ EXCEPT !.pc = AfterPrune(p), !.list = {}]]

Expired == {o \in Op : reserved[o] = "expired"}
(* Expired rows go in a collection and at the start of every reservation.  *)
WithoutExpired == [o \in Op |-> IF o \in Expired THEN "none" ELSE reserved[o]]

EndLogRows(p) ==
    /\ At(p, "logrows") /\ LoopEnds(p)
    /\ reserved' = WithoutExpired
    /\ LET acted == proc[p].acted \/ Expired # {} IN
       IF proc[p].used > Quota
       THEN /\ proc' = [proc EXCEPT ![p] = [EnterLoop(p, "quotaoutputs") EXCEPT !.acted = acted]]
            /\ UNCHANGED <<lease, due>>
       ELSE Conclude(p, acted)
    /\ UNCHANGED <<disk, rows, age, late, mishaps>>

EndQuotaOutputs(p) ==
    /\ At(p, "quotaoutputs") /\ LoopEnds(p)
    /\ proc' = [proc EXCEPT ![p] = EnterLoop(p, "quotalogs")]
    /\ UNCHANGED <<disk, rows, age, reserved, lease, due, late, mishaps>>

EndQuotaLogs(p) ==
    /\ At(p, "quotalogs") /\ LoopEnds(p)
    /\ Conclude(p, proc[p].acted)
    /\ UNCHANGED <<disk, rows, age, reserved, late, mishaps>>

MeasureAgain(p) ==
    /\ At(p, "again")
    /\ ReleaseLease(p)
    /\ proc' = [proc EXCEPT ![p] = IF p \in Sweeper THEN NoLocal
                                   ELSE [Measured(p) EXCEPT !.pc = AfterPrune(p), !.list = {},
                                                            !.acted = FALSE]]
    /\ UNCHANGED <<disk, rows, age, reserved, due, late, mishaps>>

-----------------------------------------------------------------------------
(* ensureStorageCapacity after the collection, and the operation it admits. *)

MeasureTarget(o) ==
    /\ At(o, "free")
    /\ proc' = [proc EXCEPT ![o].pc = "reserve", ![o].free[Target[o]] = Free(Target[o])]
    /\ UNCHANGED <<disk, rows, age, reserved, lease, due, late, mishaps>>

ReservedRoot(S) == SumFunctionOnSet(RootBytes, S)
ReservedOn(v, S) ==
    (IF v = Root THEN ReservedRoot(S) ELSE 0)
        + SumFunctionOnSet(TargetBytes, {o \in S : Target[o] = v})
Volumes(o) == {Root} \cup (IF TargetBytes[o] > 0 THEN {Target[o]} ELSE {})

FitsAlone(o, others) ==
    /\ proc[o].used + RootBytes[o] <= Quota
    /\ \A v \in Volumes(o) : proc[o].free[v] - ReservedOn(v, {o}) >= MinFree
(* others are the operations whose rows are in storage_reservations.       *)
Fits(o, others) ==
    /\ proc[o].used + ReservedRoot(others) + RootBytes[o] <= Quota
    /\ \A v \in Volumes(o) :
           proc[o].free[v] - ReservedOn(v, others) - ReservedOn(v, {o}) >= MinFree

(* tryReserveStorage, one transaction. Identifiers are fresh, so that its  *)
(* branch for a reservation that exists is never taken.                    *)
Reserve(o) ==
    /\ At(o, "reserve")
    /\ LET fits == Fits(o, {q \in Op : reserved[q] = "held"}) IN
       /\ reserved' = IF fits THEN [WithoutExpired EXCEPT ![o] = "held"] ELSE WithoutExpired
       /\ proc' = [proc EXCEPT ![o] = [NoLocal EXCEPT !.pc = IF fits THEN "write" ELSE "over"]]
    /\ UNCHANGED <<disk, rows, age, lease, due, late, mishaps>>

(* The runner's Job row is there before its logs.                          *)
InsertJob(o) ==
    /\ o \in Job /\ At(o, "write") /\ rows[o] = "none"
    /\ rows' = [rows EXCEPT ![o] = "active"]
    /\ UNCHANGED <<disk, age, reserved, lease, due, proc, late, mishaps>>

Write(o) ==
    /\ At(o, "write")
    /\ o \in Job => rows[o] = "active"
    /\ \/ /\ bytes[o] < RootBytes[o]
          /\ bytes' = [bytes EXCEPT ![o] = @ + 1]
          /\ UNCHANGED wrote
       \/ /\ wrote[o] < TargetBytes[o]
          /\ wrote' = [wrote EXCEPT ![o] = @ + 1]
          /\ UNCHANGED bytes
    /\ UNCHANGED <<rows, age, reserved, lease, due, proc, late, mishaps>>

(* putOutput, or the Job's terminal status. An operation that writes only  *)
(* to its target records nothing.                                          *)
Record(o) ==
    /\ At(o, "write")
    /\ o \in Job => rows[o] = "active"
    /\ rows' = IF RootBytes[o] > 0 THEN [rows EXCEPT ![o] = "live"] ELSE rows
    /\ Goto(o, "release")
    /\ UNCHANGED <<disk, age, reserved, lease, due, late, mishaps>>

FailWithoutCleanup(o) ==
    /\ o \in Command /\ At(o, "write")
    /\ "io" \in Faults
    /\ Mishap
    /\ Undisturbed(o, Proc)
    /\ Goto(o, "release")
    /\ UNCHANGED <<disk, rows, age, reserved, lease, due, late>>
(* The process does not run, or its output is not read: rm of directory.   *)
Fail(o) ==
    /\ o \in Command /\ At(o, "write")
    /\ "io" \in Faults
    /\ Mishap
    /\ Undisturbed(o, Proc)
    /\ bytes' = [bytes EXCEPT ![o] = 0]
    /\ wrote' = [wrote EXCEPT ![o] = 0]
    /\ Goto(o, "release")
    /\ UNCHANGED <<rows, age, reserved, lease, due, late>>

Release(o) ==
    /\ At(o, "release")
    /\ Undisturbed(o, Op)
    /\ reserved' = [reserved EXCEPT ![o] = "none"]
    /\ Goto(o, "over")
    /\ UNCHANGED <<disk, rows, age, lease, due, late, mishaps>>

-----------------------------------------------------------------------------
(* The environment.                                                        *)

Crash(p) ==
    /\ Mishap
    /\ proc[p].pc \notin {"idle", "over", "dead"}
    /\ proc' = [proc EXCEPT ![p] = [NoLocal EXCEPT !.pc = IF p \in Sweeper THEN "idle" ELSE "dead"]]
    /\ lease' = IF lease.owner = p THEN [lease EXCEPT !.owner = "dead"] ELSE lease
    /\ UNCHANGED <<disk, rows, age, reserved, due, late>>

DeadLeaseEnds ==
    /\ lease.owner = "dead" /\ lease.live
    /\ lease' = [lease EXCEPT !.live = FALSE]
    /\ UNCHANGED <<disk, rows, age, reserved, due, proc, late, mishaps>>

LeaseOverrun ==
    /\ "overrun" \in Faults
    /\ lease.owner \in Proc /\ lease.live
    /\ Mishap
    /\ lease' = [lease EXCEPT !.live = FALSE]
    /\ late' = late \cup {lease.owner}
    /\ UNCHANGED <<disk, rows, age, reserved, due, proc>>

(* The time to live of a reservation exceeds its operation's time-out.     *)
ReservationEnds(o) ==
    /\ At(o, "dead") /\ reserved[o] = "held"
    /\ Undisturbed(o, Op)
    /\ reserved' = [reserved EXCEPT ![o] = "expired"]
    /\ UNCHANGED <<disk, rows, age, lease, due, proc, late, mishaps>>

(* reconcileJobs finds the runner gone.                                    *)
Reconcile(o) ==
    /\ o \in Job /\ At(o, "dead") /\ rows[o] = "active"
    /\ Undisturbed(o, Op)
    /\ rows' = [rows EXCEPT ![o] = "live"]
    /\ reserved' = [reserved EXCEPT ![o] = "none"]
    /\ UNCHANGED <<disk, age, lease, due, proc, late, mishaps>>

IntervalPasses ==
    /\ ~due
    /\ due' = TRUE
    /\ UNCHANGED <<disk, rows, age, reserved, lease, proc, late, mishaps>>

Collect(p) ==
    \/ Look(p) \/ Survey(p) \/ RemoveContents(p) \/ MarkRow(p)
    \/ EndContents(p) \/ EndLogRows(p) \/ EndQuotaOutputs(p) \/ EndQuotaLogs(p)
    \/ MeasureAgain(p)
Operate(o) == MeasureTarget(o) \/ Reserve(o) \/ InsertJob(o) \/ Write(o) \/ Record(o) \/ Release(o)

Next ==
    \/ \E p \in Proc : AcquireLease(p) \/ Collect(p) \/ RemoveFails(p) \/ Crash(p)
    \/ \E o \in Op : Operate(o) \/ Fail(o) \/ ReservationEnds(o) \/ Reconcile(o)
    \/ DeadLeaseEnds \/ LeaseOverrun \/ IntervalPasses

Spec == Init /\ [][Next]_vars

(* A live Worker's promises resolve; its timer fires again and again; time *)
(* runs out on what the dead have left.                                    *)
Fairness ==
    /\ \A p \in Proc : WF_vars(Collect(p))
    /\ \A s \in Sweeper : WF_vars(AcquireLease(s))
    /\ \A o \in Op : WF_vars(Operate(o)) /\ WF_vars(ReservationEnds(o)) /\ WF_vars(Reconcile(o))
    /\ WF_vars(DeadLeaseEnds) /\ WF_vars(IntervalPasses)
FairSpec == Spec /\ Fairness

-----------------------------------------------------------------------------
(* Properties.                                                             *)

(* Every variable has its type; no operation writes more than it reserved. *)
TypeOK ==
    /\ bytes \in [Item -> Nat]
    /\ \A o \in Op : bytes[o] <= RootBytes[o]
    /\ wrote \in [Op -> Nat]
    /\ rows \in [Item -> RowState]
    /\ age \in [Item -> Age]
    /\ reserved \in [Op -> Reservation]
    /\ lease \in [owner : Proc \cup {"none", "dead"}, live : BOOLEAN]
    /\ due \in BOOLEAN
    /\ proc \in [Proc -> Local]
    /\ late \subseteq Proc
    /\ mishaps \in 0 .. MaxMishaps

(* At most one Worker collects within its lease, whoever has outlasted or  *)
(* died with an earlier one: the persisted lease prevents concurrent scans *)
(* also when an owner gives it back after others have had it.              *)
CollectorsExclude ==
    \A p, q \in Proc \ late :
        proc[p].pc \in Collecting /\ proc[q].pc \in Collecting => p = q

(* Contents on disk can always be found again: a row that the collector    *)
(* still asks for names them, or the command that wrote them has not got   *)
(* to its end, alive or dead. It holds for two collectors at once, for     *)
(* failures and crashes between a removal and its mark, and needs the      *)
(* metadata to be kept as long as the contents, which the schema of the    *)
(* configuration does not demand.                                          *)
ContentsFindable ==
    \A i \in Item : bytes[i] > 0 =>
        \/ rows[i] \in {"active", "live"}
        \/ i \in Command /\ proc[i].pc \in {"write", "dead"}

Writers == {o \in Op : At(o, "write")}
Outstanding(v) ==
    (IF v = Root THEN SumFunction([o \in Writers |-> RootBytes[o] - bytes[o]]) ELSE 0)
        + SumFunction([o \in {w \in Writers : Target[w] = v} |-> TargetBytes[o] - wrote[o]])

(* Admission across processes: while operations write, all that they may   *)
(* still write fits the quota, and leaves the minimum free on every volume *)
(* that they use.                                                          *)
GrantsFit ==
    \A o \in Writers :
        /\ Used + SumFunction([w \in Writers |-> RootBytes[w] - bytes[w]]) <= Quota
        /\ \A v \in Volumes(o) : Free(v) - Outstanding(v) >= MinFree

(* Under pressure the collector deletes nothing once the data root is down *)
(* to nine tenths of the quota, although it only estimates what is used    *)
(* while other operations write (no overrun: two collectors do delete too  *)
(* much).                                                                  *)
QuotaStops ==
    [][\A p \in Proc : late = {} /\ proc[p].pc \in Pressure /\ proc'[p].pc = "mark"
           => Used > QuotaTarget]_vars

(* What is over gives its space back: contents past their retention go in  *)
(* the end, and every reservation is returned, by its operation, by the    *)
(* reconciliation of its Job or by the collector after it has expired,     *)
(* whatever dies, fails or holds the lease for too long.                   *)
SpaceReturns ==
    /\ \A i \in OldOutput \cup OldLog :
          rows[i] = "live" /\ age[i] >= ContentDays ~> bytes[i] = 0 /\ rows[i] # "live"
    /\ []<>(\A o \in Op : reserved[o] = "none")

(* A data root over its quota is brought back under it.                    *)
QuotaRestored == (Used > Quota) ~> (Used <= Quota)

=============================================================================
