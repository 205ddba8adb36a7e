---------------------- MODULE StorageGovernanceProofs ----------------------
(***************************************************************************)
(* Proofs about StorageGovernance, for any numbers of Workers, operations, *)
(* old items, volumes, faults and mishaps.                                 *)
(*                                                                         *)
(* The collection lease excludes, and no contents are left on disk that no *)
(* row names: the second if metadata are kept at least as long as          *)
(* contents. The measured bytes are in neither argument.                   *)
(*                                                                         *)
(* The types hold, and then, if nothing gives bytes or a reservation back  *)
(* between another Worker's measurement and its use (no fault "stale"):    *)
(* whatever is granted fits the quota and the volumes, and a collection    *)
(* under pressure stops at its target. These are about sums over the disk, *)
(* so that sums come first: what SumFunctionOnSet does to a finite set, by *)
(* a smallest set for which it would not. Then the load: the bytes on      *)
(* disk, with what every writer has reserved in the place of what it has   *)
(* written. A write does not change the load; a grant adds to it what it   *)
(* adds to the reservations; and whoever relies on a measurement finds the *)
(* load covered by what was measured and what is reserved now.             *)
(*                                                                         *)
(* Most steps are quiet: they change neither the disk nor the rows, and    *)
(* move one process on. One lemma does an invariant for all of them, and   *)
(* the lemma of an action shows that it is quiet.                          *)
(***************************************************************************)
EXTENDS StorageGovernance, FiniteSetTheorems, TLAPS

LEMMA KindsApart == "none" \notin Proc /\ "dead" \notin Proc /\ Sweeper \cap Op = {}
<1> DEFINE Kinds == <<Command, Job, Sweeper, OldOutput, OldLog, {"none", "dead"}>>
<1>1. \A m, n \in 1 .. 6 : m # n => Kinds[m] \cap Kinds[n] = {}
  BY StorageAssumption
<1>2. Command \cap {"none", "dead"} = {}
  <2>1. Kinds[1] = Command /\ Kinds[6] = {"none", "dead"}
    OBVIOUS
  <2> QED BY <1>1, <2>1
<1>3. Job \cap {"none", "dead"} = {}
  <2>1. Kinds[2] = Job /\ Kinds[6] = {"none", "dead"}
    OBVIOUS
  <2> QED BY <1>1, <2>1
<1>4. Sweeper \cap {"none", "dead"} = {}
  <2>1. Kinds[3] = Sweeper /\ Kinds[6] = {"none", "dead"}
    OBVIOUS
  <2> QED BY <1>1, <2>1
<1>5. Command \cap Sweeper = {}
  <2>1. Kinds[1] = Command /\ Kinds[3] = Sweeper
    OBVIOUS
  <2> QED BY <1>1, <2>1
<1>6. Job \cap Sweeper = {}
  <2>1. Kinds[2] = Job /\ Kinds[3] = Sweeper
    OBVIOUS
  <2> QED BY <1>1, <2>1
<1> QED BY <1>2, <1>3, <1>4, <1>5, <1>6 DEF Proc, Op

LEMMA ConstantTypes ==
    /\ Size \in [OldOutput \cup OldLog -> Nat]
    /\ RootBytes \in [Op -> Nat]
    /\ ContentDays \in 1 .. 2 /\ RowDays \in 1 .. 2
  BY StorageAssumption

-----------------------------------------------------------------------------
(* Types, as far as the proofs need them.                                  *)

Field == {"pc", "used", "free", "list", "cur", "from", "acted"}

Shaped(l) ==
    /\ l = [field \in Field |-> l[field]]
    /\ l.pc \in Pc
    /\ l.list \subseteq Item
    /\ l.cur \in Item \cup {"none"}
    /\ l.from \in Loop \cup {"none"}
    /\ l.pc = "mark" => l.cur \in Item /\ l.from \in Loop

Shapes ==
    /\ bytes \in [Item -> Nat]
    /\ rows \in [Item -> RowState]
    /\ age \in [Item -> Age]
    /\ lease \in [owner : Proc \cup {"none", "dead"}, live : BOOLEAN]
    /\ proc = [p \in Proc |-> proc[p]]
    /\ \A p \in Proc : Shaped(proc[p])

(* A collection within its lease has the lease.                            *)
Leased == \A p \in Proc \ late :
    proc[p].pc \in Collecting => lease.owner = p /\ lease.live

Kept == {"live", "pruned", "deleted"}
Past == {"release", "over", "dead"}

(* Operations' contents are new and within what they reserved; their rows  *)
(* come into the collector's reach only when nobody writes any more.       *)
Young == \A o \in Op : age[o] = 0 /\ bytes[o] <= RootBytes[o]
PastWriting == \A o \in Op : rows[o] \in Kept => proc[o].pc \in Past

(* What a collector has still to visit.                                    *)
Reaches(l) == \A i \in l.list : rows[i] \in Kept
Emptied(l) ==
    l.pc = "mark" => rows[l.cur] \in Kept /\ bytes[l.cur] = 0
InContents(l) == l.pc = "contents" \/ (l.pc = "mark" /\ l.from = "contents")
Complete(l) ==
    InContents(l) => \A i \in Item : rows[i] = "live" /\ age[i] >= ContentDays => i \in l.list
Visit(l) == Reaches(l) /\ Emptied(l) /\ Complete(l)

FindInv == Young /\ PastWriting /\ (\A p \in Proc : Visit(proc[p])) /\ ContentsFindable

(* The step takes p to l, and the lease with it.                           *)
Moves(p, l) ==
    /\ Shaped(l)
    /\ proc' = [proc EXCEPT ![p] = l]
    /\ UNCHANGED <<age, late>>
    /\ lease' \in [owner : Proc \cup {"none", "dead"}, live : BOOLEAN]
    /\ \/ lease' = lease /\ (l.pc \in Collecting => proc[p].pc \in Collecting)
       \/ LeaseFree /\ lease' = [owner |-> p, live |-> TRUE]
       \/ lease.owner = p /\ l.pc \notin Collecting

(* It does so without a change to the disk and the rows.                   *)
Quiet(p, l) ==
    /\ Moves(p, l)
    /\ UNCHANGED <<bytes, rows>>
    /\ l.list \subseteq proc[p].list \/ Reaches(l)
    /\ l.pc # "mark"
    /\ Complete(l)
    /\ p \in Op /\ proc[p].pc \in Past => l.pc \in Past
    /\ p \in Op /\ proc[p].pc \in {"write", "dead"} => l.pc \in {"write", "dead"}

LEMMA MovesShapes ==
  ASSUME NEW p \in Proc, NEW l, Shapes, Moves(p, l),
         bytes' \in [Item -> Nat], rows' \in [Item -> RowState]
  PROVE  Shapes'
  BY DEF Shapes, Moves, Shaped

LEMMA MovesLeased ==
  ASSUME NEW p \in Proc, NEW l, Shapes, Leased, Moves(p, l)
  PROVE  Leased'
<1> SUFFICES ASSUME NEW q \in Proc \ late, proc'[q].pc \in Collecting
             PROVE  lease'.owner = q /\ lease'.live
  BY DEF Leased, Moves
<1>1. q = p => proc'[q] = l
  BY DEF Moves, Shapes
<1>2. q # p => proc'[q] = proc[q]
  BY DEF Moves, Shapes
<1>3. q # p => lease.owner = q /\ lease.live
  BY <1>2 DEF Leased
<1>4. CASE lease' = lease /\ (l.pc \in Collecting => proc[p].pc \in Collecting)
  BY <1>1, <1>3, <1>4 DEF Leased
<1>5. CASE LeaseFree /\ lease' = [owner |-> p, live |-> TRUE]
  BY <1>3, <1>5, KindsApart DEF LeaseFree
<1>6. CASE lease.owner = p /\ l.pc \notin Collecting
  BY <1>1, <1>3, <1>6
<1> QED BY <1>4, <1>5, <1>6 DEF Moves

LEMMA QuietFind ==
  ASSUME NEW p \in Proc, NEW l, Shapes, FindInv, Quiet(p, l)
  PROVE  FindInv'
<1>1. proc'[p] = l /\ \A q \in Proc \ {p} : proc'[q] = proc[q]
  BY DEF Quiet, Moves, Shapes
<1>2. Young'
  BY DEF FindInv, Young, Quiet, Moves
<1>3. PastWriting'
  <2>1. ASSUME NEW o \in Op, proc[o].pc \in Past
        PROVE  proc'[o].pc \in Past
    <3>1. CASE o = p
      BY <1>1, <2>1, <3>1 DEF Quiet
    <3>2. CASE o # p
      BY <1>1, <2>1, <3>2 DEF Proc
    <3> QED BY <3>1, <3>2
  <2> QED BY <2>1 DEF FindInv, PastWriting, Quiet
<1>4. ASSUME NEW q \in Proc
      PROVE  Visit(proc[q])'
  <2>1. CASE q = p
    <3>1. Reaches(l)
      BY DEF FindInv, Visit, Reaches, Quiet
    <3> QED BY <1>1, <2>1, <3>1 DEF Quiet, Moves, Visit, Reaches, Emptied, Complete
  <2>2. CASE q # p
    BY <1>1, <2>2 DEF FindInv, Quiet, Moves, Visit, Reaches, Emptied, InContents, Complete
  <2> QED BY <2>1, <2>2
<1>5. ContentsFindable'
  <2>1. ASSUME NEW o \in Op, proc[o].pc \in {"write", "dead"}
        PROVE  proc'[o].pc \in {"write", "dead"}
    <3>1. CASE o = p
      BY <1>1, <2>1, <3>1 DEF Quiet
    <3>2. CASE o # p
      BY <1>1, <2>1, <3>2 DEF Proc
    <3> QED BY <3>1, <3>2
  <2> QED BY <2>1 DEF FindInv, Quiet, ContentsFindable, Op
<1> QED BY <1>2, <1>3, <1>4, <1>5 DEF FindInv

-----------------------------------------------------------------------------
(* Local states.                                                           *)

LEMMA PcNames ==
    /\ Loop = {"contents", "logrows", "quotaoutputs", "quotalogs"}
    /\ Collecting = Loop \cup {"measure", "mark", "again"}
    /\ Pc = Collecting \cup {"idle", "look", "free", "reserve", "write", "release", "over", "dead"}
  BY DEF Loop, Retention, Pressure, Collecting, Pc, Admission

LEMMA NoLocalShaped ==
  Shaped(NoLocal) /\ NoLocal.pc = "idle" /\ NoLocal.list = {}
<1> DEFINE nothing == [v \in Volume |-> 0]
<1>1. NoLocal = [pc |-> "idle", used |-> 0, free |-> nothing, list |-> {},
                 cur |-> "none", from |-> "none", acted |-> FALSE]
  BY DEF NoLocal
<1> HIDE DEF nothing
<1> QED BY <1>1, PcNames DEF Shaped, Field

LEMMA GotoShaped ==
  ASSUME NEW l, Shaped(l), NEW pc \in Pc \ {"mark"}
  PROVE  /\ Shaped([l EXCEPT !.pc = pc])
         /\ [l EXCEPT !.pc = pc].pc = pc
         /\ [l EXCEPT !.pc = pc].list = l.list
  BY DEF Shaped, Field

LEMMA MeasuredShaped ==
  ASSUME NEW p \in Proc, Shapes
  PROVE  /\ Shaped(Measured(p))
         /\ Measured(p).pc = proc[p].pc /\ Measured(p).list = proc[p].list
         /\ Measured(p).cur = proc[p].cur /\ Measured(p).from = proc[p].from
<1> DEFINE free == IF p \in Sweeper THEN proc[p].free[Root] ELSE Free(Root)
<1>1. Shaped(proc[p])
  BY DEF Shapes
<1>2. Measured(p) = [proc[p] EXCEPT !.used = Used, !.free[Root] = free]
  BY <1>1 DEF Measured, Shaped, Field
<1> HIDE DEF free
<1> QED BY <1>1, <1>2 DEF Shaped, Field

LEMMA CandidatesKept ==
  ASSUME NEW loop \in Loop
  PROVE  Candidates(loop) \subseteq Item /\ \A i \in Candidates(loop) : rows[i] \in Kept
  BY DEF Candidates, Kept, Loop, Retention, Pressure, Log, Output, Item, Op

LEMMA AfterPrunePc ==
  ASSUME NEW p \in Proc
  PROVE  AfterPrune(p) \in {"idle", "free", "reserve"}
  BY DEF AfterPrune

-----------------------------------------------------------------------------
(* The quiet actions.                                                      *)

LEMMA AcquireLeaseQuiet ==
  ASSUME NEW p \in Proc, Shapes, AcquireLease(p)
  PROVE  \E l : Quiet(p, l)
<1> DEFINE pc == IF LeaseFree THEN "measure" ELSE "look"
           l == [proc[p] EXCEPT !.pc = pc]
<1>1. proc' = [proc EXCEPT ![p] = l]
  BY DEF AcquireLease, Goto
<1>2. pc \in Pc /\ (pc = "measure" => LeaseFree) /\ pc \in {"measure", "look"}
  BY PcNames
<1> HIDE DEF pc
<1>3. Shaped(l) /\ l.list = proc[p].list /\ l.pc = pc
  BY <1>2, GotoShaped DEF Shapes
<1> HIDE DEF l
<1>4. IF LeaseFree THEN lease' = [owner |-> p, live |-> TRUE] ELSE lease' = lease
  BY DEF AcquireLease
<1>5. lease' \in [owner : Proc \cup {"none", "dead"}, live : BOOLEAN]
  <2>1. lease \in [owner : Proc \cup {"none", "dead"}, live : BOOLEAN]
    BY DEF Shapes
  <2>2. [owner |-> p, live |-> TRUE] \in [owner : Proc \cup {"none", "dead"}, live : BOOLEAN]
    OBVIOUS
  <2> QED BY <1>4, <2>1, <2>2
<1>6. l.pc \in Collecting => LeaseFree
  BY <1>2, <1>3, PcNames
<1>7. Quiet(p, l)
  BY <1>1, <1>2, <1>3, <1>4, <1>5, <1>6
  DEF Quiet, Moves, AcquireLease, At, Past, Complete, InContents, disk
<1> QED BY <1>7

LEMMA LookQuiet ==
  ASSUME NEW p \in Proc, Shapes, Look(p)
  PROVE  \E l : Quiet(p, l)
<1> DEFINE l == IF p \in Sweeper THEN NoLocal ELSE [Measured(p) EXCEPT !.pc = AfterPrune(p)]
<1>1. Shaped(l) /\ l.pc \in {"idle", "free", "reserve"} /\ l.list \subseteq proc[p].list
  <2>1. CASE p \in Sweeper
    BY <2>1, NoLocalShaped
  <2>2. CASE p \notin Sweeper
    <3>1. AfterPrune(p) \in Pc
      BY AfterPrunePc, PcNames
    <3> QED BY <2>2, <3>1, MeasuredShaped, GotoShaped, AfterPrunePc
  <2> QED BY <2>1, <2>2
<1>2. proc' = [proc EXCEPT ![p] = l]
  BY DEF Look
<1> HIDE DEF l
<1>3. Quiet(p, l)
  BY <1>1, <1>2, PcNames DEF Quiet, Moves, Look, At, Past, Complete, InContents, disk, Shapes
<1> QED BY <1>3

LEMMA SurveyQuiet ==
  ASSUME NEW p \in Proc, Shapes, Survey(p)
  PROVE  \E l : Quiet(p, l)
<1> DEFINE l == [Measured(p) EXCEPT !.pc = "contents", !.list = Candidates("contents")]
<1>1. Shaped(l) /\ l.pc = "contents" /\ l.list = Candidates("contents")
  BY MeasuredShaped, CandidatesKept, PcNames DEF Shaped, Field
<1>2. proc' = [proc EXCEPT ![p] = l]
  BY DEF Survey
<1> HIDE DEF l
<1>3. Reaches(l) /\ Complete(l)
  BY <1>1, CandidatesKept, PcNames DEF Reaches, Complete, Candidates
<1>4. Quiet(p, l)
  BY <1>1, <1>2, <1>3, PcNames DEF Quiet, Moves, Survey, At, Past, disk, Shapes
<1> QED BY <1>4

LEMMA GivenBack ==
  ASSUME NEW p \in Proc, Shapes, ReleaseLease(p)
  PROVE  /\ lease' \in [owner : Proc \cup {"none", "dead"}, live : BOOLEAN]
         /\ lease' = lease \/ lease.owner = p
  BY DEF ReleaseLease, NoLease, Shapes

(* The last step of a collection, or its second measurement.               *)
LEMMA ConcludeQuiet ==
  ASSUME NEW p \in Proc, Shapes, NEW acted \in BOOLEAN, Conclude(p, acted),
         proc[p].pc \in Loop, UNCHANGED <<disk, rows, age, late>>
  PROVE  \E l : Quiet(p, l)
<1>1. CASE acted
  <2> DEFINE l == [proc[p] EXCEPT !.pc = "again"]
  <2>1. proc' = [proc EXCEPT ![p] = l] /\ lease' = lease
    BY <1>1 DEF Conclude, Goto
  <2>2. Shaped(l) /\ l.list = proc[p].list /\ l.pc = "again"
    <3>1. Shaped(proc[p]) /\ "again" \in Pc
      BY PcNames DEF Shapes
    <3> QED BY <3>1, GotoShaped
  <2> HIDE DEF l
  <2>3. Quiet(p, l)
    BY <2>1, <2>2, PcNames DEF Quiet, Moves, Past, Complete, InContents, disk, Shapes
  <2> QED BY <2>3
<1>2. CASE ~acted
  <2> DEFINE l == IF p \in Sweeper THEN NoLocal
                  ELSE [proc[p] EXCEPT !.pc = AfterPrune(p), !.list = {}]
  <2>1. proc' = [proc EXCEPT ![p] = l] /\ ReleaseLease(p)
    BY <1>2 DEF Conclude
  <2>2. Shaped(l) /\ l.list = {} /\ l.pc \in {"idle", "free", "reserve"}
    <3>1. CASE p \in Sweeper
      BY <3>1, NoLocalShaped
    <3>2. CASE p \notin Sweeper
      <4>1. Shaped(proc[p])
        BY DEF Shapes
      <4> QED BY <3>2, <4>1, AfterPrunePc, PcNames DEF Shaped, Field
    <3> QED BY <3>1, <3>2
  <2> HIDE DEF l
  <2>3. Quiet(p, l)
    BY <2>1, <2>2, GivenBack, PcNames DEF Quiet, Moves, Past, Complete, InContents, disk
  <2> QED BY <2>3
<1> QED BY <1>1, <1>2

LEMMA EndLogRowsQuiet ==
  ASSUME NEW p \in Proc, Shapes, EndLogRows(p)
  PROVE  \E l : Quiet(p, l)
<1> DEFINE acted == proc[p].acted \/ Expired # {}
<1>1. CASE proc[p].used > Quota
  <2> DEFINE l == [EnterLoop(p, "quotaoutputs") EXCEPT !.acted = acted]
  <2>1. proc' = [proc EXCEPT ![p] = l] /\ lease' = lease
    BY <1>1 DEF EndLogRows
  <2>2. Shaped(l) /\ l.list = Candidates("quotaoutputs") /\ l.pc = "quotaoutputs"
    <3>1. Shaped(proc[p])
      BY DEF Shapes
    <3>2. EnterLoop(p, "quotaoutputs") =
              [proc[p] EXCEPT !.pc = "quotaoutputs", !.list = Candidates("quotaoutputs")]
      BY DEF EnterLoop
    <3> HIDE DEF acted
    <3> QED BY <3>1, <3>2, CandidatesKept, PcNames DEF Shaped, Field
  <2> HIDE DEF l
  <2>3. Quiet(p, l)
    BY <2>1, <2>2, CandidatesKept, PcNames
    DEF Quiet, Moves, EndLogRows, At, Past, Reaches, Complete, InContents, disk, Shapes
  <2> QED BY <2>3
<1>2. CASE ~(proc[p].used > Quota)
  <2>1. \E b \in BOOLEAN : Conclude(p, b)
    BY <1>2 DEF EndLogRows
  <2> QED BY <2>1, ConcludeQuiet, PcNames DEF EndLogRows, At
<1> QED BY <1>1, <1>2

LEMMA EndQuotaOutputsQuiet ==
  ASSUME NEW p \in Proc, Shapes, EndQuotaOutputs(p)
  PROVE  \E l : Quiet(p, l)
<1> DEFINE l == EnterLoop(p, "quotalogs")
<1>1. proc' = [proc EXCEPT ![p] = l]
  BY DEF EndQuotaOutputs
<1>2. Shaped(l) /\ l.list = Candidates("quotalogs") /\ l.pc = "quotalogs"
  <2>1. Shaped(proc[p])
    BY DEF Shapes
  <2>2. l = [proc[p] EXCEPT !.pc = "quotalogs", !.list = Candidates("quotalogs")]
    BY DEF EnterLoop
  <2> HIDE DEF l
  <2> QED BY <2>1, <2>2, CandidatesKept, PcNames DEF Shaped, Field
<1> HIDE DEF l
<1>3. Quiet(p, l)
  BY <1>1, <1>2, CandidatesKept, PcNames
  DEF Quiet, Moves, EndQuotaOutputs, At, Past, Reaches, Complete, InContents, disk, Shapes
<1> QED BY <1>3

LEMMA EndQuotaLogsQuiet ==
  ASSUME NEW p \in Proc, Shapes, EndQuotaLogs(p)
  PROVE  \E l : Quiet(p, l)
<1>1. Conclude(p, TRUE) \/ Conclude(p, FALSE)
  BY DEF EndQuotaLogs, Conclude
<1> QED BY <1>1, ConcludeQuiet, PcNames DEF EndQuotaLogs, At

LEMMA MeasureAgainQuiet ==
  ASSUME NEW p \in Proc, Shapes, MeasureAgain(p)
  PROVE  \E l : Quiet(p, l)
<1> DEFINE l == IF p \in Sweeper THEN NoLocal
                ELSE [Measured(p) EXCEPT !.pc = AfterPrune(p), !.list = {}, !.acted = FALSE]
<1>1. proc' = [proc EXCEPT ![p] = l] /\ ReleaseLease(p)
  BY DEF MeasureAgain
<1>2. Shaped(l) /\ l.list = {} /\ l.pc \in {"idle", "free", "reserve"}
  <2>1. CASE p \in Sweeper
    BY <2>1, NoLocalShaped
  <2>2. CASE p \notin Sweeper
    BY <2>2, MeasuredShaped, AfterPrunePc, PcNames DEF Shaped, Field
  <2> QED BY <2>1, <2>2
<1> HIDE DEF l
<1>3. Quiet(p, l)
  BY <1>1, <1>2, GivenBack, PcNames
  DEF Quiet, Moves, MeasureAgain, At, Past, Complete, InContents, disk
<1> QED BY <1>3

LEMMA MeasureTargetQuiet ==
  ASSUME NEW o \in Op, Shapes, MeasureTarget(o)
  PROVE  \E l : Quiet(o, l)
<1> DEFINE l == [proc[o] EXCEPT !.pc = "reserve", !.free[Target[o]] = Free(Target[o])]
<1>1. proc' = [proc EXCEPT ![o] = l]
  <2>1. o \in Proc
    BY DEF Proc
  <2> QED BY <2>1 DEF MeasureTarget
<1>2. Shaped(l) /\ l.list = proc[o].list /\ l.pc = "reserve"
  <2>1. Shaped(proc[o])
    BY DEF Shapes, Proc
  <2> QED BY <2>1, PcNames DEF Shaped, Field
<1> HIDE DEF l
<1>3. Quiet(o, l)
  BY <1>1, <1>2, PcNames DEF Quiet, Moves, MeasureTarget, At, Past, Complete, InContents, disk, Shapes
<1> QED BY <1>3

LEMMA ReserveQuiet ==
  ASSUME NEW o \in Op, Shapes, Reserve(o)
  PROVE  \E l : Quiet(o, l)
<1> DEFINE fits == Fits(o, {q \in Op : reserved[q] = "held"})
           l == [NoLocal EXCEPT !.pc = IF fits THEN "write" ELSE "over"]
<1>1. proc' = [proc EXCEPT ![o] = l]
  BY DEF Reserve
<1>2. Shaped(l) /\ l.list = {} /\ l.pc \in {"write", "over"}
  <2> HIDE DEF fits
  <2> "write" \in Pc /\ "over" \in Pc
    BY PcNames
  <2>1. CASE fits
    BY <2>1, NoLocalShaped, GotoShaped
  <2>2. CASE ~fits
    BY <2>2, NoLocalShaped, GotoShaped
  <2> QED BY <2>1, <2>2
<1> HIDE DEF l
<1>3. Quiet(o, l)
  BY <1>1, <1>2, PcNames DEF Quiet, Moves, Reserve, At, Past, Complete, InContents, disk, Shapes
<1> QED BY <1>3

LEMMA ReleaseQuiet ==
  ASSUME NEW o \in Op, Shapes, Release(o)
  PROVE  \E l : Quiet(o, l)
<1> DEFINE l == [proc[o] EXCEPT !.pc = "over"]
<1>1. proc' = [proc EXCEPT ![o] = l]
  BY DEF Release, Goto
<1>2. Shaped(l) /\ l.list = proc[o].list /\ l.pc = "over"
  <2>1. Shaped(proc[o]) /\ "over" \in Pc
    BY PcNames DEF Shapes, Proc
  <2> QED BY <2>1, GotoShaped
<1> HIDE DEF l
<1>3. Quiet(o, l)
  BY <1>1, <1>2, PcNames DEF Quiet, Moves, Release, At, Past, Complete, InContents, disk, Shapes
<1> QED BY <1>3

LEMMA CrashQuiet ==
  ASSUME NEW p \in Proc, Shapes, Crash(p)
  PROVE  \E l : Quiet(p, l)
<1> DEFINE l == [NoLocal EXCEPT !.pc = IF p \in Sweeper THEN "idle" ELSE "dead"]
<1>1. proc' = [proc EXCEPT ![p] = l]
  BY DEF Crash
<1>2. Shaped(l) /\ l.list = {} /\ l.pc = IF p \in Sweeper THEN "idle" ELSE "dead"
  <2> "idle" \in Pc /\ "dead" \in Pc
    BY PcNames
  <2>1. CASE p \in Sweeper
    BY <2>1, NoLocalShaped, GotoShaped
  <2>2. CASE p \notin Sweeper
    BY <2>2, NoLocalShaped, GotoShaped
  <2> QED BY <2>1, <2>2
<1> HIDE DEF l
<1>3. lease' \in [owner : Proc \cup {"none", "dead"}, live : BOOLEAN]
  BY DEF Crash, Shapes
<1>4. Quiet(p, l)
  BY <1>1, <1>2, <1>3, KindsApart, PcNames
  DEF Quiet, Moves, Crash, Past, Complete, InContents, disk
<1> QED BY <1>4

-----------------------------------------------------------------------------
(* The steps that change the disk or the rows.                             *)

LEMMA OthersStay ==
  ASSUME NEW p \in Proc, NEW l, Shapes, Moves(p, l)
  PROVE  proc'[p] = l /\ \A q \in Proc \ {p} : proc'[q] = proc[q]
  BY DEF Moves, Shapes

LEMMA RemoveContentsKeeps ==
  ASSUME NEW p \in Proc, Shapes, RemoveContents(p)
  PROVE  Shapes' /\ (FindInv => FindInv') /\ \E l : Moves(p, l)
<1>1. PICK i \in proc[p].list :
          /\ bytes' = [bytes EXCEPT ![i] = 0]
          /\ proc' = [proc EXCEPT ![p].pc = "mark", ![p].from = proc[p].pc, ![p].cur = i,
                                  ![p].used = Credit(@, bytes[i]), ![p].acted = TRUE]
  BY DEF RemoveContents
<1> DEFINE l == [proc[p] EXCEPT !.pc = "mark", !.from = proc[p].pc, !.cur = i,
                                !.used = Credit(@, bytes[i]), !.acted = TRUE]
<1>2. proc' = [proc EXCEPT ![p] = l]
  BY <1>1
<1>3. proc[p].pc \in Loop /\ i \in Item
  BY DEF RemoveContents, InLoop, Shapes, Shaped
<1>4. /\ Shaped(l) /\ l.pc = "mark" /\ l.from = proc[p].pc /\ l.cur = i
      /\ l.list = proc[p].list
  <2> DEFINE used == Credit(proc[p].used, bytes[i])
  <2>1. Shaped(proc[p])
    BY DEF Shapes
  <2>2. l = [proc[p] EXCEPT !.pc = "mark", !.from = proc[p].pc, !.cur = i,
                            !.used = used, !.acted = TRUE]
    BY <2>1 DEF Shaped, Field
  <2> HIDE DEF used, l
  <2> QED BY <1>3, <2>1, <2>2, PcNames DEF Shaped, Field
<1> HIDE DEF l
<1>5. Moves(p, l)
  BY <1>2, <1>3, <1>4, PcNames DEF Moves, RemoveContents, Shapes
<1>6. Shapes'
  BY <1>1, <1>3, <1>5, MovesShapes DEF Shapes, RemoveContents
<1>7. FindInv => FindInv'
  <2> HAVE FindInv
  <2>1. \A k \in Item : bytes'[k] = IF k = i THEN 0 ELSE bytes[k]
    BY <1>1 DEF Shapes
  <2>2. rows' = rows /\ age' = age
    BY DEF RemoveContents
  <2>3. Young'
    BY <2>1, <2>2, ConstantTypes DEF FindInv, Young, Item
  <2>4. \A o \in Op : proc[o].pc \in Past \cup {"write"} => proc'[o] = proc[o]
    BY <1>3, <1>5, OthersStay, PcNames DEF Proc, Past
  <2>5. PastWriting'
    BY <2>2, <2>4 DEF FindInv, PastWriting
  <2>6. Visit(proc[p])'
    <3>1. proc'[p] = l
      BY <1>5, OthersStay
    <3> QED BY <1>3, <1>4, <2>1, <2>2, <3>1, PcNames
        DEF FindInv, Visit, Reaches, Emptied, Complete, InContents
  <2>7. ASSUME NEW q \in Proc \ {p}
        PROVE  Visit(proc[q])'
    <3>1. proc'[q] = proc[q] /\ Shaped(proc[q]) /\ Visit(proc[q])
      BY <1>5, OthersStay DEF FindInv, Shapes
    <3> QED BY <2>1, <2>2, <3>1 DEF Visit, Reaches, Emptied, Complete, InContents, Shaped
  <2>8. ContentsFindable'
    BY <2>1, <2>2, <2>4 DEF FindInv, ContentsFindable, Op, Past
  <2> QED BY <2>3, <2>5, <2>6, <2>7, <2>8 DEF FindInv
<1> QED BY <1>5, <1>6, <1>7

LEMMA MarkRowKeeps ==
  ASSUME NEW p \in Proc, Shapes, MarkRow(p)
  PROVE  Shapes' /\ (FindInv => FindInv') /\ \E l : Moves(p, l)
<1> DEFINE i == proc[p].cur
           l == [proc[p] EXCEPT !.pc = proc[p].from, !.from = "none", !.cur = "none",
                                !.list = @ \ {i}]
<1>1. proc' = [proc EXCEPT ![p] = l]
  BY DEF MarkRow
<1>2. proc[p].pc = "mark" /\ i \in Item /\ proc[p].from \in Loop
  BY DEF MarkRow, At, Shapes, Shaped
<1>3. /\ rows' \in [Item -> RowState]
      /\ \A k \in Item \ {i} : rows'[k] = rows[k]
      /\ rows'[i] # "live"
      /\ rows[i] \in Kept => rows'[i] \in Kept
  BY <1>2 DEF MarkRow, Shapes, RowState, Kept
<1>4. Shaped(l) /\ l.pc = proc[p].from /\ l.list = proc[p].list \ {i}
  <2>1. Shaped(proc[p])
    BY DEF Shapes
  <2> QED BY <1>2, <2>1, PcNames DEF Shaped, Field
<1> HIDE DEF l
<1>5. Moves(p, l)
  BY <1>1, <1>2, <1>4, PcNames DEF Moves, MarkRow, Shapes
<1>6. Shapes'
  BY <1>3, <1>5, MovesShapes DEF Shapes, MarkRow, disk
<1>7. FindInv => FindInv'
  <2> HAVE FindInv
  <2>1. bytes' = bytes /\ age' = age /\ bytes[i] = 0 /\ rows[i] \in Kept
    BY <1>2 DEF MarkRow, disk, FindInv, Visit, Emptied
  <2>2. Young'
    BY <2>1 DEF FindInv, Young
  <2>3. \A o \in Op : proc[o].pc \in Past \cup {"write"} => proc'[o] = proc[o]
    BY <1>2, <1>5, OthersStay DEF Proc, Past
  <2>4. PastWriting'
    BY <1>2, <1>3, <2>1, <2>3 DEF FindInv, PastWriting, Item, Past
  <2>5. Visit(proc[p])'
    <3>1. proc'[p] = l
      BY <1>5, OthersStay
    <3>2. proc[p].list \subseteq Item /\ Reaches(proc[p]) /\ Complete(proc[p])
      BY DEF FindInv, Visit, Shapes, Shaped
    <3>3. Reaches(proc[p])'
      BY <1>3, <1>4, <3>1, <3>2 DEF Reaches
    <3>4. Emptied(proc[p])'
      BY <1>2, <1>4, <3>1, PcNames DEF Emptied
    <3>5. Complete(proc[p])'
      BY <1>2, <1>3, <1>4, <2>1, <3>1, <3>2, PcNames DEF Complete, InContents
    <3> QED BY <3>3, <3>4, <3>5 DEF Visit
  <2>6. ASSUME NEW q \in Proc \ {p}
        PROVE  Visit(proc[q])'
    <3>1. proc'[q] = proc[q] /\ Shaped(proc[q]) /\ Visit(proc[q])
      BY <1>5, OthersStay DEF FindInv, Shapes
    <3> HIDE DEF i
    <3> QED BY <1>3, <2>1, <3>1
        DEF Visit, Reaches, Emptied, Complete, InContents, Kept, Shaped
  <2>7. ContentsFindable'
    <3> HIDE DEF i
    <3> QED BY <1>2, <1>3, <2>1, <2>3 DEF FindInv, ContentsFindable, Op, Past
  <2> QED BY <2>2, <2>4, <2>5, <2>6, <2>7 DEF FindInv
<1> QED BY <1>5, <1>6, <1>7

LEMMA RemoveFailsKeeps ==
  ASSUME NEW p \in Proc, Shapes, RemoveFails(p)
  PROVE  Shapes' /\ (FindInv => FindInv') /\ \E l : Moves(p, l)
<1>a. PICK i \in proc[p].list : \E b \in 0 .. bytes[i] : bytes' = [bytes EXCEPT ![i] = b]
  BY DEF RemoveFails
<1>1. PICK b \in 0 .. bytes[i] : bytes' = [bytes EXCEPT ![i] = b]
  BY <1>a
<1> DEFINE pc == IF p \in Sweeper THEN "idle" ELSE "over"
           l == [NoLocal EXCEPT !.pc = pc]
<1>2. proc' = [proc EXCEPT ![p] = l]
  BY DEF RemoveFails
<1>3. proc[p].pc \in Loop /\ i \in Item
  BY DEF RemoveFails, InLoop, Shapes, Shaped
<1>4. pc \in Pc /\ pc \in {"idle", "over"}
  BY PcNames
<1> HIDE DEF pc
<1>5. Shaped(l) /\ l.pc = pc /\ l.list = {}
  BY <1>4, NoLocalShaped, GotoShaped
<1> HIDE DEF l
<1>6. Moves(p, l)
  BY <1>2, <1>4, <1>5, GivenBack, PcNames DEF Moves, RemoveFails
<1>7. bytes[i] \in Nat /\ b \in Nat /\ b <= bytes[i]
  BY <1>1, <1>3 DEF Shapes
<1>8. Shapes'
  BY <1>1, <1>3, <1>6, <1>7, MovesShapes DEF Shapes, RemoveFails
<1>9. FindInv => FindInv'
  <2> HAVE FindInv
  <2>1. \A k \in Item : bytes'[k] = IF k = i THEN b ELSE bytes[k]
    BY <1>1 DEF Shapes
  <2>2. rows' = rows /\ age' = age
    BY DEF RemoveFails
  <2>3. Young'
    BY <1>7, <2>1, <2>2, ConstantTypes DEF FindInv, Young, Item
  <2>4. \A o \in Op : proc[o].pc \in Past \cup {"write"} => proc'[o] = proc[o]
    BY <1>3, <1>6, OthersStay, PcNames DEF Proc, Past
  <2>5. PastWriting'
    BY <2>2, <2>4 DEF FindInv, PastWriting
  <2>6. Visit(proc[p])'
    <3>1. proc'[p] = l
      BY <1>6, OthersStay
    <3> QED BY <1>4, <1>5, <3>1 DEF Visit, Reaches, Emptied, Complete, InContents
  <2>7. ASSUME NEW q \in Proc \ {p}
        PROVE  Visit(proc[q])'
    <3>1. proc'[q] = proc[q] /\ Shaped(proc[q]) /\ Visit(proc[q])
      BY <1>6, OthersStay DEF FindInv, Shapes
    <3> QED BY <1>7, <2>1, <2>2, <3>1
        DEF Visit, Reaches, Emptied, Complete, InContents, Shaped
  <2>8. ContentsFindable'
    BY <1>7, <2>1, <2>2, <2>4 DEF FindInv, ContentsFindable, Op, Past
  <2> QED BY <2>3, <2>5, <2>6, <2>7, <2>8 DEF FindInv
<1> QED BY <1>6, <1>8, <1>9

(* The rows that go have empty contents if contents are not kept for       *)
(* longer than rows: those old enough are emptied by the loop that ended.  *)
LEMMA EndContentsKeeps ==
  ASSUME NEW p \in Proc, Shapes, EndContents(p)
  PROVE  Shapes' /\ (FindInv /\ ContentDays <= RowDays => FindInv') /\ \E l : Moves(p, l)
<1> DEFINE acted == proc[p].acted \/ OldOutputRows # {}
           l == [EnterLoop(p, "logrows") EXCEPT !.acted = acted]
<1>1. proc' = [proc EXCEPT ![p] = l]
  <2>1. EnterLoop(p, "logrows").acted = proc[p].acted
    BY DEF EnterLoop, Shapes, Shaped, Field
  <2> QED BY <2>1 DEF EndContents
<1>2. Shaped(l) /\ l.pc = "logrows" /\ l.list = Candidates("logrows")
  <2>1. Shaped(proc[p])
    BY DEF Shapes
  <2>2. EnterLoop(p, "logrows") = [proc[p] EXCEPT !.pc = "logrows", !.list = Candidates("logrows")]
    BY DEF EnterLoop
  <2> HIDE DEF acted
  <2> QED BY <2>1, <2>2, CandidatesKept, PcNames DEF Shaped, Field
<1> HIDE DEF l
<1>3. proc[p].pc = "contents" /\ proc[p].list = {}
  BY DEF EndContents, At, LoopEnds, Pressure
<1>4. Moves(p, l)
  BY <1>1, <1>2, <1>3, PcNames DEF Moves, EndContents, Shapes
<1>5. \A i \in Item : rows'[i] = IF i \in OldOutputRows THEN "deleted" ELSE rows[i]
  BY DEF EndContents
<1>6. Shapes'
  <2>1. rows' \in [Item -> RowState]
    BY DEF EndContents, Shapes, RowState
  <2> QED BY <1>4, <2>1, MovesShapes DEF Shapes, EndContents, disk
<1>7. FindInv /\ ContentDays <= RowDays => FindInv'
  <2> HAVE FindInv /\ ContentDays <= RowDays
  <2>1. bytes' = bytes /\ age' = age
    BY DEF EndContents, disk
  <2>2. \A i \in Item : /\ rows'[i] \in Kept <=> rows[i] \in Kept
                        /\ rows'[i] = "live" => rows[i] = "live"
    BY <1>5 DEF OldOutputRows, Kept
  <2>3. Young'
    BY <2>1 DEF FindInv, Young
  <2>4. \A o \in Op : proc[o].pc \in Past \cup {"write"} => proc'[o] = proc[o]
    BY <1>3, <1>4, OthersStay DEF Proc, Past
  <2>5. PastWriting'
    BY <2>2, <2>4 DEF FindInv, PastWriting, Item
  <2>6. Visit(proc[p])'
    <3>1. proc'[p] = l
      BY <1>4, OthersStay
    <3>2. \A i \in Candidates("logrows") : i \in Item /\ rows[i] \in Kept
      BY CandidatesKept, PcNames
    <3> QED BY <1>2, <2>2, <3>1, <3>2 DEF Visit, Reaches, Emptied, Complete, InContents
  <2>7. ASSUME NEW q \in Proc \ {p}
        PROVE  Visit(proc[q])'
    <3>1. proc'[q] = proc[q] /\ Shaped(proc[q]) /\ Visit(proc[q])
      BY <1>4, OthersStay DEF FindInv, Shapes
    <3> QED BY <2>1, <2>2, <3>1 DEF Visit, Reaches, Emptied, Complete, InContents, Shaped
  <2>8. ContentsFindable'
    <3>1. ASSUME NEW i \in OldOutputRows, bytes[i] > 0
          PROVE  i \in Command /\ proc[i].pc \in {"write", "dead"}
      <4>1. i \in Item /\ rows[i] \in {"live", "pruned"} /\ age[i] >= RowDays
        BY DEF OldOutputRows, Output
      <4>2. age[i] >= ContentDays
        BY <4>1, ConstantTypes DEF Shapes, Age
      <4>3. rows[i] # "live"
        BY <1>3, <4>1, <4>2 DEF FindInv, Visit, Complete, InContents
      <4> QED BY <3>1, <4>1, <4>3 DEF FindInv, ContentsFindable
    <3> QED BY <1>5, <2>1, <2>4, <3>1 DEF FindInv, ContentsFindable, Op, Past
  <2> QED BY <2>3, <2>5, <2>6, <2>7, <2>8 DEF FindInv
<1> QED BY <1>4, <1>6, <1>7

LEMMA InsertJobKeeps ==
  ASSUME NEW o \in Op, Shapes, InsertJob(o)
  PROVE  Shapes' /\ (FindInv => FindInv') /\ Moves(o, proc[o])
<1>1. /\ rows[o] = "none" /\ rows' \in [Item -> RowState]
      /\ \A i \in Item : rows'[i] = IF i = o THEN "active" ELSE rows[i]
      /\ UNCHANGED <<bytes, age, lease, proc, late>>
  BY DEF InsertJob, Shapes, RowState, Item, disk
<1>2. Moves(o, proc[o])
  BY <1>1 DEF Moves, Shapes, Proc
<1>3. Shapes'
  BY <1>1, <1>2, MovesShapes DEF Shapes, Proc
<1>4. FindInv => FindInv'
  <2> HAVE FindInv
  <2>1. Young'
    BY <1>1 DEF FindInv, Young
  <2>2. PastWriting'
    BY <1>1 DEF FindInv, PastWriting, Kept, Item
  <2>3. ASSUME NEW q \in Proc
        PROVE  Visit(proc[q])'
    <3>1. Visit(proc[q]) /\ Shaped(proc[q])
      BY DEF FindInv, Shapes
    <3> QED BY <1>1, <3>1 DEF Visit, Reaches, Emptied, Complete, InContents, Kept, Shaped
  <2>4. ContentsFindable'
    BY <1>1 DEF FindInv, ContentsFindable
  <2> QED BY <2>1, <2>2, <2>3, <2>4 DEF FindInv
<1> QED BY <1>2, <1>3, <1>4

LEMMA WriteKeeps ==
  ASSUME NEW o \in Op, Shapes, Write(o)
  PROVE  Shapes' /\ (FindInv => FindInv') /\ Moves(o, proc[o])
<1>1. /\ proc[o].pc = "write" /\ (o \in Job => rows[o] = "active")
      /\ UNCHANGED <<rows, age, lease, proc, late>>
  BY DEF Write, At
<1>2. /\ bytes' \in [Item -> Nat]
      /\ \A i \in Item \ {o} : bytes'[i] = bytes[i]
      /\ bytes'[o] <= RootBytes[o] \/ bytes' = bytes
  <2>1. o \in Item /\ bytes[o] \in Nat /\ RootBytes[o] \in Nat
    BY ConstantTypes DEF Shapes, Item
  <2>2. CASE bytes[o] < RootBytes[o] /\ bytes' = [bytes EXCEPT ![o] = @ + 1]
    BY <2>1, <2>2 DEF Shapes
  <2>3. CASE bytes' = bytes
    BY <2>1, <2>3 DEF Shapes
  <2> QED BY <2>2, <2>3 DEF Write
<1>3. Moves(o, proc[o])
  BY <1>1 DEF Moves, Shapes, Proc
<1>4. Shapes'
  BY <1>1, <1>2, <1>3, MovesShapes DEF Shapes, Proc
<1>5. FindInv => FindInv'
  <2> HAVE FindInv
  <2>1. rows[o] \notin Kept
    BY <1>1 DEF FindInv, PastWriting, Past
  <2>2. Young'
    BY <1>1, <1>2 DEF FindInv, Young, Item
  <2>3. PastWriting'
    BY <1>1 DEF FindInv, PastWriting
  <2>4. ASSUME NEW q \in Proc
        PROVE  Visit(proc[q])'
    <3>1. Visit(proc[q]) /\ Shaped(proc[q])
      BY DEF FindInv, Shapes
    <3> QED BY <1>1, <1>2, <2>1, <3>1 DEF Visit, Reaches, Emptied, Complete, InContents, Shaped
  <2>5. ContentsFindable'
    BY <1>1, <1>2 DEF FindInv, ContentsFindable, Op
  <2> QED BY <2>2, <2>3, <2>4, <2>5 DEF FindInv
<1> QED BY <1>3, <1>4, <1>5

(* What becomes visible to the collector is new.                           *)
LEMMA NewRow ==
  ASSUME NEW o \in Op, Shapes, FindInv, UNCHANGED <<bytes, age>>,
         \/ rows' = rows
         \/ rows[o] \notin Kept /\ rows' = [rows EXCEPT ![o] = "live"],
         NEW q \in Proc, proc'[q] = proc[q]
  PROVE  Visit(proc[q])'
<1>1. Visit(proc[q]) /\ Shaped(proc[q])
  BY DEF FindInv, Shapes
<1>2. CASE rows' = rows
  BY <1>1, <1>2 DEF Visit, Reaches, Emptied, Complete, InContents
<1>3. CASE rows[o] \notin Kept /\ rows' = [rows EXCEPT ![o] = "live"]
  <2>1. \A i \in Item : rows'[i] = IF i = o THEN "live" ELSE rows[i]
    BY <1>3 DEF Shapes
  <2>2. ~(age[o] >= ContentDays)
    BY ConstantTypes DEF FindInv, Young
  <2> QED BY <1>1, <1>3, <2>1, <2>2 DEF Visit, Reaches, Emptied, Complete, InContents, Kept, Shaped
<1> QED BY <1>2, <1>3

LEMMA RecordKeeps ==
  ASSUME NEW o \in Op, Shapes, Record(o)
  PROVE  Shapes' /\ (FindInv => FindInv') /\ \E l : Moves(o, l)
<1> DEFINE l == [proc[o] EXCEPT !.pc = "release"]
<1>1. proc' = [proc EXCEPT ![o] = l]
  BY DEF Record, Goto
<1>2. Shaped(l) /\ l.pc = "release" /\ l.list = proc[o].list
  <2>1. Shaped(proc[o]) /\ "release" \in Pc
    BY PcNames DEF Shapes, Proc
  <2> QED BY <2>1, GotoShaped
<1> HIDE DEF l
<1>3. o \in Proc /\ o \in Item
  BY DEF Proc, Item
<1>4. Moves(o, l)
  BY <1>1, <1>2, PcNames DEF Moves, Record, Shapes
<1>5. /\ proc[o].pc = "write" /\ (o \in Job => rows[o] = "active")
      /\ bytes' = bytes /\ age' = age
      /\ rows' = IF RootBytes[o] > 0 THEN [rows EXCEPT ![o] = "live"] ELSE rows
  BY DEF Record, At, disk
<1>6. rows' \in [Item -> RowState]
  BY <1>5 DEF Shapes, RowState
<1>7. Shapes'
  BY <1>3, <1>4, <1>5, <1>6, MovesShapes DEF Shapes
<1>8. FindInv => FindInv'
  <2> HAVE FindInv
  <2>1. proc'[o].pc = "release" /\ \A q \in Proc \ {o} : proc'[q] = proc[q]
    BY <1>2, <1>3, <1>4, OthersStay
  <2>2. \A i \in Item \ {o} : rows'[i] = rows[i]
    BY <1>5 DEF Shapes
  <2>3. Young'
    BY <1>5 DEF FindInv, Young
  <2>4. PastWriting'
    BY <2>1, <2>2 DEF FindInv, PastWriting, Past, Item, Proc
  <2>5. rows[o] \notin Kept
    BY <1>5 DEF FindInv, PastWriting, Past
  <2>6. \A q \in Proc \ {o} : Visit(proc[q])'
    BY <1>5, <2>1, <2>5, NewRow
  <2>7. Visit(proc[o])'
    <3>1. proc'[o] = l
      BY <1>3, <1>4, OthersStay
    <3>2. Reaches(proc[o]) /\ Shaped(proc[o])
      BY <1>3 DEF FindInv, Visit, Shapes
    <3> QED BY <1>2, <2>2, <2>5, <3>1, <3>2
        DEF Visit, Reaches, Emptied, Complete, InContents, Shaped
  <2>8. ContentsFindable'
    <3>1. ASSUME NEW i \in Item \ {o}, bytes'[i] > 0
          PROVE  \/ rows'[i] \in {"active", "live"}
                 \/ i \in Command /\ proc'[i].pc \in {"write", "dead"}
      BY <1>5, <2>1, <2>2, <3>1 DEF FindInv, ContentsFindable, Proc, Op
    <3>2. ASSUME bytes'[o] > 0
          PROVE  rows'[o] \in {"active", "live"}
      <4>1. CASE RootBytes[o] > 0
        BY <1>3, <1>5, <4>1 DEF Shapes
      <4>2. CASE ~(RootBytes[o] > 0)
        BY <1>3, <1>5, <3>2, <4>2, ConstantTypes DEF FindInv, Young, Shapes
      <4> QED BY <4>1, <4>2
    <3> QED BY <1>3, <3>1, <3>2 DEF ContentsFindable
  <2> QED BY <1>3, <2>3, <2>4, <2>6, <2>7, <2>8 DEF FindInv
<1> QED BY <1>4, <1>7, <1>8

LEMMA FailKeeps ==
  ASSUME NEW o \in Op, Shapes, Fail(o)
  PROVE  Shapes' /\ (FindInv => FindInv') /\ \E l : Moves(o, l)
<1> DEFINE l == [proc[o] EXCEPT !.pc = "release"]
<1>1. proc' = [proc EXCEPT ![o] = l]
  BY DEF Fail, Goto
<1>2. Shaped(l) /\ l.pc = "release" /\ l.list = proc[o].list
  <2>1. Shaped(proc[o]) /\ "release" \in Pc
    BY PcNames DEF Shapes, Proc
  <2> QED BY <2>1, GotoShaped
<1> HIDE DEF l
<1>3. o \in Proc /\ o \in Item
  BY DEF Proc, Item
<1>4. Moves(o, l)
  BY <1>1, <1>2, PcNames DEF Moves, Fail, Shapes
<1>5. /\ proc[o].pc = "write" /\ rows' = rows /\ age' = age
      /\ bytes' \in [Item -> Nat]
      /\ \A i \in Item : bytes'[i] = IF i = o THEN 0 ELSE bytes[i]
  BY DEF Fail, At, Shapes
<1>6. Shapes'
  BY <1>3, <1>4, <1>5, MovesShapes DEF Shapes
<1>7. FindInv => FindInv'
  <2> HAVE FindInv
  <2>1. proc'[o] = l /\ \A q \in Proc \ {o} : proc'[q] = proc[q]
    BY <1>3, <1>4, OthersStay
  <2>2. Young'
    BY <1>5, ConstantTypes DEF FindInv, Young, Item
  <2>3. PastWriting'
    BY <1>2, <1>5, <2>1 DEF FindInv, PastWriting, Past, Proc
  <2>4. Visit(proc[o])'
    BY <1>2, <1>3, <1>5, <2>1 DEF FindInv, Visit, Reaches, Emptied, Complete, InContents
  <2>5. ASSUME NEW q \in Proc \ {o}
        PROVE  Visit(proc[q])'
    <3>1. proc'[q] = proc[q] /\ Shaped(proc[q]) /\ Visit(proc[q])
      BY <2>1 DEF FindInv, Shapes
    <3> QED BY <1>5, <3>1 DEF Visit, Reaches, Emptied, Complete, InContents, Shaped
  <2>6. ContentsFindable'
    BY <1>5, <2>1 DEF FindInv, ContentsFindable, Proc, Op
  <2> QED BY <2>2, <2>3, <2>4, <2>5, <2>6 DEF FindInv
<1> QED BY <1>4, <1>6, <1>7

LEMMA ReconcileKeeps ==
  ASSUME NEW o \in Op, Shapes, Reconcile(o)
  PROVE  Shapes' /\ (FindInv => FindInv') /\ Moves(o, proc[o])
<1>1. /\ proc[o].pc = "dead" /\ rows[o] = "active"
      /\ rows' = [rows EXCEPT ![o] = "live"]
      /\ UNCHANGED <<bytes, age, lease, proc, late>>
  BY DEF Reconcile, At, disk
<1>2. /\ rows' \in [Item -> RowState]
      /\ \A i \in Item : rows'[i] = IF i = o THEN "live" ELSE rows[i]
  BY <1>1 DEF Shapes, RowState
<1>3. Moves(o, proc[o])
  BY <1>1 DEF Moves, Shapes, Proc
<1>4. Shapes'
  BY <1>1, <1>2, <1>3, MovesShapes DEF Shapes, Proc
<1>5. FindInv => FindInv'
  <2> HAVE FindInv
  <2>1. Young'
    BY <1>1 DEF FindInv, Young
  <2>2. PastWriting'
    BY <1>1, <1>2 DEF FindInv, PastWriting, Past, Item
  <2>3. rows[o] \notin Kept
    BY <1>1 DEF Kept
  <2>4. \A q \in Proc : Visit(proc[q])'
    BY <1>1, <2>3, NewRow
  <2>5. ContentsFindable'
    BY <1>1, <1>2 DEF FindInv, ContentsFindable
  <2> QED BY <2>1, <2>2, <2>4, <2>5 DEF FindInv
<1> QED BY <1>3, <1>4, <1>5

(* Time passes, or nothing happens.                                        *)
LEMMA IdleKeeps ==
  ASSUME Shapes,
         \/ DeadLeaseEnds \/ LeaseOverrun \/ IntervalPasses \/ UNCHANGED vars
         \/ \E o \in Op : ReservationEnds(o)
  PROVE  Shapes' /\ (FindInv => FindInv') /\ (Leased => Leased')
<1>1. UNCHANGED <<bytes, rows, age, proc>>
  BY DEF DeadLeaseEnds, LeaseOverrun, IntervalPasses, ReservationEnds, vars, disk
<1>2. \/ lease' = lease /\ late' = late
      \/ lease.owner = "dead" /\ lease' = [lease EXCEPT !.live = FALSE] /\ late' = late
      \/ lease' = [lease EXCEPT !.live = FALSE] /\ late' = late \cup {lease.owner}
  BY DEF DeadLeaseEnds, LeaseOverrun, IntervalPasses, ReservationEnds, vars, disk
<1>3. Shapes'
  BY <1>1, <1>2 DEF Shapes, Shaped
<1>4. FindInv => FindInv'
  BY <1>1 DEF FindInv, Young, PastWriting, Visit, Reaches, Emptied, Complete, InContents,
              ContentsFindable
<1>5. Leased => Leased'
  BY <1>1, <1>2, KindsApart DEF Leased, Shapes
<1> QED BY <1>3, <1>4, <1>5

-----------------------------------------------------------------------------
(* Every step.                                                             *)

QuietStep ==
    \/ \E p \in Proc : \/ AcquireLease(p) \/ Look(p) \/ Survey(p)
                       \/ EndLogRows(p) \/ EndQuotaOutputs(p) \/ EndQuotaLogs(p)
                       \/ MeasureAgain(p) \/ Crash(p)
    \/ \E o \in Op : MeasureTarget(o) \/ Reserve(o) \/ Release(o)
ContentsStep ==
    \/ \E p \in Proc : RemoveContents(p) \/ MarkRow(p) \/ RemoveFails(p) \/ EndContents(p)
    \/ \E o \in Op : InsertJob(o) \/ Write(o) \/ Record(o) \/ Fail(o) \/ Reconcile(o)
IdleStep ==
    \/ DeadLeaseEnds \/ LeaseOverrun \/ IntervalPasses \/ UNCHANGED vars
    \/ \E o \in Op : ReservationEnds(o)

LEMMA Steps == [Next]_vars => QuietStep \/ ContentsStep \/ IdleStep
  BY DEF Next, Collect, Operate, QuietStep, ContentsStep, IdleStep

LEMMA QuietSteps ==
  ASSUME Shapes, QuietStep
  PROVE  \E p \in Proc : \E l : Quiet(p, l)
  BY AcquireLeaseQuiet, LookQuiet, SurveyQuiet, EndLogRowsQuiet, EndQuotaOutputsQuiet,
     EndQuotaLogsQuiet, MeasureAgainQuiet, CrashQuiet, MeasureTargetQuiet, ReserveQuiet,
     ReleaseQuiet
  DEF QuietStep, Proc

LEMMA ContentsSteps ==
  ASSUME Shapes, ContentsStep
  PROVE  /\ Shapes'
         /\ FindInv /\ ContentDays <= RowDays => FindInv'
         /\ \E p \in Proc : \E l : Moves(p, l)
<1>1. CASE \E p \in Proc : RemoveContents(p) \/ MarkRow(p) \/ RemoveFails(p) \/ EndContents(p)
  BY <1>1, RemoveContentsKeeps, MarkRowKeeps, RemoveFailsKeeps, EndContentsKeeps
<1>2. CASE \E o \in Op : InsertJob(o) \/ Write(o) \/ Record(o) \/ Fail(o) \/ Reconcile(o)
  BY <1>2, InsertJobKeeps, WriteKeeps, RecordKeeps, FailKeeps, ReconcileKeeps DEF Proc
<1> QED BY <1>1, <1>2 DEF ContentsStep

LEMMA Initially == Init => Shapes /\ Leased /\ FindInv
<1> SUFFICES ASSUME Init PROVE Shapes /\ Leased /\ FindInv
  OBVIOUS
<1>1. \A p \in Proc : proc[p] = NoLocal
  BY DEF Init
<1>2. Shapes
  <2>1. bytes \in [Item -> Nat]
    BY ConstantTypes DEF Init, Item
  <2>2. lease \in [owner : Proc \cup {"none", "dead"}, live : BOOLEAN]
    BY DEF Init, NoLease
  <2>3. \A p \in Proc : Shaped(proc[p])
    BY <1>1, NoLocalShaped
  <2> QED BY <2>1, <2>2, <2>3 DEF Init, Shapes, RowState
<1>3. Leased
  BY <1>1, NoLocalShaped, PcNames DEF Leased
<1>4. FindInv
  <2>1. Young
    BY ConstantTypes DEF Init, Young, Item
  <2>2. PastWriting
    BY DEF Init, PastWriting, Kept, Item
  <2>3. \A p \in Proc : Visit(proc[p])
    BY <1>1, NoLocalShaped DEF Visit, Reaches, Emptied, Complete, InContents
  <2>4. ContentsFindable
    BY DEF Init, ContentsFindable
  <2> QED BY <2>1, <2>2, <2>3, <2>4 DEF FindInv
<1> QED BY <1>2, <1>3, <1>4

-----------------------------------------------------------------------------
(* Theorems.                                                               *)

LEMMA LeaseStep == Shapes /\ Leased /\ [Next]_vars => Shapes' /\ Leased'
<1> SUFFICES ASSUME Shapes, Leased, [Next]_vars PROVE Shapes' /\ Leased'
  OBVIOUS
<1>1. CASE QuietStep
  <2>1. PICK p \in Proc : \E l : Quiet(p, l)
    BY <1>1, QuietSteps
  <2>2. PICK l : Quiet(p, l)
    BY <2>1
  <2>3. Moves(p, l) /\ bytes' \in [Item -> Nat] /\ rows' \in [Item -> RowState]
    BY <2>2 DEF Quiet, Shapes
  <2> QED BY <2>3, MovesShapes, MovesLeased
<1>2. CASE ContentsStep
  BY <1>2, ContentsSteps, MovesLeased
<1>3. CASE IdleStep
  BY <1>3, IdleKeeps DEF IdleStep
<1> QED BY <1>1, <1>2, <1>3, Steps

(* A Worker that collects within its lease has the lease.                  *)
THEOREM LeaseInvariance == Spec => [](Shapes /\ Leased)
  BY Initially, LeaseStep, PTL DEF Spec

(* The persisted lease prevents concurrent collections, for any number of  *)
(* Workers, crashes and collections that outlast their lease.              *)
THEOREM CollectionsExclude == Spec => []CollectorsExclude
<1>1. Leased => CollectorsExclude
  BY DEF Leased, CollectorsExclude
<1> QED BY <1>1, LeaseInvariance, PTL

LEMMA FindStep ==
  ASSUME ContentDays <= RowDays
  PROVE  Shapes /\ FindInv /\ [Next]_vars => FindInv'
<1> SUFFICES ASSUME Shapes, FindInv, [Next]_vars PROVE FindInv'
  OBVIOUS
<1>1. CASE QuietStep
  BY <1>1, QuietSteps, QuietFind
<1>2. CASE ContentsStep
  BY <1>2, ContentsSteps
<1>3. CASE IdleStep
  BY <1>3, IdleKeeps DEF IdleStep
<1> QED BY <1>1, <1>2, <1>3, Steps

(* If metadata are kept as long as contents, no contents are left on disk  *)
(* that the collector cannot find, whatever fails, dies or overruns, and   *)
(* however many collectors work at once.                                   *)
THEOREM ContentsStayFindable ==
  ASSUME ContentDays <= RowDays
  PROVE  Spec => []ContentsFindable
<1>1. Shapes /\ FindInv /\ [Next]_vars => FindInv'
  BY FindStep
<1>2. FindInv => ContentsFindable
  BY DEF FindInv
<1> QED BY <1>1, <1>2, Initially, LeaseInvariance, PTL DEF Spec

-----------------------------------------------------------------------------
(* Sums over finite sets. Whatever fails for some subset of a finite set   *)
(* fails for a smallest one.                                               *)

LEMMA FiniteMinimum ==
  ASSUME NEW S, IsFiniteSet(S), NEW T, T \subseteq SUBSET S, T # {}
  PROVE  \E x \in T : \A y \in T : y \subseteq x => y = x
<1>1. T \subseteq FiniteSubsetsOf(S)
  BY FS_FiniteSubsetsOfFinite
<1>2. \E x \in T : \A y \in T : ~(<<y, x>> \in StrictSubsetOrdering(S))
  BY <1>1, FS_StrictSubsetOrderingWellFounded, WFMin
<1>3. \A x, y \in SUBSET S : y \subseteq x /\ y # x => <<y, x>> \in StrictSubsetOrdering(S)
  BY DEF StrictSubsetOrdering
<1> QED BY <1>2, <1>3

(* The element that the fold of SumFunctionOnSet takes first, and the      *)
(* function that it folds with.                                            *)
First(S) == CHOOSE x \in S : TRUE
Sums(f, S, g) == [s \in SUBSET S |-> IF s = {} THEN 0 ELSE f[First(s)] + g[s \ {First(s)}]]

LEMMA Unfold ==
  ASSUME NEW f, NEW S
  PROVE  SumFunctionOnSet(f, S) = (CHOOSE g : g = Sums(f, S, g))[S]
  BY DEF SumFunctionOnSet, FoldFunctionOnSet, MapThenFoldSet, Sums, First

LEMMA FirstIn == \A S : S # {} => First(S) \in S
  BY DEF First

(* There is one such function for a finite set.                            *)
LEMMA SumsUnique ==
  ASSUME NEW f, NEW S, IsFiniteSet(S), NEW g, NEW h, g = Sums(f, S, g), h = Sums(f, S, h)
  PROVE  g = h
<1> DEFINE T == {s \in SUBSET S : g[s] # h[s]}
<1>1. CASE T = {}
  <2>1. DOMAIN g = SUBSET S /\ DOMAIN h = SUBSET S
    BY DEF Sums
  <2>2. g = [s \in SUBSET S |-> g[s]] /\ h = [s \in SUBSET S |-> h[s]]
    BY DEF Sums
  <2> QED BY <1>1, <2>1, <2>2
<1>2. CASE T # {}
  <2>1. PICK x \in T : \A y \in T : y \subseteq x => y = x
    <3>1. T \subseteq SUBSET S
      OBVIOUS
    <3> HIDE DEF T
    <3> QED BY <1>2, <3>1, FiniteMinimum
  <2>2. \A s \in SUBSET S : /\ g[s] = IF s = {} THEN 0 ELSE f[First(s)] + g[s \ {First(s)}]
                            /\ h[s] = IF s = {} THEN 0 ELSE f[First(s)] + h[s \ {First(s)}]
    BY Zenon DEF Sums
  <2>3. x # {}
    BY <2>1, <2>2
  <2>4. First(x) \in x
    BY <2>3, FirstIn
  <2>5. g[x \ {First(x)}] = h[x \ {First(x)}]
    BY <2>1, <2>4
  <2> QED BY <2>1, <2>2, <2>3, <2>5
<1> QED BY <1>1, <1>2

(* Restricted to the subsets of a subset, it is that subset's own.         *)
Below(g, U) == [s \in SUBSET U |-> g[s]]

LEMMA SumsBelow ==
  ASSUME NEW f, NEW S, NEW U \in SUBSET S, NEW g, g = Sums(f, S, g)
  PROVE  Below(g, U) = Sums(f, U, Below(g, U))
<1> DEFINE h == [s \in SUBSET U |-> g[s]]
<1>1. \A s \in SUBSET U : h[s] = IF s = {} THEN 0 ELSE f[First(s)] + h[s \ {First(s)}]
  <2> TAKE s \in SUBSET U
  <2>1. s \in SUBSET S /\ s \ {First(s)} \in SUBSET U
    OBVIOUS
  <2>2. g[s] = IF s = {} THEN 0 ELSE f[First(s)] + g[s \ {First(s)}]
    BY <2>1 DEF Sums
  <2> QED BY <2>1, <2>2
<1> QED BY <1>1 DEF Sums, Below

Summable(f, S) == \E g : g = Sums(f, S, g)

LEMMA SummedBy ==
  ASSUME NEW f, NEW S, IsFiniteSet(S), NEW g, g = Sums(f, S, g), NEW U \in SUBSET S
  PROVE  SumFunctionOnSet(f, U) = g[U]
<1> DEFINE h == Below(g, U)
           k == CHOOSE e : e = Sums(f, U, e)
<1>1. h = Sums(f, U, h)
  BY SumsBelow
<1>2. k = Sums(f, U, k)
  BY <1>1, Zenon
<1>3. IsFiniteSet(U)
  BY FS_Subset
<1> HIDE DEF k
<1>4. h = k
  <2> HIDE DEF h
  <2> QED BY <1>1, <1>2, <1>3, SumsUnique
<1>5. SumFunctionOnSet(f, U) = k[U]
  BY Unfold DEF k
<1>6. h[U] = g[U]
  BY DEF Below
<1> HIDE DEF h
<1> QED BY <1>4, <1>5, <1>6

LEMMA AllSummable ==
  ASSUME NEW f, NEW S, IsFiniteSet(S)
  PROVE  Summable(f, S)
<1> DEFINE T == {s \in SUBSET S : ~Summable(f, s)}
           V(s) == SumFunctionOnSet(f, s)
<1> SUFFICES ASSUME T # {} PROVE FALSE
  BY Zenon
<1>1. PICK x \in T : \A y \in T : y \subseteq x => y = x
  <2>1. T \subseteq SUBSET S
    OBVIOUS
  <2> HIDE DEF T
  <2> QED BY <2>1, FiniteMinimum
<1>2. \A y \in SUBSET x : y # x => Summable(f, y)
  BY <1>1
<1>3. \A y \in SUBSET x : y # x =>
          V(y) = IF y = {} THEN 0 ELSE f[First(y)] + V(y \ {First(y)})
  <2> SUFFICES ASSUME NEW y \in SUBSET x, y # x
               PROVE  V(y) = IF y = {} THEN 0 ELSE f[First(y)] + V(y \ {First(y)})
    BY Zenon
  <2>1. PICK g : g = Sums(f, y, g)
    BY <1>2 DEF Summable
  <2>2. y \in SUBSET y /\ y \ {First(y)} \in SUBSET y /\ IsFiniteSet(y)
    BY <1>1, FS_Subset
  <2>3. V(y) = g[y] /\ V(y \ {First(y)}) = g[y \ {First(y)}]
    BY <2>1, <2>2, SummedBy
  <2>4. g[y] = IF y = {} THEN 0 ELSE f[First(y)] + g[y \ {First(y)}]
    BY <2>1, <2>2 DEF Sums
  <2> QED BY <2>3, <2>4
<1> DEFINE g == [s \in SUBSET x |-> IF s # x THEN V(s)
                                    ELSE IF s = {} THEN 0 ELSE f[First(s)] + V(s \ {First(s)})]
<1> HIDE DEF V
<1>4. \A s \in SUBSET x : g[s] = IF s = {} THEN 0 ELSE f[First(s)] + g[s \ {First(s)}]
  <2> TAKE s \in SUBSET x
  <2>1. g[s] = IF s = {} THEN 0 ELSE f[First(s)] + V(s \ {First(s)})
    BY <1>3
  <2>2. s # {} => s \ {First(s)} \in SUBSET x /\ s \ {First(s)} # x
    BY FirstIn
  <2>3. s # {} => g[s \ {First(s)}] = V(s \ {First(s)})
    BY <2>2
  <2> QED BY <2>1, <2>3
<1>5. g = Sums(f, x, g)
  BY <1>4 DEF Sums
<1> HIDE DEF g
<1>6. Summable(f, x)
  BY <1>5 DEF Summable
<1> QED BY <1>1, <1>6

(* The equations that define a sum.                                        *)
LEMMA SumEmpty == \A f : SumFunctionOnSet(f, {}) = 0
<1> TAKE f
<1>1. PICK g : g = Sums(f, {}, g)
  BY AllSummable, FS_EmptySet DEF Summable
<1>2. SumFunctionOnSet(f, {}) = g[{}]
  BY <1>1, SummedBy, FS_EmptySet
<1> QED BY <1>1, <1>2 DEF Sums

LEMMA SumFirst ==
  ASSUME NEW f, NEW S, IsFiniteSet(S), S # {}
  PROVE  SumFunctionOnSet(f, S) = f[First(S)] + SumFunctionOnSet(f, S \ {First(S)})
<1>1. PICK g : g = Sums(f, S, g)
  BY AllSummable DEF Summable
<1>2. S \in SUBSET S /\ S \ {First(S)} \in SUBSET S
  OBVIOUS
<1>3. SumFunctionOnSet(f, S) = g[S] /\ SumFunctionOnSet(f, S \ {First(S)}) = g[S \ {First(S)}]
  BY <1>1, <1>2, SummedBy
<1>4. g[S] = IF S = {} THEN 0 ELSE f[First(S)] + g[S \ {First(S)}]
  BY <1>1, <1>2 DEF Sums
<1> QED BY <1>3, <1>4

(* Induction over the subsets of a finite set.                             *)
LEMMA SubsetInduction ==
  ASSUME NEW S, IsFiniteSet(S), NEW G, {} \in G,
         \A s \in SUBSET S : s # {} /\ s \ {First(s)} \in G => s \in G
  PROVE  S \in G
<1> DEFINE T == {s \in SUBSET S : s \notin G}
<1> SUFFICES ASSUME T # {} PROVE FALSE
  BY Zenon
<1>1. PICK x \in T : \A y \in T : y \subseteq x => y = x
  <2>1. T \subseteq SUBSET S
    OBVIOUS
  <2> HIDE DEF T
  <2> QED BY <2>1, FiniteMinimum
<1>2. x # {} /\ First(x) \in x
  BY <1>1, FirstIn
<1>3. x \ {First(x)} \notin T /\ x \ {First(x)} \in SUBSET S
  BY <1>1, <1>2
<1> QED BY <1>1, <1>2, <1>3

LEMMA SumType ==
  ASSUME NEW f, NEW S, IsFiniteSet(S), \A x \in S : f[x] \in Int
  PROVE  SumFunctionOnSet(f, S) \in Int
<1> DEFINE V(s) == SumFunctionOnSet(f, s)
           G == {s \in SUBSET S : V(s) \in Int}
<1>1. {} \in G
  BY SumEmpty, 0 \in Int
<1>2. ASSUME NEW s \in SUBSET S, s # {}, s \ {First(s)} \in G
      PROVE  s \in G
  <2>1. First(s) \in s /\ IsFiniteSet(s)
    BY <1>2, FirstIn, FS_Subset
  <2>2. V(s) = f[First(s)] + V(s \ {First(s)})
    BY <1>2, <2>1, SumFirst
  <2> HIDE DEF V
  <2> QED BY <1>2, <2>1, <2>2
<1> HIDE DEF G
<1>3. S \in G
  BY <1>1, <1>2, SubsetInduction
<1> QED BY <1>3 DEF G

LEMMA SumSame ==
  ASSUME NEW f, NEW g, NEW S, IsFiniteSet(S), \A x \in S : f[x] = g[x]
  PROVE  SumFunctionOnSet(f, S) = SumFunctionOnSet(g, S)
<1> DEFINE V(s) == SumFunctionOnSet(f, s)
           W(s) == SumFunctionOnSet(g, s)
           G == {s \in SUBSET S : V(s) = W(s)}
<1>1. {} \in G
  BY SumEmpty
<1>2. ASSUME NEW s \in SUBSET S, s # {}, s \ {First(s)} \in G
      PROVE  s \in G
  <2>1. First(s) \in s /\ IsFiniteSet(s)
    BY <1>2, FirstIn, FS_Subset
  <2>2. V(s) = f[First(s)] + V(s \ {First(s)}) /\ W(s) = g[First(s)] + W(s \ {First(s)})
    BY <1>2, <2>1, SumFirst
  <2> HIDE DEF V, W
  <2> QED BY <1>2, <2>1, <2>2
<1> HIDE DEF G
<1>3. S \in G
  BY <1>1, <1>2, SubsetInduction
<1> QED BY <1>3 DEF G

LEMMA SumMonotone ==
  ASSUME NEW f, NEW g, NEW S, IsFiniteSet(S),
         \A x \in S : f[x] \in Int /\ g[x] \in Int /\ f[x] <= g[x]
  PROVE  SumFunctionOnSet(f, S) <= SumFunctionOnSet(g, S)
<1> DEFINE V(s) == SumFunctionOnSet(f, s)
           W(s) == SumFunctionOnSet(g, s)
           G == {s \in SUBSET S : V(s) <= W(s)}
<1>1. {} \in G
  BY SumEmpty, 0 <= 0
<1>2. ASSUME NEW s \in SUBSET S, s # {}, s \ {First(s)} \in G
      PROVE  s \in G
  <2>1. First(s) \in s /\ IsFiniteSet(s) /\ IsFiniteSet(s \ {First(s)})
    BY <1>2, FirstIn, FS_Subset, FS_RemoveElement
  <2>2. V(s) = f[First(s)] + V(s \ {First(s)}) /\ W(s) = g[First(s)] + W(s \ {First(s)})
    BY <1>2, <2>1, SumFirst
  <2>3. V(s \ {First(s)}) \in Int /\ W(s \ {First(s)}) \in Int
    BY <2>1, SumType
  <2>4. V(s \ {First(s)}) <= W(s \ {First(s)})
    BY <1>2
  <2> HIDE DEF V, W
  <2>5. V(s) <= W(s)
    BY <2>1, <2>2, <2>3, <2>4
  <2> QED BY <2>5
<1> HIDE DEF G
<1>3. S \in G
  BY <1>1, <1>2, SubsetInduction
<1> QED BY <1>3 DEF G

LEMMA SumPlus ==
  ASSUME NEW f, NEW g, NEW h, NEW S, IsFiniteSet(S),
         \A x \in S : f[x] \in Int /\ g[x] \in Int /\ h[x] = f[x] + g[x]
  PROVE  SumFunctionOnSet(h, S) = SumFunctionOnSet(f, S) + SumFunctionOnSet(g, S)
<1> DEFINE V(s) == SumFunctionOnSet(f, s)
           W(s) == SumFunctionOnSet(g, s)
           X(s) == SumFunctionOnSet(h, s)
           G == {s \in SUBSET S : X(s) = V(s) + W(s)}
<1>1. {} \in G
  BY SumEmpty, 0 + 0 = 0
<1>2. ASSUME NEW s \in SUBSET S, s # {}, s \ {First(s)} \in G
      PROVE  s \in G
  <2>1. First(s) \in s /\ IsFiniteSet(s) /\ IsFiniteSet(s \ {First(s)})
    BY <1>2, FirstIn, FS_Subset, FS_RemoveElement
  <2>2. /\ V(s) = f[First(s)] + V(s \ {First(s)}) /\ W(s) = g[First(s)] + W(s \ {First(s)})
        /\ X(s) = h[First(s)] + X(s \ {First(s)})
    BY <1>2, <2>1, SumFirst
  <2>3. V(s \ {First(s)}) \in Int /\ W(s \ {First(s)}) \in Int
    BY <2>1, SumType
  <2>4. X(s \ {First(s)}) = V(s \ {First(s)}) + W(s \ {First(s)})
    BY <1>2
  <2> HIDE DEF V, W, X
  <2>5. X(s) = V(s) + W(s)
    BY <2>1, <2>2, <2>3, <2>4
  <2> QED BY <2>5
<1> HIDE DEF G
<1>3. S \in G
  BY <1>1, <1>2, SubsetInduction
<1> QED BY <1>3 DEF G

LEMMA SumZero ==
  ASSUME NEW f, NEW S, IsFiniteSet(S), \A x \in S : f[x] = 0
  PROVE  SumFunctionOnSet(f, S) = 0
<1> DEFINE v == SumFunctionOnSet(f, S)
<1>1. v = v + v
  BY SumPlus, 0 \in Int, 0 + 0 = 0
<1>2. v \in Int
  BY SumType, 0 \in Int
<1> HIDE DEF v
<1>3. v = 0
  BY <1>1, <1>2
<1> QED BY <1>3 DEF v

(* Any element can be taken first.                                         *)
LEMMA SumRemove ==
  ASSUME NEW f, NEW S, IsFiniteSet(S), \A x \in S : f[x] \in Int, NEW x \in S
  PROVE  SumFunctionOnSet(f, S) = f[x] + SumFunctionOnSet(f, S \ {x})
<1> DEFINE V(s) == SumFunctionOnSet(f, s)
           T == {s \in SUBSET S : \E e \in s : V(s) # f[e] + V(s \ {e})}
<1> SUFFICES ASSUME T # {} PROVE FALSE
  BY Zenon
<1>1. PICK s \in T : \A y \in T : y \subseteq s => y = s
  <2>1. T \subseteq SUBSET S
    OBVIOUS
  <2> HIDE DEF T
  <2> QED BY <2>1, FiniteMinimum
<1>2. PICK e \in s : V(s) # f[e] + V(s \ {e})
  BY <1>1
<1> DEFINE c == First(s)
<1>3. c \in s /\ IsFiniteSet(s) /\ s \in SUBSET S
  BY <1>1, <1>2, FirstIn, FS_Subset
<1> HIDE DEF V
<1>4. V(s) = f[c] + V(s \ {c})
  BY <1>2, <1>3, SumFirst DEF V
<1>5. c # e
  BY <1>2, <1>4
<1>6. \A y \in SUBSET s : y # s => \A d \in y : V(y) = f[d] + V(y \ {d})
  <2>1. \A y \in SUBSET s : y # s => y \notin T /\ y \in SUBSET S
    BY <1>1, <1>3
  <2> QED BY <2>1
<1>7. V(s \ {c}) = f[e] + V((s \ {c}) \ {e}) /\ V(s \ {e}) = f[c] + V((s \ {e}) \ {c})
  <2>1. s \ {c} # s /\ s \ {e} # s /\ s \ {c} \in SUBSET s /\ s \ {e} \in SUBSET s
    BY <1>3
  <2>2. e \in s \ {c} /\ c \in s \ {e}
    BY <1>3, <1>5
  <2> QED BY <1>6, <2>1, <2>2
<1>8. (s \ {e}) \ {c} = (s \ {c}) \ {e}
  OBVIOUS
<1>9. V((s \ {c}) \ {e}) \in Int
  <2>1. IsFiniteSet((s \ {c}) \ {e})
    BY <1>3, FS_RemoveElement
  <2> QED BY <1>3, <2>1, SumType DEF V
<1> HIDE DEF c, T
<1>10. f[c] \in Int /\ f[e] \in Int
  BY <1>2, <1>3
<1>11. f[c] + (f[e] + V((s \ {c}) \ {e})) = f[e] + (f[c] + V((s \ {c}) \ {e}))
  BY <1>9, <1>10
<1> QED BY <1>2, <1>4, <1>7, <1>8, <1>11

LEMMA SumDiffersAt ==
  ASSUME NEW f, NEW g, NEW S, IsFiniteSet(S), NEW x \in S,
         \A y \in S : f[y] \in Int /\ g[y] \in Int,
         \A y \in S \ {x} : f[y] = g[y]
  PROVE  SumFunctionOnSet(g, S) = SumFunctionOnSet(f, S) - f[x] + g[x]
<1> DEFINE V(s) == SumFunctionOnSet(f, s)
           W(s) == SumFunctionOnSet(g, s)
<1>1. IsFiniteSet(S \ {x})
  BY FS_RemoveElement
<1>2. V(S) = f[x] + V(S \ {x}) /\ W(S) = g[x] + W(S \ {x})
  BY SumRemove
<1>3. V(S \ {x}) = W(S \ {x}) /\ V(S \ {x}) \in Int
  BY <1>1, SumSame, SumType
<1> HIDE DEF V, W
<1>4. W(S) = V(S) - f[x] + g[x]
  BY <1>2, <1>3
<1> QED BY <1>4 DEF V, W

(* The sum over a subset is a sum over the set.                            *)
Within(f, U, S) == [x \in S |-> IF x \in U THEN f[x] ELSE 0]

LEMMA SumWithin ==
  ASSUME NEW f, NEW S, IsFiniteSet(S), NEW U \in SUBSET S, \A x \in U : f[x] \in Int
  PROVE  SumFunctionOnSet(f, U) = SumFunctionOnSet(Within(f, U, S), S)
<1> DEFINE h == Within(f, U, S)
           V(s) == SumFunctionOnSet(h, s)
           G == {s \in SUBSET S : V(s) = SumFunctionOnSet(f, U \cap s)}
<1>1. {} \in G
  BY SumEmpty, U \cap {} = {}
<1>2. ASSUME NEW s \in SUBSET S, s # {}, s \ {First(s)} \in G
      PROVE  s \in G
  <2> DEFINE c == First(s)
  <2>1. c \in s /\ IsFiniteSet(s) /\ IsFiniteSet(U \cap s) /\ IsFiniteSet(U \cap (s \ {c}))
    BY <1>2, FirstIn, FS_Subset, U \cap s \in SUBSET S, U \cap (s \ {c}) \in SUBSET S
  <2>2. V(s) = h[c] + V(s \ {c})
    BY <1>2, <2>1, SumFirst
  <2>3. V(s \ {c}) = SumFunctionOnSet(f, U \cap (s \ {c}))
    BY <1>2
  <2>4. SumFunctionOnSet(f, U \cap (s \ {c})) \in Int
    BY <2>1, SumType
  <2>5. c \in S /\ h[c] = IF c \in U THEN f[c] ELSE 0
    BY <2>1 DEF Within
  <2> HIDE DEF V, c, h
  <2>6. CASE c \in U
    <3>1. c \in U \cap s /\ (U \cap s) \ {c} = U \cap (s \ {c})
      BY <2>1, <2>6
    <3>2. SumFunctionOnSet(f, U \cap s) = f[c] + SumFunctionOnSet(f, U \cap (s \ {c}))
      BY <2>1, <3>1, SumRemove
    <3> QED BY <2>2, <2>3, <2>5, <2>6, <3>2
  <2>7. CASE c \notin U
    <3>1. U \cap s = U \cap (s \ {c})
      BY <2>7
    <3> DEFINE rest == SumFunctionOnSet(f, U \cap (s \ {c}))
    <3>2. V(s) = 0 + rest /\ rest \in Int
      BY <2>2, <2>3, <2>4, <2>5, <2>7
    <3> HIDE DEF rest
    <3>3. V(s) = rest
      BY <3>2
    <3> QED BY <3>1, <3>3 DEF rest
  <2> QED BY <2>6, <2>7
<1> HIDE DEF G
<1>3. S \in G
  BY <1>1, <1>2, SubsetInduction
<1>4. U \cap S = U
  OBVIOUS
<1> QED BY <1>3, <1>4 DEF G

-----------------------------------------------------------------------------
(* The load. A claim is what an item will have at most: a writer what it   *)
(* has reserved, anything else what it has now.                            *)

Held == {o \in Op : reserved[o] = "held"}
RootClaim(b, W) == [i \in Item |-> IF i \in W THEN RootBytes[i] ELSE b[i]]
TargetClaim(w, W, v) ==
    [o \in Op |-> IF Target[o] # v THEN 0 ELSE IF o \in W THEN TargetBytes[o] ELSE w[o]]
RootLoad(b, W) == SumFunctionOnSet(RootClaim(b, W), Item)
TargetLoad(w, W, v) == SumFunctionOnSet(TargetClaim(w, W, v), Op)
VolumeLoad(b, w, W, v) == (IF v = Root THEN RootLoad(b, W) ELSE 0) + TargetLoad(w, W, v)

LEMMA Finite ==
  /\ IsFiniteSet(Item) /\ IsFiniteSet(Op)
  /\ \A U \in SUBSET Op : U \in SUBSET Item /\ IsFiniteSet(U)
  BY ItemsAssumption, FS_Subset DEF Item

LEMMA Sizes ==
  /\ RootBytes \in [Op -> Nat] /\ TargetBytes \in [Op -> Nat] /\ Target \in [Op -> Volume]
  /\ Root \in Volume /\ Space \in [Volume -> Nat] /\ Quota \in Nat /\ MinFree \in Nat
  BY StorageAssumption

LEMMA ClaimTypes ==
  ASSUME NEW b \in [Item -> Nat], NEW w \in [Op -> Nat], NEW W \in SUBSET Op, NEW v
  PROVE  /\ \A i \in Item : RootClaim(b, W)[i] \in Nat
         /\ \A o \in Op : TargetClaim(w, W, v)[o] \in Nat
         /\ RootLoad(b, W) \in Int /\ TargetLoad(w, W, v) \in Int /\ VolumeLoad(b, w, W, v) \in Int
<1>1. \A i \in Item : RootClaim(b, W)[i] \in Nat
  BY Sizes DEF RootClaim
<1>2. \A o \in Op : TargetClaim(w, W, v)[o] \in Nat
  BY Sizes DEF TargetClaim
<1>3. RootLoad(b, W) \in Int
  BY <1>1, Finite, SumType DEF RootLoad
<1>4. TargetLoad(w, W, v) \in Int
  BY <1>2, Finite, SumType DEF TargetLoad
<1> QED BY <1>1, <1>2, <1>3, <1>4 DEF VolumeLoad

(* Where no claim grows, no load does.                                     *)
LEMMA Eases ==
  ASSUME NEW b \in [Item -> Nat], NEW b2 \in [Item -> Nat],
         NEW w \in [Op -> Nat], NEW w2 \in [Op -> Nat],
         NEW W \in SUBSET Op, NEW W2 \in SUBSET Op,
         \A i \in Item : RootClaim(b2, W2)[i] <= RootClaim(b, W)[i],
         \A v \in Volume : \A o \in Op : TargetClaim(w2, W2, v)[o] <= TargetClaim(w, W, v)[o]
  PROVE  /\ RootLoad(b2, W2) <= RootLoad(b, W)
         /\ \A v \in Volume : VolumeLoad(b2, w2, W2, v) <= VolumeLoad(b, w, W, v)
<1>1. RootLoad(b2, W2) <= RootLoad(b, W)
  BY ClaimTypes, Finite, SumMonotone, Nat \subseteq Int DEF RootLoad
<1>2. ASSUME NEW v \in Volume
      PROVE  VolumeLoad(b2, w2, W2, v) <= VolumeLoad(b, w, W, v)
  <2>1. TargetLoad(w2, W2, v) <= TargetLoad(w, W, v)
    BY ClaimTypes, Finite, SumMonotone, Nat \subseteq Int DEF TargetLoad
  <2> QED BY <1>1, <2>1, ClaimTypes DEF VolumeLoad
<1> QED BY <1>1, <1>2

(* What GrantsFit adds up, the bytes used and those outstanding, is the    *)
(* load: under the data root, and on a volume.                             *)
LEMMA UsedLoad ==
  ASSUME NEW b \in [Item -> Nat], NEW W \in SUBSET Op
  PROVE  SumFunction(b) + SumFunction([o \in W |-> RootBytes[o] - b[o]]) = RootLoad(b, W)
<1> DEFINE f == [o \in W |-> RootBytes[o] - b[o]]
           g == Within(f, W, Item)
<1>1. SumFunction(b) = SumFunctionOnSet(b, Item) /\ SumFunction(f) = SumFunctionOnSet(f, W)
  BY DEF SumFunction
<1>2. \A o \in W : f[o] \in Int
  BY Sizes DEF Item
<1>3. SumFunctionOnSet(f, W) = SumFunctionOnSet(g, Item)
  BY <1>2, Finite, SumWithin
<1>4. \A i \in Item : b[i] \in Int /\ g[i] \in Int /\ RootClaim(b, W)[i] = b[i] + g[i]
  BY <1>2, Sizes DEF Within, RootClaim, Item
<1>5. RootLoad(b, W) = SumFunctionOnSet(b, Item) + SumFunctionOnSet(g, Item)
  BY <1>4, Finite, SumPlus DEF RootLoad
<1> QED BY <1>1, <1>3, <1>5

LEMMA TargetsLoad ==
  ASSUME NEW w \in [Op -> Nat], NEW W \in SUBSET Op, NEW v
  PROVE  SumFunctionOnSet(w, {o \in Op : Target[o] = v})
             + SumFunction([o \in {p \in W : Target[p] = v} |-> TargetBytes[o] - w[o]])
         = TargetLoad(w, W, v)
<1> DEFINE V == {o \in Op : Target[o] = v}
           U == {p \in W : Target[p] = v}
           f == [o \in U |-> TargetBytes[o] - w[o]]
           g == Within(f, U, Op)
           h == Within(w, V, Op)
<1>1. SumFunction(f) = SumFunctionOnSet(f, U)
  BY DEF SumFunction
<1>2. \A o \in U : f[o] \in Int
  BY Sizes
<1>3. SumFunctionOnSet(f, U) = SumFunctionOnSet(g, Op)
  BY <1>2, Finite, SumWithin
<1>4. SumFunctionOnSet(w, V) = SumFunctionOnSet(h, Op)
  BY Finite, SumWithin, Nat \subseteq Int
<1>5. \A o \in Op : h[o] \in Int /\ g[o] \in Int /\ TargetClaim(w, W, v)[o] = h[o] + g[o]
  BY <1>2, Sizes DEF Within, TargetClaim
<1>6. TargetLoad(w, W, v) = SumFunctionOnSet(h, Op) + SumFunctionOnSet(g, Op)
  <2> HIDE DEF g, h
  <2> QED BY <1>5, Finite, SumPlus DEF TargetLoad
<1> QED BY <1>1, <1>3, <1>4, <1>6

(* What is on disk and what is reserved cover the load.                    *)
LEMMA RootCovered ==
  ASSUME NEW b \in [Item -> Nat], NEW H \in SUBSET Op, NEW W \in SUBSET H
  PROVE  RootLoad(b, W) <= SumFunction(b) + ReservedRoot(H)
<1> DEFINE g == Within(RootBytes, H, Item)
           h == [i \in Item |-> b[i] + g[i]]
<1>1. SumFunction(b) = SumFunctionOnSet(b, Item)
  BY DEF SumFunction
<1>2. ReservedRoot(H) = SumFunctionOnSet(g, Item)
  BY Sizes, Finite, SumWithin, Nat \subseteq Int DEF ReservedRoot
<1>3. \A i \in Item : b[i] \in Int /\ g[i] \in Int /\ h[i] = b[i] + g[i]
  BY Sizes DEF Within
<1>4. SumFunctionOnSet(h, Item) = SumFunctionOnSet(b, Item) + SumFunctionOnSet(g, Item)
  BY <1>3, Finite, SumPlus
<1>5. \A i \in Item : /\ RootClaim(b, W)[i] \in Int /\ h[i] \in Int
                      /\ RootClaim(b, W)[i] <= h[i]
  BY Sizes DEF Within, RootClaim
<1>6. RootLoad(b, W) <= SumFunctionOnSet(h, Item)
  <2> HIDE DEF h
  <2> QED BY <1>5, Finite, SumMonotone DEF RootLoad
<1> QED BY <1>1, <1>2, <1>4, <1>6

LEMMA TargetCovered ==
  ASSUME NEW w \in [Op -> Nat], NEW H \in SUBSET Op, NEW W \in SUBSET H, NEW v
  PROVE  TargetLoad(w, W, v) <= SumFunctionOnSet(w, {o \in Op : Target[o] = v})
                                  + SumFunctionOnSet(TargetBytes, {o \in H : Target[o] = v})
<1> DEFINE V == {o \in Op : Target[o] = v}
           U == {o \in H : Target[o] = v}
           g == Within(TargetBytes, U, Op)
           k == Within(w, V, Op)
           h == [o \in Op |-> k[o] + g[o]]
<1>1. SumFunctionOnSet(w, V) = SumFunctionOnSet(k, Op)
  BY Finite, SumWithin, Nat \subseteq Int
<1>2. SumFunctionOnSet(TargetBytes, U) = SumFunctionOnSet(g, Op)
  BY Sizes, Finite, SumWithin, Nat \subseteq Int
<1>3. \A i \in Op : k[i] \in Int /\ g[i] \in Int /\ h[i] = k[i] + g[i]
  BY Sizes DEF Within
<1>4. SumFunctionOnSet(h, Op) = SumFunctionOnSet(k, Op) + SumFunctionOnSet(g, Op)
  <2> HIDE DEF g, h, k
  <2> QED BY <1>3, Finite, SumPlus
<1>5. \A i \in Op : /\ TargetClaim(w, W, v)[i] \in Int /\ h[i] \in Int
                    /\ TargetClaim(w, W, v)[i] <= h[i]
  BY Sizes DEF Within, TargetClaim
<1>6. TargetLoad(w, W, v) <= SumFunctionOnSet(h, Op)
  <2> HIDE DEF h
  <2> QED BY <1>5, Finite, SumMonotone DEF TargetLoad
<1> QED BY <1>1, <1>2, <1>4, <1>6

(* One more reservation, and one more writer.                              *)
LEMMA ReservedTypes ==
  ASSUME NEW H \in SUBSET Op, NEW v
  PROVE  ReservedRoot(H) \in Int /\ ReservedOn(v, H) \in Int
<1>1. ReservedRoot(H) \in Int
  BY Sizes, Finite, SumType, Nat \subseteq Int DEF ReservedRoot
<1>2. SumFunctionOnSet(TargetBytes, {o \in H : Target[o] = v}) \in Int
  BY Sizes, Finite, SumType, Nat \subseteq Int, {o \in H : Target[o] = v} \in SUBSET Op
<1> QED BY <1>1, <1>2 DEF ReservedOn

LEMMA SumSingle ==
  ASSUME NEW f, NEW x, f[x] \in Int
  PROVE  SumFunctionOnSet(f, {x}) = f[x]
<1>1. SumFunctionOnSet(f, {x}) = f[x] + SumFunctionOnSet(f, {x} \ {x})
  BY SumRemove, FS_Singleton
<1>2. {x} \ {x} = {}
  OBVIOUS
<1>3. f[x] + 0 = f[x]
  OBVIOUS
<1> QED BY <1>1, <1>2, <1>3, SumEmpty

LEMMA OneMore ==
  ASSUME NEW H \in SUBSET Op, NEW o \in Op \ H, NEW v
  PROVE  /\ ReservedRoot(H \cup {o}) = ReservedRoot(H) + RootBytes[o]
         /\ ReservedOn(v, H \cup {o}) = ReservedOn(v, H) + ReservedOn(v, {o})
         /\ ReservedOn(v, {o}) = (IF v = Root THEN RootBytes[o] ELSE 0)
                                   + (IF Target[o] = v THEN TargetBytes[o] ELSE 0)
<1> DEFINE on(K) == {q \in K : Target[q] = v}
           K == H \cup {o}
<1>1. RootBytes[o] \in Int /\ TargetBytes[o] \in Int
  BY Sizes
<1>2. ReservedRoot(K) = ReservedRoot(H) + RootBytes[o]
  <2>1. K \in SUBSET Op /\ o \in K /\ K \ {o} = H
    OBVIOUS
  <2>2. ReservedRoot(K) = RootBytes[o] + ReservedRoot(K \ {o})
    BY <2>1, Sizes, Finite, SumRemove, Nat \subseteq Int DEF ReservedRoot
  <2>3. ReservedRoot(H) \in Int
    BY ReservedTypes
  <2>4. ReservedRoot(K) = RootBytes[o] + ReservedRoot(H)
    BY <2>1, <2>2, Zenon
  <2> HIDE DEF K
  <2> QED BY <1>1, <2>3, <2>4
<1>3. ReservedRoot({o}) = RootBytes[o]
  BY <1>1, SumSingle DEF ReservedRoot
<1>4. SumFunctionOnSet(TargetBytes, on({o})) = IF Target[o] = v THEN TargetBytes[o] ELSE 0
  <2>1. CASE Target[o] = v
    <3>1. on({o}) = {o}
      BY <2>1
    <3> QED BY <1>1, <2>1, <3>1, SumSingle
  <2>2. CASE Target[o] # v
    <3>1. on({o}) = {}
      BY <2>2
    <3> QED BY <2>2, <3>1, SumEmpty
  <2> QED BY <2>1, <2>2
<1>5. SumFunctionOnSet(TargetBytes, on(K))
          = SumFunctionOnSet(TargetBytes, on(H)) + (IF Target[o] = v THEN TargetBytes[o] ELSE 0)
  <2>0. on(K) \in SUBSET Op /\ SumFunctionOnSet(TargetBytes, on(H)) \in Int
    BY Sizes, Finite, SumType, Nat \subseteq Int, on(H) \in SUBSET Op
  <2>1. CASE Target[o] = v
    <3>1. o \in on(K) /\ on(K) \ {o} = on(H)
      BY <2>1
    <3>2. SumFunctionOnSet(TargetBytes, on(K)) = TargetBytes[o] + SumFunctionOnSet(TargetBytes, on(K) \ {o})
      BY <2>0, <3>1, Sizes, Finite, SumRemove, Nat \subseteq Int
    <3>3. SumFunctionOnSet(TargetBytes, on(K)) = TargetBytes[o] + SumFunctionOnSet(TargetBytes, on(H))
      BY <3>1, <3>2, Zenon
    <3> HIDE DEF on, K
    <3> QED BY <1>1, <2>0, <2>1, <3>3
  <2>2. CASE Target[o] # v
    <3>1. on(K) = on(H)
      BY <2>2
    <3> HIDE DEF on
    <3> QED BY <2>0, <2>2, <3>1
  <2> QED BY <2>1, <2>2
<1> DEFINE h == SumFunctionOnSet(TargetBytes, on(H))
           k == SumFunctionOnSet(TargetBytes, on(K))
           s == SumFunctionOnSet(TargetBytes, on({o}))
<1>6. /\ ReservedOn(v, K) = (IF v = Root THEN ReservedRoot(K) ELSE 0) + k
      /\ ReservedOn(v, H) = (IF v = Root THEN ReservedRoot(H) ELSE 0) + h
      /\ ReservedOn(v, {o}) = (IF v = Root THEN ReservedRoot({o}) ELSE 0) + s
  BY DEF ReservedOn
<1>7. h \in Int /\ ReservedRoot(H) \in Int
  BY Sizes, Finite, SumType, ReservedTypes, Nat \subseteq Int, on(H) \in SUBSET Op
<1> HIDE DEF h, k, s, on, K
<1>8. /\ k = h + (IF Target[o] = v THEN TargetBytes[o] ELSE 0)
      /\ s = IF Target[o] = v THEN TargetBytes[o] ELSE 0
  BY <1>4, <1>5 DEF h, k, s
<1>9. ReservedOn(v, {o}) = (IF v = Root THEN RootBytes[o] ELSE 0)
                              + (IF Target[o] = v THEN TargetBytes[o] ELSE 0)
  BY <1>3, <1>6, <1>8
<1>10. ReservedOn(v, K) = ReservedOn(v, H) + ReservedOn(v, {o})
  BY <1>1, <1>2, <1>3, <1>6, <1>7, <1>8
<1> QED BY <1>2, <1>9, <1>10 DEF K

LEMMA OneWrites ==
  ASSUME NEW b \in [Item -> Nat], NEW w \in [Op -> Nat], NEW W \in SUBSET Op, NEW o \in Op \ W, NEW v
  PROVE  /\ RootLoad(b, W \cup {o}) <= RootLoad(b, W) + RootBytes[o]
         /\ VolumeLoad(b, w, W \cup {o}, v) <= VolumeLoad(b, w, W, v) + ReservedOn(v, {o})
<1> DEFINE f == RootClaim(b, W)
           g == RootClaim(b, W \cup {o})
           h == TargetClaim(w, W, v)
           k == TargetClaim(w, W \cup {o}, v)
<1>1. /\ \A i \in Item : f[i] \in Int /\ g[i] \in Int
      /\ \A i \in Op : h[i] \in Int /\ k[i] \in Int
  BY ClaimTypes, Nat \subseteq Int
<1>2. /\ \A i \in Item \ {o} : f[i] = g[i]
      /\ \A i \in Op \ {o} : h[i] = k[i]
  BY DEF RootClaim, TargetClaim
<1>3. /\ f[o] \in Nat /\ g[o] = RootBytes[o]
      /\ h[o] \in Nat /\ k[o] = IF Target[o] = v THEN TargetBytes[o] ELSE 0
  BY Sizes DEF RootClaim, TargetClaim, Item
<1> HIDE DEF f, g, h, k
<1>4. SumFunctionOnSet(g, Item) = SumFunctionOnSet(f, Item) - f[o] + g[o]
  BY <1>1, <1>2, Finite, SumDiffersAt DEF Item
<1>5. SumFunctionOnSet(k, Op) = SumFunctionOnSet(h, Op) - h[o] + k[o]
  BY <1>1, <1>2, Finite, SumDiffersAt
<1>6. SumFunctionOnSet(f, Item) \in Int /\ SumFunctionOnSet(h, Op) \in Int
  BY <1>1, Finite, SumType
<1>7. RootBytes[o] \in Nat /\ TargetBytes[o] \in Nat
  BY Sizes
<1>8. RootLoad(b, W \cup {o}) <= RootLoad(b, W) + RootBytes[o]
  <2>1. RootLoad(b, W \cup {o}) = SumFunctionOnSet(g, Item) /\ RootLoad(b, W) = SumFunctionOnSet(f, Item)
    BY DEF RootLoad, f, g
  <2> QED BY <1>3, <1>4, <1>6, <1>7, <2>1
<1>9. TargetLoad(w, W \cup {o}, v) <= TargetLoad(w, W, v) + (IF Target[o] = v THEN TargetBytes[o] ELSE 0)
  <2>1. TargetLoad(w, W \cup {o}, v) = SumFunctionOnSet(k, Op) /\ TargetLoad(w, W, v) = SumFunctionOnSet(h, Op)
    BY DEF TargetLoad, h, k
  <2> QED BY <1>3, <1>5, <1>6, <1>7, <2>1
<1>10. ReservedOn(v, {o}) = (IF v = Root THEN RootBytes[o] ELSE 0)
                              + (IF Target[o] = v THEN TargetBytes[o] ELSE 0)
  BY OneMore, {} \in SUBSET Op, o \in Op \ {}
<1>11. /\ RootLoad(b, W \cup {o}) \in Int /\ RootLoad(b, W) \in Int
       /\ TargetLoad(w, W \cup {o}, v) \in Int /\ TargetLoad(w, W, v) \in Int
  BY ClaimTypes, W \cup {o} \in SUBSET Op
<1> QED BY <1>7, <1>8, <1>9, <1>10, <1>11 DEF VolumeLoad

-----------------------------------------------------------------------------
(* The invariant: types and sizes; where a reservation is held; that what  *)
(* is measured, and what is reserved now, cover the load; and that what is *)
(* granted fits.                                                           *)

Sized(l) == l.used \in Nat /\ l.free \in [Volume -> Int] /\ l.acted \in BOOLEAN
Sizing ==
    /\ wrote \in [Op -> Nat] /\ reserved \in [Op -> Reservation]
    /\ \A o \in Op : bytes[o] <= RootBytes[o] /\ wrote[o] <= TargetBytes[o]
    /\ \A p \in Proc : Sized(proc[p])
    /\ due \in BOOLEAN /\ late \subseteq Proc /\ mishaps \in 0 .. MaxMishaps

Marks(l) == l.pc = "mark" => rows[l.cur] \in Kept
Working ==
    /\ \A o \in Op : proc[o].pc \in {"write", "release"} => reserved[o] = "held"
    /\ PastWriting
    /\ \A p \in Proc : Reaches(proc[p]) /\ Marks(proc[p])

(* The counters that Relies calls measured, and what each of them needs.   *)
Relying == (Collecting \ {"measure"}) \cup Admission
Covered(o, l) ==
    l.pc \in Relying =>
        /\ RootLoad(bytes, Writers) <= l.used + ReservedRoot(Held)
        /\ VolumeLoad(bytes, wrote, Writers, Root) <=
               Space[Root] - l.free[Root] + ReservedOn(Root, Held)
        /\ l.pc = "reserve" /\ TargetBytes[o] > 0 =>
               VolumeLoad(bytes, wrote, Writers, Target[o]) <=
                   Space[Target[o]] - l.free[Target[o]] + ReservedOn(Target[o], Held)
AllCovered == \A o \in Op : Covered(o, proc[o])
Fitting == \A o \in Writers :
    /\ RootLoad(bytes, Writers) <= Quota
    /\ \A v \in Volumes(o) : VolumeLoad(bytes, wrote, Writers, v) <= Space[v] - MinFree

(* The estimate of a collector is never above what is used.                *)
Estimating == Loop \cup {"mark"}
Estimated == late = {} => \A p \in Proc : proc[p].pc \in Estimating => proc[p].used <= Used

(* Whoever relies on a measurement after the step has it from before, or   *)
(* has just made it.                                                       *)
Keeps(q, l) ==
    /\ proc[q].pc \in Relying
    /\ l.pc \in Estimating => proc[q].pc \in Estimating
    /\ l.used = proc[q].used /\ l.free = proc[q].free
    /\ q \in Op /\ l.pc = "reserve" => proc[q].pc = "reserve" \/ TargetBytes[q] = 0
Fresh(q, l) ==
    /\ l.used = Used
    /\ q \in Op => /\ l.free[Root] = Free(Root)
                   /\ l.pc = "reserve" => TargetBytes[q] = 0
Targeted(q, l) ==
    /\ q \in Op /\ proc[q].pc = "free" /\ l.pc = "reserve"
    /\ l.used = proc[q].used /\ l.free = [proc[q].free EXCEPT ![Target[q]] = Free(Target[q])]
Follows(q, l) ==
    /\ l.pc = "write" => proc[q].pc = "write"
    /\ l.pc \in Relying => Keeps(q, l) \/ Fresh(q, l) \/ Targeted(q, l)
Still ==
    /\ UNCHANGED <<bytes, wrote>>
    /\ Held' = Held
    /\ late \subseteq late'
    /\ \A q \in Proc : Follows(q, proc'[q])

LEMMA RelyingPc ==
  /\ Relying = Loop \cup {"mark", "again", "free", "reserve"}
  /\ Estimating \subseteq Relying /\ "write" \notin Relying /\ "release" \notin Relying
  BY PcNames DEF Relying, Admission, Estimating

LEMMA UsedNat ==
  ASSUME NEW b \in [Item -> Nat]
  PROVE  SumFunction(b) = SumFunctionOnSet(b, Item) /\ SumFunction(b) \in Nat
<1> DEFINE z == [i \in Item |-> 0]
           v == SumFunctionOnSet(b, Item)
<1>1. SumFunctionOnSet(z, Item) = 0
  BY Finite, SumZero
<1>2. \A i \in Item : z[i] \in Int /\ b[i] \in Int /\ z[i] <= b[i]
  OBVIOUS
<1> HIDE DEF z
<1>3. SumFunctionOnSet(z, Item) <= v /\ v \in Int
  BY <1>2, Finite, SumMonotone, SumType
<1>4. SumFunction(b) = v
  BY DEF SumFunction
<1> HIDE DEF v
<1>5. v \in Nat
  BY <1>1, <1>3
<1> QED BY <1>4, <1>5 DEF v

LEMMA Measures ==
  ASSUME Shapes, Sizing
  PROVE  /\ Used \in Nat
         /\ \A v \in Volume : Free(v) \in Int
<1>4. Used \in Nat
  BY UsedNat DEF Used, Shapes
<1>5. ASSUME NEW v \in Volume
      PROVE  Free(v) \in Int
  <2>1. SumFunctionOnSet(wrote, {o \in Op : Target[o] = v}) \in Int
    BY Finite, SumType, Nat \subseteq Int, {o \in Op : Target[o] = v} \in SUBSET Op DEF Sizing
  <2> QED BY <1>4, <2>1, Sizes DEF Free
<1> QED BY <1>4, <1>5

LEMMA WritersHeld ==
  ASSUME Working
  PROVE  Writers \in SUBSET Held /\ Held \in SUBSET Op /\ Writers \in SUBSET Op
  BY DEF Working, Writers, Held, At

(* A measurement just made covers what is still to be written.             *)
LEMMA FreshCovers ==
  ASSUME Shapes, Sizing, Working
  PROVE  /\ RootLoad(bytes, Writers) <= Used + ReservedRoot(Held)
         /\ \A v \in Volume : VolumeLoad(bytes, wrote, Writers, v) <=
                                  Space[v] - Free(v) + ReservedOn(v, Held)
<1>1. bytes \in [Item -> Nat] /\ wrote \in [Op -> Nat]
  BY DEF Shapes, Sizing
<1>2. RootLoad(bytes, Writers) <= Used + ReservedRoot(Held)
  BY <1>1, WritersHeld, RootCovered DEF Used
<1>3. ASSUME NEW v \in Volume
      PROVE  VolumeLoad(bytes, wrote, Writers, v) <= Space[v] - Free(v) + ReservedOn(v, Held)
  <2> DEFINE w == SumFunctionOnSet(wrote, {o \in Op : Target[o] = v})
             h == SumFunctionOnSet(TargetBytes, {o \in Held : Target[o] = v})
  <2>1. TargetLoad(wrote, Writers, v) <= w + h
    <3>1. Writers \in SUBSET Held /\ Held \in SUBSET Op
      BY WritersHeld
    <3> QED BY <1>1, <3>1, TargetCovered
  <2>2. w \in Int /\ h \in Int
    BY <1>1, Sizes, Finite, SumType, Nat \subseteq Int, WritersHeld,
       {o \in Op : Target[o] = v} \in SUBSET Op, {o \in Held : Target[o] = v} \in SUBSET Op
  <2>3. /\ Free(v) = Space[v] - (IF v = Root THEN Used ELSE 0) - w
        /\ ReservedOn(v, Held) = (IF v = Root THEN ReservedRoot(Held) ELSE 0) + h
    BY DEF Free, ReservedOn
  <2>4. /\ RootLoad(bytes, Writers) \in Int /\ TargetLoad(wrote, Writers, v) \in Int
        /\ ReservedRoot(Held) \in Int /\ Used \in Int /\ Space[v] \in Int
    <3>1. Writers \in SUBSET Op /\ Held \in SUBSET Op
      BY WritersHeld
    <3>2. /\ RootLoad(bytes, Writers) \in Int /\ TargetLoad(wrote, Writers, v) \in Int
          /\ ReservedRoot(Held) \in Int
      BY <1>1, <3>1, ClaimTypes, ReservedTypes
    <3> QED BY <3>2, Measures, Sizes
  <2> HIDE DEF w, h
  <2> QED BY <1>2, <2>1, <2>2, <2>3, <2>4 DEF VolumeLoad
<1> QED BY <1>2, <1>3

LEMMA LoadTypes ==
  ASSUME Shapes, Sizing, Working
  PROVE  /\ RootLoad(bytes, Writers) \in Int
         /\ \A v : VolumeLoad(bytes, wrote, Writers, v) \in Int
         /\ ReservedRoot(Held) \in Int /\ \A v : ReservedOn(v, Held) \in Int
  BY WritersHeld, ClaimTypes, ReservedTypes DEF Shapes, Sizing

LEMMA FollowsCovers ==
  ASSUME Shapes, Sizing, Working, AllCovered, NEW o \in Op, NEW l, Sized(l), Follows(o, l)
  PROVE  Covered(o, l)
<1> SUFFICES ASSUME l.pc \in Relying PROVE Covered(o, l)
  BY DEF Covered
<1>0. o \in Proc /\ Covered(o, proc[o]) /\ Sized(proc[o]) /\ Target[o] \in Volume /\ Root \in Volume
  BY Sizes DEF Proc, AllCovered, Sizing
<1>1. CASE Keeps(o, l)
  BY <1>0, <1>1, Sizes DEF Keeps, Covered
<1>2. CASE Fresh(o, l)
  BY <1>0, <1>2, FreshCovers, Sizes DEF Fresh, Covered
<1>3. CASE Targeted(o, l)
  <2>1. proc[o].pc \in Relying
    BY <1>3, RelyingPc DEF Targeted
  <2>2. /\ l.free[Target[o]] = Free(Target[o])
        /\ l.free[Root] = IF Root = Target[o] THEN Free(Root) ELSE proc[o].free[Root]
    BY <1>0, <1>3 DEF Targeted, Sized
  <2> QED BY <1>0, <1>3, <2>1, <2>2, FreshCovers DEF Targeted, Covered
<1> QED BY <1>1, <1>2, <1>3 DEF Follows

(* Where no claim grows, no load does, and what was granted still fits.    *)
LEMMA LoadsEase ==
  ASSUME Shapes, Sizing, Shapes', Sizing', Writers' \subseteq Writers,
         \A i \in Item : RootClaim(bytes, Writers)'[i] <= RootClaim(bytes, Writers)[i],
         \A v \in Volume : \A o \in Op :
             TargetClaim(wrote, Writers, v)'[o] <= TargetClaim(wrote, Writers, v)[o]
  PROVE  /\ RootLoad(bytes, Writers)' <= RootLoad(bytes, Writers)
         /\ \A v \in Volume :
                VolumeLoad(bytes, wrote, Writers, v)' <= VolumeLoad(bytes, wrote, Writers, v)
         /\ RootLoad(bytes, Writers) \in Int /\ RootLoad(bytes, Writers)' \in Int
         /\ \A v \in Volume : /\ VolumeLoad(bytes, wrote, Writers, v) \in Int
                              /\ VolumeLoad(bytes, wrote, Writers, v)' \in Int
         /\ Fitting => Fitting'
<1>1. /\ bytes \in [Item -> Nat] /\ bytes' \in [Item -> Nat]
      /\ wrote \in [Op -> Nat] /\ wrote' \in [Op -> Nat]
      /\ Writers \in SUBSET Op /\ Writers' \in SUBSET Op
  BY DEF Shapes, Sizing, Writers
<1>2. /\ RootLoad(bytes, Writers)' <= RootLoad(bytes, Writers)
      /\ \A v \in Volume :
             VolumeLoad(bytes, wrote, Writers, v)' <= VolumeLoad(bytes, wrote, Writers, v)
  BY <1>1, Eases
<1>3. /\ RootLoad(bytes, Writers) \in Int /\ RootLoad(bytes, Writers)' \in Int
      /\ \A v \in Volume : /\ VolumeLoad(bytes, wrote, Writers, v) \in Int
                           /\ VolumeLoad(bytes, wrote, Writers, v)' \in Int
  BY <1>1, ClaimTypes
<1>4. Fitting => Fitting'
  <2> SUFFICES ASSUME Fitting, NEW o \in Writers'
               PROVE  /\ RootLoad(bytes, Writers)' <= Quota
                      /\ \A v \in Volumes(o) :
                             VolumeLoad(bytes, wrote, Writers, v)' <= Space[v] - MinFree
    BY DEF Fitting
  <2>1. o \in Writers /\ Volumes(o) \subseteq Volume
    BY Sizes DEF Volumes, Writers
  <2>2. /\ RootLoad(bytes, Writers) <= Quota
        /\ \A v \in Volumes(o) : VolumeLoad(bytes, wrote, Writers, v) <= Space[v] - MinFree
    BY <2>1 DEF Fitting
  <2> QED BY <1>2, <1>3, <2>1, <2>2, Sizes
<1> QED BY <1>2, <1>3, <1>4

(* A step under which no claim grows keeps what has been granted.          *)
LEMMA EasingStep ==
  ASSUME Shapes, Sizing, Working, Shapes', Sizing', Fitting, Writers' \subseteq Writers,
         \A i \in Item : RootClaim(bytes, Writers)'[i] <= RootClaim(bytes, Writers)[i],
         \A v \in Volume : \A o \in Op :
             TargetClaim(wrote, Writers, v)'[o] <= TargetClaim(wrote, Writers, v)[o],
         \A o \in Op : proc'[o].pc \in Relying => Held' = Held /\ Covered(o, proc'[o])
  PROVE  Fitting' /\ AllCovered'
<1>1. ASSUME NEW o \in Op
      PROVE  Covered(o, proc[o])'
  <2> SUFFICES ASSUME proc'[o].pc \in Relying PROVE Covered(o, proc[o])'
    BY DEF Covered
  <2>1. Held' = Held /\ Covered(o, proc'[o])
    OBVIOUS
  <2>2. Sized(proc'[o]) /\ Target[o] \in Volume /\ Root \in Volume
    BY Sizes DEF Sizing, Proc
  <2>3. ReservedRoot(Held) \in Int /\ \A v : ReservedOn(v, Held) \in Int
    BY LoadTypes
  <2>4. /\ proc'[o].used \in Int /\ proc'[o].free[Root] \in Int /\ proc'[o].free[Target[o]] \in Int
        /\ Space[Root] \in Int /\ Space[Target[o]] \in Int
    BY <2>2, Sizes DEF Sized
  <2> QED BY <2>1, <2>2, <2>3, <2>4, LoadsEase DEF Covered
<1> QED BY <1>1, LoadsEase DEF AllCovered

-----------------------------------------------------------------------------
(* Steps under which nobody writes: the loads are the same.                *)

LEMMA FollowsItself ==
  ASSUME Shapes, NEW q \in Proc, proc[q].pc # "measure"
  PROVE  Follows(q, proc[q])
  BY DEF Follows, Keeps

LEMMA QuietCounts ==
  ASSUME NEW p \in Proc, NEW l, Shapes, Sizing, Working, Quiet(p, l), Sized(l), Follows(p, l),
         l.pc \notin {"write", "release"},
         UNCHANGED wrote, reserved' \in [Op -> Reservation], Held' = Held,
         due' \in BOOLEAN, mishaps' \in 0 .. MaxMishaps
  PROVE  Sizing' /\ Working' /\ Still
<1>1. proc'[p] = l /\ (\A q \in Proc \ {p} : proc'[q] = proc[q])
  BY DEF Quiet, Moves, Shapes
<1>2. UNCHANGED <<bytes, rows, late>>
  BY DEF Quiet, Moves
<1>3. Sizing'
  BY <1>1, <1>2 DEF Sizing, Sized
<1>4. Working'
  <2>1. ASSUME NEW o \in Op, proc'[o].pc \in {"write", "release"}
        PROVE  reserved'[o] = "held"
    <3>1. proc'[o] = proc[o]
      BY <1>1, <2>1 DEF Proc
    <3>2. o \in Held
      BY <2>1, <3>1 DEF Working, Held
    <3> QED BY <3>2 DEF Held
  <2>2. PastWriting'
    <3>1. ASSUME NEW o \in Op, proc[o].pc \in Past
          PROVE  proc'[o].pc \in Past
      <4>1. o \in Proc
        BY DEF Proc
      <4> QED BY <1>1, <3>1, <4>1 DEF Quiet
    <3> QED BY <1>2, <3>1 DEF Working, PastWriting
  <2>3. ASSUME NEW q \in Proc
        PROVE  Reaches(proc[q])' /\ Marks(proc[q])'
    <3>1. Reaches(proc[q]) /\ Marks(proc[q])
      BY DEF Working
    <3> QED BY <1>1, <1>2, <3>1 DEF Quiet, Reaches, Marks
  <2> QED BY <2>1, <2>2, <2>3 DEF Working
<1>5. Still
  <2>1. \A q \in Proc : Follows(q, proc'[q])
    BY <1>1 DEF Follows, Keeps
  <2> QED BY <1>2, <2>1 DEF Still
<1> QED BY <1>3, <1>4, <1>5

LEMMA HeldStays ==
  ASSUME Sizing
  PROVE  /\ reserved' = reserved => reserved' \in [Op -> Reservation] /\ Held' = Held
         /\ reserved' = WithoutExpired => reserved' \in [Op -> Reservation] /\ Held' = Held
  BY DEF Sizing, Held, WithoutExpired, Expired, Reservation

LEMMA MovedTo ==
  ASSUME NEW p \in Proc, NEW l, Shapes, proc' = [proc EXCEPT ![p] = l]
  PROVE  proc'[p] = l
  BY DEF Shapes

LEMMA QuietIs ==
  ASSUME NEW p \in Proc, Shapes, \E l : Quiet(p, l)
  PROVE  Quiet(p, proc'[p])
  BY OthersStay DEF Quiet

LEMMA NoLocalSized == Sized(NoLocal)
  BY DEF Sized, NoLocal

LEMMA ChangedSized ==
  ASSUME NEW l, Shaped(l), Sized(l), NEW pc
  PROVE  /\ Sized([l EXCEPT !.pc = pc])
         /\ [l EXCEPT !.pc = pc].used = l.used /\ [l EXCEPT !.pc = pc].free = l.free
  BY DEF Shaped, Field, Sized

LEMMA MeasuredSized ==
  ASSUME NEW p \in Proc, Shapes, Sizing
  PROVE  /\ Shaped(Measured(p)) /\ Sized(Measured(p))
         /\ Measured(p).used = Used
         /\ p \in Op => Measured(p).free[Root] = Free(Root)
<1> DEFINE free == IF p \in Sweeper THEN proc[p].free[Root] ELSE Free(Root)
<1>1. Shaped(proc[p]) /\ Sized(proc[p])
  BY DEF Shapes, Sizing
<1>2. Measured(p) = [proc[p] EXCEPT !.used = Used, !.free[Root] = free]
  BY <1>1 DEF Measured, Shaped, Field
<1>3. Used \in Nat /\ free \in Int
  BY <1>1, Measures, Sizes DEF Sized
<1>4. p \in Op => free = Free(Root)
  BY KindsApart
<1> HIDE DEF free
<1>5. Measured(p).used = Used /\ Measured(p).acted = proc[p].acted
      /\ Measured(p).free = [proc[p].free EXCEPT ![Root] = free]
  BY <1>1, <1>2 DEF Shaped, Field
<1>6. Measured(p).free \in [Volume -> Int] /\ Measured(p).free[Root] = free
  BY <1>1, <1>3, <1>5, Sizes DEF Sized
<1> QED BY <1>1, <1>3, <1>4, <1>5, <1>6, MeasuredShaped DEF Sized

LEMMA AfterPruneFresh ==
  ASSUME NEW p \in Proc
  PROVE  /\ AfterPrune(p) \in {"idle", "free", "reserve"}
         /\ p \in Op /\ AfterPrune(p) = "reserve" => TargetBytes[p] = 0
  BY KindsApart, Sizes DEF AfterPrune

Counts(p) == Sizing' /\ Working' /\ Still

LEMMA AcquireLeaseCounts ==
  ASSUME NEW p \in Proc, Shapes, Sizing, Working, AcquireLease(p)
  PROVE  Counts(p)
<1> DEFINE pc == IF LeaseFree THEN "measure" ELSE "look"
           l == [proc[p] EXCEPT !.pc = pc]
<1>1. proc' = [proc EXCEPT ![p] = l]
  BY DEF AcquireLease, Goto
<1>2. Shaped(proc[p]) /\ Sized(proc[p]) /\ pc \in {"measure", "look"}
  BY DEF Shapes, Sizing
<1>3. Sized(l) /\ l.pc = pc
  BY <1>2, ChangedSized DEF Shaped, Field
<1>4. Follows(p, l) /\ l.pc \notin {"write", "release"}
  BY <1>2, <1>3, RelyingPc, PcNames DEF Follows
<1> HIDE DEF l
<1>5. Quiet(p, l)
  BY <1>1, AcquireLeaseQuiet, QuietIs, MovedTo
<1> QED BY <1>3, <1>4, <1>5, QuietCounts, HeldStays DEF AcquireLease, disk, Sizing, Counts

LEMMA LookCounts ==
  ASSUME NEW p \in Proc, Shapes, Sizing, Working, Look(p)
  PROVE  Counts(p)
<1> DEFINE l == IF p \in Sweeper THEN NoLocal ELSE [Measured(p) EXCEPT !.pc = AfterPrune(p)]
<1>1. proc' = [proc EXCEPT ![p] = l]
  BY DEF Look
<1>2. Sized(l) /\ l.pc \notin {"write", "release"} /\ Follows(p, l)
  <2>1. CASE p \in Sweeper
    BY <2>1, NoLocalSized, NoLocalShaped, RelyingPc, PcNames DEF Follows
  <2>2. CASE p \notin Sweeper
    <3>1. /\ Sized(l) /\ l.used = Used /\ l.pc = AfterPrune(p)
          /\ p \in Op => l.free[Root] = Free(Root)
      BY <2>2, MeasuredSized, ChangedSized DEF Shaped, Field
    <3> HIDE DEF l
    <3> QED BY <3>1, AfterPruneFresh DEF Follows, Fresh
  <2> QED BY <2>1, <2>2
<1> HIDE DEF l
<1>3. Quiet(p, l)
  BY <1>1, LookQuiet, QuietIs, MovedTo
<1> QED BY <1>2, <1>3, QuietCounts, HeldStays DEF Look, disk, Sizing, Counts

LEMMA SurveyCounts ==
  ASSUME NEW p \in Proc, Shapes, Sizing, Working, Survey(p)
  PROVE  Counts(p)
<1> DEFINE l == [Measured(p) EXCEPT !.pc = "contents", !.list = Candidates("contents")]
<1>1. proc' = [proc EXCEPT ![p] = l]
  BY DEF Survey
<1>2. Sized(l) /\ l.pc = "contents" /\ l.used = Used /\ (p \in Op => l.free[Root] = Free(Root))
  BY MeasuredSized DEF Shaped, Field, Sized
<1> HIDE DEF l
<1>3. Follows(p, l)
  BY <1>2 DEF Follows, Fresh
<1>4. Quiet(p, l)
  BY <1>1, SurveyQuiet, QuietIs, MovedTo
<1> QED BY <1>2, <1>3, <1>4, QuietCounts, HeldStays DEF Survey, disk, Sizing, Counts

LEMMA EntersLoop ==
  ASSUME NEW p \in Proc, Shapes, Sizing, proc[p].pc \in Loop, NEW loop \in Loop, NEW acted \in BOOLEAN,
         NEW l, l = [EnterLoop(p, loop) EXCEPT !.acted = acted] \/ l = EnterLoop(p, loop)
  PROVE  Sized(l) /\ l.pc = loop /\ Follows(p, l) /\ l.pc \notin {"write", "release"}
<1>1. Shaped(proc[p]) /\ Sized(proc[p])
  BY DEF Shapes, Sizing
<1>2. EnterLoop(p, loop) = [proc[p] EXCEPT !.pc = loop, !.list = Candidates(loop)]
  BY DEF EnterLoop
<1>3. Sized(l) /\ l.pc = loop /\ l.used = proc[p].used /\ l.free = proc[p].free
  BY <1>1, <1>2 DEF Shaped, Field, Sized
<1> QED BY <1>3, RelyingPc, PcNames DEF Follows, Keeps, Estimating

LEMMA ConcludeCounts ==
  ASSUME NEW p \in Proc, Shapes, Sizing, Working, NEW acted \in BOOLEAN, Conclude(p, acted),
         proc[p].pc \in Loop, UNCHANGED <<disk, rows, age, late, mishaps>>,
         reserved' \in [Op -> Reservation], Held' = Held
  PROVE  Counts(p)
<1> DEFINE m == IF p \in Sweeper THEN NoLocal
                ELSE [proc[p] EXCEPT !.pc = AfterPrune(p), !.list = {}]
           l == IF acted THEN [proc[p] EXCEPT !.pc = "again"] ELSE m
<1>0. Shaped(proc[p]) /\ Sized(proc[p]) /\ proc[p].pc \in Relying
  BY RelyingPc DEF Shapes, Sizing
<1>1. proc' = [proc EXCEPT ![p] = l] /\ due' = FALSE
  BY DEF Conclude, Goto
<1>2. Sized(l) /\ l.pc \notin {"write", "release"} /\ Follows(p, l)
  <2>1. CASE acted
    <3>1. Sized(l) /\ l.pc = "again" /\ l.used = proc[p].used /\ l.free = proc[p].free
      BY <1>0, <2>1, ChangedSized DEF Shaped, Field
    <3> HIDE DEF l
    <3> QED BY <1>0, <3>1, RelyingPc, PcNames DEF Follows, Keeps, Estimating
  <2>2. CASE ~acted /\ p \in Sweeper
    BY <2>2, NoLocalSized, NoLocalShaped, RelyingPc, PcNames DEF Follows
  <2>3. CASE ~acted /\ p \notin Sweeper
    <3>1. Sized(l) /\ l.pc = AfterPrune(p) /\ l.used = proc[p].used /\ l.free = proc[p].free
      BY <1>0, <2>3 DEF Shaped, Field, Sized
    <3> HIDE DEF l
    <3> QED BY <1>0, <3>1, AfterPruneFresh, PcNames DEF Follows, Keeps, Estimating
  <2> QED BY <2>1, <2>2, <2>3
<1> HIDE DEF l
<1>3. Quiet(p, l)
  BY <1>1, ConcludeQuiet, QuietIs, MovedTo
<1> QED BY <1>1, <1>2, <1>3, QuietCounts DEF disk, Sizing, Counts

LEMMA EndLogRowsCounts ==
  ASSUME NEW p \in Proc, Shapes, Sizing, Working, EndLogRows(p)
  PROVE  Counts(p)
<1> DEFINE acted == proc[p].acted \/ Expired # {}
<1>0. proc[p].pc \in Loop /\ acted \in BOOLEAN /\ reserved' \in [Op -> Reservation] /\ Held' = Held
  BY HeldStays, PcNames DEF EndLogRows, At, Sizing, Sized
<1>1. CASE proc[p].used > Quota
  <2> DEFINE l == [EnterLoop(p, "quotaoutputs") EXCEPT !.acted = acted]
  <2>1. proc' = [proc EXCEPT ![p] = l] /\ due' = due
    BY <1>1 DEF EndLogRows
  <2>2. Sized(l) /\ Follows(p, l) /\ l.pc \notin {"write", "release"}
    <3> HIDE DEF acted
    <3> QED BY <1>0, EntersLoop, PcNames
  <2> HIDE DEF l
  <2>3. Quiet(p, l)
    BY <2>1, EndLogRowsQuiet, QuietIs, MovedTo
  <2> QED BY <1>0, <2>1, <2>2, <2>3, QuietCounts DEF EndLogRows, disk, Sizing, Counts
<1>2. CASE ~(proc[p].used > Quota)
  <2>1. Conclude(p, acted)
    BY <1>2 DEF EndLogRows
  <2> HIDE DEF acted
  <2> QED BY <1>0, <2>1, ConcludeCounts DEF EndLogRows
<1> QED BY <1>1, <1>2

LEMMA EndQuotaOutputsCounts ==
  ASSUME NEW p \in Proc, Shapes, Sizing, Working, EndQuotaOutputs(p)
  PROVE  Counts(p)
<1> DEFINE l == EnterLoop(p, "quotalogs")
<1>1. proc' = [proc EXCEPT ![p] = l] /\ proc[p].pc \in Loop
  BY PcNames DEF EndQuotaOutputs, At
<1>2. Sized(l) /\ Follows(p, l) /\ l.pc \notin {"write", "release"}
  BY <1>1, EntersLoop, PcNames
<1> HIDE DEF l
<1>3. Quiet(p, l)
  BY <1>1, EndQuotaOutputsQuiet, QuietIs, MovedTo
<1> QED BY <1>2, <1>3, QuietCounts, HeldStays DEF EndQuotaOutputs, disk, Sizing, Counts

LEMMA EndQuotaLogsCounts ==
  ASSUME NEW p \in Proc, Shapes, Sizing, Working, EndQuotaLogs(p)
  PROVE  Counts(p)
<1>1. proc[p].pc \in Loop /\ proc[p].acted \in BOOLEAN
  BY PcNames DEF EndQuotaLogs, At, Sizing, Sized
<1> QED BY <1>1, ConcludeCounts, HeldStays DEF EndQuotaLogs

LEMMA MeasureAgainCounts ==
  ASSUME NEW p \in Proc, Shapes, Sizing, Working, MeasureAgain(p)
  PROVE  Counts(p)
<1> DEFINE l == IF p \in Sweeper THEN NoLocal
                ELSE [Measured(p) EXCEPT !.pc = AfterPrune(p), !.list = {}, !.acted = FALSE]
<1>1. proc' = [proc EXCEPT ![p] = l]
  BY DEF MeasureAgain
<1>2. Sized(l) /\ l.pc \notin {"write", "release"} /\ Follows(p, l)
  <2>1. CASE p \in Sweeper
    BY <2>1, NoLocalSized, NoLocalShaped, RelyingPc, PcNames DEF Follows
  <2>2. CASE p \notin Sweeper
    <3>1. /\ Sized(l) /\ l.used = Used /\ l.pc = AfterPrune(p)
          /\ p \in Op => l.free[Root] = Free(Root)
      BY <2>2, MeasuredSized DEF Shaped, Field, Sized
    <3> HIDE DEF l
    <3> QED BY <3>1, AfterPruneFresh DEF Follows, Fresh
  <2> QED BY <2>1, <2>2
<1> HIDE DEF l
<1>3. Quiet(p, l)
  BY <1>1, MeasureAgainQuiet, QuietIs, MovedTo
<1> QED BY <1>2, <1>3, QuietCounts, HeldStays DEF MeasureAgain, disk, Sizing, Counts

LEMMA MeasureTargetCounts ==
  ASSUME NEW o \in Op, Shapes, Sizing, Working, MeasureTarget(o)
  PROVE  Counts(o)
<1> DEFINE l == [proc[o] EXCEPT !.pc = "reserve", !.free[Target[o]] = Free(Target[o])]
<1>0. o \in Proc /\ Shaped(proc[o]) /\ Sized(proc[o]) /\ Free(Target[o]) \in Int
  BY Measures, Sizes DEF Shapes, Sizing, Proc
<1>1. proc' = [proc EXCEPT ![o] = l] /\ proc[o].pc = "free"
  BY <1>0 DEF MeasureTarget, At
<1>2. /\ l.pc = "reserve" /\ l.used = proc[o].used /\ l.acted = proc[o].acted
      /\ l.free = [proc[o].free EXCEPT ![Target[o]] = Free(Target[o])]
  BY <1>0 DEF Shaped, Field
<1> HIDE DEF l
<1>3. Sized(l)
  BY <1>0, <1>2 DEF Sized
<1>4. Follows(o, l)
  BY <1>1, <1>2 DEF Follows, Targeted
<1>5. Quiet(o, l)
  BY <1>0, <1>1, MeasureTargetQuiet, QuietIs, MovedTo
<1> QED BY <1>0, <1>2, <1>3, <1>4, <1>5, QuietCounts, HeldStays DEF MeasureTarget, disk, Sizing, Counts

LEMMA CrashCounts ==
  ASSUME NEW p \in Proc, Shapes, Sizing, Working, Crash(p)
  PROVE  Counts(p)
<1> DEFINE pc == IF p \in Sweeper THEN "idle" ELSE "dead"
           l == [NoLocal EXCEPT !.pc = pc]
<1>1. proc' = [proc EXCEPT ![p] = l]
  BY DEF Crash
<1>2. Sized(l) /\ l.pc = pc
  BY NoLocalShaped, NoLocalSized, ChangedSized DEF Shaped, Field
<1>3. l.pc \notin {"write", "release"} /\ Follows(p, l)
  BY <1>2, RelyingPc, PcNames DEF Follows
<1> HIDE DEF l
<1>4. Quiet(p, l)
  BY <1>1, CrashQuiet, QuietIs, MovedTo
<1>5. mishaps' \in 0 .. MaxMishaps
  BY StorageAssumption DEF Crash, Mishap, Sizing
<1> QED BY <1>2, <1>3, <1>4, <1>5, QuietCounts, HeldStays DEF Crash, disk, Sizing, Counts

LEMMA RowsCount ==
  ASSUME NEW p \in Proc, NEW l, Shapes, Sizing, Working,
         proc' = [proc EXCEPT ![p] = l], Sized(l), Follows(p, l),
         UNCHANGED <<bytes, wrote, reserved, due, late, mishaps>>,
         \A i \in Item : rows[i] \in Kept => rows'[i] \in Kept,
         \A o \in Op \ {p} : rows'[o] \in Kept => rows[o] \in Kept,
         p \in Op /\ rows'[p] \in Kept => l.pc \in Past,
         l.list \subseteq proc[p].list \/ \A i \in l.list : rows'[i] \in Kept,
         l.list \subseteq Item, l.pc # "mark",
         l.pc \in {"write", "release"} => proc[p].pc \in {"write", "release"}
  PROVE  Counts(p)
<1>1. proc'[p] = l /\ (\A q \in Proc \ {p} : proc'[q] = proc[q])
  BY DEF Shapes
<1>2. Sizing'
  BY <1>1 DEF Sizing, Sized
<1>3. Working'
  <2>1. ASSUME NEW o \in Op, proc'[o].pc \in {"write", "release"}
        PROVE  reserved'[o] = "held"
    BY <1>1, <2>1 DEF Working, Proc
  <2>2. PastWriting'
    BY <1>1 DEF Working, PastWriting, Proc
  <2>3. ASSUME NEW q \in Proc
        PROVE  Reaches(proc[q])' /\ Marks(proc[q])'
    <3>1. Reaches(proc[q]) /\ Marks(proc[q]) /\ Shaped(proc[q]) /\ Reaches(proc[p]) /\ Shaped(proc[p])
      BY DEF Working, Shapes
    <3>2. CASE q = p
      BY <1>1, <3>1, <3>2 DEF Reaches, Marks, Shaped
    <3>3. CASE q # p
      BY <1>1, <3>1, <3>3 DEF Reaches, Marks, Shaped
    <3> QED BY <3>2, <3>3
  <2> QED BY <2>1, <2>2, <2>3 DEF Working
<1>4. Still
  <2>1. \A q \in Proc : Follows(q, proc'[q])
    BY <1>1 DEF Follows, Keeps
  <2>2. Held' = Held
    BY DEF Held
  <2> QED BY <2>1, <2>2 DEF Still
<1> QED BY <1>2, <1>3, <1>4 DEF Counts

LEMMA MarkRowCounts ==
  ASSUME NEW p \in Proc, Shapes, Sizing, Working, MarkRow(p)
  PROVE  Counts(p)
<1> DEFINE i == proc[p].cur
           l == [proc[p] EXCEPT !.pc = proc[p].from, !.from = "none", !.cur = "none",
                                !.list = @ \ {i}]
<1>1. proc' = [proc EXCEPT ![p] = l] /\ UNCHANGED <<bytes, wrote, reserved, due, late, mishaps>>
  BY DEF MarkRow, disk
<1>2. /\ proc[p].pc = "mark" /\ i \in Item /\ proc[p].from \in Loop /\ rows[i] \in Kept
      /\ Shaped(proc[p]) /\ Sized(proc[p])
  BY DEF MarkRow, At, Shapes, Shaped, Working, Marks, Sizing
<1>3. /\ \A k \in Item \ {i} : rows'[k] = rows[k]
      /\ rows'[i] \in Kept
  BY <1>2 DEF MarkRow, Shapes, RowState, Kept
<1>4. /\ l.pc = proc[p].from /\ l.list = proc[p].list \ {i}
      /\ l.used = proc[p].used /\ l.free = proc[p].free /\ l.acted = proc[p].acted
  BY <1>2 DEF Shaped, Field
<1> HIDE DEF l
<1>5. Sized(l)
  BY <1>2, <1>4 DEF Sized
<1>6. Follows(p, l) /\ l.pc \notin {"mark", "write", "release"}
  BY <1>2, <1>4, RelyingPc, PcNames DEF Follows, Keeps, Estimating
<1>7. p \in Op => rows'[p] \notin Kept
  <2> HAVE p \in Op
  <2>1. rows[p] \notin Kept
    BY <1>2 DEF Working, PastWriting, Past
  <2> QED BY <1>2, <1>3, <2>1 DEF Item
<1>8. /\ \A k \in Item : rows[k] \in Kept => rows'[k] \in Kept
      /\ \A o \in Op : rows'[o] \in Kept => rows[o] \in Kept
  BY <1>2, <1>3 DEF Item
<1>9. l.list \subseteq Item /\ l.list \subseteq proc[p].list
  BY <1>2, <1>4 DEF Shaped
<1> HIDE DEF i
<1> QED BY <1>1, <1>5, <1>6, <1>7, <1>8, <1>9, RowsCount

LEMMA EndContentsCounts ==
  ASSUME NEW p \in Proc, Shapes, Sizing, Working, EndContents(p)
  PROVE  Counts(p)
<1> DEFINE acted == proc[p].acted \/ OldOutputRows # {}
           l == [EnterLoop(p, "logrows") EXCEPT !.acted = acted]
<1>0. /\ proc[p].pc = "contents" /\ proc[p].pc \in Loop /\ acted \in BOOLEAN
      /\ Shaped(proc[p]) /\ Sized(proc[p])
  BY PcNames DEF EndContents, At, Sizing, Sized, Shapes
<1>1. proc' = [proc EXCEPT ![p] = l] /\ UNCHANGED <<bytes, wrote, reserved, due, late, mishaps>>
  <2>1. EnterLoop(p, "logrows").acted = proc[p].acted
    BY <1>0 DEF EnterLoop, Shaped, Field
  <2> QED BY <2>1 DEF EndContents, disk
<1>2. l.list = Candidates("logrows")
  <2> HIDE DEF acted
  <2> QED BY <1>0 DEF EnterLoop, Shaped, Field
<1>3. Sized(l) /\ l.pc = "logrows" /\ Follows(p, l)
  <2> HIDE DEF acted
  <2> QED BY <1>0, EntersLoop, PcNames
<1> HIDE DEF l
<1>4. \A i \in Item : rows'[i] \in Kept <=> rows[i] \in Kept
  BY DEF EndContents, OldOutputRows, Kept
<1>5. l.list \subseteq Item /\ \A i \in l.list : rows'[i] \in Kept
  BY <1>2, <1>4, CandidatesKept, PcNames
<1>6. p \in Op => rows[p] \notin Kept
  BY <1>0 DEF Working, PastWriting, Past
<1> QED BY <1>1, <1>3, <1>4, <1>5, <1>6, RowsCount DEF Item

LEMMA InsertJobCounts ==
  ASSUME NEW o \in Op, Shapes, Sizing, Working, InsertJob(o)
  PROVE  Counts(o)
<1>1. /\ rows[o] = "none" /\ proc[o].pc = "write"
      /\ \A i \in Item : rows'[i] = IF i = o THEN "active" ELSE rows[i]
      /\ UNCHANGED <<bytes, wrote, reserved, due, late, mishaps, proc>>
  BY DEF InsertJob, Shapes, Item, disk, At
<1>2. o \in Proc /\ o \in Item /\ Shaped(proc[o]) /\ Sized(proc[o])
  BY DEF Proc, Item, Shapes, Sizing
<1>3. proc' = [proc EXCEPT ![o] = proc[o]]
  BY <1>1, <1>2 DEF Shapes
<1>4. Follows(o, proc[o])
  BY <1>1, RelyingPc DEF Follows
<1> QED BY <1>1, <1>2, <1>3, <1>4, RowsCount DEF Kept, Item, Shaped

LEMMA RecordCounts ==
  ASSUME NEW o \in Op, Shapes, Sizing, Working, Record(o)
  PROVE  Counts(o)
<1> DEFINE l == [proc[o] EXCEPT !.pc = "release"]
<1>1. proc' = [proc EXCEPT ![o] = l] /\ UNCHANGED <<bytes, wrote, reserved, due, late, mishaps>>
  BY DEF Record, Goto, disk
<1>2. o \in Proc /\ o \in Item /\ Shaped(proc[o]) /\ Sized(proc[o]) /\ proc[o].pc = "write"
  BY DEF Proc, Item, Shapes, Sizing, Record, At
<1>3. l.pc = "release" /\ l.list = proc[o].list /\ Sized(l)
  BY <1>2, ChangedSized DEF Shaped, Field
<1> HIDE DEF l
<1>4. \A i \in Item : rows'[i] = rows[i] \/ (i = o /\ rows'[i] = "live")
  BY DEF Record, Shapes
<1>5. Follows(o, l)
  BY <1>3, RelyingPc DEF Follows
<1> QED BY <1>1, <1>2, <1>3, <1>4, <1>5, RowsCount DEF Kept, Past, Item, Shaped

LEMMA IdleCounts ==
  ASSUME Shapes, Sizing, Working, DeadLeaseEnds \/ LeaseOverrun \/ IntervalPasses \/ UNCHANGED vars
  PROVE  Sizing' /\ Working' /\ Still
<1>1. UNCHANGED <<bytes, wrote, rows, reserved, proc>>
  BY DEF DeadLeaseEnds, LeaseOverrun, IntervalPasses, vars, disk
<1>2. due' \in BOOLEAN /\ late \subseteq late' /\ late' \subseteq Proc /\ mishaps' \in 0 .. MaxMishaps
  <2>1. due \in BOOLEAN /\ late \subseteq Proc /\ mishaps \in 0 .. MaxMishaps /\ MaxMishaps \in Nat
    BY StorageAssumption DEF Sizing
  <2>2. CASE LeaseOverrun
    BY <2>1, <2>2 DEF LeaseOverrun, Mishap
  <2>3. CASE DeadLeaseEnds \/ IntervalPasses \/ UNCHANGED vars
    BY <2>1, <2>3 DEF DeadLeaseEnds, IntervalPasses, vars
  <2> QED BY <2>2, <2>3
<1>3. Sizing'
  BY <1>1, <1>2 DEF Sizing, Sized
<1>4. Working'
  BY <1>1 DEF Working, PastWriting, Reaches, Marks
<1>5. Still
  BY <1>1, <1>2 DEF Still, Held, Follows, Keeps
<1> QED BY <1>3, <1>4, <1>5

(* What such a step keeps.                                                 *)
LEMMA Eased ==
  ASSUME Shapes, Sizing, Shapes', Sizing', Writers' \subseteq Writers,
         \A i \in Item \ Writers : bytes'[i] <= bytes[i],
         \A o \in Op \ Writers : wrote'[o] <= wrote[o]
  PROVE  /\ \A i \in Item : RootClaim(bytes, Writers)'[i] <= RootClaim(bytes, Writers)[i]
         /\ \A v \in Volume : \A o \in Op :
                TargetClaim(wrote, Writers, v)'[o] <= TargetClaim(wrote, Writers, v)[o]
<1>1. Writers \subseteq Op
  BY DEF Writers
<1>2. ASSUME NEW i \in Item
      PROVE  RootClaim(bytes, Writers)'[i] <= RootClaim(bytes, Writers)[i]
  <2>1. bytes[i] \in Nat /\ bytes'[i] \in Nat
    BY DEF Shapes
  <2>2. i \in Op => RootBytes[i] \in Nat /\ bytes'[i] <= RootBytes[i]
    BY Sizes DEF Sizing
  <2> QED BY <1>1, <2>1, <2>2 DEF RootClaim
<1>3. ASSUME NEW v \in Volume, NEW o \in Op
      PROVE  TargetClaim(wrote, Writers, v)'[o] <= TargetClaim(wrote, Writers, v)[o]
  <2>1. wrote[o] \in Nat /\ wrote'[o] \in Nat /\ TargetBytes[o] \in Nat /\ wrote'[o] <= TargetBytes[o]
    BY Sizes DEF Sizing
  <2> QED BY <2>1 DEF TargetClaim
<1> QED BY <1>2, <1>3

Granted == Fitting /\ AllCovered

LEMMA StillGrants ==
  ASSUME Shapes, Sizing, Working, Shapes', Sizing', Working', Still
  PROVE  (Granted => Granted') /\ (Estimated => Estimated')
<1>1. Granted => Granted'
  <2> HAVE Granted
  <2>1. Writers' \subseteq Writers
    BY DEF Still, Follows, Writers, At, Proc
  <2>2. /\ \A i \in Item \ Writers : bytes'[i] <= bytes[i]
        /\ \A o \in Op \ Writers : wrote'[o] <= wrote[o]
    BY DEF Still, Shapes, Sizing
  <2>3. ASSUME NEW o \in Op
        PROVE  Covered(o, proc'[o])
    <3>1. Follows(o, proc'[o]) /\ Sized(proc'[o])
      BY DEF Still, Sizing, Proc
    <3> QED BY <3>1, FollowsCovers DEF Granted
  <2> QED BY <2>1, <2>2, <2>3, Eased, EasingStep DEF Granted, Still
<1>2. Estimated => Estimated'
  <2> SUFFICES ASSUME Estimated, late' = {}, NEW p \in Proc, proc'[p].pc \in Estimating
               PROVE  proc'[p].used <= Used'
    BY DEF Estimated
  <2>1. late = {} /\ Used' = Used /\ Follows(p, proc'[p]) /\ Used \in Nat
    BY Measures DEF Still, Used
  <2>2. proc'[p].pc \in Relying /\ proc'[p].pc # "reserve"
    BY RelyingPc, PcNames DEF Estimating
  <2> QED BY <2>1, <2>2 DEF Follows, Keeps, Fresh, Targeted, Estimated
<1> QED BY <1>1, <1>2

-----------------------------------------------------------------------------
(* Steps that change the disk.                                             *)

(* Nothing goes between a measurement and its use.                         *)
Steady == "stale" \notin Faults

LEMMA ShapesStep == Shapes /\ Leased /\ [Next]_vars => Shapes'
  BY LeaseStep

(* Only the disk changes, and the process moves on.                        *)
LEMMA DiskWorking ==
  ASSUME NEW p \in Proc, NEW l, Shapes, Working, proc' = [proc EXCEPT ![p] = l],
         UNCHANGED <<rows, reserved>>, Reaches(l), Marks(l),
         p \in Op /\ proc[p].pc \in Past => l.pc \in Past,
         p \in Op /\ l.pc \in {"write", "release"} => proc[p].pc \in {"write", "release"}
  PROVE  Working'
<1>1. proc'[p] = l /\ (\A q \in Proc \ {p} : proc'[q] = proc[q])
  BY DEF Shapes
<1>2. \A o \in Op : proc'[o].pc \in {"write", "release"} => reserved'[o] = "held"
  BY <1>1 DEF Working, Proc
<1>3. PastWriting'
  BY <1>1 DEF Working, PastWriting, Proc
<1>4. ASSUME NEW q \in Proc
      PROVE  Reaches(proc[q])' /\ Marks(proc[q])'
  <2>1. Reaches(proc[q]) /\ Marks(proc[q])
    BY DEF Working
  <2> QED BY <1>1, <2>1 DEF Reaches, Marks
<1> QED BY <1>2, <1>3, <1>4 DEF Working

LEMMA Excluded ==
  ASSUME Shapes, Leased, late = {}, NEW p \in Proc, NEW q \in Proc,
         proc[p].pc \in Estimating, proc[q].pc \in Estimating
  PROVE  p = q
  BY PcNames DEF Leased, Estimating

LEMMA RemoveContentsCounts ==
  ASSUME NEW p \in Proc, Shapes, Leased, Sizing, Working, Shapes', RemoveContents(p)
  PROVE  /\ Sizing' /\ Working'
         /\ Granted => Granted'
         /\ Estimated => Estimated'
<1>1. PICK i \in proc[p].list :
          /\ bytes' = [bytes EXCEPT ![i] = 0]
          /\ proc' = [proc EXCEPT ![p].pc = "mark", ![p].from = proc[p].pc, ![p].cur = i,
                                  ![p].used = Credit(@, bytes[i]), ![p].acted = TRUE]
  BY DEF RemoveContents
<1> DEFINE used == Credit(proc[p].used, bytes[i])
           l == [proc[p] EXCEPT !.pc = "mark", !.from = proc[p].pc, !.cur = i,
                                !.used = used, !.acted = TRUE]
<1>2. proc[p].pc \in Loop /\ i \in Item /\ Shaped(proc[p]) /\ Sized(proc[p]) /\ rows[i] \in Kept
  BY DEF RemoveContents, InLoop, Shapes, Shaped, Sizing, Working, Reaches
<1>3. proc' = [proc EXCEPT ![p] = l]
  <2>1. [proc[p] EXCEPT !.pc = "mark", !.from = proc[p].pc, !.cur = i,
                        !.used = Credit(@, bytes[i]), !.acted = TRUE] = l
    BY <1>2 DEF Shaped, Field
  <2> QED BY <1>1, <2>1
<1>4. /\ l.pc = "mark" /\ l.cur = i /\ l.list = proc[p].list /\ l.used = used
      /\ l.free = proc[p].free /\ l.acted
  <2> HIDE DEF used
  <2> QED BY <1>2 DEF Shaped, Field
<1>5. /\ bytes[i] \in Nat /\ proc[p].used \in Nat /\ used \in Nat
      /\ used >= proc[p].used - bytes[i]
  BY <1>2 DEF Credit, Shapes, Sized
<1>6. \A k \in Item : bytes'[k] = IF k = i THEN 0 ELSE bytes[k]
  BY <1>1 DEF Shapes
<1>7. UNCHANGED <<wrote, rows, reserved, due, late, mishaps>>
  BY DEF RemoveContents
<1>8. proc'[p] = l /\ (\A q \in Proc \ {p} : proc'[q] = proc[q])
  BY <1>3 DEF Shapes
<1> HIDE DEF l, used
<1>9. Sizing'
  <2>1. Sized(l)
    BY <1>2, <1>4, <1>5 DEF Sized
  <2>2. \A o \in Op : bytes'[o] <= RootBytes[o]
    BY <1>6, Sizes DEF Sizing, Item
  <2> QED BY <1>7, <1>8, <2>1, <2>2 DEF Sizing, Sized
<1>10. Working'
  <2>1. Reaches(l) /\ Marks(l)
    BY <1>2, <1>4 DEF Working, Reaches, Marks
  <2> QED BY <1>2, <1>3, <1>4, <1>7, <2>1, DiskWorking, PcNames DEF Past
<1>11. Writers' = Writers /\ i \notin Writers
  <2>1. \A q \in Proc : proc'[q].pc = "write" <=> proc[q].pc = "write"
    BY <1>2, <1>4, <1>8, PcNames
  <2>2. i \notin Writers
    BY <1>2 DEF Working, PastWriting, Past, Writers, At
  <2> QED BY <2>1, <2>2 DEF Writers, At, Proc
<1>12. RootLoad(bytes, Writers)' = RootLoad(bytes, Writers) - bytes[i]
  <2> DEFINE f == RootClaim(bytes, Writers)
             g == RootClaim(bytes, Writers)'
  <2>0. bytes \in [Item -> Nat] /\ bytes' \in [Item -> Nat] /\ Writers \in SUBSET Op
    BY DEF Shapes, Writers
  <2>1. \A k \in Item : f[k] \in Int /\ g[k] \in Int
    BY <2>0, <1>11, Sizes DEF RootClaim
  <2>2. (\A k \in Item \ {i} : f[k] = g[k]) /\ f[i] = bytes[i] /\ g[i] = 0
    BY <1>2, <1>6, <1>11 DEF RootClaim
  <2>3. RootLoad(bytes, Writers) = SumFunctionOnSet(f, Item)
        /\ RootLoad(bytes, Writers)' = SumFunctionOnSet(g, Item)
    BY DEF RootLoad
  <2>4. SumFunctionOnSet(f, Item) \in Int
    BY <2>1, Finite, SumType
  <2> HIDE DEF f, g
  <2>5. SumFunctionOnSet(g, Item) = SumFunctionOnSet(f, Item) - f[i] + g[i]
    BY <1>2, <2>1, <2>2, Finite, SumDiffersAt
  <2> QED BY <1>5, <2>2, <2>3, <2>4, <2>5
<1>13. Held' = Held
  BY <1>7 DEF Held
<1>14. Granted => Granted'
  <2> HAVE Granted
  <2>1. /\ \A k \in Item \ Writers : bytes'[k] <= bytes[k]
        /\ \A o \in Op \ Writers : wrote'[o] <= wrote[o]
    BY <1>5, <1>6, <1>7 DEF Shapes, Sizing
  <2>2. /\ \A k \in Item : RootClaim(bytes, Writers)'[k] <= RootClaim(bytes, Writers)[k]
        /\ \A v \in Volume : \A o \in Op :
               TargetClaim(wrote, Writers, v)'[o] <= TargetClaim(wrote, Writers, v)[o]
    BY <1>9, <1>11, <2>1, Eased
  <2>3. /\ RootLoad(bytes, Writers)' <= RootLoad(bytes, Writers)
        /\ \A v \in Volume :
               VolumeLoad(bytes, wrote, Writers, v)' <= VolumeLoad(bytes, wrote, Writers, v)
        /\ RootLoad(bytes, Writers) \in Int /\ RootLoad(bytes, Writers)' \in Int
        /\ \A v \in Volume : /\ VolumeLoad(bytes, wrote, Writers, v) \in Int
                             /\ VolumeLoad(bytes, wrote, Writers, v)' \in Int
        /\ Fitting'
    BY <1>9, <1>11, <2>2, LoadsEase DEF Granted
  <2>4. ReservedRoot(Held) \in Int /\ \A v : ReservedOn(v, Held) \in Int
    BY LoadTypes
  <2>6. ASSUME NEW o \in Op
        PROVE  Covered(o, proc[o])'
    <3>0. o \in Proc /\ Target[o] \in Volume /\ Root \in Volume /\ Covered(o, proc[o])
          /\ Sized(proc[o])
      BY Sizes DEF Proc, Granted, AllCovered, Sizing
    <3>1. /\ proc[o].free[Root] \in Int /\ proc[o].free[Target[o]] \in Int /\ proc[o].used \in Int
          /\ Space[Root] \in Int /\ Space[Target[o]] \in Int
      BY <3>0, Sizes DEF Sized
    <3>2. CASE o = p
      <4>1. proc[o].pc \in Relying /\ proc'[o].pc # "reserve"
        BY <1>2, <1>4, <1>8, <3>2, RelyingPc
      <4>2. RootLoad(bytes, Writers)' <= proc'[o].used + ReservedRoot(Held)
        BY <1>4, <1>5, <1>8, <1>12, <2>3, <2>4, <3>0, <3>1, <3>2, <4>1 DEF Covered
      <4>3. VolumeLoad(bytes, wrote, Writers, Root)' <=
                Space[Root] - proc'[o].free[Root] + ReservedOn(Root, Held)
        BY <1>4, <1>8, <2>3, <2>4, <3>0, <3>1, <3>2, <4>1 DEF Covered
      <4> QED BY <1>13, <4>1, <4>2, <4>3 DEF Covered
    <3>3. CASE o # p
      <4>1. proc'[o] = proc[o]
        BY <1>8, <3>0, <3>3
      <4> QED BY <1>13, <2>3, <2>4, <3>0, <3>1, <4>1 DEF Covered
    <3> QED BY <3>2, <3>3
  <2> QED BY <2>3, <2>6 DEF Granted, AllCovered
<1>15. Estimated => Estimated'
  <2> SUFFICES ASSUME Estimated, late' = {}, NEW q \in Proc, proc'[q].pc \in Estimating
               PROVE  proc'[q].used <= Used'
    BY DEF Estimated
  <2>1. proc[p].pc \in Estimating /\ late = {}
    BY <1>2, <1>7 DEF Estimating
  <2>2. q = p
    BY <1>8, <2>1, Excluded
  <2>3. Used' = Used - bytes[i]
    <3>1. \A k \in Item : bytes[k] \in Int /\ bytes'[k] \in Int
      BY DEF Shapes
    <3>2. Used = SumFunctionOnSet(bytes, Item) /\ Used' = SumFunctionOnSet(bytes', Item)
      BY DEF Used, SumFunction, Shapes
    <3>3. Used' = Used - bytes[i] + bytes'[i]
      BY <1>2, <1>6, <3>1, <3>2, Finite, SumDiffersAt
    <3> QED BY <1>2, <1>5, <1>6, <3>3, Measures
  <2>4. Used \in Nat /\ Used' \in Nat
    BY UsedNat DEF Used, Shapes
  <2>5. proc[p].used <= Used
    BY <2>1 DEF Estimated
  <2>6. used = IF bytes[i] > proc[p].used THEN 0 ELSE proc[p].used - bytes[i]
    BY DEF used, Credit
  <2> QED BY <1>4, <1>5, <1>8, <2>2, <2>3, <2>4, <2>5, <2>6
<1> QED BY <1>9, <1>10, <1>14, <1>15

(* Disk steps under which no claim grows and nobody comes to rely on a     *)
(* measurement.                                                            *)
LEMMA DiskGrants ==
  ASSUME Shapes, Sizing, Working, Shapes', Sizing', Working', Granted, Held' = Held,
         \A q \in Proc : proc'[q] = proc[q] \/ proc'[q].pc \in {"release", "idle", "over"},
         \A i \in Item \ Writers : bytes'[i] <= bytes[i],
         \A o \in Op \ Writers : wrote'[o] <= wrote[o]
  PROVE  Granted'
<1>1. Writers' \subseteq Writers
  BY DEF Writers, At, Proc
<1>2. ASSUME NEW o \in Op, proc'[o].pc \in Relying
      PROVE  Covered(o, proc'[o])
  <2>1. proc'[o] = proc[o]
    BY <1>2, RelyingPc, PcNames DEF Proc
  <2> QED BY <2>1 DEF Granted, AllCovered
<1> QED BY <1>1, <1>2, Eased, EasingStep DEF Granted

LEMMA WriteCounts ==
  ASSUME NEW o \in Op, Shapes, Sizing, Working, Shapes', Write(o)
  PROVE  /\ Sizing' /\ Working'
         /\ Granted => Granted'
         /\ Estimated => Estimated'
<1>0. /\ o \in Item /\ o \in Proc /\ RootBytes[o] \in Nat /\ TargetBytes[o] \in Nat
      /\ bytes[o] \in Nat /\ wrote[o] \in Nat
      /\ bytes \in [Item -> Nat] /\ wrote \in [Op -> Nat] /\ bytes' \in [Item -> Nat]
  BY Sizes DEF Item, Proc, Shapes, Sizing
<1>1. o \in Writers /\ UNCHANGED <<rows, age, reserved, lease, due, proc, late, mishaps>>
  BY DEF Write, Writers
<1>2. /\ \A i \in Item \ {o} : bytes'[i] = bytes[i]
      /\ \A q \in Op \ {o} : wrote'[q] = wrote[q]
      /\ bytes[o] <= bytes'[o] /\ bytes'[o] <= RootBytes[o]
      /\ wrote'[o] <= TargetBytes[o] /\ wrote' \in [Op -> Nat]
  <2>1. bytes[o] <= RootBytes[o] /\ wrote[o] <= TargetBytes[o]
    BY DEF Sizing
  <2>2. CASE bytes[o] < RootBytes[o] /\ bytes' = [bytes EXCEPT ![o] = @ + 1] /\ wrote' = wrote
    BY <1>0, <2>1, <2>2
  <2>3. CASE wrote[o] < TargetBytes[o] /\ wrote' = [wrote EXCEPT ![o] = @ + 1] /\ bytes' = bytes
    BY <1>0, <2>1, <2>3
  <2> QED BY <2>2, <2>3 DEF Write
<1>3. Sizing'
  BY <1>0, <1>1, <1>2 DEF Sizing, Sized, Item
<1>4. Working'
  BY <1>1 DEF Working, PastWriting, Reaches, Marks
<1>5. Held' = Held
  BY <1>1 DEF Held
<1>6. Granted => Granted'
  <2> HAVE Granted
  <2>1. /\ \A i \in Item \ Writers : bytes'[i] <= bytes[i]
        /\ \A q \in Op \ Writers : wrote'[q] <= wrote[q]
    BY <1>0, <1>1, <1>2
  <2> QED BY <1>1, <1>3, <1>4, <1>5, <2>1, DiskGrants
<1>7. Used <= Used' /\ Used \in Int /\ Used' \in Int
  <2>1. \A i \in Item : bytes[i] \in Int /\ bytes'[i] \in Int /\ bytes[i] <= bytes'[i]
    BY <1>0, <1>2
  <2>2. Used = SumFunctionOnSet(bytes, Item) /\ Used' = SumFunctionOnSet(bytes', Item)
    BY <1>0 DEF Used, SumFunction
  <2> QED BY <2>1, <2>2, Finite, SumMonotone, SumType
<1>8. Estimated => Estimated'
  <2>1. \A p \in Proc : proc[p].used \in Nat
    BY DEF Sizing, Sized
  <2> QED BY <1>1, <1>7, <2>1 DEF Estimated
<1> QED BY <1>3, <1>4, <1>6, <1>8

LEMMA RemoveFailsCounts ==
  ASSUME NEW p \in Proc, Shapes, Leased, Sizing, Working, Shapes', RemoveFails(p)
  PROVE  /\ Sizing' /\ Working'
         /\ Granted => Granted'
         /\ Estimated => Estimated'
<1>a. PICK i \in proc[p].list : \E b \in 0 .. bytes[i] : bytes' = [bytes EXCEPT ![i] = b]
  BY DEF RemoveFails
<1>1. PICK b \in 0 .. bytes[i] : bytes' = [bytes EXCEPT ![i] = b]
  BY <1>a
<1> DEFINE pc == IF p \in Sweeper THEN "idle" ELSE "over"
           l == [NoLocal EXCEPT !.pc = pc]
<1>2. proc' = [proc EXCEPT ![p] = l]
  BY DEF RemoveFails
<1>3. proc[p].pc \in Loop /\ i \in Item /\ bytes \in [Item -> Nat] /\ bytes[i] \in Nat
  BY DEF RemoveFails, InLoop, Shapes, Shaped
<1>4. Sized(l) /\ l.pc = pc /\ l.list = {}
  BY NoLocalShaped, NoLocalSized, ChangedSized DEF Shaped, Field
<1>5. pc \in {"idle", "over"} /\ (p \in Op => pc = "over")
  BY KindsApart
<1> HIDE DEF l, pc
<1>6. UNCHANGED <<wrote, rows, reserved, due, late>> /\ mishaps' \in 0 .. MaxMishaps
  BY StorageAssumption DEF RemoveFails, Mishap, Sizing
<1>7. \A k \in Item : bytes'[k] <= bytes[k]
  BY <1>1, <1>3
<1>8. proc'[p] = l /\ (\A q \in Proc \ {p} : proc'[q] = proc[q])
  BY <1>2 DEF Shapes
<1>9. Sizing'
  <2>1. ASSUME NEW o \in Op
        PROVE  bytes'[o] <= RootBytes[o]
    <3>1. bytes[o] \in Nat /\ bytes'[o] \in Nat /\ RootBytes[o] \in Nat /\ bytes[o] <= RootBytes[o]
      BY Sizes DEF Shapes, Sizing, Item
    <3> QED BY <1>7, <3>1 DEF Item
  <2> QED BY <1>4, <1>6, <1>8, <2>1 DEF Sizing, Sized
<1>10. Working'
  <2>1. Reaches(l) /\ Marks(l)
    BY <1>4, <1>5 DEF Reaches, Marks
  <2> QED BY <1>2, <1>4, <1>5, <1>6, <2>1, DiskWorking DEF Past
<1>11. Granted => Granted'
  <2>1. Held' = Held
    BY <1>6 DEF Held
  <2>2. \A o \in Op \ Writers : wrote'[o] <= wrote[o]
    BY <1>6 DEF Sizing
  <2> QED BY <1>4, <1>5, <1>7, <1>8, <1>9, <1>10, <2>1, <2>2, DiskGrants
<1>12. Estimated => Estimated'
  <2> SUFFICES ASSUME late' = {}, NEW q \in Proc, proc'[q].pc \in Estimating
               PROVE  FALSE
    BY DEF Estimated
  <2>1. proc[p].pc \in Estimating /\ late = {}
    BY <1>3, <1>6 DEF Estimating
  <2>2. q # p
    BY <1>4, <1>5, <1>8, PcNames DEF Estimating
  <2> QED BY <1>8, <2>1, <2>2, Excluded
<1> QED BY <1>9, <1>10, <1>11, <1>12

LEMMA FailCounts ==
  ASSUME NEW o \in Op, Shapes, Sizing, Working, Shapes', Fail(o)
  PROVE  /\ Sizing' /\ Working'
         /\ Granted => Granted'
         /\ Steady => Estimated'
<1> DEFINE l == [proc[o] EXCEPT !.pc = "release"]
<1>1. o \in Proc /\ o \in Item /\ Shaped(proc[o]) /\ Sized(proc[o]) /\ proc[o].pc = "write"
  BY DEF Proc, Item, Shapes, Sizing, Fail, At
<1>2. proc' = [proc EXCEPT ![o] = l]
  BY DEF Fail, Goto
<1>3. l.pc = "release" /\ l.list = proc[o].list /\ Sized(l)
  BY <1>1, ChangedSized DEF Shaped, Field
<1> HIDE DEF l
<1>4. UNCHANGED <<rows, reserved, due, late>> /\ mishaps' \in 0 .. MaxMishaps
  BY StorageAssumption DEF Fail, Mishap, Sizing
<1>5. /\ \A i \in Item : bytes'[i] = IF i = o THEN 0 ELSE bytes[i]
      /\ wrote' = [wrote EXCEPT ![o] = 0]
  BY DEF Fail, Shapes
<1>6. proc'[o] = l /\ (\A q \in Proc \ {o} : proc'[q] = proc[q])
  BY <1>1, <1>2 DEF Shapes
<1>7. \A q \in Op : /\ bytes[q] \in Nat /\ wrote[q] \in Nat
                    /\ RootBytes[q] \in Nat /\ TargetBytes[q] \in Nat
                    /\ bytes[q] <= RootBytes[q] /\ wrote[q] <= TargetBytes[q]
                    /\ bytes'[q] = (IF q = o THEN 0 ELSE bytes[q])
                    /\ wrote'[q] = (IF q = o THEN 0 ELSE wrote[q])
  BY <1>5, Sizes DEF Shapes, Sizing, Item
<1>8. Sizing'
  <2>1. \A q \in Op : bytes'[q] <= RootBytes[q] /\ wrote'[q] <= TargetBytes[q]
    BY <1>7
  <2>2. wrote' \in [Op -> Nat]
    BY <1>5 DEF Sizing
  <2> QED BY <1>3, <1>4, <1>6, <2>1, <2>2 DEF Sizing, Sized
<1>9. Working'
  <2>1. Reaches(l) /\ Marks(l)
    BY <1>1, <1>3 DEF Working, Reaches, Marks
  <2> QED BY <1>1, <1>2, <1>3, <1>4, <2>1, DiskWorking DEF Past
<1>10. Granted => Granted'
  <2>1. Held' = Held
    BY <1>4 DEF Held
  <2>2. /\ \A i \in Item \ Writers : bytes'[i] <= bytes[i]
        /\ \A q \in Op \ Writers : wrote'[q] <= wrote[q]
    <3>1. \A i \in Item : bytes[i] \in Nat /\ bytes'[i] = (IF i = o THEN 0 ELSE bytes[i])
      BY <1>5 DEF Shapes
    <3> QED BY <1>7, <3>1
  <2> QED BY <1>3, <1>6, <1>8, <1>9, <2>1, <2>2, DiskGrants
<1>11. Steady => Estimated'
  <2> SUFFICES ASSUME Steady, NEW q \in Proc, proc'[q].pc \in Estimating
               PROVE  FALSE
    BY DEF Estimated
  <2>1. q # o
    BY <1>3, <1>6, RelyingPc
  <2>2. Relies(q)
    BY <1>6, <2>1, RelyingPc DEF Relies, Relying
  <2> QED BY <2>1, <2>2 DEF Fail, Undisturbed, Steady
<1> QED BY <1>8, <1>9, <1>10, <1>11

-----------------------------------------------------------------------------
(* Reservations.                                                           *)

(* An operation has no reservation before it asks for one.                 *)
Ending == {"write", "release", "over", "dead"}
Unreserved == \A o \in Op : reserved[o] = "held" => proc[o].pc \in Ending

(* A grant adds no more to the load than to the reservations, and what is  *)
(* granted fits beside them.                                               *)
LEMMA GrantStep ==
  ASSUME NEW o \in Op, Shapes, Sizing, Working, Shapes', Sizing', Working', Granted,
         proc[o].pc = "reserve", Fits(o, Held), o \notin Held,
         Held' = Held \cup {o}, Writers' = Writers \cup {o}, UNCHANGED <<bytes, wrote>>,
         proc'[o].pc = "write", \A q \in Op \ {o} : proc'[q] = proc[q]
  PROVE  Granted'
<1> DEFINE l == proc[o]
           W == Writers \cup {o}
           H == Held \cup {o}
<1>1. /\ bytes \in [Item -> Nat] /\ wrote \in [Op -> Nat] /\ Sized(l) /\ Covered(o, l)
      /\ Writers \in SUBSET Op /\ W \in SUBSET Op /\ Held \in SUBSET Op /\ H \in SUBSET Op
      /\ o \in Op \ Held /\ o \in Op \ Writers
  BY WritersHeld DEF Shapes, Sizing, Proc, Granted, AllCovered, Writers, At, Held
<1>2. /\ RootLoad(bytes, W) <= RootLoad(bytes, Writers) + RootBytes[o]
      /\ \A v : VolumeLoad(bytes, wrote, W, v) <=
                    VolumeLoad(bytes, wrote, Writers, v) + ReservedOn(v, {o})
  BY <1>1, OneWrites
<1>3. /\ ReservedRoot(H) = ReservedRoot(Held) + RootBytes[o]
      /\ \A v : ReservedOn(v, H) = ReservedOn(v, Held) + ReservedOn(v, {o})
      /\ \A v : ReservedOn(v, {o}) = (IF v = Root THEN RootBytes[o] ELSE 0)
                                        + (IF Target[o] = v THEN TargetBytes[o] ELSE 0)
  <2>1. Held \in SUBSET Op /\ o \in Op \ Held
    BY <1>1
  <2>2. ReservedRoot(H) = ReservedRoot(Held) + RootBytes[o]
    BY <2>1, OneMore
  <2>3. ASSUME NEW v
        PROVE  /\ ReservedOn(v, H) = ReservedOn(v, Held) + ReservedOn(v, {o})
               /\ ReservedOn(v, {o}) = (IF v = Root THEN RootBytes[o] ELSE 0)
                                          + (IF Target[o] = v THEN TargetBytes[o] ELSE 0)
    BY <2>1, OneMore
  <2> QED BY <2>2, <2>3
<1>4. /\ RootLoad(bytes, W) \in Int /\ RootLoad(bytes, Writers) \in Int
      /\ \A v : /\ VolumeLoad(bytes, wrote, W, v) \in Int
                /\ VolumeLoad(bytes, wrote, Writers, v) \in Int
  BY <1>1, ClaimTypes
<1>5. /\ ReservedRoot(Held) \in Int /\ RootBytes[o] \in Nat /\ TargetBytes[o] \in Nat
      /\ \A v : ReservedOn(v, Held) \in Int /\ ReservedOn(v, {o}) \in Int
  BY <1>1, ReservedTypes, Sizes, {o} \in SUBSET Op
<1>6. /\ RootLoad(bytes, Writers)' = RootLoad(bytes, W)
      /\ \A v : VolumeLoad(bytes, wrote, Writers, v)' = VolumeLoad(bytes, wrote, W, v)
      /\ ReservedRoot(Held)' = ReservedRoot(H)
      /\ \A v : ReservedOn(v, Held)' = ReservedOn(v, H)
  OBVIOUS
<1>7. /\ l.used + ReservedRoot(Held) + RootBytes[o] <= Quota
      /\ \A v \in Volumes(o) : l.free[v] - ReservedOn(v, Held) - ReservedOn(v, {o}) >= MinFree
  BY DEF Fits
<1>8. \A v : v \in Volumes(o) <=> v = Root \/ (v = Target[o] /\ TargetBytes[o] > 0)
  BY DEF Volumes
<1>9. /\ Root \in Volume /\ Target[o] \in Volume /\ Quota \in Nat /\ MinFree \in Nat
      /\ l.used \in Nat /\ \A v \in Volume : Space[v] \in Nat /\ l.free[v] \in Int
  BY <1>1, Sizes DEF Sized
<1>10. l.pc \in Relying /\ l.pc = "reserve"
  BY RelyingPc
<1> HIDE DEF l, W, H
<1>11. RootLoad(bytes, W) <= Quota
  <2>1. RootLoad(bytes, Writers) <= l.used + ReservedRoot(Held)
    BY <1>1, <1>10 DEF Covered
  <2> QED BY <1>2, <1>4, <1>5, <1>7, <1>9, <2>1
<1>12. ASSUME NEW v \in Volumes(o)
       PROVE  VolumeLoad(bytes, wrote, W, v) <= Space[v] - MinFree
  <2>1. VolumeLoad(bytes, wrote, Writers, v) <= Space[v] - l.free[v] + ReservedOn(v, Held)
    BY <1>1, <1>8, <1>10 DEF Covered
  <2>2. v \in Volume
    BY <1>8, <1>9
  <2>3. l.free[v] - ReservedOn(v, Held) - ReservedOn(v, {o}) >= MinFree
    BY <1>7
  <2>4. VolumeLoad(bytes, wrote, W, v) <= VolumeLoad(bytes, wrote, Writers, v) + ReservedOn(v, {o})
    BY <1>2
  <2>5. /\ VolumeLoad(bytes, wrote, W, v) \in Int /\ VolumeLoad(bytes, wrote, Writers, v) \in Int
        /\ ReservedOn(v, Held) \in Int /\ ReservedOn(v, {o}) \in Int
        /\ Space[v] \in Nat /\ l.free[v] \in Int /\ MinFree \in Nat
    BY <1>4, <1>5, <1>9, <2>2
  <2> QED BY <2>1, <2>3, <2>4, <2>5
<1>13. ASSUME NEW q \in Writers, NEW v \in Volumes(q)
       PROVE  VolumeLoad(bytes, wrote, W, v) <= Space[v] - MinFree
  <2>1. CASE v \in Volumes(o)
    BY <1>12, <2>1
  <2>2. CASE v \notin Volumes(o)
    <3>1. ReservedOn(v, {o}) = 0
      <4>1. v # Root /\ (Target[o] # v \/ ~(TargetBytes[o] > 0))
        BY <1>8, <2>2
      <4>2. ReservedOn(v, {o}) = (IF v = Root THEN RootBytes[o] ELSE 0)
                                    + (IF Target[o] = v THEN TargetBytes[o] ELSE 0)
        BY <1>3
      <4>3. TargetBytes[o] \in Nat
        BY <1>5
      <4> QED BY <4>1, <4>2, <4>3
    <3>2. VolumeLoad(bytes, wrote, Writers, v) <= Space[v] - MinFree
      BY DEF Granted, Fitting
    <3>3. v \in Volume /\ Space[v] \in Nat
      BY Sizes DEF Volumes, Writers
    <3>4. VolumeLoad(bytes, wrote, W, v) <= VolumeLoad(bytes, wrote, Writers, v) + 0
      BY <1>2, <3>1
    <3>5. VolumeLoad(bytes, wrote, W, v) \in Int /\ VolumeLoad(bytes, wrote, Writers, v) \in Int
      BY <1>4
    <3> QED BY <1>9, <3>2, <3>3, <3>4, <3>5
  <2> QED BY <2>1, <2>2
<1>14. Fitting'
  <2> SUFFICES ASSUME NEW q \in Writers'
               PROVE  /\ RootLoad(bytes, W) <= Quota
                      /\ \A v \in Volumes(q) : VolumeLoad(bytes, wrote, W, v) <= Space[v] - MinFree
    BY <1>6 DEF Fitting
  <2> QED BY <1>11, <1>12, <1>13
<1>15. ASSUME NEW q \in Op
       PROVE  Covered(q, proc[q])'
  <2> SUFFICES ASSUME proc'[q].pc \in Relying PROVE Covered(q, proc[q])'
    BY DEF Covered
  <2>1. q # o /\ proc'[q] = proc[q]
    BY RelyingPc
  <2>2. Covered(q, proc[q]) /\ Sized(proc[q]) /\ Target[q] \in Volume
    BY Sizes DEF Granted, AllCovered, Sizing, Proc
  <2>3. /\ proc[q].used \in Int /\ proc[q].free[Root] \in Int /\ proc[q].free[Target[q]] \in Int
        /\ Space[Root] \in Int /\ Space[Target[q]] \in Int
    BY <1>9, <2>2 DEF Sized
  <2>4. RootLoad(bytes, W) <= proc[q].used + ReservedRoot(H)
    <3>1. RootLoad(bytes, Writers) <= proc[q].used + ReservedRoot(Held)
      BY <2>1, <2>2 DEF Covered
    <3> QED BY <1>2, <1>3, <1>4, <1>5, <2>3, <3>1 DEF H, W
  <2>5. ASSUME NEW v, v = Root \/ (v = Target[q] /\ proc[q].pc = "reserve" /\ TargetBytes[q] > 0)
        PROVE  VolumeLoad(bytes, wrote, W, v) <= Space[v] - proc[q].free[v] + ReservedOn(v, H)
    <3>1. VolumeLoad(bytes, wrote, Writers, v) <= Space[v] - proc[q].free[v] + ReservedOn(v, Held)
      BY <2>1, <2>2, <2>5 DEF Covered
    <3>2. VolumeLoad(bytes, wrote, W, v) <= VolumeLoad(bytes, wrote, Writers, v) + ReservedOn(v, {o})
      BY <1>2
    <3>3. ReservedOn(v, H) = ReservedOn(v, Held) + ReservedOn(v, {o})
      BY <1>3
    <3>4. /\ VolumeLoad(bytes, wrote, W, v) \in Int /\ VolumeLoad(bytes, wrote, Writers, v) \in Int
          /\ ReservedOn(v, Held) \in Int /\ ReservedOn(v, {o}) \in Int
          /\ Space[v] \in Int /\ proc[q].free[v] \in Int
      BY <1>4, <1>5, <2>3, <2>5
    <3> QED BY <3>1, <3>2, <3>3, <3>4
  <2> QED BY <1>6, <2>1, <2>4, <2>5 DEF Covered
<1> QED BY <1>14, <1>15 DEF Granted, AllCovered

LEMMA ReserveCounts ==
  ASSUME NEW o \in Op, Shapes, Sizing, Working, Unreserved, Shapes', Reserve(o)
  PROVE  /\ Sizing' /\ Working'
         /\ Granted => Granted'
         /\ Estimated => Estimated'
<1> DEFINE fits == Fits(o, Held)
           pc == IF fits THEN "write" ELSE "over"
           l == [NoLocal EXCEPT !.pc = pc]
<1>1. proc' = [proc EXCEPT ![o] = l] /\ proc[o].pc = "reserve"
      /\ reserved' = (IF fits THEN [WithoutExpired EXCEPT ![o] = "held"] ELSE WithoutExpired)
      /\ UNCHANGED <<bytes, wrote, rows, due, late, mishaps>>
  BY DEF Reserve, Held, At, disk
<1>2. o \in Proc /\ o \in Item /\ Sized(proc[o]) /\ o \notin Held
  BY <1>1, PcNames DEF Proc, Item, Sizing, Unreserved, Held, Ending
<1>3. Sized(l) /\ l.list = {} /\ l.pc = pc
  <2> HIDE DEF pc
  <2> QED BY NoLocalShaped, NoLocalSized, ChangedSized DEF Shaped, Field
<1>4. (fits => pc = "write") /\ (~fits => pc = "over")
  OBVIOUS
<1> HIDE DEF l, pc, fits
<1>5. proc'[o] = l /\ (\A q \in Proc \ {o} : proc'[q] = proc[q])
  BY <1>1, <1>2 DEF Shapes
<1>6. /\ reserved' \in [Op -> Reservation]
      /\ Held' = IF fits THEN Held \cup {o} ELSE Held
  <2>1. WithoutExpired \in [Op -> Reservation]
    BY DEF WithoutExpired, Sizing, Reservation
  <2>2. \A q \in Op : WithoutExpired[q] = "held" <=> reserved[q] = "held"
    BY DEF WithoutExpired, Expired
  <2>3. "held" \in Reservation
    BY DEF Reservation
  <2> HIDE DEF WithoutExpired
  <2>4. CASE fits
    <3>1. reserved' = [WithoutExpired EXCEPT ![o] = "held"]
      BY <1>1, <2>4
    <3>2. \A q \in Op : reserved'[q] = "held" <=> q = o \/ reserved[q] = "held"
      BY <2>1, <2>2, <3>1
    <3> QED BY <2>1, <2>3, <2>4, <3>1, <3>2 DEF Held
  <2>5. CASE ~fits
    BY <1>1, <2>1, <2>2, <2>5 DEF Held
  <2> QED BY <2>4, <2>5
<1>7. Sizing'
  BY <1>1, <1>3, <1>5, <1>6 DEF Sizing, Sized
<1>8. Working'
  <2>1. ASSUME NEW q \in Op, proc'[q].pc \in {"write", "release"}
        PROVE  q \in Held'
    <3>1. CASE q = o
      BY <1>3, <1>4, <1>5, <1>6, <2>1, <3>1
    <3>2. CASE q # o
      <4>1. q \in Held
        BY <1>5, <2>1, <3>2 DEF Working, Held, Proc
      <4> QED BY <1>6, <4>1
    <3> QED BY <3>1, <3>2
  <2>2. rows[o] \notin Kept
    BY <1>1 DEF Working, PastWriting, Past
  <2>3. PastWriting'
    BY <1>1, <1>5, <2>2 DEF Working, PastWriting, Proc
  <2>4. \A q \in Proc : Reaches(proc[q])' /\ Marks(proc[q])'
    <3>1. Reaches(l) /\ Marks(l)
      BY <1>3, <1>4 DEF Reaches, Marks
    <3> QED BY <1>1, <1>5, <3>1 DEF Working, Reaches, Marks
  <2> QED BY <2>1, <2>3, <2>4 DEF Working, Held
<1>9. CASE ~fits
  <2>1. ASSUME NEW q \in Proc
        PROVE  Follows(q, proc'[q])
    <3>1. CASE q = o
      BY <1>3, <1>4, <1>5, <1>9, <3>1, RelyingPc, PcNames DEF Follows
    <3>2. CASE q # o
      BY <1>5, <3>2 DEF Follows, Keeps
    <3> QED BY <3>1, <3>2
  <2>2. Still
    BY <1>1, <1>6, <1>9, <2>1 DEF Still
  <2> QED BY <1>7, <1>8, <2>2, StillGrants
<1>10. CASE fits
  <2>1. Writers' = Writers \cup {o}
    <3>1. \A q \in Op : proc'[q].pc = "write" <=> q = o \/ proc[q].pc = "write"
      BY <1>1, <1>3, <1>4, <1>5, <1>10 DEF Proc
    <3> QED BY <3>1 DEF Writers, At
  <2>2. Granted => Granted'
    BY <1>1, <1>2, <1>3, <1>4, <1>5, <1>6, <1>7, <1>8, <1>10, <2>1, GrantStep DEF Proc, fits
  <2>3. Estimated => Estimated'
    <3>1. Used' = Used /\ late' = late
      BY <1>1 DEF Used
    <3>2. \A q \in Proc : proc'[q].pc \in Estimating => proc'[q] = proc[q]
      BY <1>3, <1>4, <1>5, <1>10, RelyingPc
    <3> QED BY <3>1, <3>2 DEF Estimated
  <2> QED BY <1>7, <1>8, <2>2, <2>3
<1> QED BY <1>9, <1>10

(* An operation gives its reservation back, or what is left of it goes:    *)
(* none relies on a measurement, unless "stale" allows it.                 *)
GiveUpFacts(o, pc) ==
    /\ proc[o].pc \in {"release", "dead"} /\ pc \in {"over", "dead"}
    /\ Undisturbed(o, Op)
    /\ reserved' = [reserved EXCEPT ![o] = reserved'[o]] /\ reserved'[o] \in {"none", "expired"}
    /\ proc' = [proc EXCEPT ![o].pc = pc]
    /\ UNCHANGED <<bytes, wrote, due, late, mishaps>>
    /\ rows' = rows \/ rows' = [rows EXCEPT ![o] = "live"]

LEMMA GivesUp ==
  ASSUME NEW o \in Op, Shapes, Release(o) \/ ReservationEnds(o) \/ Reconcile(o), Sizing
  PROVE  \E pc : GiveUpFacts(o, pc)
<1>1. reserved = [q \in Op |-> reserved[q]] /\ proc = [p \in Proc |-> proc[p]] /\ o \in Proc
      /\ Shaped(proc[o])
  BY DEF Shapes, Sizing, Proc
<1>2. CASE Release(o)
  BY <1>1, <1>2 DEF Release, GiveUpFacts, Goto, At, disk
<1>3. ASSUME proc[o].pc = "dead", proc' = proc
      PROVE  proc' = [proc EXCEPT ![o].pc = "dead"]
  BY <1>1, <1>3 DEF Shaped, Field
<1>4. CASE ReservationEnds(o)
  BY <1>1, <1>3, <1>4 DEF ReservationEnds, GiveUpFacts, At, disk
<1>5. CASE Reconcile(o)
  BY <1>1, <1>3, <1>5 DEF Reconcile, GiveUpFacts, At, disk
<1> QED BY <1>2, <1>4, <1>5

LEMMA GiveUpCounts ==
  ASSUME NEW o \in Op, NEW pc, Shapes, Sizing, Working, Shapes', GiveUpFacts(o, pc)
  PROVE  /\ Sizing' /\ Working'
         /\ Steady /\ Granted => Granted'
         /\ Estimated => Estimated'
<1> DEFINE l == [proc[o] EXCEPT !.pc = pc]
<1>1. /\ o \in Proc /\ o \in Item /\ Shaped(proc[o]) /\ Sized(proc[o])
      /\ proc[o].pc \in {"release", "dead"} /\ pc \in {"over", "dead"}
  BY DEF Proc, Item, Shapes, Sizing, GiveUpFacts
<1>2. proc' = [proc EXCEPT ![o] = l] /\ UNCHANGED <<bytes, wrote, due, late, mishaps>>
  BY DEF GiveUpFacts
<1>3. l.pc = pc /\ l.list = proc[o].list /\ Sized(l)
  BY <1>1, ChangedSized DEF Shaped, Field
<1> HIDE DEF l
<1>4. proc'[o] = l /\ (\A q \in Proc \ {o} : proc'[q] = proc[q])
  BY <1>1, <1>2 DEF Shapes
<1>5. /\ reserved' \in [Op -> Reservation] /\ reserved'[o] # "held"
      /\ \A q \in Op \ {o} : reserved'[q] = reserved[q]
  BY DEF GiveUpFacts, Sizing, Reservation
<1>6. \A i \in Item : rows'[i] = rows[i] \/ (i = o /\ rows'[i] \in Kept)
  BY DEF GiveUpFacts, Shapes, Kept
<1>7. Sizing'
  BY <1>2, <1>3, <1>4, <1>5 DEF Sizing, Sized
<1>8. Working'
  <2>1. ASSUME NEW q \in Op, proc'[q].pc \in {"write", "release"}
        PROVE  reserved'[q] = "held"
    <3>1. q # o
      BY <1>1, <1>3, <1>4, <2>1
    <3> QED BY <1>4, <1>5, <2>1, <3>1 DEF Working, Proc
  <2>2. PastWriting'
    <3>1. ASSUME NEW q \in Op, rows'[q] \in Kept
          PROVE  proc'[q].pc \in Past
      <4>1. CASE q = o
        BY <1>1, <1>3, <1>4, <4>1 DEF Past
      <4>2. CASE q # o
        BY <1>4, <1>6, <3>1, <4>2 DEF Working, PastWriting, Proc, Item
      <4> QED BY <4>1, <4>2
    <3> QED BY <3>1 DEF PastWriting
  <2>3. \A i \in Item : rows[i] \in Kept => rows'[i] \in Kept
    BY <1>6
  <2>4. ASSUME NEW q \in Proc
        PROVE  Reaches(proc[q])' /\ Marks(proc[q])'
    <3>1. Reaches(proc[q]) /\ Marks(proc[q]) /\ Shaped(proc[q])
      BY DEF Working, Shapes
    <3>2. CASE q = o
      BY <1>1, <1>3, <1>4, <2>3, <3>1, <3>2 DEF Reaches, Marks, Shaped
    <3>3. CASE q # o
      BY <1>4, <2>3, <3>1, <3>3 DEF Reaches, Marks, Shaped
    <3> QED BY <3>2, <3>3
  <2> QED BY <2>1, <2>2, <2>4 DEF Working
<1>9. Steady /\ Granted => Granted'
  <2> SUFFICES ASSUME Steady, Granted PROVE Granted'
    OBVIOUS
  <2>1. Writers' \subseteq Writers
    BY <1>1, <1>3, <1>4 DEF Writers, At, Proc
  <2>2. /\ \A i \in Item \ Writers : bytes'[i] <= bytes[i]
        /\ \A q \in Op \ Writers : wrote'[q] <= wrote[q]
    BY <1>2 DEF Shapes, Sizing
  <2>3. \A q \in Op : proc'[q].pc \notin Relying
    <3>1. \A q \in Op \ {o} : ~Relies(q)
      BY DEF GiveUpFacts, Undisturbed, Steady
    <3>2. pc \notin Relying
      BY <1>1, RelyingPc, PcNames
    <3> QED BY <1>3, <1>4, <3>1, <3>2 DEF Relies, Relying, Proc
  <2> QED BY <1>7, <1>8, <2>1, <2>2, <2>3, Eased, EasingStep DEF Granted
<1>10. Estimated => Estimated'
  <2>1. Used' = Used /\ late' = late
    BY <1>2 DEF Used
  <2>2. \A q \in Proc : proc'[q].pc \in Estimating => proc'[q] = proc[q]
    BY <1>1, <1>3, <1>4, RelyingPc, PcNames DEF Estimating
  <2> QED BY <2>1, <2>2 DEF Estimated
<1> QED BY <1>7, <1>8, <1>9, <1>10

-----------------------------------------------------------------------------

(* What a reservation is held for does not come back.                      *)
LEMMA UnreservedStep ==
  ASSUME Shapes, Sizing, Unreserved, [Next]_vars
  PROVE  Unreserved'
<1>1. CASE \E o \in Op : Reserve(o)
  <2>1. PICK o \in Op : Reserve(o)
    BY <1>1
  <2> DEFINE fits == Fits(o, {q \in Op : reserved[q] = "held"})
             l == [NoLocal EXCEPT !.pc = IF fits THEN "write" ELSE "over"]
  <2>2. proc'[o] = l /\ (\A q \in Proc \ {o} : proc'[q] = proc[q])
    BY <2>1 DEF Reserve, Shapes, Proc
  <2>3. l.pc \in {"write", "over"}
    BY NoLocalShaped DEF Shaped, Field
  <2> HIDE DEF l
  <2>4. \A q \in Op \ {o} : reserved'[q] = "held" => reserved[q] = "held"
    BY <2>1 DEF Reserve, WithoutExpired, Expired
  <2> QED BY <2>2, <2>3, <2>4 DEF Unreserved, Ending, Proc
<1>2. CASE \E p \in Proc : EndLogRows(p)
  <2>1. PICK p \in Proc : EndLogRows(p)
    BY <1>2
  <2>2. \A q \in Proc \ {p} : proc'[q] = proc[q]
    BY <2>1, EndLogRowsQuiet DEF Quiet, Moves, Shapes
  <2>3. \A q \in Op : reserved'[q] = "held" => reserved[q] = "held"
    BY <2>1 DEF EndLogRows, WithoutExpired, Expired
  <2>4. proc[p].pc \notin Ending
    BY <2>1 DEF EndLogRows, At, Ending
  <2> QED BY <2>2, <2>3, <2>4 DEF Unreserved, Proc
<1>3. CASE \E o \in Op : Release(o) \/ ReservationEnds(o) \/ Reconcile(o)
  <2>1. PICK o \in Op : \E pc : GiveUpFacts(o, pc)
    BY <1>3, GivesUp
  <2>2. /\ \A q \in Op : reserved'[q] = "held" => q # o /\ reserved[q] = "held"
        /\ \A q \in Proc \ {o} : proc'[q] = proc[q]
    BY <2>1 DEF GiveUpFacts, Sizing, Shapes
  <2> QED BY <2>2 DEF Unreserved, Proc
<1>4. ASSUME UNCHANGED reserved, NEW p \in Proc, NEW l, proc' = [proc EXCEPT ![p] = l],
             p \in Op /\ proc[p].pc \in Ending => l.pc \in Ending
      PROVE  Unreserved'
  <2>1. proc'[p] = l /\ \A q \in Proc \ {p} : proc'[q] = proc[q]
    BY <1>4 DEF Shapes
  <2> QED BY <1>4, <2>1 DEF Unreserved, Proc
<1>5. CASE \E p \in Proc : Crash(p)
  <2>1. PICK p \in Proc : Crash(p)
    BY <1>5
  <2> DEFINE l == [NoLocal EXCEPT !.pc = IF p \in Sweeper THEN "idle" ELSE "dead"]
  <2>2. proc' = [proc EXCEPT ![p] = l] /\ UNCHANGED reserved
    BY <2>1 DEF Crash
  <2>3. p \in Op => l.pc = "dead"
    BY KindsApart, NoLocalShaped DEF Shaped, Field
  <2> HIDE DEF l
  <2> QED BY <1>4, <2>2, <2>3 DEF Ending
<1>6. CASE \E o \in Op : Record(o) \/ Fail(o)
  <2>1. PICK o \in Op : Record(o) \/ Fail(o)
    BY <1>6
  <2> DEFINE l == [proc[o] EXCEPT !.pc = "release"]
  <2>2. proc' = [proc EXCEPT ![o] = l] /\ UNCHANGED reserved /\ o \in Proc
    BY <2>1 DEF Record, Fail, Goto, Proc
  <2>3. l.pc = "release"
    BY <2>2 DEF Shapes, Shaped, Field
  <2> HIDE DEF l
  <2> QED BY <1>4, <2>2, <2>3 DEF Ending
<1>7. CASE \/ \E o \in Op : InsertJob(o) \/ Write(o)
           \/ DeadLeaseEnds \/ LeaseOverrun \/ IntervalPasses \/ UNCHANGED vars
  BY <1>7 DEF InsertJob, Write, DeadLeaseEnds, LeaseOverrun, IntervalPasses, vars, Unreserved
<1>8. CASE \E p \in Proc : \/ AcquireLease(p) \/ Look(p) \/ Survey(p) \/ RemoveContents(p) \/ MarkRow(p)
                           \/ RemoveFails(p) \/ EndContents(p) \/ EndQuotaOutputs(p) \/ EndQuotaLogs(p)
                           \/ MeasureAgain(p) \/ (p \in Op /\ MeasureTarget(p))
  <2>1. PICK p \in Proc : \/ AcquireLease(p) \/ Look(p) \/ Survey(p) \/ RemoveContents(p) \/ MarkRow(p)
                          \/ RemoveFails(p) \/ EndContents(p) \/ EndQuotaOutputs(p) \/ EndQuotaLogs(p)
                          \/ MeasureAgain(p) \/ (p \in Op /\ MeasureTarget(p))
    BY <1>8
  <2>2. UNCHANGED reserved
    BY <2>1 DEF AcquireLease, Look, Survey, RemoveContents, MarkRow, RemoveFails, EndContents,
                EndQuotaOutputs, EndQuotaLogs, MeasureAgain, MeasureTarget
  <2>3. proc[p].pc \notin Ending
    BY <2>1, PcNames DEF AcquireLease, Look, Survey, RemoveContents, MarkRow, RemoveFails, EndContents,
                EndQuotaOutputs, EndQuotaLogs, MeasureAgain, MeasureTarget, InLoop, At, Ending
  <2>4. \A q \in Proc \ {p} : proc'[q] = proc[q]
    BY <2>1, OthersStay DEF AcquireLease, Look, Survey, RemoveContents, MarkRow, RemoveFails, EndContents,
                EndQuotaOutputs, EndQuotaLogs, MeasureAgain, MeasureTarget, Conclude, Goto, Shapes
  <2> QED BY <2>2, <2>3, <2>4 DEF Unreserved, Proc
<1> QED BY <1>1, <1>2, <1>3, <1>5, <1>6, <1>7, <1>8 DEF Next, Collect, Operate, Proc

-----------------------------------------------------------------------------
(* Every step, and the theorems.                                           *)

GrowsInto == Sizing' /\ Working' /\ (Steady /\ Granted => Granted') /\ (Steady /\ Estimated => Estimated')

LEMMA CountsStep ==
  ASSUME Shapes, Leased, Sizing, Working, Unreserved, [Next]_vars
  PROVE  GrowsInto
<1>0. Shapes'
  BY ShapesStep
<1>1. CASE \E p \in Proc : \/ AcquireLease(p) \/ Look(p) \/ Survey(p) \/ MarkRow(p) \/ EndContents(p)
                           \/ EndLogRows(p) \/ EndQuotaOutputs(p) \/ EndQuotaLogs(p)
                           \/ MeasureAgain(p) \/ Crash(p)
  <2>1. \E p \in Proc : Counts(p)
    BY <1>1, AcquireLeaseCounts, LookCounts, SurveyCounts, MarkRowCounts, EndContentsCounts,
       EndLogRowsCounts, EndQuotaOutputsCounts, EndQuotaLogsCounts, MeasureAgainCounts, CrashCounts
  <2> QED BY <1>0, <2>1, StillGrants DEF Counts, GrowsInto
<1>2. CASE \E o \in Op : MeasureTarget(o) \/ InsertJob(o) \/ Record(o)
  <2>1. \E o \in Op : Counts(o)
    BY <1>2, MeasureTargetCounts, InsertJobCounts, RecordCounts
  <2> QED BY <1>0, <2>1, StillGrants DEF Counts, GrowsInto
<1>3. CASE DeadLeaseEnds \/ LeaseOverrun \/ IntervalPasses \/ UNCHANGED vars
  BY <1>0, <1>3, IdleCounts, StillGrants DEF GrowsInto
<1>4. CASE \E p \in Proc : RemoveContents(p)
  BY <1>0, <1>4, RemoveContentsCounts DEF GrowsInto
<1>5. CASE \E p \in Proc : RemoveFails(p)
  BY <1>0, <1>5, RemoveFailsCounts DEF GrowsInto
<1>6. CASE \E o \in Op : Write(o)
  BY <1>0, <1>6, WriteCounts DEF GrowsInto
<1>7. CASE \E o \in Op : Fail(o)
  BY <1>0, <1>7, FailCounts DEF GrowsInto
<1>8. CASE \E o \in Op : Reserve(o)
  BY <1>0, <1>8, ReserveCounts DEF GrowsInto
<1>9. CASE \E o \in Op : Release(o) \/ ReservationEnds(o) \/ Reconcile(o)
  BY <1>0, <1>9, GivesUp, GiveUpCounts DEF GrowsInto
<1> QED BY <1>1, <1>2, <1>3, <1>4, <1>5, <1>6, <1>7, <1>8, <1>9 DEF Next, Collect, Operate

LEMMA CountsInit == Init => Sizing /\ Working /\ Unreserved /\ Granted /\ Estimated
<1> SUFFICES ASSUME Init PROVE Sizing /\ Working /\ Unreserved /\ Granted /\ Estimated
  OBVIOUS
<1>1. \A p \in Proc : proc[p] = NoLocal /\ Sized(proc[p]) /\ proc[p].pc = "idle" /\ proc[p].list = {}
  BY NoLocalSized, NoLocalShaped DEF Init
<1>2. Sizing
  <2>1. \A o \in Op : bytes[o] <= RootBytes[o] /\ wrote[o] <= TargetBytes[o]
    BY Sizes DEF Init, Item
  <2>2. wrote \in [Op -> Nat] /\ reserved \in [Op -> Reservation]
    BY DEF Init, Reservation
  <2>3. due \in BOOLEAN /\ late \subseteq Proc /\ mishaps \in 0 .. MaxMishaps
    BY StorageAssumption DEF Init
  <2> QED BY <1>1, <2>1, <2>2, <2>3 DEF Sizing
<1>3. Working
  <2>1. PastWriting
    BY DEF Init, PastWriting, Kept, Item
  <2> QED BY <1>1, <2>1 DEF Working, Reaches, Marks, Proc
<1>4. Unreserved
  BY DEF Init, Unreserved
<1>5. Granted
  <2>1. \A o \in Op : proc[o].pc = "idle"
    BY <1>1 DEF Proc
  <2> QED BY <2>1, RelyingPc, PcNames DEF Granted, Fitting, AllCovered, Covered, Writers, At
<1>6. Estimated
  BY <1>1, PcNames DEF Estimated, Estimating
<1> QED BY <1>2, <1>3, <1>4, <1>5, <1>6

Counted == Sizing /\ Working /\ Unreserved

(* Whatever the faults, the sizes and the reservations are as they should  *)
(* be; and while nothing goes stale, so are the grants.                    *)
LEMMA CountedInvariance == Spec => [](Shapes /\ Leased /\ Counted)
<1>1. Init => Counted
  BY CountsInit DEF Counted
<1>2. Shapes /\ Leased /\ Counted /\ [Next]_vars => Counted'
  BY CountsStep, UnreservedStep DEF Counted, GrowsInto
<1> QED BY <1>1, <1>2, LeaseInvariance, PTL DEF Spec

LEMMA GrantedInvariance ==
  ASSUME Steady
  PROVE  Spec => [](Shapes /\ Leased /\ Counted /\ Granted /\ Estimated)
<1>1. Init => Granted /\ Estimated
  BY CountsInit
<1>2. Shapes /\ Leased /\ Counted /\ Granted /\ Estimated /\ [Next]_vars => Granted' /\ Estimated'
  BY CountsStep DEF Counted, GrowsInto
<1> QED BY <1>1, <1>2, CountedInvariance, PTL DEF Spec

(* Every variable has its type, and no operation has more on disk than it  *)
(* reserved: whatever fails, dies or overruns.                             *)
THEOREM TypesHold == Spec => []TypeOK
<1>1. Shapes /\ Leased /\ Counted => TypeOK
  <2> SUFFICES ASSUME Shapes, Counted PROVE TypeOK
    OBVIOUS
  <2>1. ASSUME NEW p \in Proc
        PROVE  proc[p] \in Local
    <3>1. Shaped(proc[p]) /\ Sized(proc[p])
      BY DEF Shapes, Counted, Sizing
    <3> QED BY <3>1 DEF Shaped, Sized, Field, Local
  <2>2. proc \in [Proc -> Local]
    BY <2>1 DEF Shapes
  <2> QED BY <2>2 DEF TypeOK, Shapes, Counted, Sizing
<1> QED BY <1>1, CountedInvariance, PTL

(* Admission across processes: for any number of concurrent Workers, what  *)
(* has been granted and not yet written fits the quota, and leaves the     *)
(* minimum free on every volume that the writers use, whatever crashes,    *)
(* fails to run or overruns its lease.                                     *)
THEOREM GrantsAlwaysFit ==
  ASSUME Steady
  PROVE  Spec => []GrantsFit
<1>1. Shapes /\ Leased /\ Counted /\ Granted /\ Estimated => GrantsFit
  <2> SUFFICES ASSUME Shapes, Sizing, Working, Fitting, NEW o \in Writers
               PROVE  /\ Used + SumFunction([w \in Writers |-> RootBytes[w] - bytes[w]]) <= Quota
                      /\ \A v \in Volumes(o) : Free(v) - Outstanding(v) >= MinFree
    BY DEF Counted, Granted, GrantsFit
  <2>1. bytes \in [Item -> Nat] /\ wrote \in [Op -> Nat] /\ Writers \in SUBSET Op /\ o \in Op
    BY DEF Shapes, Sizing, Writers
  <2>2. Used + SumFunction([w \in Writers |-> RootBytes[w] - bytes[w]]) = RootLoad(bytes, Writers)
    BY <2>1, UsedLoad DEF Used
  <2>3. RootLoad(bytes, Writers) <= Quota
    BY DEF Fitting
  <2>4. ASSUME NEW v \in Volumes(o)
        PROVE  Free(v) - Outstanding(v) >= MinFree
    <3> DEFINE a == SumFunctionOnSet(wrote, {q \in Op : Target[q] = v})
               b == SumFunction([q \in {w \in Writers : Target[w] = v} |-> TargetBytes[q] - wrote[q]])
               c == SumFunction([w \in Writers |-> RootBytes[w] - bytes[w]])
    <3>1. a + b = TargetLoad(wrote, Writers, v)
      BY <2>1, TargetsLoad
    <3>2. /\ Free(v) = Space[v] - (IF v = Root THEN Used ELSE 0) - a
          /\ Outstanding(v) = (IF v = Root THEN c ELSE 0) + b
      BY DEF Free, Outstanding
    <3>3. VolumeLoad(bytes, wrote, Writers, v) <= Space[v] - MinFree
      BY DEF Fitting
    <3>4. v \in Volume
      BY <2>1, Sizes DEF Volumes
    <3>5. /\ a \in Int /\ b \in Int /\ c \in Int /\ Used \in Int
      <4>1. a \in Int
        BY <2>1, Finite, SumType, Nat \subseteq Int, {q \in Op : Target[q] = v} \in SUBSET Op
      <4>2. ASSUME NEW U \in SUBSET Op, NEW f, DOMAIN f = U, \A q \in U : f[q] \in Int
            PROVE  SumFunction(f) \in Int
        BY <4>2, Finite, SumType DEF SumFunction
      <4>3. b \in Int
        <5> DEFINE U == {w \in Writers : Target[w] = v}
                   f == [q \in U |-> TargetBytes[q] - wrote[q]]
        <5>1. U \in SUBSET Op /\ DOMAIN f = U /\ \A q \in U : f[q] \in Int
          BY <2>1, Sizes
        <5> HIDE DEF U, f
        <5>2. SumFunction(f) \in Int
          BY <4>2, <5>1
        <5> QED BY <5>2 DEF U, f
      <4>4. c \in Int
        <5> DEFINE f == [w \in Writers |-> RootBytes[w] - bytes[w]]
        <5>1. DOMAIN f = Writers /\ \A q \in Writers : f[q] \in Int
          BY <2>1, Sizes DEF Item
        <5> HIDE DEF f
        <5>2. SumFunction(f) \in Int
          BY <2>1, <4>2, <5>1
        <5> QED BY <5>2 DEF f
      <4> QED BY <4>1, <4>3, <4>4, Measures
    <3>6. Space[v] \in Int /\ MinFree \in Int
      BY <3>4, Sizes
    <3>7. VolumeLoad(bytes, wrote, Writers, v) =
              (IF v = Root THEN RootLoad(bytes, Writers) ELSE 0) + TargetLoad(wrote, Writers, v)
      BY DEF VolumeLoad
    <3>8. Used + c = RootLoad(bytes, Writers)
      BY <2>2
    <3> HIDE DEF a, b, c
    <3>9. CASE v = Root
      BY <3>1, <3>2, <3>3, <3>5, <3>6, <3>7, <3>8, <3>9
    <3>10. CASE v # Root
      BY <3>1, <3>2, <3>3, <3>5, <3>6, <3>7, <3>10
    <3> QED BY <3>9, <3>10
  <2> QED BY <2>2, <2>3, <2>4
<1> QED BY <1>1, GrantedInvariance, PTL

(* Under pressure pruneStorage deletes nothing once the data root is down  *)
(* to nine tenths of its quota, while other operations go on writing and   *)
(* no collector has outlasted its lease.                                   *)
THEOREM CollectorsStopAtTarget ==
  ASSUME Steady
  PROVE  Spec => QuotaStops
<1>1. Shapes /\ Leased /\ Counted /\ Granted /\ Estimated /\ [Next]_vars
          => (\A p \in Proc : late = {} /\ proc[p].pc \in Pressure /\ proc'[p].pc = "mark"
                  => Used > QuotaTarget)
  <2> SUFFICES ASSUME Shapes, Sizing, Estimated, [Next]_vars, NEW p \in Proc, late = {},
                      proc[p].pc \in Pressure, proc'[p].pc = "mark"
               PROVE  Used > QuotaTarget
    BY DEF Counted
  <2>1. proc[p].used <= Used
    BY PcNames DEF Estimated, Estimating, Loop
  <2>2. RemoveContents(p)
    <3>1. CASE QuietStep
      <4>1. PICK q \in Proc : \E l : Quiet(q, l)
        BY <3>1, QuietSteps
      <4> QED BY <4>1, PcNames DEF Quiet, Moves, Shapes, Pressure
    <3>2. CASE IdleStep
      <4>1. proc' = proc
        BY <3>2 DEF IdleStep, DeadLeaseEnds, LeaseOverrun, IntervalPasses, ReservationEnds, vars
      <4> QED BY <4>1 DEF Pressure
    <3>3. CASE ContentsStep
      <4>0. proc = [q \in Proc |-> proc[q]] /\ proc'[p] # proc[p] /\ Pressure \subseteq Loop
            /\ "mark" \notin Pressure /\ "contents" \notin Pressure
        BY DEF Shapes, Pressure, Loop
      <4>1. CASE \E q \in Proc : RemoveContents(q)
        <5>1. PICK q \in Proc : RemoveContents(q)
          BY <4>1
        <5>2. q = p
          BY <4>0, <5>1 DEF RemoveContents
        <5> QED BY <5>1, <5>2
      <4>2. CASE \E q \in Proc : MarkRow(q) \/ RemoveFails(q) \/ EndContents(q)
        <5>1. PICK q \in Proc : MarkRow(q) \/ RemoveFails(q) \/ EndContents(q)
          BY <4>2
        <5>2. q = p
          BY <4>0, <5>1 DEF MarkRow, RemoveFails, EndContents
        <5>3. RemoveFails(p)
          BY <4>0, <5>1, <5>2 DEF MarkRow, EndContents, At
        <5> DEFINE l == [NoLocal EXCEPT !.pc = IF p \in Sweeper THEN "idle" ELSE "over"]
        <5>4. proc'[p] = l
          BY <4>0, <5>3 DEF RemoveFails
        <5>5. l.pc \in {"idle", "over"}
          BY NoLocalShaped DEF Shaped, Field
        <5> QED BY <5>4, <5>5
      <4>3. CASE \E o \in Op : InsertJob(o) \/ Write(o) \/ Record(o) \/ Fail(o) \/ Reconcile(o)
        <5>1. PICK o \in Op : InsertJob(o) \/ Write(o) \/ Record(o) \/ Fail(o) \/ Reconcile(o)
          BY <4>3
        <5>2. proc' = proc \/ Goto(o, "release")
          BY <5>1 DEF InsertJob, Write, Record, Fail, Reconcile
        <5>3. CASE Goto(o, "release")
          BY <4>0, <5>3 DEF Goto, Shapes, Shaped, Field
        <5> QED BY <4>0, <5>2, <5>3
      <4> QED BY <3>3, <4>1, <4>2, <4>3 DEF ContentsStep
    <3> QED BY <3>1, <3>2, <3>3, Steps
  <2>3. ~(proc[p].used <= QuotaTarget)
    BY <2>2 DEF RemoveContents, LoopEnds
  <2>4. proc[p].used \in Nat /\ Used \in Nat /\ QuotaTarget \in Int
    BY Measures, Sizes DEF Sizing, Sized, QuotaTarget
  <2> QED BY <2>1, <2>3, <2>4
<1> QED BY <1>1, GrantedInvariance, PTL DEF Spec, QuotaStops
=============================================================================
