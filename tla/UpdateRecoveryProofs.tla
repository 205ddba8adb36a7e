------------------------ MODULE UpdateRecoveryProofs ------------------------
(* Proofs about UpdateRecovery, for any number of versions, backup          *)
(* directories and mishaps: an open receipt keeps its old package, its      *)
(* rollback is launched at most once, and an updater works only under the   *)
(* lease unless the lease was lost.                                         *)
EXTENDS UpdateRecovery, TLAPS

\* Where the app is in the middle of something that it knows from the receipt.
HoldsReceipt == {"probe", "verify", "mark", "launch", "giveup", "complete", "erase",
                 "download", "cancel", "erase_cancelled"}

(* A step that reads the receipt finds one, in the state that led there.    *)
ReceiptThere ==
  /\ app.pc \in HoldsReceipt => receipt # None
  /\ app.pc \in {"verify", "mark", "download"} => receipt.state = "prepared"
  /\ At("launch") => receipt.state = "rollback_started"
  /\ At("release") => receipt = None \/ receipt.state = "rollback_failed"

(* A rollback that was launched is written in the receipt.                  *)
Launches ==
  /\ tried \in {0, 1}
  /\ tried = 1 => receipt # None /\ receipt.state # "prepared"
  /\ At("launch") => tried = 0

(* The directory of an update in preparation is not the receipt's.          *)
Apart ==
  /\ app.pc \in {"stage", "seal", "record", "undo"} /\ receipt # None =>
       app.dir # receipt.dir
  /\ app.pc \in {"seal", "record"} => app.dir \in Dir /\ app.dir \notin cut
  /\ At("record") => pkg[app.dir] \in {"whole", "damaged"}

(* The lease is taken when no Job is active and keeps them out; an open     *)
(* receipt has it or has lost it, and only a start ahead of the updater     *)
(* brings an app and an updater together.                                   *)
Leased ==
  /\ lease # None => ~job
  /\ receipt # None /\ receipt.state # "rollback_failed" => lapsed \/ lease = "update"
  /\ updater # None => lapsed \/ (lease = "update" /\ At("off"))

UpdateInv == TypeOK /\ ReceiptThere /\ Launches /\ OldPackageKept /\ Apart /\ Leased

(* The properties hold of a state that satisfies the invariant.             *)
LEMMA UpdateInvGives == UpdateInv => NoRetryLoop /\ LeaseCovers
  BY NamesAssumption
  DEF UpdateInv, Launches, Leased, NoRetryLoop, LeaseCovers, Owner

LEMMA InitialInv ==
  ASSUME Init
  PROVE  UpdateInv
<1>1. TypeOK
  <2>1. app \in [pc : {"off"}, version : Version, dir : Dir \cup {NoDir}]
    BY NewestAssumption DEF Init, Version
  <2>2. pkg \in [Dir -> {"absent", "partial", "whole", "damaged"}] /\ lapsed \in BOOLEAN
    BY DEF Init
  <2> QED
    BY <2>1, <2>2, BoundAssumption, NewestAssumption DEF Init, TypeOK, Version
<1>2. ReceiptThere /\ Launches /\ OldPackageKept /\ Apart /\ Leased
  BY DEF Init, ReceiptThere, HoldsReceipt, Launches, OldPackageKept, Apart, Leased, At
<1> QED BY <1>1, <1>2 DEF UpdateInv

(* Every step keeps the types.                                              *)
LEMMA TypesKept ==
  ASSUME TypeOK, ReceiptThere, Apart, Next
  PROVE  TypeOK'
<1>1. CASE ReadReceipt
  BY <1>1, NamesAssumption, NewestAssumption, BoundAssumption
  DEF ReadReceipt, Step, Goes, AfterRead, Quiet, At, Disk, Old, New, history,
      Version, Owner, Receipt, Updater, TypeOK, ReceiptThere, HoldsReceipt
<1>2. CASE Probe
  BY <1>2, NamesAssumption, NewestAssumption, BoundAssumption
  DEF Probe, Step, Goes, Healthy, Quiet, At, Disk, history, Version, Owner,
      Receipt, Updater, TypeOK, ReceiptThere, HoldsReceipt
<1>3. CASE VerifyPackage
  BY <1>3, NamesAssumption, NewestAssumption, BoundAssumption
  DEF VerifyPackage, Step, Goes, Quiet, At, Disk, history, Version, Owner,
      Receipt, Updater, TypeOK, ReceiptThere, HoldsReceipt
<1>4. CASE MarkRollback
  BY <1>4, NamesAssumption, NewestAssumption, BoundAssumption
  DEF MarkRollback, Step, WritesState, At, Disk, Goes, history, Version,
      Owner, Receipt, Updater, TypeOK, ReceiptThere, HoldsReceipt
<1>5. CASE GiveUp
  BY <1>5, NamesAssumption, NewestAssumption, BoundAssumption
  DEF GiveUp, Step, WritesState, At, Disk, Goes, history, Version, Owner,
      Receipt, Updater, TypeOK, ReceiptThere, HoldsReceipt
<1>6. CASE LaunchRollback
  BY <1>6, NamesAssumption, NewestAssumption, BoundAssumption
  DEF LaunchRollback, At, Exits, Goes, Version, Owner, Receipt, Updater,
      TypeOK, ReceiptThere, HoldsReceipt
<1>7. CASE Complete
  BY <1>7, NamesAssumption, NewestAssumption, BoundAssumption
  DEF Complete, At, Disk, Goes, history, Version, Owner, Receipt, Updater,
      TypeOK, ReceiptThere, HoldsReceipt
<1>8. CASE Erase
  BY <1>8, NamesAssumption, NewestAssumption, BoundAssumption
  DEF Erase, At, Disk, Goes, Version, Owner, Receipt, Updater, TypeOK
<1>9. CASE Release
  BY <1>9, NamesAssumption, NewestAssumption, BoundAssumption
  DEF Release, At, Healthy, Goes, history, Version, Owner, Receipt, Updater,
      TypeOK
<1>10. CASE BackupState
  BY <1>10, NamesAssumption, NewestAssumption, BoundAssumption
  DEF BackupState, Step, Quiet, At, Disk, history, Version, Owner, Receipt,
      Updater, TypeOK
<1>11. CASE StagePackage
  <2>1. PICK d \in Unused :
          /\ pkg' = [pkg EXCEPT ![d] = "partial"]
          /\ app' = [app EXCEPT !.pc = "seal", !.dir = d]
    BY <1>11 DEF StagePackage
  <2>2. d \in Dir
    BY <2>1 DEF Unused
  <2> QED
    BY <1>11, <2>1, <2>2, NewestAssumption, BoundAssumption
    DEF StagePackage, Step, history, At, Disk, Version, Owner, Receipt, Updater, TypeOK
<1>12. CASE SealPackage
  BY <1>12, NamesAssumption, NewestAssumption, BoundAssumption
  DEF SealPackage, Step, Goes, history, At, Disk, Version, Owner, Receipt,
      Updater, TypeOK
<1>13. CASE RecordReceipt
  <2>1. PICK v \in Version :
          receipt' = [state |-> "prepared", previous |-> app.version, target |-> v,
                      dir |-> app.dir]
    BY <1>13 DEF RecordReceipt
  <2>2. receipt' \in Receipt
    BY <1>13, <2>1 DEF RecordReceipt, Step, At, TypeOK, Apart, Receipt
  <2>3. lapsed' \in BOOLEAN
    BY <1>13, Zenon DEF RecordReceipt
  <2> QED
    BY <1>13, <2>2, <2>3, NewestAssumption, BoundAssumption
    DEF RecordReceipt, Step, Goes, At, Disk, Version, Owner, TypeOK
<1>14. CASE Apply
  BY <1>14, NamesAssumption, NewestAssumption, BoundAssumption
  DEF Apply, At, Exits, history, Goes, Version, Owner, Receipt, Updater,
      TypeOK, ReceiptThere, HoldsReceipt
<1>15. CASE Undo
  BY <1>15, NamesAssumption, NewestAssumption, BoundAssumption
  DEF Undo, Step, Goes, history, At, Disk, Version, Owner, Receipt, Updater,
      TypeOK
<1>16. CASE EndUpdate
  BY <1>16, NamesAssumption, NewestAssumption, BoundAssumption
  DEF EndUpdate, At, EndLease, Goes, Version, Owner, Receipt, Updater, TypeOK
<1>17. CASE EndUninstall
  BY <1>17, NamesAssumption, NewestAssumption, BoundAssumption
  DEF EndUninstall, At, EndLease, Mishap, Goes, Version, Owner, Receipt,
      Updater, TypeOK
<1>18. CASE Uninstalled
  BY <1>18, NamesAssumption, NewestAssumption, BoundAssumption
  DEF Uninstalled, At, Goes, Disk, Quiet, history, Version, Owner, Receipt,
      Updater, TypeOK
<1>19. CASE BeginUpdate
  BY <1>19, NamesAssumption, NewestAssumption, BoundAssumption
  DEF BeginUpdate, At, Unused, Takes, Goes, Admitted, history, Version, Owner,
      Receipt, Updater, TypeOK
<1>20. CASE BeginUninstall
  BY <1>20, NamesAssumption, NewestAssumption, BoundAssumption
  DEF BeginUninstall, At, Takes, Goes, Admitted, history, Version, Owner,
      Receipt, Updater, TypeOK
<1>21. CASE Repair
  BY <1>21, NamesAssumption, NewestAssumption, BoundAssumption
  DEF Repair, At, Version, Owner, Receipt, Updater, TypeOK
<1>22. CASE UserQuits
  BY <1>22, NamesAssumption, NewestAssumption, BoundAssumption
  DEF UserQuits, At, Exits, Disk, Quiet, Goes, history, Version, Owner,
      Receipt, Updater, TypeOK
<1>23. CASE UserStarts
  BY <1>23, NamesAssumption, NewestAssumption, BoundAssumption
  DEF UserStarts, At, Starts, Disk, Version, Owner, Receipt, Updater, TypeOK
<1>24. CASE UpdaterApplies
  BY <1>24, NamesAssumption, NewestAssumption, BoundAssumption
  DEF UpdaterApplies, At, CanInstall, Starts, history, Version, Owner,
      Receipt, Updater, TypeOK
<1>25. CASE UpdaterFails
  BY <1>25, NamesAssumption, NewestAssumption, BoundAssumption
  DEF UpdaterFails, CanInstall, Mishap, history, Version, Owner, Receipt,
      Updater, TypeOK
<1>26. CASE JobStarts
  BY <1>26, NamesAssumption, NewestAssumption, BoundAssumption
  DEF JobStarts, history, Version, Owner, Receipt, Updater, TypeOK
<1>27. CASE JobEnds
  <2>1. job' \in BOOLEAN
    BY <1>27 DEF JobEnds
  <2> QED
    BY <1>27, <2>1 DEF JobEnds, history, TypeOK
<1>28. CASE LeaseExpires
  BY <1>28, NamesAssumption, NewestAssumption, BoundAssumption
  DEF LeaseExpires, Mishap, Version, Owner, Receipt, Updater, TypeOK
<1>29. CASE StepFails
  BY <1>29, NamesAssumption, NewestAssumption, BoundAssumption
  DEF StepFails, AfterFailure, Mishap, Goes, Version, Owner, Receipt, Updater,
      TypeOK, ReceiptThere, HoldsReceipt
<1>30. CASE AppDies
  BY <1>30, NamesAssumption, NewestAssumption, BoundAssumption
  DEF AppDies, Mishap, Exits, Goes, Version, Owner, Receipt, Updater, TypeOK,
      ReceiptThere, HoldsReceipt
<1>31. ASSUME NEW v \in Version, UserInstalls(v) PROVE TypeOK'
  BY <1>31, NamesAssumption, NewestAssumption, BoundAssumption
  DEF UserInstalls, At, Mishap, history, Version, Owner, Receipt, Updater,
      TypeOK
<1>32. ASSUME NEW v \in Version, HealthChanges(v) PROVE TypeOK'
  BY <1>32, NamesAssumption, NewestAssumption, BoundAssumption
  DEF HealthChanges, Mishap, history, Version, Owner, Receipt, Updater, TypeOK
<1>33. ASSUME NEW d \in Dir, PackageDamaged(d) PROVE TypeOK'
  BY <1>33, NamesAssumption, NewestAssumption, BoundAssumption
  DEF PackageDamaged, Mishap, history, Version, Owner, Receipt, Updater,
      TypeOK
<1> QED BY <1>1, <1>2, <1>3, <1>4, <1>5, <1>6, <1>7, <1>8, <1>9, <1>10, <1>11,
      <1>12, <1>13, <1>14, <1>15, <1>16, <1>17, <1>18, <1>19, <1>20, <1>21,
      <1>22, <1>23, <1>24, <1>25, <1>26, <1>27, <1>28, <1>29, <1>30, <1>31,
      <1>32, <1>33
  DEF Next, Startup, Command

(* Every step leaves a receipt where the app will read one.                 *)
LEMMA ReceiptKept ==
  ASSUME TypeOK, ReceiptThere, Apart, Next
  PROVE  ReceiptThere'
<1>1. CASE ReadReceipt
  BY <1>1, NamesAssumption
  DEF ReadReceipt, Step, Goes, AfterRead, Quiet, At, Disk, Old, New, history,
      HoldsReceipt, TypeOK, ReceiptThere, Receipt
<1>2. CASE Probe
  BY <1>2, NamesAssumption
  DEF Probe, Step, Goes, Healthy, Quiet, At, Disk, history, HoldsReceipt,
      TypeOK, ReceiptThere, Receipt
<1>3. CASE VerifyPackage
  BY <1>3, NamesAssumption
  DEF VerifyPackage, Step, Goes, Quiet, At, Disk, history, HoldsReceipt,
      TypeOK, ReceiptThere, Receipt
<1>4. CASE MarkRollback
  BY <1>4, NamesAssumption
  DEF MarkRollback, Step, WritesState, At, Disk, Goes, history, HoldsReceipt,
      TypeOK, ReceiptThere, Receipt
<1>5. CASE GiveUp
  BY <1>5, NamesAssumption
  DEF GiveUp, Step, WritesState, At, Disk, Goes, history, HoldsReceipt,
      TypeOK, ReceiptThere, Receipt
<1>6. CASE LaunchRollback
  BY <1>6, NamesAssumption
  DEF LaunchRollback, At, Exits, Goes, HoldsReceipt, TypeOK, ReceiptThere,
      Receipt
<1>7. CASE Complete
  BY <1>7, NamesAssumption
  DEF Complete, At, Disk, Goes, history, HoldsReceipt, TypeOK, ReceiptThere,
      Receipt
<1>8. CASE Erase
  BY <1>8, NamesAssumption
  DEF Erase, At, Disk, Goes, HoldsReceipt, TypeOK, ReceiptThere, Receipt
<1>9. CASE Release
  BY <1>9, NamesAssumption
  DEF Release, At, Healthy, Goes, history, HoldsReceipt, TypeOK, ReceiptThere,
      Receipt
<1>10. CASE BackupState
  BY <1>10, NamesAssumption
  DEF BackupState, Step, Quiet, At, Disk, history, HoldsReceipt, TypeOK,
      ReceiptThere, Receipt
<1>11. CASE StagePackage
  BY <1>11, NamesAssumption
  DEF StagePackage, Step, Unused, history, At, Disk, HoldsReceipt, TypeOK,
      ReceiptThere, Receipt
<1>12. CASE SealPackage
  BY <1>12, NamesAssumption
  DEF SealPackage, Step, Goes, history, At, Disk, HoldsReceipt, TypeOK,
      ReceiptThere, Receipt
<1>13. CASE RecordReceipt
  <2>1. PICK v \in Version :
          receipt' = [state |-> "prepared", previous |-> app.version, target |-> v,
                      dir |-> app.dir]
    BY <1>13 DEF RecordReceipt
  <2>2. receipt' # None /\ receipt'.state = "prepared"
    BY <1>13, <2>1, NamesAssumption DEF RecordReceipt, Step, At, TypeOK, Apart, Receipt
  <2> QED
    BY <1>13, <2>2 DEF RecordReceipt, Step, At, Goes, TypeOK, ReceiptThere, HoldsReceipt
<1>14. CASE Apply
  BY <1>14, NamesAssumption
  DEF Apply, At, Exits, history, Goes, HoldsReceipt, TypeOK, ReceiptThere,
      Receipt
<1>15. CASE Undo
  BY <1>15, NamesAssumption
  DEF Undo, Step, Goes, history, At, Disk, HoldsReceipt, TypeOK, ReceiptThere,
      Receipt
<1>16. CASE EndUpdate
  BY <1>16, NamesAssumption
  DEF EndUpdate, At, EndLease, Goes, HoldsReceipt, TypeOK, ReceiptThere,
      Receipt
<1>17. CASE EndUninstall
  BY <1>17, NamesAssumption
  DEF EndUninstall, At, EndLease, Mishap, Goes, HoldsReceipt, TypeOK,
      ReceiptThere, Receipt
<1>18. CASE Uninstalled
  BY <1>18, NamesAssumption
  DEF Uninstalled, At, Goes, Disk, Quiet, history, HoldsReceipt, TypeOK,
      ReceiptThere, Receipt
<1>19. CASE BeginUpdate
  BY <1>19, NamesAssumption
  DEF BeginUpdate, At, Unused, Takes, Goes, Admitted, history, HoldsReceipt,
      TypeOK, ReceiptThere, Receipt
<1>20. CASE BeginUninstall
  BY <1>20, NamesAssumption
  DEF BeginUninstall, At, Takes, Goes, Admitted, history, HoldsReceipt,
      TypeOK, ReceiptThere, Receipt
<1>21. CASE UserQuits
  BY <1>21, NamesAssumption
  DEF UserQuits, At, Exits, Disk, Quiet, Goes, history, HoldsReceipt, TypeOK,
      ReceiptThere, Receipt
<1>22. CASE UserStarts
  BY <1>22, NamesAssumption
  DEF UserStarts, At, Starts, Disk, HoldsReceipt, TypeOK, ReceiptThere,
      Receipt
<1>23. CASE UpdaterApplies
  BY <1>23, NamesAssumption
  DEF UpdaterApplies, At, CanInstall, Starts, history, HoldsReceipt, TypeOK,
      ReceiptThere, Receipt
<1>24. CASE StepFails
  BY <1>24, NamesAssumption
  DEF StepFails, AfterFailure, Mishap, Goes, At, HoldsReceipt, TypeOK,
      ReceiptThere, Receipt
<1>25. CASE AppDies
  BY <1>25, NamesAssumption
  DEF AppDies, Mishap, Exits, Goes, At, HoldsReceipt, TypeOK, ReceiptThere,
      Receipt
<1>26. CASE \/ Repair \/ UpdaterFails \/ JobStarts \/ JobEnds \/ LeaseExpires
            \/ \E v \in Version : UserInstalls(v) \/ HealthChanges(v)
            \/ \E d \in Dir : PackageDamaged(d)
  <2>1. UNCHANGED <<app, receipt>>
    BY <1>26
    DEF Repair, UpdaterFails, JobStarts, JobEnds, LeaseExpires, UserInstalls,
        HealthChanges, PackageDamaged, history
  <2> QED BY <2>1 DEF ReceiptThere, At
<1> QED BY <1>1, <1>2, <1>3, <1>4, <1>5, <1>6, <1>7, <1>8, <1>9, <1>10, <1>11,
      <1>12, <1>13, <1>14, <1>15, <1>16, <1>17, <1>18, <1>19, <1>20, <1>21,
      <1>22, <1>23, <1>24, <1>25, <1>26
  DEF Next, Startup, Command

(* A second launch would need a receipt in the state of the first.          *)
LEMMA LaunchesKept ==
  ASSUME TypeOK, ReceiptThere, Launches, Next
  PROVE  Launches'
<1>1. CASE ReadReceipt
  BY <1>1, NamesAssumption
  DEF ReadReceipt, Step, Goes, AfterRead, Quiet, At, Disk, Old, New, history,
      TypeOK, ReceiptThere, Launches, HoldsReceipt, Receipt
<1>2. CASE Probe
  BY <1>2, NamesAssumption
  DEF Probe, Step, Goes, Healthy, Quiet, At, Disk, history, TypeOK,
      ReceiptThere, Launches, HoldsReceipt, Receipt
<1>3. CASE VerifyPackage
  BY <1>3, NamesAssumption
  DEF VerifyPackage, Step, Goes, Quiet, At, Disk, history, TypeOK,
      ReceiptThere, Launches, HoldsReceipt, Receipt
<1>4. CASE MarkRollback
  BY <1>4, NamesAssumption
  DEF MarkRollback, Step, WritesState, At, Disk, Goes, history, TypeOK,
      ReceiptThere, Launches, HoldsReceipt, Receipt
<1>5. CASE GiveUp
  BY <1>5, NamesAssumption
  DEF GiveUp, Step, WritesState, At, Disk, Goes, history, TypeOK,
      ReceiptThere, Launches, HoldsReceipt, Receipt
<1>6. CASE LaunchRollback
  BY <1>6, NamesAssumption
  DEF LaunchRollback, At, Exits, Goes, TypeOK, ReceiptThere, Launches,
      HoldsReceipt, Receipt
<1>7. CASE Complete
  BY <1>7, NamesAssumption
  DEF Complete, At, Disk, Goes, history, TypeOK, ReceiptThere, Launches,
      HoldsReceipt, Receipt
<1>8. CASE Erase
  BY <1>8, NamesAssumption
  DEF Erase, At, Disk, Goes, TypeOK, ReceiptThere, Launches, HoldsReceipt,
      Receipt
<1>9. CASE Release
  BY <1>9, NamesAssumption
  DEF Release, At, Healthy, Goes, history, TypeOK, ReceiptThere, Launches,
      HoldsReceipt, Receipt
<1>10. CASE BackupState
  BY <1>10, NamesAssumption
  DEF BackupState, Step, Quiet, At, Disk, history, TypeOK, ReceiptThere,
      Launches, HoldsReceipt, Receipt
<1>11. CASE StagePackage
  BY <1>11, NamesAssumption
  DEF StagePackage, Step, Unused, history, At, Disk, TypeOK, ReceiptThere,
      Launches, HoldsReceipt, Receipt
<1>12. CASE SealPackage
  BY <1>12, NamesAssumption
  DEF SealPackage, Step, Goes, history, At, Disk, TypeOK, ReceiptThere,
      Launches, HoldsReceipt, Receipt
<1>13. CASE RecordReceipt
  BY <1>13, NamesAssumption
  DEF RecordReceipt, Step, Version, Goes, At, Disk, TypeOK, ReceiptThere,
      Launches, HoldsReceipt, Receipt
<1>14. CASE Apply
  BY <1>14, NamesAssumption
  DEF Apply, At, Exits, history, Goes, TypeOK, ReceiptThere, Launches,
      HoldsReceipt, Receipt
<1>15. CASE Undo
  BY <1>15, NamesAssumption
  DEF Undo, Step, Goes, history, At, Disk, TypeOK, ReceiptThere, Launches,
      HoldsReceipt, Receipt
<1>16. CASE EndUpdate
  BY <1>16, NamesAssumption
  DEF EndUpdate, At, EndLease, Goes, TypeOK, ReceiptThere, Launches,
      HoldsReceipt, Receipt
<1>17. CASE EndUninstall
  BY <1>17, NamesAssumption
  DEF EndUninstall, At, EndLease, Mishap, Goes, TypeOK, ReceiptThere,
      Launches, HoldsReceipt, Receipt
<1>18. CASE Uninstalled
  BY <1>18, NamesAssumption
  DEF Uninstalled, At, Goes, Disk, Quiet, history, TypeOK, ReceiptThere,
      Launches, HoldsReceipt, Receipt
<1>19. CASE BeginUpdate
  BY <1>19, NamesAssumption
  DEF BeginUpdate, At, Unused, Takes, Goes, Admitted, history, TypeOK,
      ReceiptThere, Launches, HoldsReceipt, Receipt
<1>20. CASE BeginUninstall
  BY <1>20, NamesAssumption
  DEF BeginUninstall, At, Takes, Goes, Admitted, history, TypeOK,
      ReceiptThere, Launches, HoldsReceipt, Receipt
<1>21. CASE UserQuits
  BY <1>21, NamesAssumption
  DEF UserQuits, At, Exits, Disk, Quiet, Goes, history, TypeOK, ReceiptThere,
      Launches, HoldsReceipt, Receipt
<1>22. CASE UserStarts
  BY <1>22, NamesAssumption
  DEF UserStarts, At, Starts, Disk, TypeOK, ReceiptThere, Launches,
      HoldsReceipt, Receipt
<1>23. CASE UpdaterApplies
  BY <1>23, NamesAssumption
  DEF UpdaterApplies, At, CanInstall, Starts, history, TypeOK, ReceiptThere,
      Launches, HoldsReceipt, Receipt
<1>24. CASE StepFails
  BY <1>24, NamesAssumption
  DEF StepFails, AfterFailure, Mishap, Goes, At, TypeOK, ReceiptThere,
      Launches, HoldsReceipt, Receipt
<1>25. CASE AppDies
  BY <1>25, NamesAssumption
  DEF AppDies, Mishap, Exits, Goes, At, TypeOK, ReceiptThere, Launches,
      HoldsReceipt, Receipt
<1>26. CASE \/ Repair \/ UpdaterFails \/ JobStarts \/ JobEnds \/ LeaseExpires
            \/ \E v \in Version : UserInstalls(v) \/ HealthChanges(v)
            \/ \E d \in Dir : PackageDamaged(d)
  <2>1. UNCHANGED <<app, receipt, tried>>
    BY <1>26
    DEF Repair, UpdaterFails, JobStarts, JobEnds, LeaseExpires, UserInstalls,
        HealthChanges, PackageDamaged, history
  <2> QED BY <2>1 DEF Launches, At
<1> QED BY <1>1, <1>2, <1>3, <1>4, <1>5, <1>6, <1>7, <1>8, <1>9, <1>10, <1>11,
      <1>12, <1>13, <1>14, <1>15, <1>16, <1>17, <1>18, <1>19, <1>20, <1>21,
      <1>22, <1>23, <1>24, <1>25, <1>26
  DEF Next, Startup, Command

(* Only a completion, or the undoing of another update, deletes a package.  *)
LEMMA PackageKept ==
  ASSUME TypeOK, ReceiptThere, OldPackageKept, Apart, Next
  PROVE  OldPackageKept'
<1>1. CASE ReadReceipt
  BY <1>1, NamesAssumption
  DEF ReadReceipt, Step, Goes, AfterRead, Quiet, At, Disk, Old, New, history,
      TypeOK, ReceiptThere, OldPackageKept, Apart, HoldsReceipt, Receipt
<1>2. CASE Probe
  BY <1>2, NamesAssumption
  DEF Probe, Step, Goes, Healthy, Quiet, At, Disk, history, TypeOK,
      ReceiptThere, OldPackageKept, Apart, HoldsReceipt, Receipt
<1>3. CASE VerifyPackage
  BY <1>3, NamesAssumption
  DEF VerifyPackage, Step, Goes, Quiet, At, Disk, history, TypeOK,
      ReceiptThere, OldPackageKept, Apart, HoldsReceipt, Receipt
<1>4. CASE MarkRollback
  BY <1>4, NamesAssumption
  DEF MarkRollback, Step, WritesState, At, Disk, Goes, history, TypeOK,
      ReceiptThere, OldPackageKept, Apart, HoldsReceipt, Receipt
<1>5. CASE GiveUp
  BY <1>5, NamesAssumption
  DEF GiveUp, Step, WritesState, At, Disk, Goes, history, TypeOK,
      ReceiptThere, OldPackageKept, Apart, HoldsReceipt, Receipt
<1>6. CASE LaunchRollback
  BY <1>6, NamesAssumption
  DEF LaunchRollback, At, Exits, Goes, TypeOK, ReceiptThere, OldPackageKept,
      Apart, HoldsReceipt, Receipt
<1>7. CASE Complete
  BY <1>7, NamesAssumption
  DEF Complete, At, Disk, Goes, history, TypeOK, ReceiptThere, OldPackageKept,
      Apart, HoldsReceipt, Receipt
<1>8. CASE Erase
  BY <1>8, NamesAssumption
  DEF Erase, At, Disk, Goes, TypeOK, ReceiptThere, OldPackageKept, Apart,
      HoldsReceipt, Receipt
<1>9. CASE Release
  BY <1>9, NamesAssumption
  DEF Release, At, Healthy, Goes, history, TypeOK, ReceiptThere,
      OldPackageKept, Apart, HoldsReceipt, Receipt
<1>10. CASE BackupState
  BY <1>10, NamesAssumption
  DEF BackupState, Step, Quiet, At, Disk, history, TypeOK, ReceiptThere,
      OldPackageKept, Apart, HoldsReceipt, Receipt
<1>11. CASE StagePackage
  BY <1>11, NamesAssumption
  DEF StagePackage, Step, Unused, history, At, Disk, TypeOK, ReceiptThere,
      OldPackageKept, Apart, HoldsReceipt, Receipt
<1>12. CASE SealPackage
  BY <1>12, NamesAssumption
  DEF SealPackage, Step, Goes, history, At, Disk, TypeOK, ReceiptThere,
      OldPackageKept, Apart, HoldsReceipt, Receipt
<1>13. CASE RecordReceipt
  BY <1>13, NamesAssumption
  DEF RecordReceipt, Step, Version, Goes, At, Disk, TypeOK, ReceiptThere,
      OldPackageKept, Apart, HoldsReceipt, Receipt
<1>14. CASE Apply
  BY <1>14, NamesAssumption
  DEF Apply, At, Exits, history, Goes, TypeOK, ReceiptThere, OldPackageKept,
      Apart, HoldsReceipt, Receipt
<1>15. CASE Undo
  BY <1>15, NamesAssumption
  DEF Undo, Step, Goes, history, At, Disk, TypeOK, ReceiptThere,
      OldPackageKept, Apart, HoldsReceipt, Receipt
<1>16. CASE EndUpdate
  BY <1>16, NamesAssumption
  DEF EndUpdate, At, EndLease, Goes, TypeOK, ReceiptThere, OldPackageKept,
      Apart, HoldsReceipt, Receipt
<1>17. CASE EndUninstall
  BY <1>17, NamesAssumption
  DEF EndUninstall, At, EndLease, Mishap, Goes, TypeOK, ReceiptThere,
      OldPackageKept, Apart, HoldsReceipt, Receipt
<1>18. CASE Uninstalled
  BY <1>18, NamesAssumption
  DEF Uninstalled, At, Goes, Disk, Quiet, history, TypeOK, ReceiptThere,
      OldPackageKept, Apart, HoldsReceipt, Receipt
<1>19. CASE BeginUpdate
  BY <1>19, NamesAssumption
  DEF BeginUpdate, At, Unused, Takes, Goes, Admitted, history, TypeOK,
      ReceiptThere, OldPackageKept, Apart, HoldsReceipt, Receipt
<1>20. CASE BeginUninstall
  BY <1>20, NamesAssumption
  DEF BeginUninstall, At, Takes, Goes, Admitted, history, TypeOK,
      ReceiptThere, OldPackageKept, Apart, HoldsReceipt, Receipt
<1>21. CASE UserQuits
  BY <1>21, NamesAssumption
  DEF UserQuits, At, Exits, Disk, Quiet, Goes, history, TypeOK, ReceiptThere,
      OldPackageKept, Apart, HoldsReceipt, Receipt
<1>22. CASE UserStarts
  BY <1>22, NamesAssumption
  DEF UserStarts, At, Starts, Disk, TypeOK, ReceiptThere, OldPackageKept,
      Apart, HoldsReceipt, Receipt
<1>23. CASE UpdaterApplies
  BY <1>23, NamesAssumption
  DEF UpdaterApplies, At, CanInstall, Starts, history, TypeOK, ReceiptThere,
      OldPackageKept, Apart, HoldsReceipt, Receipt
<1>24. CASE StepFails
  BY <1>24, NamesAssumption
  DEF StepFails, AfterFailure, Mishap, Goes, At, TypeOK, ReceiptThere,
      OldPackageKept, Apart, HoldsReceipt, Receipt
<1>25. CASE AppDies
  BY <1>25, NamesAssumption
  DEF AppDies, Mishap, Exits, Goes, At, TypeOK, ReceiptThere, OldPackageKept,
      Apart, HoldsReceipt, Receipt
<1>26. ASSUME NEW d \in Dir, PackageDamaged(d) PROVE OldPackageKept'
  BY <1>26, NamesAssumption
  DEF PackageDamaged, Mishap, history, At, TypeOK, ReceiptThere,
      OldPackageKept, Apart, HoldsReceipt, Receipt
<1>27. CASE \/ Repair \/ UpdaterFails \/ JobStarts \/ JobEnds \/ LeaseExpires
            \/ \E v \in Version : UserInstalls(v) \/ HealthChanges(v)
  <2>1. UNCHANGED <<app, receipt, pkg, cut>>
    BY <1>27
    DEF Repair, UpdaterFails, JobStarts, JobEnds, LeaseExpires, UserInstalls,
        HealthChanges, history
  <2> QED BY <2>1 DEF OldPackageKept, At
<1> QED BY <1>1, <1>2, <1>3, <1>4, <1>5, <1>6, <1>7, <1>8, <1>9, <1>10, <1>11,
      <1>12, <1>13, <1>14, <1>15, <1>16, <1>17, <1>18, <1>19, <1>20, <1>21,
      <1>22, <1>23, <1>24, <1>25, <1>26, <1>27
  DEF Next, Startup, Command

(* A new directory is not the receipt's, which has a package or was cut.     *)
LEMMA ApartKept ==
  ASSUME TypeOK, ReceiptThere, OldPackageKept, Apart, Next
  PROVE  Apart'
<1>1. CASE ReadReceipt
  BY <1>1, NamesAssumption
  DEF ReadReceipt, Step, Goes, AfterRead, Quiet, At, Disk, Old, New, history,
      TypeOK, ReceiptThere, OldPackageKept, Apart, HoldsReceipt, Receipt
<1>2. CASE Probe
  BY <1>2, NamesAssumption
  DEF Probe, Step, Goes, Healthy, Quiet, At, Disk, history, TypeOK,
      ReceiptThere, OldPackageKept, Apart, HoldsReceipt, Receipt
<1>3. CASE VerifyPackage
  BY <1>3, NamesAssumption
  DEF VerifyPackage, Step, Goes, Quiet, At, Disk, history, TypeOK,
      ReceiptThere, OldPackageKept, Apart, HoldsReceipt, Receipt
<1>4. CASE MarkRollback
  BY <1>4, NamesAssumption
  DEF MarkRollback, Step, WritesState, At, Disk, Goes, history, TypeOK,
      ReceiptThere, OldPackageKept, Apart, HoldsReceipt, Receipt
<1>5. CASE GiveUp
  BY <1>5, NamesAssumption
  DEF GiveUp, Step, WritesState, At, Disk, Goes, history, TypeOK,
      ReceiptThere, OldPackageKept, Apart, HoldsReceipt, Receipt
<1>6. CASE LaunchRollback
  BY <1>6, NamesAssumption
  DEF LaunchRollback, At, Exits, Goes, TypeOK, ReceiptThere, OldPackageKept,
      Apart, HoldsReceipt, Receipt
<1>7. CASE Complete
  BY <1>7, NamesAssumption
  DEF Complete, At, Disk, Goes, history, TypeOK, ReceiptThere, OldPackageKept,
      Apart, HoldsReceipt, Receipt
<1>8. CASE Erase
  BY <1>8, NamesAssumption
  DEF Erase, At, Disk, Goes, TypeOK, ReceiptThere, OldPackageKept, Apart,
      HoldsReceipt, Receipt
<1>9. CASE Release
  BY <1>9, NamesAssumption
  DEF Release, At, Healthy, Goes, history, TypeOK, ReceiptThere,
      OldPackageKept, Apart, HoldsReceipt, Receipt
<1>10. CASE BackupState
  BY <1>10, NamesAssumption
  DEF BackupState, Step, Quiet, At, Disk, history, TypeOK, ReceiptThere,
      OldPackageKept, Apart, HoldsReceipt, Receipt
<1>11. CASE StagePackage
  BY <1>11, NamesAssumption
  DEF StagePackage, Step, Unused, history, At, Disk, TypeOK, ReceiptThere,
      OldPackageKept, Apart, HoldsReceipt, Receipt
<1>12. CASE SealPackage
  BY <1>12, NamesAssumption
  DEF SealPackage, Step, Goes, history, At, Disk, TypeOK, ReceiptThere,
      OldPackageKept, Apart, HoldsReceipt, Receipt
<1>13. CASE RecordReceipt
  BY <1>13, NamesAssumption
  DEF RecordReceipt, Step, Version, Goes, At, Disk, TypeOK, ReceiptThere,
      OldPackageKept, Apart, HoldsReceipt, Receipt
<1>14. CASE Apply
  BY <1>14, NamesAssumption
  DEF Apply, At, Exits, history, Goes, TypeOK, ReceiptThere, OldPackageKept,
      Apart, HoldsReceipt, Receipt
<1>15. CASE Undo
  BY <1>15, NamesAssumption
  DEF Undo, Step, Goes, history, At, Disk, TypeOK, ReceiptThere,
      OldPackageKept, Apart, HoldsReceipt, Receipt
<1>16. CASE EndUpdate
  BY <1>16, NamesAssumption
  DEF EndUpdate, At, EndLease, Goes, TypeOK, ReceiptThere, OldPackageKept,
      Apart, HoldsReceipt, Receipt
<1>17. CASE EndUninstall
  BY <1>17, NamesAssumption
  DEF EndUninstall, At, EndLease, Mishap, Goes, TypeOK, ReceiptThere,
      OldPackageKept, Apart, HoldsReceipt, Receipt
<1>18. CASE Uninstalled
  BY <1>18, NamesAssumption
  DEF Uninstalled, At, Goes, Disk, Quiet, history, TypeOK, ReceiptThere,
      OldPackageKept, Apart, HoldsReceipt, Receipt
<1>19. CASE BeginUpdate
  BY <1>19, NamesAssumption
  DEF BeginUpdate, At, Unused, Takes, Goes, Admitted, history, TypeOK,
      ReceiptThere, OldPackageKept, Apart, HoldsReceipt, Receipt
<1>20. CASE BeginUninstall
  BY <1>20, NamesAssumption
  DEF BeginUninstall, At, Takes, Goes, Admitted, history, TypeOK,
      ReceiptThere, OldPackageKept, Apart, HoldsReceipt, Receipt
<1>21. CASE UserQuits
  BY <1>21, NamesAssumption
  DEF UserQuits, At, Exits, Disk, Quiet, Goes, history, TypeOK, ReceiptThere,
      OldPackageKept, Apart, HoldsReceipt, Receipt
<1>22. CASE UserStarts
  BY <1>22, NamesAssumption
  DEF UserStarts, At, Starts, Disk, TypeOK, ReceiptThere, OldPackageKept,
      Apart, HoldsReceipt, Receipt
<1>23. CASE UpdaterApplies
  BY <1>23, NamesAssumption
  DEF UpdaterApplies, At, CanInstall, Starts, history, TypeOK, ReceiptThere,
      OldPackageKept, Apart, HoldsReceipt, Receipt
<1>24. CASE StepFails
  BY <1>24, NamesAssumption
  DEF StepFails, AfterFailure, Mishap, Goes, At, TypeOK, ReceiptThere,
      OldPackageKept, Apart, HoldsReceipt, Receipt
<1>25. CASE AppDies
  BY <1>25, NamesAssumption
  DEF AppDies, Mishap, Exits, Goes, At, TypeOK, ReceiptThere, OldPackageKept,
      Apart, HoldsReceipt, Receipt
<1>26. ASSUME NEW d \in Dir, PackageDamaged(d) PROVE Apart'
  BY <1>26, NamesAssumption
  DEF PackageDamaged, Mishap, history, At, TypeOK, ReceiptThere,
      OldPackageKept, Apart, HoldsReceipt, Receipt
<1>27. CASE \/ Repair \/ UpdaterFails \/ JobStarts \/ JobEnds \/ LeaseExpires
            \/ \E v \in Version : UserInstalls(v) \/ HealthChanges(v)
  <2>1. UNCHANGED <<app, receipt, pkg, cut>>
    BY <1>27
    DEF Repair, UpdaterFails, JobStarts, JobEnds, LeaseExpires, UserInstalls,
        HealthChanges, history
  <2> QED BY <2>1 DEF Apart, At
<1> QED BY <1>1, <1>2, <1>3, <1>4, <1>5, <1>6, <1>7, <1>8, <1>9, <1>10, <1>11,
      <1>12, <1>13, <1>14, <1>15, <1>16, <1>17, <1>18, <1>19, <1>20, <1>21,
      <1>22, <1>23, <1>24, <1>25, <1>26, <1>27
  DEF Next, Startup, Command

(* Whoever ends the lease under an open update marks it as lapsed.          *)
LEMMA LeaseKept ==
  ASSUME TypeOK, ReceiptThere, Leased, Next
  PROVE  Leased'
<1>1. CASE ReadReceipt
  BY <1>1, NamesAssumption
  DEF ReadReceipt, Step, Goes, AfterRead, Quiet, At, Disk, Old, New, history,
      Owner, TypeOK, ReceiptThere, Leased, HoldsReceipt, Receipt
<1>2. CASE Probe
  BY <1>2, NamesAssumption
  DEF Probe, Step, Goes, Healthy, Quiet, At, Disk, history, Owner, TypeOK,
      ReceiptThere, Leased, HoldsReceipt, Receipt
<1>3. CASE VerifyPackage
  BY <1>3, NamesAssumption
  DEF VerifyPackage, Step, Goes, Quiet, At, Disk, history, Owner, TypeOK,
      ReceiptThere, Leased, HoldsReceipt, Receipt
<1>4. CASE MarkRollback
  BY <1>4, NamesAssumption
  DEF MarkRollback, Step, WritesState, At, Disk, Goes, history, Owner, TypeOK,
      ReceiptThere, Leased, HoldsReceipt, Receipt
<1>5. CASE GiveUp
  BY <1>5, NamesAssumption
  DEF GiveUp, Step, WritesState, At, Disk, Goes, history, Owner, TypeOK,
      ReceiptThere, Leased, HoldsReceipt, Receipt
<1>6. CASE LaunchRollback
  BY <1>6, NamesAssumption
  DEF LaunchRollback, At, Exits, Goes, Owner, TypeOK, ReceiptThere, Leased,
      HoldsReceipt, Receipt
<1>7. CASE Complete
  BY <1>7, NamesAssumption
  DEF Complete, At, Disk, Goes, history, Owner, TypeOK, ReceiptThere, Leased,
      HoldsReceipt, Receipt
<1>8. CASE Erase
  BY <1>8, NamesAssumption
  DEF Erase, At, Disk, Goes, Owner, TypeOK, ReceiptThere, Leased,
      HoldsReceipt, Receipt
<1>9. CASE Release
  BY <1>9, NamesAssumption
  DEF Release, At, Healthy, Goes, history, Owner, TypeOK, ReceiptThere,
      Leased, HoldsReceipt, Receipt
<1>10. CASE BackupState
  BY <1>10, NamesAssumption
  DEF BackupState, Step, Quiet, At, Disk, history, Owner, TypeOK,
      ReceiptThere, Leased, HoldsReceipt, Receipt
<1>11. CASE StagePackage
  BY <1>11, NamesAssumption
  DEF StagePackage, Step, Unused, history, At, Disk, Owner, TypeOK,
      ReceiptThere, Leased, HoldsReceipt, Receipt
<1>12. CASE SealPackage
  BY <1>12, NamesAssumption
  DEF SealPackage, Step, Goes, history, At, Disk, Owner, TypeOK, ReceiptThere,
      Leased, HoldsReceipt, Receipt
<1>13. CASE RecordReceipt
  BY <1>13, NamesAssumption
  DEF RecordReceipt, Step, Version, Goes, At, Disk, Owner, TypeOK,
      ReceiptThere, Leased, HoldsReceipt, Receipt
<1>14. CASE Apply
  BY <1>14, NamesAssumption
  DEF Apply, At, Exits, history, Goes, Owner, TypeOK, ReceiptThere, Leased,
      HoldsReceipt, Receipt
<1>15. CASE Undo
  BY <1>15, NamesAssumption
  DEF Undo, Step, Goes, history, At, Disk, Owner, TypeOK, ReceiptThere,
      Leased, HoldsReceipt, Receipt
<1>16. CASE EndUpdate
  BY <1>16, NamesAssumption
  DEF EndUpdate, At, EndLease, Goes, Owner, TypeOK, ReceiptThere, Leased,
      HoldsReceipt, Receipt
<1>17. CASE EndUninstall
  BY <1>17, NamesAssumption
  DEF EndUninstall, At, EndLease, Mishap, Goes, Owner, TypeOK, ReceiptThere,
      Leased, HoldsReceipt, Receipt
<1>18. CASE Uninstalled
  BY <1>18, NamesAssumption
  DEF Uninstalled, At, Goes, Disk, Quiet, history, Owner, TypeOK,
      ReceiptThere, Leased, HoldsReceipt, Receipt
<1>19. CASE BeginUpdate
  BY <1>19, NamesAssumption
  DEF BeginUpdate, At, Unused, Takes, Goes, Admitted, history, Owner, TypeOK,
      ReceiptThere, Leased, HoldsReceipt, Receipt
<1>20. CASE BeginUninstall
  BY <1>20, NamesAssumption
  DEF BeginUninstall, At, Takes, Goes, Admitted, history, Owner, TypeOK,
      ReceiptThere, Leased, HoldsReceipt, Receipt
<1>21. CASE Repair
  BY <1>21, NamesAssumption
  DEF Repair, At, Owner, TypeOK, ReceiptThere, Leased, HoldsReceipt, Receipt
<1>22. CASE UserQuits
  BY <1>22, NamesAssumption
  DEF UserQuits, At, Exits, Disk, Quiet, Goes, history, Owner, TypeOK,
      ReceiptThere, Leased, HoldsReceipt, Receipt
<1>23. CASE UserStarts
  <2>1. updater' # None => lapsed'
    BY <1>23, Zenon DEF UserStarts, Disk
  <2>2. lapsed => lapsed'
    BY <1>23, Zenon DEF UserStarts
  <2>3. UNCHANGED <<lease, job, receipt, updater>>
    BY <1>23 DEF UserStarts, Disk
  <2> QED
    <3>1. lease' # None => ~job'
      BY <2>3 DEF Leased
    <3>2. receipt' # None /\ receipt'.state # "rollback_failed" => lapsed' \/ lease' = "update"
      BY <2>2, <2>3 DEF Leased
    <3> QED BY <2>1, <3>1, <3>2 DEF Leased
<1>24. CASE UpdaterApplies
  BY <1>24, NamesAssumption
  DEF UpdaterApplies, At, CanInstall, Starts, history, Owner, TypeOK,
      ReceiptThere, Leased, HoldsReceipt, Receipt
<1>25. CASE UpdaterFails
  BY <1>25, NamesAssumption
  DEF UpdaterFails, CanInstall, Mishap, history, Owner, At, TypeOK,
      ReceiptThere, Leased, HoldsReceipt, Receipt
<1>26. CASE JobStarts
  BY <1>26, NamesAssumption
  DEF JobStarts, history, Owner, At, TypeOK, ReceiptThere, Leased,
      HoldsReceipt, Receipt
<1>27. CASE JobEnds
  BY <1>27, NamesAssumption
  DEF JobEnds, history, Owner, At, TypeOK, ReceiptThere, Leased, HoldsReceipt,
      Receipt
<1>28. CASE LeaseExpires
  BY <1>28, NamesAssumption
  DEF LeaseExpires, Mishap, Owner, At, TypeOK, ReceiptThere, Leased,
      HoldsReceipt, Receipt
<1>29. CASE StepFails
  BY <1>29, NamesAssumption
  DEF StepFails, AfterFailure, Mishap, Goes, Owner, At, TypeOK, ReceiptThere,
      Leased, HoldsReceipt, Receipt
<1>30. CASE AppDies
  BY <1>30, NamesAssumption
  DEF AppDies, Mishap, Exits, Goes, Owner, At, TypeOK, ReceiptThere, Leased,
      HoldsReceipt, Receipt
<1>31. CASE \/ \E v \in Version : UserInstalls(v) \/ HealthChanges(v)
            \/ \E d \in Dir : PackageDamaged(d)
  <2>1. UNCHANGED <<app, receipt, lease, job, lapsed, updater>>
    BY <1>31 DEF UserInstalls, HealthChanges, PackageDamaged, history
  <2> QED BY <2>1 DEF Leased, At
<1> QED BY <1>1, <1>2, <1>3, <1>4, <1>5, <1>6, <1>7, <1>8, <1>9, <1>10, <1>11,
      <1>12, <1>13, <1>14, <1>15, <1>16, <1>17, <1>18, <1>19, <1>20, <1>21,
      <1>22, <1>23, <1>24, <1>25, <1>26, <1>27, <1>28, <1>29, <1>30, <1>31
  DEF Next, Startup, Command

(* The invariant is one of every behaviour.                                 *)
THEOREM InvHolds == Spec => []UpdateInv
<1>1. Init => UpdateInv
  BY InitialInv
<1>2. UpdateInv /\ [Next]_vars => UpdateInv'
  <2> SUFFICES ASSUME UpdateInv, [Next]_vars PROVE UpdateInv'
    OBVIOUS
  <2>1. CASE Next
    BY <2>1, TypesKept, ReceiptKept, LaunchesKept, PackageKept, ApartKept, LeaseKept
    DEF UpdateInv
  <2>2. CASE UNCHANGED vars
    BY <2>2 DEF vars, UpdateInv, TypeOK, ReceiptThere, Launches, OldPackageKept, Apart,
        Leased, At
  <2> QED BY <2>1, <2>2
<1> QED BY <1>1, <1>2, PTL DEF Spec

(* Type correctness, for every number of versions, directories and mishaps. *)
THEOREM TypeCorrect == Spec => []TypeOK
<1>1. UpdateInv => TypeOK
  BY DEF UpdateInv
<1> QED BY <1>1, InvHolds, PTL

(* The old package outlives its receipt: nothing but a completion that was  *)
(* cut between its two deletions leaves a receipt without a package.        *)
(* (UpdateRecoveryStore.cs 74-86, 185-195.)                                 *)
THEOREM OldPackageStays == Spec => []OldPackageKept
<1>1. UpdateInv => OldPackageKept
  BY DEF UpdateInv
<1> QED BY <1>1, InvHolds, PTL

(* A rollback is launched at most once for a receipt.                       *)
(* (UpdateRecoveryStore.cs 126-150.)                                        *)
THEOREM RollbackOnce == Spec => []NoRetryLoop
<1> QED BY UpdateInvGives, InvHolds, PTL

(* The updater works under the lease and with no Job active, unless the     *)
(* lease was lost.  (WindowsOperations.cs 195-202; Program.cs 36-38.)       *)
THEOREM LeaseHeld == Spec => []LeaseCovers
<1> QED BY UpdateInvGives, InvHolds, PTL
=============================================================================
