------------------------ MODULE MCStorageGovernance ------------------------
(* Instances of StorageGovernance for TLC: a command that writes one unit  *)
(* to the data root and one to another volume, and a Job, beside one old   *)
(* item that is as large as the quota and more.                            *)
EXTENDS StorageGovernance, TLC

CONSTANTS c1, j1, a, C, D

Quantity == 3
Oversized == [i \in OldOutput \cup OldLog |-> Quantity + 1]
Small == [i \in OldOutput \cup OldLog |-> 1]
Disks == [v \in Volume |-> IF v = C THEN Quantity + 2 ELSE 2]
Unit == [o \in Op |-> 1]
Whole == [o \in Op |-> IF o = j1 THEN Quantity ELSE 1]
Beside == [o \in Op |-> IF o = c1 THEN D ELSE C]
Copied == [o \in Op |-> IF o = c1 THEN 1 ELSE 0]
=============================================================================
