------------------------------ MODULE JobOnce ------------------------------
(***************************************************************************)
(* What start_job promises, with everything else hidden: a Job is admitted *)
(* at most once per idempotency key, the program of an admitted Job is     *)
(* started at most once, and a Job that ended stays ended whatever the     *)
(* Worker processes, the runner and the retries do in between.             *)
(***************************************************************************)
CONSTANTS JobId,    \* scoped job identifiers
          Key,      \* idempotency keys
          NoKey     \* a start_job without idempotency_key

VARIABLES phase,    \* [JobId -> {"new", "accepted", "started", "ended"}]
          keyOf     \* [JobId -> Key \cup {NoKey}]

vars == <<phase, keyOf>>

Init ==
    /\ phase = [j \in JobId |-> "new"]
    /\ keyOf = [j \in JobId |-> NoKey]

(* A new Job row; a key already owned by an admitted Job admits nothing. *)
Accept(j, k) ==
    /\ phase[j] = "new"
    /\ k = NoKey \/ \A i \in JobId : phase[i] # "new" => keyOf[i] # k
    /\ phase' = [phase EXCEPT ![j] = "accepted"]
    /\ keyOf' = [keyOf EXCEPT ![j] = k]

(* The Job's program starts. *)
Start(j) ==
    /\ phase[j] = "accepted"
    /\ phase' = [phase EXCEPT ![j] = "started"]
    /\ UNCHANGED keyOf

(* The program ended, or it can no longer start. *)
End(j) ==
    /\ phase[j] \in {"accepted", "started"}
    /\ phase' = [phase EXCEPT ![j] = "ended"]
    /\ UNCHANGED keyOf

Next ==
    \E j \in JobId :
        \/ \E k \in Key \cup {NoKey} : Accept(j, k)
        \/ Start(j)
        \/ End(j)

Spec == Init /\ [][Next]_vars
=============================================================================
