----------------------------- MODULE RpcPromise -----------------------------
(***************************************************************************)
(* What one SshPool.call promises to its caller, with sessions, retries    *)
(* and the request ledger hidden: an operation is executed at most once    *)
(* (a chunk read may be repeated), perhaps after its call has failed; the  *)
(* call returns once, with a result only if its operation was executed.    *)
(***************************************************************************)
EXTENDS Naturals

CONSTANTS Call, Payload, PayloadOf, ReplaySafe, NoPayload

VARIABLES runs,     \* [Call -> Nat], executions so far
          answer    \* [Call -> what the call returned]

vars == <<runs, answer>>

Open == [kind |-> "none", payload |-> NoPayload]

Init ==
    /\ runs = [c \in Call |-> 0]
    /\ answer = [c \in Call |-> Open]

Execute(c) ==
    /\ runs[c] = 0 \/ PayloadOf[c] \in ReplaySafe
    /\ runs' = [runs EXCEPT ![c] = @ + 1]
    /\ UNCHANGED answer

Return(c) ==
    /\ answer[c] = Open /\ runs[c] > 0
    /\ answer' = [answer EXCEPT ![c] = [kind |-> "result", payload |-> PayloadOf[c]]]
    /\ UNCHANGED runs

(* One event may fail several calls: nobody sent them, the transport was   *)
(* lost twice, or the Worker refuses to repeat what it cannot replay.      *)
Fail(failed) ==
    /\ \A c \in failed : answer[c] = Open
    /\ \E kind \in {"refused", "offline", "unknown"} :
          answer' = [c \in Call |->
              IF c \in failed THEN [kind |-> kind, payload |-> NoPayload] ELSE answer[c]]
    /\ UNCHANGED runs

Next ==
    \/ \E c \in Call : Execute(c) \/ Return(c)
    \/ \E failed \in SUBSET Call : Fail(failed)

Spec == Init /\ [][Next]_vars
=============================================================================
