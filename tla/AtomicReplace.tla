---------------------------- MODULE AtomicReplace ----------------------------
(***************************************************************************)
(* What pushing to one destination promises: whatever crashes and fails on *)
(* the way, what the destination holds (or can be restored to hold) is     *)
(* what it held before or a whole upload, an upload is put there at most   *)
(* once and is not taken back, and success is reported only of an upload   *)
(* that has been put there.                                                *)
(***************************************************************************)
CONSTANTS Transfer, Missing, Old

VARIABLES content,   \* what the destination holds
          reported   \* the uploads reported as installed

vars == <<content, reported>>

Init ==
    /\ content \in {Missing, Old}
    /\ reported = {}

Install(t) ==
    /\ content # t
    /\ t \notin reported
    /\ content' = t
    /\ UNCHANGED reported

Report(t) ==
    /\ content = t
    /\ reported' = reported \cup {t}
    /\ UNCHANGED content

Next == \E t \in Transfer : Install(t) \/ Report(t)

Spec == Init /\ [][Next]_vars
=============================================================================
