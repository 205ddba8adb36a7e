---------------------------- MODULE StdinStream ----------------------------
(* What a durable Job's input promises while its runner and its child live: *)
(* a first-in, first-out stream.  Input that has been accepted is delivered *)
(* once for each time it was accepted, in that order, and is not dropped.   *)
(* When the stream is torn, because the child or the runner is gone,        *)
(* nothing more is delivered.                                               *)
EXTENDS Sequences

CONSTANT Input

VARIABLES pending, delivered, torn

vars == <<pending, delivered, torn>>

Init == pending = <<>> /\ delivered = <<>> /\ torn = FALSE

Accept(x) ==
  /\ ~torn
  /\ pending' = Append(pending, x)
  /\ UNCHANGED <<delivered, torn>>

Deliver ==
  /\ ~torn
  /\ pending # <<>>
  /\ pending' = Tail(pending)
  /\ delivered' = Append(delivered, Head(pending))
  /\ UNCHANGED torn

Tear ==
  /\ torn' = TRUE
  /\ pending' \in Seq(Input)
  /\ UNCHANGED delivered

Next == (\E x \in Input : Accept(x)) \/ Deliver \/ Tear

Spec == Init /\ [][Next]_vars
=============================================================================
