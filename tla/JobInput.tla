------------------------------ MODULE JobInput ------------------------------
(* The input of a durable Job.  A caller's process, writeJobInput or        *)
(* resizeJobTerminal in a Worker, sends one control message over the        *)
(* runner's local socket and sends it again while no answer comes; the      *)
(* runner, listenForJobInput, buffers what arrives before the child is      *)
(* spawned and afterwards applies one effect at a time, in the order of the *)
(* promise chain `delivery'.  The child reads when it likes, ends at any    *)
(* time, and the runner may die.                                            *)
(*                                                                          *)
(* A caller's data is the caller itself; a terminal size is the caller that *)
(* asked for it.  An effect's completion and the continuation of the        *)
(* handler that awaits it are one step: the continuation is a microtask     *)
(* that runs before any other event.                                        *)
(*                                                                          *)
(* A definition written just above the one it resembles, and used nowhere,  *)
(* is a mutant: the bug that the properties named in PROJECT.json exclude.  *)
EXTENDS Integers, Sequences, Functions, FiniteSets

CONSTANTS
  Caller,       \* the calls of write_job_input and resize_job_terminal
  NoCaller,     \* stands for no size and for the effect nobody awaits
  Eof,          \* what the child reads at the end of its input
  MaxSends,     \* bound: how often one call sends its message (5 s, 1 s each)
  MaxResent,    \* bound: how many calls send theirs more than once
  BufferLimit   \* the 1 MiB of unattached input, in messages

ASSUME CallerAssumption == NoCaller \notin Caller /\ Eof \notin Caller
ASSUME BoundAssumption == MaxSends \in Nat \ {0} /\ BufferLimit \in Nat
                          /\ MaxResent \in Nat

VARIABLES
  mode,      \* the Job's stdin_mode
  row,       \* the Job's row: not terminal yet, the terminal's size
  call,      \* each caller: where it is, what it asks, how often it has sent
  before,    \* history: the calls that had succeeded when a call was made
  mail,      \* messages on their way to the runner
  attached,  \* target is set
  failed,    \* targetError is set
  closed,    \* inputClosed
  buffered,  \* input that waits for the child
  queued,    \* input that the attach effect has still to write
  resizeTo,  \* pendingResize
  chain,     \* the effects of `delivery' that have not settled
  broken,    \* `delivery' has rejected
  channel,   \* the runner's server: open, closing, closed
  awaited,   \* how many effects close() still waits for
  child,     \* none, running, gone
  stdin,     \* what the child has been given
  screen     \* the size of its terminal

callerVars == <<row, call, before>>
socketVars == <<attached, failed, closed, buffered, queued, resizeTo>>
effectVars == <<chain, broken, channel, awaited>>
childVars  == <<child, stdin, screen>>
vars == <<mode, callerVars, mail, socketVars, effectVars, childVars>>

Request == {"data", "close", "data and close", "resize"}
HasData(r) == r \in {"data", "data and close"}
Closes(r)  == r \in {"close", "data and close"}

Asks(c) == call[c].request
Message == [caller : Caller, send : 1 .. MaxSends]
Effect  == [kind : {"attach", "write", "close", "resize"},
            by : Message \cup {NoCaller}]

Init ==
  /\ mode \in {"pipe", "conpty"}
  /\ row = [active |-> TRUE, size |-> NoCaller]
  /\ call = [c \in Caller |-> [phase |-> "idle", request |-> "data", sends |-> 0]]
  /\ before = [c \in Caller |-> {}]
  /\ mail = {}
  /\ attached = FALSE /\ failed = FALSE /\ closed = FALSE
  /\ buffered = <<>> /\ queued = <<>> /\ resizeTo = NoCaller
  /\ chain = <<>> /\ broken = FALSE /\ channel = "open" /\ awaited = 0
  /\ child = "none" /\ stdin = <<>> /\ screen = NoCaller

-----------------------------------------------------------------------------
(* The caller. *)

\* An answer reaches a caller only while it waits on the socket it came from.
Waits(m) == call[m.caller].phase = "sent" /\ call[m.caller].sends = m.send
Answered(ms, verdict) ==
  [c \in Caller |->
    IF \E m \in ms : m.caller = c /\ Waits(m)
    THEN [call[c] EXCEPT !.phase = verdict] ELSE call[c]]

Sent(c, n) == IF channel = "closed" THEN mail
              ELSE mail \cup {[caller |-> c, send |-> n]}

\* The call reads the row; a terminal row refuses it.
Call(c, r) ==
  /\ call[c].phase = "idle"
  /\ r = "resize" => mode = "conpty"
  /\ IF row.active
     THEN /\ call' = [call EXCEPT ![c] = [phase |-> "sent", request |-> r, sends |-> 1]]
          /\ mail' = Sent(c, 1)
     ELSE /\ call' = [call EXCEPT ![c].phase = "failed", ![c].request = r]
          /\ UNCHANGED mail
  /\ before' = [before EXCEPT ![c] = {d \in Caller : call[d].phase = "ok"}]
  /\ UNCHANGED <<mode, row, socketVars, effectVars, childVars>>

\* A second without an answer, or a lost connection.  What was written to the
\* socket may still be read by the runner, soon, late or never.  (Sending to a
\* socket nobody serves changes nothing.)
SendAgain(c) ==
  /\ call[c].phase = "sent"
  /\ channel # "closed"
  /\ call[c].sends < MaxSends
  /\ Cardinality({d \in Caller \ {c} : call[d].sends > 1}) < MaxResent
  /\ call' = [call EXCEPT ![c].sends = @ + 1]
  /\ mail' = Sent(c, call[c].sends + 1)
  /\ UNCHANGED <<mode, row, before, socketVars, effectVars, childVars>>

\* The 5 s are over.
GiveUp(c) ==
  /\ call[c].phase = "sent"
  /\ call' = [call EXCEPT ![c].phase = "failed"]
  /\ UNCHANGED <<mode, row, before, mail, socketVars, effectVars, childVars>>

\* resizeJobTerminal writes the size it was answered into the row.
RecordSize(c) ==
  /\ call[c].phase = "resized"
  /\ call' = [call EXCEPT ![c].phase = "ok"]
  /\ row' = [row EXCEPT !.size = c]
  /\ UNCHANGED <<mode, before, mail, socketVars, effectVars, childVars>>

-----------------------------------------------------------------------------
(* The runner's socket handler. *)

Refused(c) ==
  /\ Asks(c) # "resize"
  /\ \/ closed
     \/ failed
     \/ ~attached /\ HasData(Asks(c)) /\ Len(buffered) >= BufferLimit

Receive(m) ==
  /\ m \in mail
  /\ mail' = mail \ {m}
  /\ UNCHANGED <<mode, row, before, failed, queued, broken, channel, awaited, childVars>>

Refuse(m) ==
  /\ Receive(m)
  /\ Refused(m.caller)
  /\ call' = Answered({m}, "failed")
  /\ UNCHANGED <<attached, closed, buffered, resizeTo, chain>>

HoldFirst(m) ==
  /\ Receive(m)
  /\ ~attached
  /\ ~Refused(m.caller)
  /\ LET r == Asks(m.caller)
     IN  /\ buffered' = IF HasData(r) THEN <<m.caller>> \o buffered ELSE buffered
         /\ closed' = (closed \/ Closes(r))
         /\ resizeTo' = IF r = "resize" THEN m.caller ELSE resizeTo
         /\ call' = Answered({m}, IF r = "resize" THEN "resized" ELSE "ok")
  /\ UNCHANGED <<attached, chain>>

\* No child yet: data is buffered, the latest size kept, a close remembered.
Hold(m) ==
  /\ Receive(m)
  /\ ~attached
  /\ ~Refused(m.caller)
  /\ LET r == Asks(m.caller)
     IN  /\ buffered' = IF HasData(r) THEN Append(buffered, m.caller) ELSE buffered
         /\ closed' = (closed \/ Closes(r))
         /\ resizeTo' = IF r = "resize" THEN m.caller ELSE resizeTo
         /\ call' = Answered({m}, IF r = "resize" THEN "resized" ELSE "ok")
  /\ UNCHANGED <<attached, chain>>

\* A pipe that was ended takes nothing more; Ctrl-Z leaves a terminal open.
Writable == child = "running" /\ (mode = "pipe" => Eof \notin Range(stdin))

ForwardAtOnce(m) ==
  /\ m \in mail
  /\ mail' = mail \ {m}
  /\ attached /\ Writable
  /\ ~Refused(m.caller)
  /\ stdin' = Append(stdin, m.caller)
  /\ call' = Answered({m}, "ok")
  /\ UNCHANGED <<mode, row, before, socketVars, effectVars, child, screen>>

\* Once `delivery' has rejected, an effect rejects without running.
Forward(m) ==
  /\ Receive(m)
  /\ attached
  /\ ~Refused(m.caller)
  /\ LET r == Asks(m.caller)
         kind == IF HasData(r) THEN "write" ELSE r
     IN  /\ closed' = (closed \/ r = "close")
         /\ IF broken
            THEN call' = Answered({m}, "failed") /\ UNCHANGED chain
            ELSE chain' = Append(chain, [kind |-> kind, by |-> m]) /\ UNCHANGED call
  /\ UNCHANGED <<attached, buffered, resizeTo>>

-----------------------------------------------------------------------------
(* The chain of effects. *)

AttachEmpty ==
  /\ child = "none" /\ ~attached
  /\ row.active /\ channel = "open"
  /\ child' = "running"
  /\ attached' = TRUE
  /\ queued' = <<>>
  /\ buffered' = <<>>
  /\ chain' = Append(chain, [kind |-> "attach", by |-> NoCaller])
  /\ UNCHANGED <<mode, callerVars, mail, failed, closed, resizeTo,
                 broken, channel, awaited, stdin, screen>>

Attach ==
  /\ child = "none" /\ ~attached
  /\ row.active /\ channel = "open"
  /\ child' = "running"
  /\ attached' = TRUE
  /\ queued' = buffered
  /\ buffered' = <<>>
  /\ chain' = Append(chain, [kind |-> "attach", by |-> NoCaller])
  /\ UNCHANGED <<mode, callerVars, mail, failed, closed, resizeTo,
                 broken, channel, awaited, stdin, screen>>

Running(kind) == chain # <<>> /\ Head(chain).kind = kind
Settled == /\ chain' = Tail(chain)
           /\ awaited' = IF awaited = 0 THEN 0 ELSE awaited - 1

AttachWrites ==
  /\ Running("attach")
  /\ queued # <<>> /\ Writable
  /\ stdin' = Append(stdin, Head(queued))
  /\ queued' = Tail(queued)
  /\ UNCHANGED <<mode, callerVars, mail, attached, failed, closed, buffered,
                 resizeTo, effectVars, child, screen>>

AttachResizes ==
  /\ Running("attach")
  /\ queued = <<>> /\ resizeTo # NoCaller /\ child = "running"
  /\ screen' = resizeTo
  /\ row' = [row EXCEPT !.size = resizeTo]
  /\ resizeTo' = NoCaller
  /\ UNCHANGED <<mode, call, before, mail, attached, failed, closed, buffered,
                 queued, effectVars, child, stdin>>

AttachEndsOpen ==
  /\ Running("attach")
  /\ queued = <<>> /\ resizeTo = NoCaller
  /\ closed /\ mode = "conpty" => child = "running"
  /\ Settled
  /\ UNCHANGED <<mode, callerVars, mail, socketVars, broken, channel, childVars>>

\* inputClosed is read when everything that was buffered has been written.
AttachEnds ==
  /\ Running("attach")
  /\ queued = <<>> /\ resizeTo = NoCaller
  /\ closed /\ mode = "conpty" => child = "running"
  /\ stdin' = IF closed /\ child = "running" THEN Append(stdin, Eof) ELSE stdin
  /\ Settled
  /\ UNCHANGED <<mode, callerVars, mail, socketVars, broken, channel, child, screen>>

\* An error of the attach effect is caught and kept.
AttachFails ==
  /\ Running("attach")
  /\ child = "gone"
  /\ queued # <<>> \/ resizeTo # NoCaller \/ (closed /\ mode = "conpty")
  /\ failed' = TRUE
  /\ queued' = <<>> /\ resizeTo' = NoCaller
  /\ Settled
  /\ UNCHANGED <<mode, callerVars, mail, attached, closed, buffered, broken,
                 channel, childVars>>

Write ==
  /\ Running("write")
  /\ Writable
  /\ LET m == Head(chain).by
         close == Closes(Asks(m.caller))
     IN  /\ stdin' = Append(stdin, m.caller)
         /\ closed' = (closed \/ close)
         /\ chain' = IF close THEN Append(Tail(chain), [kind |-> "close", by |-> m])
                     ELSE Tail(chain)
         /\ call' = IF close THEN call ELSE Answered({m}, "ok")
  /\ awaited' = IF awaited = 0 THEN 0 ELSE awaited - 1
  /\ UNCHANGED <<mode, row, before, mail, attached, failed, buffered, queued,
                 resizeTo, broken, channel, child, screen>>

\* stdin.end() never rejects; a ConPTY host that is gone does.
Close ==
  /\ Running("close")
  /\ mode = "conpty" => child = "running"
  /\ stdin' = IF Writable THEN Append(stdin, Eof) ELSE stdin
  /\ call' = Answered({Head(chain).by}, "ok")
  /\ Settled
  /\ UNCHANGED <<mode, row, before, mail, socketVars, broken, channel, child, screen>>

\* The terminal is resized and onResize writes the row.
Resize ==
  /\ Running("resize")
  /\ child = "running"
  /\ LET m == Head(chain).by
     IN  /\ screen' = m.caller
         /\ row' = [row EXCEPT !.size = m.caller]
         /\ call' = Answered({m}, "resized")
  /\ Settled
  /\ UNCHANGED <<mode, before, mail, socketVars, broken, channel, child, stdin>>

\* An effect rejects, and with it every later one; each handler answers so.
EffectFails ==
  /\ \/ Running("write") /\ ~Writable
     \/ Running("close") /\ mode = "conpty" /\ child = "gone"
     \/ Running("resize") /\ child = "gone"
  /\ broken' = TRUE
  /\ failed' = (failed \/ mode = "pipe")
  /\ call' = Answered({e.by : e \in Range(chain)}, "failed")
  /\ chain' = <<>> /\ awaited' = 0
  /\ UNCHANGED <<mode, row, before, mail, attached, closed, buffered, queued,
                 resizeTo, channel, childVars>>

RunEffect == AttachWrites \/ AttachResizes \/ AttachEnds \/ AttachFails
             \/ Write \/ Close \/ Resize \/ EffectFails

-----------------------------------------------------------------------------
(* The end. *)

ChildExits ==
  /\ child = "running"
  /\ child' = "gone"
  /\ UNCHANGED <<mode, callerVars, mail, socketVars, effectVars, stdin, screen>>

\* The runner settles the row when the child has ended or was never spawned;
\* cancel_job and reconcileJobs do so at any time.
SettleRow ==
  /\ row.active /\ channel = "open"
  /\ row' = [row EXCEPT !.active = FALSE]
  /\ UNCHANGED <<mode, call, before, mail, socketVars, effectVars, childVars>>

CloseBegins ==
  /\ ~row.active /\ channel = "open" /\ child # "running"
  /\ channel' = "closing"
  /\ awaited' = Len(chain)
  /\ UNCHANGED <<mode, callerVars, mail, socketVars, chain, broken, childVars>>

\* The runner's process ends, and its memory with it.
Gone ==
  /\ channel' = "closed"
  /\ mail' = {} /\ chain' = <<>> /\ awaited' = 0 /\ broken' = FALSE
  /\ attached' = FALSE /\ failed' = FALSE /\ closed' = FALSE
  /\ buffered' = <<>> /\ queued' = <<>> /\ resizeTo' = NoCaller
  /\ UNCHANGED <<mode, callerVars, childVars>>

CloseEnds == channel = "closing" /\ awaited = 0 /\ Gone
RunnerDies == channel # "closed" /\ Gone

Next ==
  \/ \E c \in Caller :
       \/ \E r \in Request : Call(c, r)
       \/ SendAgain(c) \/ GiveUp(c) \/ RecordSize(c)
  \/ \E m \in mail : Refuse(m) \/ Hold(m) \/ Forward(m)
  \/ Attach
  \/ RunEffect
  \/ ChildExits \/ SettleRow \/ CloseBegins \/ CloseEnds \/ RunnerDies

Spec == Init /\ [][Next]_vars

(* A timer fires, a runner goes on when it can, and a living child reads    *)
(* what it is given.  Nothing makes a Job be claimed, a child end or a      *)
(* message arrive.                                                          *)
Fairness ==
  /\ \A c \in Caller : WF_vars(GiveUp(c)) /\ WF_vars(RecordSize(c))
  /\ WF_vars(RunEffect)
  /\ WF_vars(CloseBegins) /\ WF_vars(CloseEnds)

FairSpec == Spec /\ Fairness
-----------------------------------------------------------------------------
(* Properties. *)

TypeOK ==
  /\ mode \in {"pipe", "conpty"}
  /\ row \in [active : BOOLEAN, size : Caller \cup {NoCaller}]
  /\ call \in [Caller -> [phase : {"idle", "sent", "resized", "ok", "failed"},
                         request : Request, sends : 0 .. MaxSends]]
  /\ before \in [Caller -> SUBSET Caller]
  /\ mail \subseteq Message
  /\ attached \in BOOLEAN /\ failed \in BOOLEAN /\ closed \in BOOLEAN
  /\ buffered \in Seq(Caller) /\ queued \in Seq(Caller)
  /\ Len(buffered) <= BufferLimit
  /\ resizeTo \in Caller \cup {NoCaller}
  /\ chain \in Seq(Effect)
  /\ broken \in BOOLEAN
  /\ channel \in {"open", "closing", "closed"}
  /\ awaited \in Nat
  /\ child \in {"none", "running", "gone"}
  /\ stdin \in Seq(Caller \cup {Eof})
  /\ screen \in Caller \cup {NoCaller}

\* Nobody delivers any more: the child or the runner has ended.
Torn == child = "gone" \/ channel = "closed"

Succeeded(c) == call[c].phase = "ok"
Writing == {e \in Range(chain) : e.kind = "write"}

(* Input whose caller was told that it was written has been given to the    *)
(* child or is still held for it, as long as both sides live: attaching,    *)
(* an error in the chain or a lost connection never drops it.  (job-input.ts *)
(* 81-84, 135-147, 158-173.)                                                *)
NothingLost ==
  \A c \in Caller :
    Succeeded(c) /\ HasData(Asks(c)) /\ ~Torn =>
      c \in Range(stdin) \cup Range(queued) \cup Range(buffered)

Ahead(s, i) == {s[k] : k \in 1 .. i - 1}

(* When a call was made after another one had succeeded, the child gets the *)
(* other's data first, however often either was sent: data before data, and *)
(* all of it before the end of the input that a later call asked for.       *)
(* (job-input.ts 81-84, 158-173.)                                           *)
InOrder ==
  \A i \in DOMAIN stdin :
    \E d \in Caller :
      /\ IF stdin[i] = Eof THEN Closes(Asks(d)) /\ call[d].phase # "idle" ELSE d = stdin[i]
      /\ \A c \in before[d] : HasData(Asks(c)) => c \in Ahead(stdin, i)

(* What the runner holds for a child that is spawned reaches the child,     *)
(* unless the stream is torn or has failed: the data of every call, and a   *)
(* close, whether it came before the child, while the buffer was being      *)
(* written or after.  (job-input.ts 135-145, 158-173.)                      *)
InputArrives ==
  /\ \A c \in Caller :
       (attached /\ c \in Range(queued) \cup {e.by.caller : e \in Writing}) ~>
         (c \in Range(stdin) \/ Torn \/ broken)
  /\ (closed /\ attached) ~> (Eof \in Range(stdin) \/ Torn \/ broken)

\* The callers in a sequence, in its order; the input in the chain.
DataIn(s) ==
  LET kept[n \in 0 .. Len(s)] ==
        IF n = 0 THEN <<>>
        ELSE IF s[n] \in Caller THEN Append(kept[n - 1], s[n]) ELSE kept[n - 1]
  IN  kept[Len(s)]
Written == [i \in DOMAIN chain |->
              IF chain[i].kind = "write" THEN chain[i].by.caller ELSE NoCaller]
(* The chain, seen from outside, is a first-in, first-out stream that is    *)
(* whole while the child and the runner live and a pipe has not been ended. *)
(* (job-input.ts 81-84, 135-145, 158-173.)                                  *)
Stream == INSTANCE StdinStream WITH
            Input <- Caller,
            pending <- queued \o buffered \o DataIn(Written),  \* queued or buffered is empty
            delivered <- DataIn(stdin),
            torn <- Torn \/ (mode = "pipe" /\ Eof \in Range(stdin))
StreamSpec == Stream!Spec
=============================================================================
