--------------------------- MODULE JobInputProofs ---------------------------
(* Proofs about JobInput, for any number of callers and of messages sent    *)
(* again, and any size of the buffer: nothing that a caller was told is     *)
(* written is dropped while both sides live, and the child gets it in the   *)
(* order of the calls, before the end of its input.                         *)
(*                                                                          *)
(* Input moves from the buffer to what attach has queued and from there, or *)
(* from the chain, to the child, so that an accepted input is always in     *)
(* front of whatever is accepted later.                                     *)
(*                                                                          *)
(* After that the refinement: seen from outside, queue, buffer and chain    *)
(* together are the stream of StdinStream. Its mapping filters sequences,   *)
(* so that filtering comes first: a recursive function, which exists and is *)
(* what it should be because whatever fails for some length fails for a     *)
(* smallest one.                                                            *)
EXTENDS JobInput, WellFoundedInduction, TLAPS

(* The runner holds input before the child is attached in its buffer, and   *)
(* afterwards behind the attach effect, which heads the chain.              *)
Held ==
  /\ ~attached => queued = <<>> /\ chain = <<>>
  /\ attached => buffered = <<>> /\ channel # "closed"
  /\ channel = "closed" => mail = {}
  /\ ~attached /\ channel # "closed" => child = "none"
  /\ queued # <<>> => chain # <<>> /\ chain[1].kind = "attach"
  /\ \A i \in DOMAIN chain : i > 1 => chain[i].kind # "attach"

(* What an effect in the chain knows of the call it was made for.           *)
Standing(e) ==
  e.kind # "attach" =>
    /\ e.by \in Message
    /\ call[e.by.caller].phase # "idle"
    /\ e.kind = "resize" => Asks(e.by.caller) = "resize"
    /\ e.kind = "close" => /\ Closes(Asks(e.by.caller))
                           /\ HasData(Asks(e.by.caller)) => e.by.caller \in Range(stdin)
Effects == \A i \in DOMAIN chain : Standing(chain[i])

(* Whatever the runner has met was asked for.                               *)
Located(c) == c \in Range(stdin) \cup Range(queued) \cup Range(buffered)
Known ==
  /\ \A c \in Caller : call[c].phase = "resized" => Asks(c) = "resize"
  /\ \A m \in mail : call[m.caller].phase # "idle"
  /\ \A c \in Caller : before[c] \subseteq {d \in Caller : Succeeded(d)}
  /\ \A c \in Caller : Located(c) => call[c].phase # "idle"
  /\ closed => \E d \in Caller : call[d].phase # "idle" /\ Closes(Asks(d))

(* Input that waits has what came before it in front of it.                 *)
InLine(s) ==
  \A i \in DOMAIN s : \A c \in before[s[i]] :
    HasData(Asks(c)) => c \in Range(stdin) \cup Ahead(s, i)
LineUp == InLine(queued) /\ InLine(buffered)

InputInv == TypeOK /\ Held /\ Effects /\ Known /\ NothingLost /\ InOrder /\ LineUp

-----------------------------------------------------------------------------
(* Sequences.                                                               *)

(* An appended element is the last, and everything else is ahead of it.     *)
LEMMA Appended ==
  ASSUME NEW S, NEW s \in Seq(S), NEW x \in S
  PROVE  /\ Append(s, x) \in Seq(S)
         /\ DOMAIN Append(s, x) = DOMAIN s \cup {Len(s) + 1}
         /\ \A i \in DOMAIN s : Append(s, x)[i] = s[i]
         /\ Append(s, x)[Len(s) + 1] = x
         /\ Range(Append(s, x)) = Range(s) \cup {x}
         /\ \A i \in DOMAIN s : Ahead(Append(s, x), i) = Ahead(s, i)
         /\ Ahead(Append(s, x), Len(s) + 1) = Range(s)
<1>1. /\ Append(s, x) \in Seq(S)
      /\ DOMAIN Append(s, x) = DOMAIN s \cup {Len(s) + 1}
      /\ \A i \in DOMAIN s : Append(s, x)[i] = s[i]
      /\ Append(s, x)[Len(s) + 1] = x
  OBVIOUS
<1>2. Range(Append(s, x)) = Range(s) \cup {x}
  BY <1>1, Zenon DEF Range
<1>3. DOMAIN s = 1 .. Len(s) /\ Len(s) \in Nat
  OBVIOUS
<1>4. ASSUME NEW i \in DOMAIN s PROVE Ahead(Append(s, x), i) = Ahead(s, i)
  <2>1. \A k \in 1 .. i - 1 : k \in DOMAIN s
    BY <1>3
  <2> QED BY <1>1, <2>1 DEF Ahead
<1>5. Ahead(Append(s, x), Len(s) + 1) = Range(s)
  <2>1. 1 .. (Len(s) + 1) - 1 = DOMAIN s
    BY <1>3
  <2> QED BY <1>1, <2>1 DEF Ahead, Range
<1> QED BY <1>1, <1>2, <1>4, <1>5

(* What is taken from the front was ahead of all the rest.                  *)
LEMMA Taken ==
  ASSUME NEW S, NEW s \in Seq(S), s # <<>>
  PROVE  /\ Tail(s) \in Seq(S) /\ Head(s) = s[1] /\ s[1] \in S /\ 1 \in DOMAIN s
         /\ \A i \in DOMAIN Tail(s) : i \in Nat \ {0} /\ i + 1 \in DOMAIN s /\ Tail(s)[i] = s[i + 1]
         /\ Range(s) = {Head(s)} \cup Range(Tail(s))
         /\ \A i \in DOMAIN Tail(s) : Ahead(s, i + 1) = {Head(s)} \cup Ahead(Tail(s), i)
<1>1. /\ Tail(s) \in Seq(S) /\ Head(s) = s[1] /\ s[1] \in S /\ 1 \in DOMAIN s
      /\ Len(s) \in Nat \ {0} /\ DOMAIN s = 1 .. Len(s) /\ DOMAIN Tail(s) = 1 .. Len(s) - 1
      /\ \A i \in DOMAIN Tail(s) : Tail(s)[i] = s[i + 1]
  OBVIOUS
<1>2. \A i \in DOMAIN Tail(s) : i \in Nat \ {0} /\ i + 1 \in DOMAIN s
  BY <1>1
<1>3. Range(s) = {Head(s)} \cup Range(Tail(s))
  <2>1. \A k \in DOMAIN s : k = 1 \/ (k - 1 \in DOMAIN Tail(s) /\ (k - 1) + 1 = k)
    BY <1>1
  <2>2. ASSUME NEW y \in Range(s) PROVE y \in {Head(s)} \cup Range(Tail(s))
    BY <1>1, <2>1, <2>2 DEF Range
  <2>3. ASSUME NEW y \in {Head(s)} \cup Range(Tail(s)) PROVE y \in Range(s)
    BY <1>1, <1>2, <2>3 DEF Range
  <2> QED BY <2>2, <2>3
<1>4. ASSUME NEW i \in DOMAIN Tail(s)
      PROVE  Ahead(s, i + 1) = {Head(s)} \cup Ahead(Tail(s), i)
  <2>1. \A k \in 1 .. (i + 1) - 1 : k = 1 \/ (k - 1 \in 1 .. i - 1 /\ (k - 1) + 1 = k)
    BY <1>1
  <2>2. \A k \in 1 .. i - 1 : k \in DOMAIN Tail(s) /\ k + 1 \in 1 .. (i + 1) - 1
    BY <1>1
  <2>3. 1 \in 1 .. (i + 1) - 1
    BY <1>1
  <2>4. ASSUME NEW y \in Ahead(s, i + 1) PROVE y \in {Head(s)} \cup Ahead(Tail(s), i)
    <3>1. PICK k \in 1 .. (i + 1) - 1 : y = s[k]
      BY <2>4 DEF Ahead
    <3>2. CASE k = 1
      BY <1>1, <3>1, <3>2
    <3>3. CASE k # 1
      BY <1>1, <2>1, <2>2, <3>1, <3>3 DEF Ahead
    <3> QED BY <3>2, <3>3
  <2>5. ASSUME NEW y \in {Head(s)} \cup Ahead(Tail(s), i) PROVE y \in Ahead(s, i + 1)
    BY <1>1, <2>2, <2>3, <2>5 DEF Ahead
  <2> QED BY <2>4, <2>5
<1> QED BY <1>1, <1>2, <1>3, <1>4

(* Nothing is in the empty sequence.                                        *)
LEMMA Empty == Range(<<>>) = {} /\ \A S : <<>> \in Seq(S)
  BY DEF Range

-----------------------------------------------------------------------------
(* Calls.                                                                   *)

Calls == [Caller -> [phase : {"idle", "sent", "resized", "ok", "failed"},
                     request : Request, sends : 0 .. MaxSends]]

(* An answer reaches calls that wait, and changes nothing but their phase.  *)
LEMMA AnsweredFacts ==
  ASSUME TypeOK, NEW ms, NEW v \in {"failed", "ok", "resized"}, call' = Answered(ms, v)
  PROVE  /\ call' \in Calls
         /\ \A c \in Caller :
              /\ call'[c].request = call[c].request
              /\ \/ call'[c] = call[c]
                 \/ /\ call[c].phase = "sent" /\ call'[c].phase = v
                    /\ \E m \in ms : m.caller = c
<1>1. ASSUME NEW c \in Caller
      PROVE  /\ call'[c] \in [phase : {"idle", "sent", "resized", "ok", "failed"},
                              request : Request, sends : 0 .. MaxSends]
             /\ call'[c].request = call[c].request
             /\ \/ call'[c] = call[c]
                \/ /\ call[c].phase = "sent" /\ call'[c].phase = v
                   /\ \E m \in ms : m.caller = c
  <2>1. CASE \E m \in ms : m.caller = c /\ Waits(m)
    BY <2>1 DEF TypeOK, Answered, Waits
  <2>2. CASE ~\E m \in ms : m.caller = c /\ Waits(m)
    BY <2>2 DEF TypeOK, Answered
  <2> QED BY <2>1, <2>2
<1>2. call' = [c \in Caller |-> call'[c]]
  BY DEF Answered
<1> QED BY <1>1, <1>2 DEF Calls

(* What stays of a call that was made.                                      *)
Later ==
  \A c \in Caller : call[c].phase # "idle" =>
    /\ call'[c].phase # "idle" /\ call'[c].request = call[c].request
    /\ before'[c] = before[c]
    /\ call[c].phase = "ok" => call'[c].phase = "ok"

(* The types, of what callers know and of what is finite, and of sequences. *)
FlatTyped ==
  /\ mode \in {"pipe", "conpty"}
  /\ row \in [active : BOOLEAN, size : Caller \cup {NoCaller}]
  /\ before \in [Caller -> SUBSET Caller]
  /\ attached \in BOOLEAN /\ failed \in BOOLEAN /\ closed \in BOOLEAN
  /\ resizeTo \in Caller \cup {NoCaller}
  /\ broken \in BOOLEAN
  /\ channel \in {"open", "closing", "closed"}
  /\ awaited \in Nat
  /\ child \in {"none", "running", "gone"}
  /\ screen \in Caller \cup {NoCaller}
CallsTyped == call \in Calls /\ mail \subseteq Message
SeqsTyped ==
  /\ buffered \in Seq(Caller) /\ queued \in Seq(Caller)
  /\ Len(buffered) <= BufferLimit
  /\ chain \in Seq(Effect)
  /\ stdin \in Seq(Caller \cup {Eof})

(* Together they are the type invariant.                                    *)
LEMMA TypeParts == TypeOK <=> FlatTyped /\ CallsTyped /\ SeqsTyped
  BY DEF TypeOK, FlatTyped, CallsTyped, SeqsTyped, Calls

(* What a step does to the chain: nothing, ends it, settles its head, or    *)
(* puts an effect behind it.                                                *)
Puts(s, e) == chain' = Append(s, e) /\ e \in Effect /\ Standing(e)'
ChainStep ==
  \/ chain' = chain \/ chain' = <<>>
  \/ chain # <<>> /\ chain' = Tail(chain)
  \/ \E e \in Effect : Puts(chain, e)
  \/ chain # <<>> /\ \E e \in Effect : Puts(Tail(chain), e)

(* What it does to the child's input.                                       *)
StdinStep == stdin' = stdin \/ \E x \in Caller \cup {Eof} : stdin' = Append(stdin, x)

(* Either way it keeps what it was given.                                   *)
LEMMA StdinGrows ==
  ASSUME stdin \in Seq(Caller \cup {Eof}), StdinStep
  PROVE  Range(stdin) \subseteq Range(stdin')
<1>1. CASE stdin' = stdin
  BY <1>1
<1>2. ASSUME NEW x \in Caller \cup {Eof}, stdin' = Append(stdin, x)
      PROVE  Range(stdin) \subseteq Range(stdin')
  <2>1. Range(Append(stdin, x)) = Range(stdin) \cup {x}
    BY Appended
  <2> QED BY <1>2, <2>1
<1> QED BY <1>1, <1>2 DEF StdinStep

(* An effect stands for its call as long as that is not taken back.         *)
LEMMA StillStanding ==
  ASSUME TypeOK, Later, Range(stdin) \subseteq Range(stdin'), NEW e \in Effect, Standing(e)
  PROVE  Standing(e)'
  BY DEF TypeOK, Later, Standing, Effect, Message, Asks

(* The first effect, and the caller it was made for.                        *)
LEMMA HeadOfChain ==
  ASSUME InputInv, chain # <<>>
  PROVE  /\ Head(chain) = chain[1] /\ 1 \in DOMAIN chain
         /\ Head(chain) \in Effect /\ Tail(chain) \in Seq(Effect)
         /\ Standing(Head(chain))
         /\ Head(chain).kind # "attach" =>
              Head(chain).by \in Message /\ Head(chain).by.caller \in Caller
<1>1. chain \in Seq(Effect)
  BY DEF InputInv, TypeOK
<1>2. Head(chain) = chain[1] /\ 1 \in DOMAIN chain /\ Head(chain) \in Effect /\ Tail(chain) \in Seq(Effect)
  BY <1>1, Taken
<1>3. Standing(Head(chain))
  BY <1>2 DEF InputInv, Effects
<1> QED BY <1>2, <1>3 DEF Standing, Message

(* No answer gives a size to a call that asked for none.                    *)
LEMMA NoSizeUnasked ==
  ASSUME InputInv, NEW ms, NEW v \in {"failed", "ok", "resized"}, call' = Answered(ms, v),
         v = "resized" => \A m \in ms : Asks(m.caller) = "resize"
  PROVE  \A d \in Caller : call'[d].phase = "resized" => call'[d].request = "resize"
<1>1. \A c \in Caller :
        /\ call'[c].request = call[c].request
        /\ \/ call'[c] = call[c]
           \/ call'[c].phase = v /\ \E m \in ms : m.caller = c
  BY AnsweredFacts DEF InputInv
<1> QED BY <1>1 DEF InputInv, Known, Asks

-----------------------------------------------------------------------------
(* Where input is.                                                          *)

(* The child runs and the runner lives whenever something is written.       *)
LEMMA Whole == ASSUME InputInv, chain # <<>>, child = "running" PROVE ~Torn
  BY DEF InputInv, Held, Torn

(* Torn streams stay torn.                                                  *)
LEMMA TornStays ==
  ASSUME InputInv, Next
  PROVE  Torn => Torn'
<1> USE DEF Torn
<1>1. ASSUME NEW c \in Caller,
             (\E r \in Request : Call(c, r)) \/ SendAgain(c) \/ GiveUp(c) \/ RecordSize(c)
      PROVE  Torn => Torn'
  BY <1>1 DEF Call, SendAgain, GiveUp, RecordSize, effectVars, childVars
<1>2. ASSUME NEW m \in mail, Refuse(m) \/ Hold(m) \/ Forward(m) PROVE Torn => Torn'
  BY <1>2 DEF Refuse, Hold, Forward, Receive, childVars
<1>3. CASE Attach
  BY <1>3 DEF Attach
<1>4. CASE RunEffect
  BY <1>4 DEF RunEffect, AttachWrites, AttachResizes, AttachEnds, AttachFails, Write, Close,
      Resize, EffectFails, effectVars, childVars
<1>5. CASE ChildExits \/ SettleRow \/ CloseBegins \/ CloseEnds \/ RunnerDies
  BY <1>5 DEF ChildExits, SettleRow, CloseBegins, CloseEnds, RunnerDies, Gone, effectVars, childVars
<1> QED BY <1>1, <1>2, <1>3, <1>4, <1>5 DEF Next

(* What a step does to the places of input: what was located stays so while *)
(* both sides live, and what comes in is of a call that was made.           *)
LocationStep(c) ==
  /\ ~Torn' /\ Located(c) => Located(c)'
  /\ Located(c)' => Located(c) \/ call'[c].phase # "idle"

(* When nothing is held any more, all that came before a call is delivered. *)
LEMMA AllDelivered ==
  ASSUME InputInv, ~Torn, queued = <<>>, buffered = <<>>,
         NEW d \in Caller, NEW c \in before[d], HasData(Asks(c))
  PROVE  c \in Range(stdin)
<1>1. c \in Caller /\ Succeeded(c)
  BY DEF InputInv, Known
<1>2. c \in Range(stdin) \cup Range(queued) \cup Range(buffered)
  BY <1>1 DEF InputInv, NothingLost
<1> QED BY <1>2, Empty

(* A call before another has been made, and asks what it asked.             *)
LEMMA BeforeStays ==
  ASSUME InputInv, Later, NEW d \in Caller, call[d].phase # "idle"
  PROVE  /\ before'[d] = before[d]
         /\ \A c \in before[d] : c \in Caller /\ Asks(c)' = Asks(c)
<1>1. \A c \in before[d] : c \in Caller /\ call[c].phase = "ok"
  BY DEF InputInv, Known, Succeeded
<1> QED BY <1>1 DEF Later, Asks

(* The order of what the child has, when it gets nothing.                   *)
LEMMA OrderStays ==
  ASSUME InputInv, Later, stdin' = stdin
  PROVE  InOrder'
<1> SUFFICES ASSUME NEW i \in DOMAIN stdin'
             PROVE  \E d \in Caller :
                      /\ IF stdin'[i] = Eof THEN Closes(Asks(d)') /\ call'[d].phase # "idle"
                                            ELSE d = stdin'[i]
                      /\ \A c \in before'[d] : HasData(Asks(c)') => c \in Ahead(stdin', i)
  BY DEF InOrder, Ahead, HasData, Closes
<1>0. i \in DOMAIN stdin /\ stdin'[i] = stdin[i] /\ Ahead(stdin', i) = Ahead(stdin, i)
  OBVIOUS
<1>1. PICK d \in Caller :
        /\ IF stdin[i] = Eof THEN Closes(Asks(d)) /\ call[d].phase # "idle" ELSE d = stdin[i]
        /\ \A c \in before[d] : HasData(Asks(c)) => c \in Ahead(stdin, i)
  BY <1>0 DEF InputInv, InOrder
<1>2. call[d].phase # "idle"
  BY <1>0, <1>1 DEF InputInv, Known, Located, Range
<1>3. /\ before'[d] = before[d] /\ call'[d].phase # "idle" /\ Asks(d)' = Asks(d)
      /\ \A c \in before[d] : Asks(c)' = Asks(c)
  BY <1>2, BeforeStays DEF Later, Asks
<1> QED BY <1>0, <1>1, <1>3

(* The order when it gets something that all of what was before it precedes.*)
LEMMA OrderGrows ==
  ASSUME InputInv, Later, NEW x \in Caller \cup {Eof}, stdin' = Append(stdin, x),
         NEW e \in Caller, call[e].phase # "idle", x = Eof => Closes(Asks(e)), x # Eof => e = x,
         \A c \in before[e] : HasData(Asks(c)) => c \in Range(stdin)
  PROVE  InOrder'
<1>1. /\ stdin \in Seq(Caller \cup {Eof})
      /\ DOMAIN stdin' = DOMAIN stdin \cup {Len(stdin) + 1}
      /\ \A i \in DOMAIN stdin : stdin'[i] = stdin[i] /\ Ahead(stdin', i) = Ahead(stdin, i)
      /\ stdin'[Len(stdin) + 1] = x /\ Ahead(stdin', Len(stdin) + 1) = Range(stdin)
  <2>1. stdin \in Seq(Caller \cup {Eof})
    BY DEF InputInv, TypeOK
  <2> QED BY <2>1, Appended
<1> SUFFICES ASSUME NEW i \in DOMAIN stdin'
             PROVE  \E d \in Caller :
                      /\ IF stdin'[i] = Eof THEN Closes(Asks(d)') /\ call'[d].phase # "idle"
                                            ELSE d = stdin'[i]
                      /\ \A c \in before'[d] : HasData(Asks(c)') => c \in Ahead(stdin', i)
  BY DEF InOrder, Ahead, HasData, Closes
<1>2. CASE i \in DOMAIN stdin
  <2>1. PICK d \in Caller :
          /\ IF stdin[i] = Eof THEN Closes(Asks(d)) /\ call[d].phase # "idle" ELSE d = stdin[i]
          /\ \A c \in before[d] : HasData(Asks(c)) => c \in Ahead(stdin, i)
    BY <1>2 DEF InputInv, InOrder
  <2>2. call[d].phase # "idle"
    BY <1>2, <2>1 DEF InputInv, Known, Located, Range
  <2>3. /\ before'[d] = before[d] /\ call'[d].phase # "idle" /\ Asks(d)' = Asks(d)
        /\ \A c \in before[d] : Asks(c)' = Asks(c)
    BY <2>2, BeforeStays DEF Later, Asks
  <2>4. stdin'[i] = stdin[i] /\ Ahead(stdin', i) = Ahead(stdin, i)
    BY <1>1, <1>2
  <2> QED BY <2>1, <2>3, <2>4
<1>3. CASE i = Len(stdin) + 1
  <2>1. /\ before'[e] = before[e] /\ call'[e].phase # "idle" /\ Asks(e)' = Asks(e)
        /\ \A c \in before[e] : Asks(c)' = Asks(c)
    BY BeforeStays DEF Later, Asks
  <2>2. stdin'[i] = x /\ Ahead(stdin', i) = Range(stdin)
    BY <1>1, <1>3
  <2> QED BY <2>1, <2>2
<1> QED BY <1>1, <1>2, <1>3

(* A queue whose callers were heard of stays in line as the child gets more.*)
StaysInLine(s) ==
  \A i \in DOMAIN s : \A c \in before'[s[i]] :
    HasData(Asks(c)') => c \in Range(stdin') \cup Ahead(s, i)
LEMMA LineStays ==
  ASSUME InputInv, Later, Range(stdin) \subseteq Range(stdin'), NEW s \in Seq(Caller),
         InLine(s), \A i \in DOMAIN s : call[s[i]].phase # "idle"
  PROVE  StaysInLine(s)
<1> SUFFICES ASSUME NEW i \in DOMAIN s, NEW c \in before'[s[i]], HasData(Asks(c)')
             PROVE  c \in Range(stdin') \cup Ahead(s, i)
  BY DEF StaysInLine
<1>1. s[i] \in Caller /\ call[s[i]].phase # "idle"
  OBVIOUS
<1>2. c \in before[s[i]] /\ Asks(c)' = Asks(c)
  BY <1>1, BeforeStays
<1> QED BY <1>2 DEF InLine

(* The answer "ok" to data that is located.                                 *)
LEMMA OkIfLocated ==
  ASSUME InputInv, NEW ms, NEW v \in {"failed", "ok", "resized"}, call' = Answered(ms, v),
         v = "ok" => \A m \in ms : HasData(Asks(m.caller)) => Located(m.caller)'
  PROVE  \A x \in Caller : call'[x].phase = "ok" /\ HasData(call'[x].request)
                             => call[x].phase = "ok" \/ Located(x)'
<1>1. \A c \in Caller :
        /\ call'[c].request = call[c].request
        /\ \/ call'[c] = call[c]
           \/ call'[c].phase = v /\ \E m \in ms : m.caller = c
  BY AnsweredFacts DEF InputInv
<1> QED BY <1>1 DEF Asks

-----------------------------------------------------------------------------
(* What each step does; the lemmas below go through the actions.            *)
SizeStep ==
  \A d \in Caller : call'[d].phase = "resized" => call'[d].request = "resize"
MailStep == \A x \in mail' : x \in mail \/ call'[x.caller].phase # "idle"
BeforeStep ==
  \A d \in Caller : \/ before'[d] = before[d]
                    \/ before'[d] \subseteq {x \in Caller : Succeeded(x)}
OkStep ==
  \A x \in Caller : call'[x].phase = "ok" /\ HasData(call'[x].request)
                    => call[x].phase = "ok" \/ Located(x)'
ClosedStep ==
  closed' => closed \/ \E x \in Caller : call[x].phase # "idle" /\ Closes(Asks(x))
LocationSteps == \A x \in Caller : LocationStep(x)
LineStep == StaysInLine(queued') /\ StaysInLine(buffered')

(* The rest of the types.                                                   *)
LEMMA FlatKept ==
  ASSUME InputInv, Next
  PROVE  FlatTyped'
<1>1. ASSUME NEW c \in Caller, NEW r \in Request, Call(c, r) PROVE FlatTyped'
  BY <1>1, BoundAssumption
  DEF InputInv, Call, socketVars, effectVars, childVars, TypeOK, FlatTyped
<1>2. ASSUME NEW c \in Caller, SendAgain(c) PROVE FlatTyped'
  BY <1>2, BoundAssumption
  DEF InputInv, SendAgain, socketVars, effectVars, childVars, TypeOK, FlatTyped
<1>3. ASSUME NEW c \in Caller, GiveUp(c) PROVE FlatTyped'
  BY <1>3, BoundAssumption
  DEF InputInv, GiveUp, socketVars, effectVars, childVars, TypeOK, FlatTyped
<1>4. ASSUME NEW c \in Caller, RecordSize(c) PROVE FlatTyped'
  BY <1>4, BoundAssumption
  DEF InputInv, RecordSize, socketVars, effectVars, childVars, TypeOK, FlatTyped
<1>5. ASSUME NEW m \in mail, Refuse(m) PROVE FlatTyped'
  BY <1>5, BoundAssumption
  DEF InputInv, Refuse, Receive, childVars, TypeOK, FlatTyped
<1>6. ASSUME NEW m \in mail, Hold(m) PROVE FlatTyped'
  <2>1. attached \in BOOLEAN /\ closed \in BOOLEAN /\ m.caller \in Caller
    BY DEF InputInv, TypeOK, Message
  <2>2. closed' \in BOOLEAN /\ resizeTo' \in Caller \cup {NoCaller}
    BY <1>6, <2>1 DEF InputInv, TypeOK, Hold
  <2> QED BY <1>6, <2>2 DEF InputInv, TypeOK, FlatTyped, Hold, Receive, childVars
<1>7. ASSUME NEW m \in mail, Forward(m) PROVE FlatTyped'
  BY <1>7, BoundAssumption
  DEF InputInv, Forward, Receive, childVars, TypeOK, FlatTyped
<1>8. ASSUME Attach PROVE FlatTyped'
  BY <1>8, BoundAssumption
  DEF InputInv, Attach, callerVars, TypeOK, FlatTyped
<1>9. ASSUME AttachWrites PROVE FlatTyped'
  BY <1>9, BoundAssumption
  DEF InputInv, AttachWrites, Running, callerVars, effectVars, TypeOK, FlatTyped
<1>10. ASSUME AttachResizes PROVE FlatTyped'
  BY <1>10, BoundAssumption
  DEF InputInv, AttachResizes, Running, effectVars, TypeOK, FlatTyped
<1>11. ASSUME AttachEnds PROVE FlatTyped'
  <2>1. awaited' \in Nat
    BY <1>11 DEF InputInv, TypeOK, AttachEnds, Settled
  <2> QED BY <1>11, <2>1 DEF InputInv, TypeOK, FlatTyped, AttachEnds, socketVars, callerVars
<1>12. ASSUME AttachFails PROVE FlatTyped'
  <2>1. awaited' \in Nat
    BY <1>12 DEF InputInv, TypeOK, AttachFails, Settled
  <2> QED BY <1>12, <2>1 DEF InputInv, TypeOK, FlatTyped, AttachFails, childVars, callerVars
<1>13. ASSUME Write PROVE FlatTyped'
  <2>1. awaited' \in Nat /\ closed' \in BOOLEAN
    BY <1>13 DEF InputInv, TypeOK, Write
  <2> QED BY <1>13, <2>1 DEF InputInv, TypeOK, FlatTyped, Write
<1>14. ASSUME Close PROVE FlatTyped'
  <2>1. awaited' \in Nat
    BY <1>14 DEF InputInv, TypeOK, Close, Settled
  <2> QED BY <1>14, <2>1 DEF InputInv, TypeOK, FlatTyped, Close, socketVars
<1>15. ASSUME Resize PROVE FlatTyped'
  <2>1. awaited' \in Nat
    BY <1>15 DEF InputInv, TypeOK, Resize, Settled
  <2>2. chain # <<>> /\ Head(chain) = chain[1] /\ 1 \in DOMAIN chain /\ chain[1].kind = "resize"
    BY <1>15, Taken DEF InputInv, TypeOK, Resize, Running
  <2>3. Head(chain).by.caller \in Caller
    BY <2>2 DEF InputInv, Effects, Standing, Message
  <2>4. screen' \in Caller /\ row' \in [active : BOOLEAN, size : Caller \cup {NoCaller}]
    BY <1>15, <2>3 DEF InputInv, TypeOK, Resize
  <2> QED BY <1>15, <2>1, <2>4 DEF InputInv, TypeOK, FlatTyped, Resize, socketVars
<1>16. ASSUME EffectFails PROVE FlatTyped'
  BY <1>16, BoundAssumption
  DEF InputInv, EffectFails, Running, childVars, TypeOK, FlatTyped
<1>17. ASSUME ChildExits PROVE FlatTyped'
  BY <1>17, BoundAssumption
  DEF InputInv, ChildExits, callerVars, socketVars, effectVars, TypeOK, FlatTyped
<1>18. ASSUME SettleRow PROVE FlatTyped'
  BY <1>18, BoundAssumption
  DEF InputInv, SettleRow, socketVars, effectVars, childVars, TypeOK, FlatTyped
<1>19. ASSUME CloseBegins PROVE FlatTyped'
  <2>1. awaited' \in Nat
    BY <1>19 DEF InputInv, TypeOK, CloseBegins
  <2> QED BY <1>19, <2>1 DEF InputInv, TypeOK, FlatTyped, CloseBegins, socketVars, childVars, callerVars
<1>20. ASSUME CloseEnds PROVE FlatTyped'
  BY <1>20, BoundAssumption
  DEF InputInv, CloseEnds, Gone, callerVars, childVars, TypeOK, FlatTyped
<1>21. ASSUME RunnerDies PROVE FlatTyped'
  BY <1>21, BoundAssumption
  DEF InputInv, RunnerDies, Gone, callerVars, childVars, TypeOK, FlatTyped
<1> QED BY <1>1, <1>2, <1>3, <1>4, <1>5, <1>6, <1>7, <1>8, <1>9, <1>10, <1>11, <1>12,
      <1>13, <1>14, <1>15, <1>16, <1>17, <1>18, <1>19, <1>20, <1>21 DEF Next, RunEffect

(* Calls and messages.                                                      *)
LEMMA CallsKept ==
  ASSUME InputInv, Next
  PROVE  CallsTyped'
<1>1. ASSUME NEW c \in Caller, NEW r \in Request, Call(c, r) PROVE CallsTyped'
  <2>1. call' \in Calls
    <3>1. call \in Calls /\ 1 \in 0 .. MaxSends /\ 0 \in 0 .. MaxSends
      BY BoundAssumption DEF InputInv, TypeOK, Calls
    <3>2. CASE row.active
      BY <1>1, <3>1, <3>2 DEF Call, Calls
    <3>3. CASE ~row.active
      BY <1>1, <3>1, <3>3 DEF Call, Calls
    <3> QED BY <3>2, <3>3
  <2>2. mail' \subseteq Message
    BY <1>1, BoundAssumption DEF InputInv, TypeOK, Call, Sent, Message
  <2> QED BY <2>1, <2>2 DEF CallsTyped
<1>2. ASSUME NEW c \in Caller, SendAgain(c) PROVE CallsTyped'
  <2>1. call[c].sends \in 0 .. MaxSends /\ call[c].sends + 1 \in 1 .. MaxSends
    BY <1>2, BoundAssumption DEF InputInv, TypeOK, SendAgain
  <2>2. call' \in Calls
    <3>1. call \in Calls /\ call[c].sends + 1 \in 0 .. MaxSends
      BY <2>1, BoundAssumption DEF InputInv, TypeOK, Calls
    <3>2. call' = [call EXCEPT ![c].sends = call[c].sends + 1]
      BY <1>2 DEF SendAgain
    <3> QED BY <3>1, <3>2 DEF Calls
  <2>3. mail' \subseteq Message
    BY <1>2, <2>1, BoundAssumption DEF InputInv, TypeOK, SendAgain, Sent, Message
  <2> QED BY <2>2, <2>3 DEF CallsTyped
<1>3. ASSUME NEW c \in Caller, GiveUp(c) PROVE CallsTyped'
  BY <1>3, BoundAssumption
  DEF InputInv, GiveUp, socketVars, effectVars, childVars, TypeOK, CallsTyped, Message,
      Asks, Calls
<1>4. ASSUME NEW c \in Caller, RecordSize(c) PROVE CallsTyped'
  BY <1>4, BoundAssumption
  DEF InputInv, RecordSize, socketVars, effectVars, childVars, TypeOK, CallsTyped,
      Message, Asks, Calls
<1>5. ASSUME NEW m \in mail, Refuse(m) PROVE CallsTyped'
  BY <1>5, BoundAssumption, AnsweredFacts
  DEF InputInv, Refuse, Receive, Refused, childVars, TypeOK, CallsTyped, Message, Asks,
      Calls
<1>6. ASSUME NEW m \in mail, Hold(m) PROVE CallsTyped'
  BY <1>6, BoundAssumption, AnsweredFacts
  DEF InputInv, Hold, Receive, Refused, childVars, TypeOK, CallsTyped, Message, Asks,
      Calls
<1>7. ASSUME NEW m \in mail, Forward(m) PROVE CallsTyped'
  BY <1>7, BoundAssumption, AnsweredFacts
  DEF InputInv, Forward, Receive, Refused, childVars, TypeOK, CallsTyped, Message, Asks,
      Calls
<1>8. ASSUME Attach PROVE CallsTyped'
  BY <1>8, BoundAssumption
  DEF InputInv, Attach, callerVars, TypeOK, CallsTyped, Message, Asks, Calls
<1>9. ASSUME AttachWrites PROVE CallsTyped'
  BY <1>9, BoundAssumption
  DEF InputInv, AttachWrites, Running, Writable, callerVars, effectVars, TypeOK,
      CallsTyped, Message, Asks, Calls
<1>10. ASSUME AttachResizes PROVE CallsTyped'
  BY <1>10, BoundAssumption
  DEF InputInv, AttachResizes, Running, effectVars, TypeOK, CallsTyped, Message, Asks,
      Calls
<1>11. ASSUME AttachEnds PROVE CallsTyped'
  BY <1>11, BoundAssumption
  DEF InputInv, AttachEnds, Running, Settled, callerVars, socketVars, TypeOK,
      CallsTyped, Message, Asks, Calls
<1>12. ASSUME AttachFails PROVE CallsTyped'
  BY <1>12, BoundAssumption
  DEF InputInv, AttachFails, Running, Settled, callerVars, childVars, TypeOK,
      CallsTyped, Message, Asks, Calls
<1>13. ASSUME Write PROVE CallsTyped'
  BY <1>13, BoundAssumption, AnsweredFacts
  DEF InputInv, Write, Running, Writable, TypeOK, CallsTyped, Message, Asks, Calls
<1>14. ASSUME Close PROVE CallsTyped'
  BY <1>14, BoundAssumption, AnsweredFacts
  DEF InputInv, Close, Running, Writable, Settled, socketVars, TypeOK, CallsTyped,
      Message, Asks, Calls
<1>15. ASSUME Resize PROVE CallsTyped'
  BY <1>15, BoundAssumption, AnsweredFacts
  DEF InputInv, Resize, Running, Settled, socketVars, TypeOK, CallsTyped, Message, Asks,
      Calls
<1>16. ASSUME EffectFails PROVE CallsTyped'
  BY <1>16, BoundAssumption, AnsweredFacts
  DEF InputInv, EffectFails, Running, Writable, childVars, TypeOK, CallsTyped, Message,
      Asks, Calls
<1>17. ASSUME ChildExits PROVE CallsTyped'
  BY <1>17, BoundAssumption
  DEF InputInv, ChildExits, callerVars, socketVars, effectVars, TypeOK, CallsTyped,
      Message, Asks, Calls
<1>18. ASSUME SettleRow PROVE CallsTyped'
  BY <1>18, BoundAssumption
  DEF InputInv, SettleRow, socketVars, effectVars, childVars, TypeOK, CallsTyped,
      Message, Asks, Calls
<1>19. ASSUME CloseBegins PROVE CallsTyped'
  BY <1>19, BoundAssumption
  DEF InputInv, CloseBegins, callerVars, socketVars, childVars, TypeOK, CallsTyped,
      Message, Asks, Calls
<1>20. ASSUME CloseEnds PROVE CallsTyped'
  BY <1>20, BoundAssumption
  DEF InputInv, CloseEnds, Gone, callerVars, childVars, TypeOK, CallsTyped, Message,
      Asks, Calls
<1>21. ASSUME RunnerDies PROVE CallsTyped'
  BY <1>21, BoundAssumption
  DEF InputInv, RunnerDies, Gone, callerVars, childVars, TypeOK, CallsTyped, Message,
      Asks, Calls
<1> QED BY <1>1, <1>2, <1>3, <1>4, <1>5, <1>6, <1>7, <1>8, <1>9, <1>10, <1>11, <1>12,
      <1>13, <1>14, <1>15, <1>16, <1>17, <1>18, <1>19, <1>20, <1>21 DEF Next, RunEffect

(* Sequences.                                                               *)
LEMMA SeqsKept ==
  ASSUME InputInv, Next
  PROVE  SeqsTyped'
<1>1. ASSUME NEW c \in Caller, NEW r \in Request, Call(c, r) PROVE SeqsTyped'
  BY <1>1, BoundAssumption
  DEF InputInv, Call, Sent, socketVars, effectVars, childVars, TypeOK, SeqsTyped,
      Effects, Standing, Message, Effect, Asks
<1>2. ASSUME NEW c \in Caller, SendAgain(c) PROVE SeqsTyped'
  BY <1>2, BoundAssumption
  DEF InputInv, SendAgain, Sent, socketVars, effectVars, childVars, TypeOK, SeqsTyped,
      Effects, Standing, Message, Effect, Asks
<1>3. ASSUME NEW c \in Caller, GiveUp(c) PROVE SeqsTyped'
  BY <1>3, BoundAssumption
  DEF InputInv, GiveUp, socketVars, effectVars, childVars, TypeOK, SeqsTyped, Effects,
      Standing, Message, Effect, Asks
<1>4. ASSUME NEW c \in Caller, RecordSize(c) PROVE SeqsTyped'
  BY <1>4, BoundAssumption
  DEF InputInv, RecordSize, socketVars, effectVars, childVars, TypeOK, SeqsTyped,
      Effects, Standing, Message, Effect, Asks
<1>5. ASSUME NEW m \in mail, Refuse(m) PROVE SeqsTyped'
  BY <1>5, BoundAssumption
  DEF InputInv, Refuse, Receive, Refused, childVars, TypeOK, SeqsTyped, Effects,
      Standing, Message, Effect, Asks
<1>6. ASSUME NEW m \in mail, Hold(m) PROVE SeqsTyped'
  <2>1. m.caller \in Caller
    BY DEF InputInv, TypeOK, Message
  <2>2. buffered' = buffered \/ (buffered' = Append(buffered, m.caller) /\ Len(buffered) < BufferLimit)
    <3>1. buffered \in Seq(Caller) /\ Len(buffered) \in Nat
      BY DEF InputInv, TypeOK
    <3>2. CASE HasData(Asks(m.caller))
      <4>1. ~(Len(buffered) >= BufferLimit)
        BY <1>6, <3>2 DEF Hold, Refused, HasData
      <4>2. buffered' = Append(buffered, m.caller)
        BY <1>6, <3>2 DEF Hold
      <4> QED BY <3>1, <4>1, <4>2, BoundAssumption
    <3>3. CASE ~HasData(Asks(m.caller))
      BY <1>6, <3>3 DEF Hold
    <3> QED BY <3>2, <3>3
  <2>3. buffered' \in Seq(Caller) /\ Len(buffered') <= BufferLimit
    <3>1. buffered \in Seq(Caller) /\ Len(buffered) <= BufferLimit
      BY DEF InputInv, TypeOK
    <3>2. Len(Append(buffered, m.caller)) = Len(buffered) + 1 /\ Append(buffered, m.caller) \in Seq(Caller)
      BY <2>1, <3>1
    <3>3. Len(buffered) \in Nat
      BY <3>1
    <3> QED BY <2>2, <3>1, <3>2, <3>3, BoundAssumption
  <2> QED BY <1>6, <2>3 DEF InputInv, TypeOK, SeqsTyped, Hold, Receive, childVars
<1>7. ASSUME NEW m \in mail, Forward(m) PROVE SeqsTyped'
  <2>1. m \in Message
    BY DEF InputInv, TypeOK
  <2>2. Asks(m.caller) \in Request
    BY <2>1 DEF InputInv, TypeOK, Message, Asks
  <2>3. [kind |-> IF HasData(Asks(m.caller)) THEN "write" ELSE Asks(m.caller), by |-> m] \in Effect
    BY <2>1, <2>2 DEF Effect, HasData, Request
  <2>4. chain' \in Seq(Effect)
    <3>1. chain \in Seq(Effect)
      BY DEF InputInv, TypeOK
    <3>2. CASE broken
      BY <1>7, <3>1, <3>2 DEF Forward
    <3>3. CASE ~broken
      <4>1. chain' = Append(chain, [kind |-> IF HasData(Asks(m.caller)) THEN "write" ELSE Asks(m.caller),
                                    by |-> m])
        BY <1>7, <3>3 DEF Forward
      <4> QED BY <2>3, <3>1, <4>1
    <3> QED BY <3>2, <3>3
  <2> QED BY <1>7, <2>4 DEF InputInv, TypeOK, SeqsTyped, Forward, Receive, childVars
<1>8. ASSUME Attach PROVE SeqsTyped'
  BY <1>8, BoundAssumption
  DEF InputInv, Attach, callerVars, TypeOK, SeqsTyped, Effects, Standing, Message,
      Effect, Asks
<1>9. ASSUME AttachWrites PROVE SeqsTyped'
  BY <1>9, BoundAssumption
  DEF InputInv, AttachWrites, Running, Writable, callerVars, effectVars, TypeOK,
      SeqsTyped, Effects, Standing, Message, Effect, Asks
<1>10. ASSUME AttachResizes PROVE SeqsTyped'
  BY <1>10, BoundAssumption
  DEF InputInv, AttachResizes, Running, effectVars, TypeOK, SeqsTyped, Effects,
      Standing, Message, Effect, Asks
<1>11. ASSUME AttachEnds PROVE SeqsTyped'
  BY <1>11, BoundAssumption
  DEF InputInv, AttachEnds, Running, Settled, callerVars, socketVars, TypeOK, SeqsTyped,
      Effects, Standing, Message, Effect, Asks
<1>12. ASSUME AttachFails PROVE SeqsTyped'
  BY <1>12, BoundAssumption
  DEF InputInv, AttachFails, Running, Settled, callerVars, childVars, TypeOK, SeqsTyped,
      Effects, Standing, Message, Effect, Asks
<1>13. ASSUME Write PROVE SeqsTyped'
  <2>1. chain # <<>> /\ Head(chain) = chain[1] /\ 1 \in DOMAIN chain /\ chain[1].kind = "write"
        /\ Tail(chain) \in Seq(Effect)
    BY <1>13, Taken DEF InputInv, TypeOK, Write, Running
  <2>2. Head(chain).by \in Message
    BY <2>1 DEF InputInv, Effects, Standing
  <2>3. [kind |-> "close", by |-> Head(chain).by] \in Effect /\ Head(chain).by.caller \in Caller \cup {Eof}
    BY <2>2 DEF Effect, Message
  <2>4. chain' \in Seq(Effect)
    BY <1>13, <2>1, <2>3, Appended DEF Write
  <2>5. stdin' \in Seq(Caller \cup {Eof})
    BY <1>13, <2>3, Appended DEF Write, InputInv, TypeOK
  <2> QED BY <1>13, <2>4, <2>5 DEF InputInv, TypeOK, SeqsTyped, Write
<1>14. ASSUME Close PROVE SeqsTyped'
  BY <1>14, BoundAssumption
  DEF InputInv, Close, Running, Writable, Settled, socketVars, TypeOK, SeqsTyped,
      Effects, Standing, Message, Effect, Asks
<1>15. ASSUME Resize PROVE SeqsTyped'
  BY <1>15, BoundAssumption
  DEF InputInv, Resize, Running, Settled, socketVars, TypeOK, SeqsTyped, Effects,
      Standing, Message, Effect, Asks
<1>16. ASSUME EffectFails PROVE SeqsTyped'
  BY <1>16, BoundAssumption
  DEF InputInv, EffectFails, Running, Writable, childVars, TypeOK, SeqsTyped, Effects,
      Standing, Message, Effect, Asks
<1>17. ASSUME ChildExits PROVE SeqsTyped'
  BY <1>17, BoundAssumption
  DEF InputInv, ChildExits, callerVars, socketVars, effectVars, TypeOK, SeqsTyped,
      Effects, Standing, Message, Effect, Asks
<1>18. ASSUME SettleRow PROVE SeqsTyped'
  BY <1>18, BoundAssumption
  DEF InputInv, SettleRow, socketVars, effectVars, childVars, TypeOK, SeqsTyped,
      Effects, Standing, Message, Effect, Asks
<1>19. ASSUME CloseBegins PROVE SeqsTyped'
  BY <1>19, BoundAssumption
  DEF InputInv, CloseBegins, callerVars, socketVars, childVars, TypeOK, SeqsTyped,
      Effects, Standing, Message, Effect, Asks
<1>20. ASSUME CloseEnds PROVE SeqsTyped'
  BY <1>20, BoundAssumption
  DEF InputInv, CloseEnds, Gone, callerVars, childVars, TypeOK, SeqsTyped, Effects,
      Standing, Message, Effect, Asks
<1>21. ASSUME RunnerDies PROVE SeqsTyped'
  BY <1>21, BoundAssumption
  DEF InputInv, RunnerDies, Gone, callerVars, childVars, TypeOK, SeqsTyped, Effects,
      Standing, Message, Effect, Asks
<1> QED BY <1>1, <1>2, <1>3, <1>4, <1>5, <1>6, <1>7, <1>8, <1>9, <1>10, <1>11, <1>12,
      <1>13, <1>14, <1>15, <1>16, <1>17, <1>18, <1>19, <1>20, <1>21 DEF Next, RunEffect

(* No step takes back a call that was made.                                 *)
LEMMA LaterStep ==
  ASSUME InputInv, Next
  PROVE  Later
<1>1. ASSUME NEW c \in Caller, NEW r \in Request, Call(c, r) PROVE Later
  BY <1>1
  DEF InputInv, Call, Sent, socketVars, effectVars, childVars, TypeOK, Later, Asks,
      Known, Succeeded
<1>2. ASSUME NEW c \in Caller, SendAgain(c) PROVE Later
  BY <1>2
  DEF InputInv, SendAgain, Sent, socketVars, effectVars, childVars, TypeOK, Later, Asks,
      Known, Succeeded
<1>3. ASSUME NEW c \in Caller, GiveUp(c) PROVE Later
  BY <1>3
  DEF InputInv, GiveUp, socketVars, effectVars, childVars, TypeOK, Later, Asks, Known,
      Succeeded
<1>4. ASSUME NEW c \in Caller, RecordSize(c) PROVE Later
  BY <1>4
  DEF InputInv, RecordSize, socketVars, effectVars, childVars, TypeOK, Later, Asks,
      Known, Succeeded
<1>5. ASSUME NEW m \in mail, Refuse(m) PROVE Later
  BY <1>5, AnsweredFacts
  DEF InputInv, Refuse, Receive, Refused, childVars, TypeOK, Later, Asks, Known,
      Succeeded
<1>6. ASSUME NEW m \in mail, Hold(m) PROVE Later
  BY <1>6, AnsweredFacts
  DEF InputInv, Hold, Receive, Refused, childVars, TypeOK, Later, Asks, Known, Succeeded
<1>7. ASSUME NEW m \in mail, Forward(m) PROVE Later
  BY <1>7, AnsweredFacts
  DEF InputInv, Forward, Receive, Refused, childVars, TypeOK, Later, Asks, Known,
      Succeeded
<1>8. ASSUME Attach PROVE Later
  BY <1>8
  DEF InputInv, Attach, callerVars, TypeOK, Later, Asks, Known, Succeeded
<1>9. ASSUME AttachWrites PROVE Later
  BY <1>9
  DEF InputInv, AttachWrites, Running, Writable, callerVars, effectVars, TypeOK, Later,
      Asks, Known, Succeeded
<1>10. ASSUME AttachResizes PROVE Later
  BY <1>10
  DEF InputInv, AttachResizes, Running, effectVars, TypeOK, Later, Asks, Known,
      Succeeded
<1>11. ASSUME AttachEnds PROVE Later
  BY <1>11
  DEF InputInv, AttachEnds, Running, Settled, callerVars, socketVars, TypeOK, Later,
      Asks, Known, Succeeded
<1>12. ASSUME AttachFails PROVE Later
  BY <1>12
  DEF InputInv, AttachFails, Running, Settled, callerVars, childVars, TypeOK, Later,
      Asks, Known, Succeeded
<1>13. ASSUME Write PROVE Later
  BY <1>13, AnsweredFacts
  DEF InputInv, Write, Running, Writable, TypeOK, Later, Asks, Known, Succeeded
<1>14. ASSUME Close PROVE Later
  BY <1>14, AnsweredFacts
  DEF InputInv, Close, Running, Writable, Settled, socketVars, TypeOK, Later, Asks,
      Known, Succeeded
<1>15. ASSUME Resize PROVE Later
  BY <1>15, AnsweredFacts
  DEF InputInv, Resize, Running, Settled, socketVars, TypeOK, Later, Asks, Known,
      Succeeded
<1>16. ASSUME EffectFails PROVE Later
  BY <1>16, AnsweredFacts
  DEF InputInv, EffectFails, Running, Writable, childVars, TypeOK, Later, Asks, Known,
      Succeeded
<1>17. ASSUME ChildExits PROVE Later
  BY <1>17
  DEF InputInv, ChildExits, callerVars, socketVars, effectVars, TypeOK, Later, Asks,
      Known, Succeeded
<1>18. ASSUME SettleRow PROVE Later
  BY <1>18
  DEF InputInv, SettleRow, socketVars, effectVars, childVars, TypeOK, Later, Asks,
      Known, Succeeded
<1>19. ASSUME CloseBegins PROVE Later
  BY <1>19
  DEF InputInv, CloseBegins, callerVars, socketVars, childVars, TypeOK, Later, Asks,
      Known, Succeeded
<1>20. ASSUME CloseEnds PROVE Later
  BY <1>20
  DEF InputInv, CloseEnds, Gone, callerVars, childVars, TypeOK, Later, Asks, Known,
      Succeeded
<1>21. ASSUME RunnerDies PROVE Later
  BY <1>21
  DEF InputInv, RunnerDies, Gone, callerVars, childVars, TypeOK, Later, Asks, Known,
      Succeeded
<1> QED BY <1>1, <1>2, <1>3, <1>4, <1>5, <1>6, <1>7, <1>8, <1>9, <1>10, <1>11, <1>12,
      <1>13, <1>14, <1>15, <1>16, <1>17, <1>18, <1>19, <1>20, <1>21 DEF Next, RunEffect

(* The child is given one thing after the other.                            *)
LEMMA StdinOnlyGrows ==
  ASSUME InputInv, Next
  PROVE  StdinStep
<1>1. ASSUME NEW c \in Caller, NEW r \in Request, Call(c, r) PROVE StdinStep
  BY <1>1, HeadOfChain
  DEF InputInv, Call, socketVars, effectVars, childVars, StdinStep
<1>2. ASSUME NEW c \in Caller, SendAgain(c) PROVE StdinStep
  BY <1>2, HeadOfChain
  DEF InputInv, SendAgain, socketVars, effectVars, childVars, StdinStep
<1>3. ASSUME NEW c \in Caller, GiveUp(c) PROVE StdinStep
  BY <1>3, HeadOfChain
  DEF InputInv, GiveUp, socketVars, effectVars, childVars, StdinStep
<1>4. ASSUME NEW c \in Caller, RecordSize(c) PROVE StdinStep
  BY <1>4, HeadOfChain
  DEF InputInv, RecordSize, socketVars, effectVars, childVars, StdinStep
<1>5. ASSUME NEW m \in mail, Refuse(m) PROVE StdinStep
  BY <1>5, HeadOfChain
  DEF InputInv, Refuse, Receive, childVars, StdinStep
<1>6. ASSUME NEW m \in mail, Hold(m) PROVE StdinStep
  BY <1>6, HeadOfChain
  DEF InputInv, Hold, Receive, childVars, StdinStep
<1>7. ASSUME NEW m \in mail, Forward(m) PROVE StdinStep
  BY <1>7, HeadOfChain
  DEF InputInv, Forward, Receive, childVars, StdinStep
<1>8. ASSUME Attach PROVE StdinStep
  BY <1>8, HeadOfChain
  DEF InputInv, Attach, callerVars, StdinStep
<1>9. ASSUME AttachWrites PROVE StdinStep
  <2>1. queued \in Seq(Caller) /\ queued # <<>>
    BY <1>9 DEF InputInv, TypeOK, AttachWrites
  <2>2. Head(queued) \in Caller
    BY <2>1, Taken
  <2> QED BY <1>9, <2>2 DEF AttachWrites, StdinStep
<1>10. ASSUME AttachResizes PROVE StdinStep
  BY <1>10, HeadOfChain
  DEF InputInv, AttachResizes, Running, effectVars, StdinStep
<1>11. ASSUME AttachEnds PROVE StdinStep
  BY <1>11, HeadOfChain
  DEF InputInv, AttachEnds, Running, Settled, callerVars, socketVars, StdinStep
<1>12. ASSUME AttachFails PROVE StdinStep
  BY <1>12, HeadOfChain
  DEF InputInv, AttachFails, Running, Settled, callerVars, childVars, StdinStep
<1>13. ASSUME Write PROVE StdinStep
  BY <1>13, HeadOfChain
  DEF InputInv, Write, Running, Writable, StdinStep
<1>14. ASSUME Close PROVE StdinStep
  BY <1>14, HeadOfChain
  DEF InputInv, Close, Running, Writable, Settled, socketVars, StdinStep
<1>15. ASSUME Resize PROVE StdinStep
  BY <1>15, HeadOfChain
  DEF InputInv, Resize, Running, Settled, socketVars, StdinStep
<1>16. ASSUME EffectFails PROVE StdinStep
  BY <1>16, HeadOfChain
  DEF InputInv, EffectFails, Running, Writable, childVars, StdinStep
<1>17. ASSUME ChildExits PROVE StdinStep
  BY <1>17, HeadOfChain
  DEF InputInv, ChildExits, callerVars, socketVars, effectVars, StdinStep
<1>18. ASSUME SettleRow PROVE StdinStep
  BY <1>18, HeadOfChain
  DEF InputInv, SettleRow, socketVars, effectVars, childVars, StdinStep
<1>19. ASSUME CloseBegins PROVE StdinStep
  BY <1>19, HeadOfChain
  DEF InputInv, CloseBegins, callerVars, socketVars, childVars, StdinStep
<1>20. ASSUME CloseEnds PROVE StdinStep
  BY <1>20, HeadOfChain
  DEF InputInv, CloseEnds, Gone, callerVars, childVars, StdinStep
<1>21. ASSUME RunnerDies PROVE StdinStep
  BY <1>21, HeadOfChain
  DEF InputInv, RunnerDies, Gone, callerVars, childVars, StdinStep
<1> QED BY <1>1, <1>2, <1>3, <1>4, <1>5, <1>6, <1>7, <1>8, <1>9, <1>10, <1>11, <1>12,
      <1>13, <1>14, <1>15, <1>16, <1>17, <1>18, <1>19, <1>20, <1>21 DEF Next, RunEffect

(* The runner holds input before the child or behind the attach effect.     *)
LEMMA HeldKept ==
  ASSUME InputInv, Next
  PROVE  Held'
<1>1. ASSUME NEW c \in Caller, NEW r \in Request, Call(c, r) PROVE Held'
  BY <1>1, Taken, Appended, Empty
  DEF InputInv, Call, Sent, socketVars, effectVars, childVars, TypeOK, Held, Settled
<1>2. ASSUME NEW c \in Caller, SendAgain(c) PROVE Held'
  BY <1>2, Taken, Appended, Empty
  DEF InputInv, SendAgain, Sent, socketVars, effectVars, childVars, TypeOK, Held,
      Settled
<1>3. ASSUME NEW c \in Caller, GiveUp(c) PROVE Held'
  BY <1>3, Taken, Appended, Empty
  DEF InputInv, GiveUp, socketVars, effectVars, childVars, TypeOK, Held, Settled
<1>4. ASSUME NEW c \in Caller, RecordSize(c) PROVE Held'
  BY <1>4, Taken, Appended, Empty
  DEF InputInv, RecordSize, socketVars, effectVars, childVars, TypeOK, Held, Settled
<1>5. ASSUME NEW m \in mail, Refuse(m) PROVE Held'
  BY <1>5, Taken, Appended, Empty
  DEF InputInv, Refuse, Receive, childVars, TypeOK, Held, Settled
<1>6. ASSUME NEW m \in mail, Hold(m) PROVE Held'
  BY <1>6, Taken, Appended, Empty
  DEF InputInv, Hold, Receive, childVars, TypeOK, Held, Settled
<1>7. ASSUME NEW m \in mail, Forward(m) PROVE Held'
  <2>1. chain \in Seq(Effect)
    BY DEF InputInv, TypeOK
  <2>2. CASE broken
    BY <1>7, <2>2 DEF InputInv, Held, Forward, Receive, childVars
  <2>3. CASE ~broken
    <3> DEFINE e == [kind |-> IF HasData(Asks(m.caller)) THEN "write" ELSE Asks(m.caller), by |-> m]
    <3>1. chain' = Append(chain, e)
      BY <1>7, <2>3 DEF Forward
    <3>2. m \in Message /\ Asks(m.caller) \in Request
      BY DEF InputInv, TypeOK, Message, Asks
    <3>3. e \in Effect /\ e.kind # "attach"
      BY <3>2 DEF Effect, HasData, Request
    <3>4. DOMAIN chain' = DOMAIN chain \cup {Len(chain) + 1} /\ chain'[Len(chain) + 1] = e
          /\ \A i \in DOMAIN chain : chain'[i] = chain[i]
      BY <2>1, <3>1, <3>3, Appended
    <3>5. chain # <<>> => 1 \in DOMAIN chain /\ chain' # <<>>
      BY <2>1, <3>1, <3>3
    <3>6. \A i \in DOMAIN chain' : i > 1 => chain'[i].kind # "attach"
      BY <3>3, <3>4 DEF InputInv, Held
    <3>7. attached /\ attached' /\ queued' = queued /\ buffered' = buffered /\ channel' = channel
          /\ child' = child /\ mail' \subseteq mail
      BY <1>7 DEF Forward, Receive, childVars
    <3>8. channel' # "closed"
      BY <3>7 DEF InputInv, Held
    <3> QED BY <3>4, <3>5, <3>6, <3>7, <3>8 DEF InputInv, Held
  <2> QED BY <2>2, <2>3
<1>8. ASSUME Attach PROVE Held'
  BY <1>8, Taken, Appended, Empty
  DEF InputInv, Attach, callerVars, TypeOK, Held, Settled
<1>9. ASSUME AttachWrites PROVE Held'
  BY <1>9, Taken, Appended, Empty
  DEF InputInv, AttachWrites, Running, Writable, callerVars, effectVars, TypeOK, Held,
      Settled
<1>10. ASSUME AttachResizes PROVE Held'
  BY <1>10, Taken, Appended, Empty
  DEF InputInv, AttachResizes, Running, effectVars, TypeOK, Held, Settled
<1>11. ASSUME AttachEnds PROVE Held'
  BY <1>11, Taken, Appended, Empty
  DEF InputInv, AttachEnds, Running, Settled, callerVars, socketVars, TypeOK, Held
<1>12. ASSUME AttachFails PROVE Held'
  BY <1>12, Taken, Appended, Empty
  DEF InputInv, AttachFails, Running, Settled, callerVars, childVars, TypeOK, Held
<1>13. ASSUME Write PROVE Held'
  <2>1. chain # <<>> /\ Head(chain).kind = "write"
    BY <1>13 DEF Write, Running
  <2>2. Head(chain) = chain[1] /\ Tail(chain) \in Seq(Effect) /\ Head(chain).by \in Message
    BY <2>1, HeadOfChain
  <2>3. queued = <<>> /\ attached
    BY <2>1, <2>2 DEF InputInv, Held
  <2>4. queued' = <<>> /\ attached' = attached /\ buffered' = buffered /\ channel' = channel
        /\ child' = child /\ mail' = mail
    BY <1>13, <2>3 DEF Write
  <2>5. chain \in Seq(Effect)
    BY DEF InputInv, TypeOK
  <2>6. \A i \in DOMAIN Tail(chain) : Tail(chain)[i].kind # "attach"
    <3>1. \A i \in DOMAIN Tail(chain) : i \in Nat \ {0} /\ i + 1 \in DOMAIN chain /\ Tail(chain)[i] = chain[i + 1]
      BY <2>1, <2>5, Taken
    <3>2. \A i \in DOMAIN Tail(chain) : i + 1 > 1
      BY <3>1
    <3> QED BY <3>1, <3>2 DEF InputInv, Held
  <2>7. \A i \in DOMAIN chain' : chain'[i].kind # "attach"
    <3> DEFINE e == [kind |-> "close", by |-> Head(chain).by]
    <3>1. chain' = Tail(chain) \/ chain' = Append(Tail(chain), e)
      BY <1>13 DEF Write
    <3>2. e \in Effect /\ e.kind # "attach"
      BY <2>2 DEF Effect
    <3>3. CASE chain' = Append(Tail(chain), e)
      BY <2>2, <2>6, <3>2, <3>3, Appended
    <3> QED BY <2>6, <3>1, <3>3
  <2> QED BY <2>3, <2>4, <2>7 DEF InputInv, Held
<1>14. ASSUME Close PROVE Held'
  <2>1. chain # <<>> /\ Head(chain).kind = "close" /\ chain' = Tail(chain)
    BY <1>14 DEF Close, Running, Settled
  <2>2. Head(chain) = chain[1] /\ chain \in Seq(Effect)
    BY <2>1, HeadOfChain DEF InputInv, TypeOK
  <2>3. queued = <<>> /\ attached
    BY <2>1, <2>2 DEF InputInv, Held
  <2>4. queued' = <<>> /\ attached' = attached /\ buffered' = buffered /\ channel' = channel
        /\ child' = child /\ mail' = mail
    BY <1>14, <2>3 DEF Close, socketVars
  <2>5. \A i \in DOMAIN chain' : i > 1 => chain'[i].kind # "attach"
    BY <2>1, <2>2, Taken DEF InputInv, Held
  <2> QED BY <2>3, <2>4, <2>5 DEF InputInv, Held
<1>15. ASSUME Resize PROVE Held'
  BY <1>15, Taken, Appended, Empty, SMTT(40)
  DEF InputInv, Resize, Running, Settled, socketVars, TypeOK, Held
<1>16. ASSUME EffectFails PROVE Held'
  BY <1>16, Taken, Appended, Empty
  DEF InputInv, EffectFails, Running, Writable, childVars, TypeOK, Held, Settled
<1>17. ASSUME ChildExits PROVE Held'
  BY <1>17, Taken, Appended, Empty
  DEF InputInv, ChildExits, callerVars, socketVars, effectVars, TypeOK, Held, Settled
<1>18. ASSUME SettleRow PROVE Held'
  BY <1>18, Taken, Appended, Empty
  DEF InputInv, SettleRow, socketVars, effectVars, childVars, TypeOK, Held, Settled
<1>19. ASSUME CloseBegins PROVE Held'
  BY <1>19, Taken, Appended, Empty
  DEF InputInv, CloseBegins, callerVars, socketVars, childVars, TypeOK, Held, Settled
<1>20. ASSUME CloseEnds PROVE Held'
  BY <1>20, Taken, Appended, Empty
  DEF InputInv, CloseEnds, Gone, callerVars, childVars, TypeOK, Held, Settled
<1>21. ASSUME RunnerDies PROVE Held'
  BY <1>21, Taken, Appended, Empty
  DEF InputInv, RunnerDies, Gone, callerVars, childVars, TypeOK, Held, Settled
<1> QED BY <1>1, <1>2, <1>3, <1>4, <1>5, <1>6, <1>7, <1>8, <1>9, <1>10, <1>11, <1>12,
      <1>13, <1>14, <1>15, <1>16, <1>17, <1>18, <1>19, <1>20, <1>21 DEF Next, RunEffect

(* A size that was answered was asked for.                                  *)
LEMMA ResizedKept ==
  ASSUME InputInv, Next
  PROVE  SizeStep
<1>1. ASSUME NEW c \in Caller, NEW r \in Request, Call(c, r) PROVE SizeStep
  <2>1. \A d \in Caller \ {c} : call'[d] = call[d]
    BY <1>1 DEF Call, InputInv, TypeOK
  <2>2. call'[c].phase # "resized"
    BY <1>1 DEF Call, InputInv, TypeOK
  <2> QED BY <2>1, <2>2 DEF InputInv, Known, Asks, SizeStep
<1>2. ASSUME NEW c \in Caller, SendAgain(c) PROVE SizeStep
  BY <1>2
  DEF InputInv, SendAgain, Sent, socketVars, effectVars, childVars, TypeOK, Known, Asks,
      Request, SizeStep
<1>3. ASSUME NEW c \in Caller, GiveUp(c) PROVE SizeStep
  BY <1>3
  DEF InputInv, GiveUp, socketVars, effectVars, childVars, TypeOK, Known, Asks, Request,
      SizeStep
<1>4. ASSUME NEW c \in Caller, RecordSize(c) PROVE SizeStep
  BY <1>4
  DEF InputInv, RecordSize, socketVars, effectVars, childVars, TypeOK, Known, Asks,
      Request, SizeStep
<1>5. ASSUME NEW m \in mail, Refuse(m) PROVE SizeStep
  <2>1. call' = Answered({m}, "failed")
    BY <1>5 DEF Refuse
  <2> QED BY <2>1, NoSizeUnasked DEF SizeStep
<1>6. ASSUME NEW m \in mail, Hold(m) PROVE SizeStep
  <2>1. call' = Answered({m}, IF Asks(m.caller) = "resize" THEN "resized" ELSE "ok")
    BY <1>6 DEF Hold
  <2>2. CASE Asks(m.caller) = "resize"
    BY <2>1, <2>2, NoSizeUnasked DEF SizeStep
  <2>3. CASE Asks(m.caller) # "resize"
    BY <2>1, <2>3, NoSizeUnasked DEF SizeStep
  <2> QED BY <2>2, <2>3 DEF SizeStep
<1>7. ASSUME NEW m \in mail, Forward(m) PROVE SizeStep
  <2>1. call' = call \/ call' = Answered({m}, "failed")
    BY <1>7 DEF Forward
  <2> QED BY <2>1, NoSizeUnasked DEF InputInv, Known, Asks, SizeStep
<1>8. ASSUME Attach PROVE SizeStep
  BY <1>8
  DEF InputInv, Attach, callerVars, TypeOK, Known, Asks, Request, SizeStep
<1>9. ASSUME AttachWrites PROVE SizeStep
  BY <1>9
  DEF InputInv, AttachWrites, Running, Writable, callerVars, effectVars, TypeOK, Known,
      Asks, Request, SizeStep
<1>10. ASSUME AttachResizes PROVE SizeStep
  BY <1>10
  DEF InputInv, AttachResizes, Running, effectVars, TypeOK, Known, Asks, Request,
      SizeStep
<1>11. ASSUME AttachEnds PROVE SizeStep
  BY <1>11
  DEF InputInv, AttachEnds, Running, Settled, callerVars, socketVars, TypeOK, Known,
      Asks, Request, SizeStep
<1>12. ASSUME AttachFails PROVE SizeStep
  BY <1>12
  DEF InputInv, AttachFails, Running, Settled, callerVars, childVars, TypeOK, Known,
      Asks, Request, SizeStep
<1>13. ASSUME Write PROVE SizeStep
  <2>1. call' = call \/ call' = Answered({Head(chain).by}, "ok")
    BY <1>13 DEF Write
  <2> QED BY <2>1, NoSizeUnasked DEF InputInv, Known, Asks, SizeStep
<1>14. ASSUME Close PROVE SizeStep
  <2>1. call' = Answered({Head(chain).by}, "ok")
    BY <1>14 DEF Close
  <2> QED BY <2>1, NoSizeUnasked DEF SizeStep
<1>15. ASSUME Resize PROVE SizeStep
  <2>1. chain # <<>> /\ Head(chain).kind = "resize" /\ call' = Answered({Head(chain).by}, "resized")
    BY <1>15 DEF Resize, Running
  <2>2. Asks(Head(chain).by.caller) = "resize"
    BY <2>1, HeadOfChain DEF Standing
  <2> QED BY <2>1, <2>2, NoSizeUnasked DEF SizeStep
<1>16. ASSUME EffectFails PROVE SizeStep
  <2>1. call' = Answered({e.by : e \in Range(chain)}, "failed")
    BY <1>16 DEF EffectFails
  <2> QED BY <2>1, NoSizeUnasked DEF SizeStep
<1>17. ASSUME ChildExits PROVE SizeStep
  BY <1>17
  DEF InputInv, ChildExits, callerVars, socketVars, effectVars, TypeOK, Known, Asks,
      Request, SizeStep
<1>18. ASSUME SettleRow PROVE SizeStep
  BY <1>18
  DEF InputInv, SettleRow, socketVars, effectVars, childVars, TypeOK, Known, Asks,
      Request, SizeStep
<1>19. ASSUME CloseBegins PROVE SizeStep
  BY <1>19
  DEF InputInv, CloseBegins, callerVars, socketVars, childVars, TypeOK, Known, Asks,
      Request, SizeStep
<1>20. ASSUME CloseEnds PROVE SizeStep
  BY <1>20
  DEF InputInv, CloseEnds, Gone, callerVars, childVars, TypeOK, Known, Asks, Request,
      SizeStep
<1>21. ASSUME RunnerDies PROVE SizeStep
  BY <1>21
  DEF InputInv, RunnerDies, Gone, callerVars, childVars, TypeOK, Known, Asks, Request,
      SizeStep
<1> QED BY <1>1, <1>2, <1>3, <1>4, <1>5, <1>6, <1>7, <1>8, <1>9, <1>10, <1>11, <1>12,
      <1>13, <1>14, <1>15, <1>16, <1>17, <1>18, <1>19, <1>20, <1>21 DEF Next, RunEffect

(* Messages are of calls that were made.                                    *)
LEMMA MailKept ==
  ASSUME InputInv, Next
  PROVE  MailStep
<1>1. ASSUME NEW c \in Caller, NEW r \in Request, Call(c, r) PROVE MailStep
  <2>1. call'[c].phase # "idle"
    BY <1>1 DEF Call, InputInv, TypeOK
  <2>2. mail' \subseteq mail \cup {[caller |-> c, send |-> 1]}
    BY <1>1 DEF Call, Sent
  <2> QED BY <2>1, <2>2 DEF MailStep
<1>2. ASSUME NEW c \in Caller, SendAgain(c) PROVE MailStep
  <2>1. call'[c].phase # "idle"
    BY <1>2 DEF SendAgain, InputInv, TypeOK
  <2>2. mail' \subseteq mail \cup {[caller |-> c, send |-> call[c].sends + 1]}
    BY <1>2 DEF SendAgain, Sent
  <2> QED BY <2>1, <2>2 DEF MailStep
<1>3. ASSUME NEW c \in Caller, GiveUp(c) PROVE MailStep
  BY <1>3
  DEF InputInv, GiveUp, socketVars, effectVars, childVars, TypeOK, Known, MailStep
<1>4. ASSUME NEW c \in Caller, RecordSize(c) PROVE MailStep
  BY <1>4
  DEF InputInv, RecordSize, socketVars, effectVars, childVars, TypeOK, Known, MailStep
<1>5. ASSUME NEW m \in mail, Refuse(m) PROVE MailStep
  BY <1>5
  DEF InputInv, Refuse, Receive, Refused, childVars, TypeOK, Known, MailStep
<1>6. ASSUME NEW m \in mail, Hold(m) PROVE MailStep
  BY <1>6
  DEF InputInv, Hold, Receive, Refused, childVars, TypeOK, Known, MailStep
<1>7. ASSUME NEW m \in mail, Forward(m) PROVE MailStep
  BY <1>7
  DEF InputInv, Forward, Receive, Refused, childVars, TypeOK, Known, MailStep
<1>8. ASSUME Attach PROVE MailStep
  BY <1>8
  DEF InputInv, Attach, callerVars, TypeOK, Known, MailStep
<1>9. ASSUME AttachWrites PROVE MailStep
  BY <1>9
  DEF InputInv, AttachWrites, Running, Writable, callerVars, effectVars, TypeOK, Known,
      MailStep
<1>10. ASSUME AttachResizes PROVE MailStep
  BY <1>10
  DEF InputInv, AttachResizes, Running, effectVars, TypeOK, Known, MailStep
<1>11. ASSUME AttachEnds PROVE MailStep
  BY <1>11
  DEF InputInv, AttachEnds, Running, Settled, callerVars, socketVars, TypeOK, Known,
      MailStep
<1>12. ASSUME AttachFails PROVE MailStep
  BY <1>12
  DEF InputInv, AttachFails, Running, Settled, callerVars, childVars, TypeOK, Known,
      MailStep
<1>13. ASSUME Write PROVE MailStep
  BY <1>13
  DEF InputInv, Write, Running, Writable, TypeOK, Known, MailStep
<1>14. ASSUME Close PROVE MailStep
  BY <1>14
  DEF InputInv, Close, Running, Writable, Settled, socketVars, TypeOK, Known, MailStep
<1>15. ASSUME Resize PROVE MailStep
  BY <1>15
  DEF InputInv, Resize, Running, Settled, socketVars, TypeOK, Known, MailStep
<1>16. ASSUME EffectFails PROVE MailStep
  BY <1>16
  DEF InputInv, EffectFails, Running, Writable, childVars, TypeOK, Known, MailStep
<1>17. ASSUME ChildExits PROVE MailStep
  BY <1>17
  DEF InputInv, ChildExits, callerVars, socketVars, effectVars, TypeOK, Known, MailStep
<1>18. ASSUME SettleRow PROVE MailStep
  BY <1>18
  DEF InputInv, SettleRow, socketVars, effectVars, childVars, TypeOK, Known, MailStep
<1>19. ASSUME CloseBegins PROVE MailStep
  BY <1>19
  DEF InputInv, CloseBegins, callerVars, socketVars, childVars, TypeOK, Known, MailStep
<1>20. ASSUME CloseEnds PROVE MailStep
  BY <1>20
  DEF InputInv, CloseEnds, Gone, callerVars, childVars, TypeOK, Known, MailStep
<1>21. ASSUME RunnerDies PROVE MailStep
  BY <1>21
  DEF InputInv, RunnerDies, Gone, callerVars, childVars, TypeOK, Known, MailStep
<1> QED BY <1>1, <1>2, <1>3, <1>4, <1>5, <1>6, <1>7, <1>8, <1>9, <1>10, <1>11, <1>12,
      <1>13, <1>14, <1>15, <1>16, <1>17, <1>18, <1>19, <1>20, <1>21 DEF Next, RunEffect

(* What a call came after has succeeded.                                    *)
LEMMA BeforeKept ==
  ASSUME InputInv, Next
  PROVE  BeforeStep
<1>1. ASSUME NEW c \in Caller, NEW r \in Request, Call(c, r) PROVE BeforeStep
  <2>1. \A d \in Caller \ {c} : before'[d] = before[d]
    BY <1>1 DEF Call, InputInv, TypeOK
  <2>2. before'[c] \subseteq {x \in Caller : Succeeded(x)}
    BY <1>1 DEF Call, InputInv, TypeOK, Succeeded
  <2> QED BY <2>1, <2>2 DEF BeforeStep
<1>2. ASSUME NEW c \in Caller, SendAgain(c) PROVE BeforeStep
  BY <1>2
  DEF InputInv, SendAgain, socketVars, effectVars, childVars, TypeOK, BeforeStep
<1>3. ASSUME NEW c \in Caller, GiveUp(c) PROVE BeforeStep
  BY <1>3
  DEF InputInv, GiveUp, socketVars, effectVars, childVars, TypeOK, BeforeStep
<1>4. ASSUME NEW c \in Caller, RecordSize(c) PROVE BeforeStep
  BY <1>4
  DEF InputInv, RecordSize, socketVars, effectVars, childVars, TypeOK, BeforeStep
<1>5. ASSUME NEW m \in mail, Refuse(m) PROVE BeforeStep
  BY <1>5
  DEF InputInv, Refuse, Receive, childVars, TypeOK, BeforeStep
<1>6. ASSUME NEW m \in mail, Hold(m) PROVE BeforeStep
  BY <1>6
  DEF InputInv, Hold, Receive, childVars, TypeOK, BeforeStep
<1>7. ASSUME NEW m \in mail, Forward(m) PROVE BeforeStep
  BY <1>7
  DEF InputInv, Forward, Receive, childVars, TypeOK, BeforeStep
<1>8. ASSUME Attach PROVE BeforeStep
  BY <1>8
  DEF InputInv, Attach, callerVars, TypeOK, BeforeStep
<1>9. ASSUME AttachWrites PROVE BeforeStep
  BY <1>9
  DEF InputInv, AttachWrites, Running, Writable, callerVars, effectVars, TypeOK,
      BeforeStep
<1>10. ASSUME AttachResizes PROVE BeforeStep
  BY <1>10
  DEF InputInv, AttachResizes, Running, effectVars, TypeOK, BeforeStep
<1>11. ASSUME AttachEnds PROVE BeforeStep
  BY <1>11
  DEF InputInv, AttachEnds, Running, Settled, callerVars, socketVars, TypeOK, BeforeStep
<1>12. ASSUME AttachFails PROVE BeforeStep
  BY <1>12
  DEF InputInv, AttachFails, Running, Settled, callerVars, childVars, TypeOK, BeforeStep
<1>13. ASSUME Write PROVE BeforeStep
  BY <1>13
  DEF InputInv, Write, Running, Writable, TypeOK, BeforeStep
<1>14. ASSUME Close PROVE BeforeStep
  BY <1>14
  DEF InputInv, Close, Running, Writable, Settled, socketVars, TypeOK, BeforeStep
<1>15. ASSUME Resize PROVE BeforeStep
  BY <1>15
  DEF InputInv, Resize, Running, Settled, socketVars, TypeOK, BeforeStep
<1>16. ASSUME EffectFails PROVE BeforeStep
  BY <1>16
  DEF InputInv, EffectFails, Running, Writable, childVars, TypeOK, BeforeStep
<1>17. ASSUME ChildExits PROVE BeforeStep
  BY <1>17
  DEF InputInv, ChildExits, callerVars, socketVars, effectVars, TypeOK, BeforeStep
<1>18. ASSUME SettleRow PROVE BeforeStep
  BY <1>18
  DEF InputInv, SettleRow, socketVars, effectVars, childVars, TypeOK, BeforeStep
<1>19. ASSUME CloseBegins PROVE BeforeStep
  BY <1>19
  DEF InputInv, CloseBegins, callerVars, socketVars, childVars, TypeOK, BeforeStep
<1>20. ASSUME CloseEnds PROVE BeforeStep
  BY <1>20
  DEF InputInv, CloseEnds, Gone, callerVars, childVars, TypeOK, BeforeStep
<1>21. ASSUME RunnerDies PROVE BeforeStep
  BY <1>21
  DEF InputInv, RunnerDies, Gone, callerVars, childVars, TypeOK, BeforeStep
<1> QED BY <1>1, <1>2, <1>3, <1>4, <1>5, <1>6, <1>7, <1>8, <1>9, <1>10, <1>11, <1>12,
      <1>13, <1>14, <1>15, <1>16, <1>17, <1>18, <1>19, <1>20, <1>21 DEF Next, RunEffect

(* Effects are added for calls that were made and removed from the front.   *)
LEMMA ChainSteps ==
  ASSUME InputInv, Next
  PROVE  ChainStep
<1>1. ASSUME NEW c \in Caller, NEW r \in Request, Call(c, r) PROVE ChainStep
  BY <1>1
  DEF InputInv, Call, socketVars, effectVars, childVars, TypeOK, ChainStep
<1>2. ASSUME NEW c \in Caller, SendAgain(c) PROVE ChainStep
  BY <1>2
  DEF InputInv, SendAgain, socketVars, effectVars, childVars, TypeOK, ChainStep
<1>3. ASSUME NEW c \in Caller, GiveUp(c) PROVE ChainStep
  BY <1>3
  DEF InputInv, GiveUp, socketVars, effectVars, childVars, TypeOK, ChainStep
<1>4. ASSUME NEW c \in Caller, RecordSize(c) PROVE ChainStep
  BY <1>4
  DEF InputInv, RecordSize, socketVars, effectVars, childVars, TypeOK, ChainStep
<1>5. ASSUME NEW m \in mail, Refuse(m) PROVE ChainStep
  BY <1>5
  DEF InputInv, Refuse, Receive, childVars, TypeOK, ChainStep
<1>6. ASSUME NEW m \in mail, Hold(m) PROVE ChainStep
  BY <1>6
  DEF InputInv, Hold, Receive, childVars, TypeOK, ChainStep
<1>7. ASSUME NEW m \in mail, Forward(m) PROVE ChainStep
  <2>1. m \in Message /\ m.caller \in Caller /\ Asks(m.caller) \in Request
        /\ call[m.caller].phase # "idle"
    BY DEF InputInv, TypeOK, Message, Asks, Known
  <2>2. call'[m.caller].phase # "idle" /\ Asks(m.caller)' = Asks(m.caller)
    BY <2>1, LaterStep DEF Later, Asks
  <2>3. CASE broken
    BY <1>7, <2>3 DEF Forward, ChainStep
  <2>4. CASE ~broken
    <3>1. [kind |-> IF HasData(Asks(m.caller)) THEN "write" ELSE Asks(m.caller), by |-> m] \in Effect
      BY <2>1 DEF Effect, HasData, Request
    <3>2. PICK e \in Effect :
            e = [kind |-> IF HasData(Asks(m.caller)) THEN "write" ELSE Asks(m.caller), by |-> m]
      BY <3>1
    <3>3. chain' = Append(chain, e)
      BY <1>7, <2>4, <3>2 DEF Forward
    <3>4. Standing(e)'
      BY <2>1, <2>2, <3>2 DEF Standing, HasData, Closes, Request
    <3> QED BY <3>3, <3>4 DEF ChainStep, Puts
  <2> QED BY <2>3, <2>4
<1>8. ASSUME Attach PROVE ChainStep
  <2> DEFINE e == [kind |-> "attach", by |-> NoCaller]
  <2>1. chain' = Append(chain, e)
    BY <1>8 DEF Attach
  <2>2. e \in Effect /\ Standing(e)'
    BY DEF Effect, Standing
  <2> QED BY <2>1, <2>2 DEF ChainStep, Puts
<1>9. ASSUME AttachWrites PROVE ChainStep
  BY <1>9
  DEF InputInv, AttachWrites, Running, Writable, callerVars, effectVars, TypeOK,
      ChainStep
<1>10. ASSUME AttachResizes PROVE ChainStep
  BY <1>10
  DEF InputInv, AttachResizes, Running, effectVars, TypeOK, ChainStep
<1>11. ASSUME AttachEnds PROVE ChainStep
  BY <1>11
  DEF InputInv, AttachEnds, Running, Settled, callerVars, socketVars, TypeOK, ChainStep
<1>12. ASSUME AttachFails PROVE ChainStep
  BY <1>12
  DEF InputInv, AttachFails, Running, Settled, callerVars, childVars, TypeOK, ChainStep
<1>13. ASSUME Write PROVE ChainStep
  <2>1. chain # <<>> /\ Head(chain).kind = "write"
    BY <1>13 DEF Write, Running
  <2>2. PICK w \in Message : w = Head(chain).by
    BY <2>1, HeadOfChain
  <2>3. w.caller \in Caller /\ call[w.caller].phase # "idle"
    BY <2>1, <2>2, HeadOfChain DEF Standing, Message
  <2>4. call'[w.caller].phase # "idle" /\ call'[w.caller].request = call[w.caller].request
    BY <2>3, LaterStep DEF Later
  <2>5. w.caller \in Range(stdin')
    <3>1. stdin \in Seq(Caller \cup {Eof})
      BY DEF InputInv, TypeOK
    <3> QED BY <1>13, <2>2, <2>3, <3>1, Appended DEF Write
  <2>6. CASE Closes(Asks(w.caller))
    <3>1. PICK e \in Effect : e = [kind |-> "close", by |-> w]
      BY DEF Effect
    <3>2. chain' = Append(Tail(chain), e)
      BY <1>13, <2>2, <2>6, <3>1 DEF Write
    <3>3. Standing(e)'
      BY <2>3, <2>4, <2>5, <2>6, <3>1 DEF Standing, Asks
    <3> QED BY <2>1, <3>2, <3>3 DEF ChainStep, Puts
  <2>7. CASE ~Closes(Asks(w.caller))
    BY <1>13, <2>1, <2>2, <2>7 DEF Write, ChainStep
  <2> QED BY <2>6, <2>7
<1>14. ASSUME Close PROVE ChainStep
  BY <1>14
  DEF InputInv, Close, Running, Writable, Settled, socketVars, TypeOK, ChainStep
<1>15. ASSUME Resize PROVE ChainStep
  BY <1>15
  DEF InputInv, Resize, Running, Settled, socketVars, TypeOK, ChainStep
<1>16. ASSUME EffectFails PROVE ChainStep
  BY <1>16
  DEF InputInv, EffectFails, Running, Writable, childVars, TypeOK, ChainStep
<1>17. ASSUME ChildExits PROVE ChainStep
  BY <1>17
  DEF InputInv, ChildExits, callerVars, socketVars, effectVars, TypeOK, ChainStep
<1>18. ASSUME SettleRow PROVE ChainStep
  BY <1>18
  DEF InputInv, SettleRow, socketVars, effectVars, childVars, TypeOK, ChainStep
<1>19. ASSUME CloseBegins PROVE ChainStep
  BY <1>19
  DEF InputInv, CloseBegins, callerVars, socketVars, childVars, TypeOK, ChainStep
<1>20. ASSUME CloseEnds PROVE ChainStep
  BY <1>20
  DEF InputInv, CloseEnds, Gone, callerVars, childVars, TypeOK, ChainStep
<1>21. ASSUME RunnerDies PROVE ChainStep
  BY <1>21
  DEF InputInv, RunnerDies, Gone, callerVars, childVars, TypeOK, ChainStep
<1> QED BY <1>1, <1>2, <1>3, <1>4, <1>5, <1>6, <1>7, <1>8, <1>9, <1>10, <1>11, <1>12,
      <1>13, <1>14, <1>15, <1>16, <1>17, <1>18, <1>19, <1>20, <1>21 DEF Next, RunEffect

(* Input moves on.                                                          *)
LEMMA LocationsKept ==
  ASSUME InputInv, Next
  PROVE  LocationSteps
<1>1. ASSUME NEW c \in Caller, NEW r \in Request, Call(c, r) PROVE LocationSteps
  BY <1>1
  DEF InputInv, Call, socketVars, effectVars, childVars, LocationStep, Located,
      LocationSteps
<1>2. ASSUME NEW c \in Caller, SendAgain(c) PROVE LocationSteps
  BY <1>2
  DEF InputInv, SendAgain, socketVars, effectVars, childVars, LocationStep, Located,
      LocationSteps
<1>3. ASSUME NEW c \in Caller, GiveUp(c) PROVE LocationSteps
  BY <1>3
  DEF InputInv, GiveUp, socketVars, effectVars, childVars, LocationStep, Located,
      LocationSteps
<1>4. ASSUME NEW c \in Caller, RecordSize(c) PROVE LocationSteps
  BY <1>4
  DEF InputInv, RecordSize, socketVars, effectVars, childVars, LocationStep, Located,
      LocationSteps
<1>5. ASSUME NEW m \in mail, Refuse(m) PROVE LocationSteps
  BY <1>5
  DEF InputInv, Refuse, Receive, childVars, LocationStep, Located, LocationSteps
<1>6. ASSUME NEW m \in mail, Hold(m) PROVE LocationSteps
  <2>0. stdin \in Seq(Caller \cup {Eof}) /\ queued \in Seq(Caller) /\ buffered \in Seq(Caller)
    BY DEF InputInv, TypeOK
  <2>1. m.caller \in Caller /\ call'[m.caller].phase # "idle"
    BY LaterStep DEF InputInv, TypeOK, Message, Known, Later
  <2>2. stdin' = stdin /\ queued' = queued
        /\ (buffered' = buffered \/ buffered' = Append(buffered, m.caller))
    BY <1>6 DEF Hold, Receive, childVars
  <2>3. Range(Append(buffered, m.caller)) = Range(buffered) \cup {m.caller}
    BY <2>0, <2>1, Appended
  <2> QED BY <2>1, <2>2, <2>3 DEF LocationStep, Located, LocationSteps
<1>7. ASSUME NEW m \in mail, Forward(m) PROVE LocationSteps
  BY <1>7
  DEF InputInv, Forward, Receive, childVars, LocationStep, Located, LocationSteps
<1>8. ASSUME Attach PROVE LocationSteps
  <2>1. queued = <<>> /\ queued' = buffered /\ buffered' = <<>> /\ stdin' = stdin
    BY <1>8 DEF Attach, InputInv, Held
  <2> QED BY <2>1, Empty DEF LocationStep, Located, LocationSteps
<1>9. ASSUME AttachWrites PROVE LocationSteps
  <2>0. stdin \in Seq(Caller \cup {Eof}) /\ queued \in Seq(Caller) /\ buffered \in Seq(Caller)
    BY DEF InputInv, TypeOK
  <2>1. queued # <<>> /\ stdin' = Append(stdin, Head(queued)) /\ queued' = Tail(queued) /\ buffered' = buffered
    BY <1>9 DEF AttachWrites
  <2>2. Range(queued) = {Head(queued)} \cup Range(Tail(queued)) /\ Head(queued) \in Caller
    BY <2>0, <2>1, Taken
  <2>3. Range(Append(stdin, Head(queued))) = Range(stdin) \cup {Head(queued)}
    BY <2>0, <2>2, Appended
  <2> QED BY <2>1, <2>2, <2>3 DEF LocationStep, Located, LocationSteps
<1>10. ASSUME AttachResizes PROVE LocationSteps
  BY <1>10
  DEF InputInv, AttachResizes, Running, effectVars, LocationStep, Located, LocationSteps
<1>11. ASSUME AttachEnds PROVE LocationSteps
  <2>0. stdin \in Seq(Caller \cup {Eof}) /\ queued \in Seq(Caller) /\ buffered \in Seq(Caller)
    BY DEF InputInv, TypeOK
  <2>1. queued' = queued /\ buffered' = buffered /\ (stdin' = stdin \/ stdin' = Append(stdin, Eof))
    BY <1>11 DEF AttachEnds, socketVars
  <2>2. Range(Append(stdin, Eof)) = Range(stdin) \cup {Eof}
    BY <2>0, Appended
  <2> QED BY <2>1, <2>2, CallerAssumption DEF LocationStep, Located, LocationSteps
<1>12. ASSUME AttachFails PROVE LocationSteps
  <2>1. queued' = <<>> /\ buffered' = buffered /\ stdin' = stdin /\ child' = "gone"
    BY <1>12 DEF AttachFails, childVars
  <2> QED BY <2>1, Empty DEF LocationStep, Located, Torn, LocationSteps
<1>13. ASSUME Write PROVE LocationSteps
  <2>0. stdin \in Seq(Caller \cup {Eof}) /\ queued \in Seq(Caller) /\ buffered \in Seq(Caller)
    BY DEF InputInv, TypeOK
  <2>1. chain # <<>> /\ Head(chain).kind = "write"
    BY <1>13 DEF Write, Running
  <2>2. PICK k \in Caller : k = Head(chain).by.caller /\ call[k].phase # "idle"
    BY <2>1, HeadOfChain DEF Standing
  <2>3. queued' = queued /\ buffered' = buffered /\ stdin' = Append(stdin, k)
    BY <1>13, <2>2 DEF Write
  <2>4. Range(Append(stdin, k)) = Range(stdin) \cup {k}
    BY <2>0, Appended
  <2>5. call'[k].phase # "idle"
    BY <2>2, LaterStep DEF Later
  <2> QED BY <2>3, <2>4, <2>5 DEF LocationStep, Located, LocationSteps
<1>14. ASSUME Close PROVE LocationSteps
  <2>0. stdin \in Seq(Caller \cup {Eof}) /\ queued \in Seq(Caller) /\ buffered \in Seq(Caller)
    BY DEF InputInv, TypeOK
  <2>1. queued' = queued /\ buffered' = buffered /\ (stdin' = stdin \/ stdin' = Append(stdin, Eof))
    BY <1>14 DEF Close, socketVars
  <2>2. Range(Append(stdin, Eof)) = Range(stdin) \cup {Eof}
    BY <2>0, Appended
  <2> QED BY <2>1, <2>2, CallerAssumption DEF LocationStep, Located, LocationSteps
<1>15. ASSUME Resize PROVE LocationSteps
  BY <1>15
  DEF InputInv, Resize, Running, Settled, socketVars, LocationStep, Located,
      LocationSteps
<1>16. ASSUME EffectFails PROVE LocationSteps
  BY <1>16
  DEF InputInv, EffectFails, Running, Writable, childVars, LocationStep, Located,
      LocationSteps
<1>17. ASSUME ChildExits PROVE LocationSteps
  BY <1>17
  DEF InputInv, ChildExits, callerVars, socketVars, effectVars, LocationStep, Located,
      LocationSteps
<1>18. ASSUME SettleRow PROVE LocationSteps
  BY <1>18
  DEF InputInv, SettleRow, socketVars, effectVars, childVars, LocationStep, Located,
      LocationSteps
<1>19. ASSUME CloseBegins PROVE LocationSteps
  BY <1>19
  DEF InputInv, CloseBegins, callerVars, socketVars, childVars, LocationStep, Located,
      LocationSteps
<1>20. ASSUME CloseEnds PROVE LocationSteps
  <2>1. queued' = <<>> /\ buffered' = <<>> /\ stdin' = stdin /\ channel' = "closed"
    BY <1>20 DEF CloseEnds, Gone, childVars
  <2> QED BY <2>1, Empty DEF LocationStep, Located, Torn, LocationSteps
<1>21. ASSUME RunnerDies PROVE LocationSteps
  <2>1. queued' = <<>> /\ buffered' = <<>> /\ stdin' = stdin /\ channel' = "closed"
    BY <1>21 DEF RunnerDies, Gone, childVars
  <2> QED BY <2>1, Empty DEF LocationStep, Located, Torn, LocationSteps
<1> QED BY <1>1, <1>2, <1>3, <1>4, <1>5, <1>6, <1>7, <1>8, <1>9, <1>10, <1>11, <1>12,
      <1>13, <1>14, <1>15, <1>16, <1>17, <1>18, <1>19, <1>20, <1>21 DEF Next, RunEffect

(* What is reported as written is located.                                  *)
LEMMA OkIsLocated ==
  ASSUME InputInv, Next
  PROVE  OkStep
<1>1. ASSUME NEW c \in Caller, NEW r \in Request, Call(c, r) PROVE OkStep
  <2>1. \A d \in Caller \ {c} : call'[d] = call[d]
    BY <1>1 DEF Call, InputInv, TypeOK
  <2>2. call'[c].phase # "ok"
    BY <1>1 DEF Call, InputInv, TypeOK
  <2> QED BY <2>1, <2>2 DEF OkStep
<1>2. ASSUME NEW c \in Caller, SendAgain(c) PROVE OkStep
  BY <1>2
  DEF InputInv, SendAgain, socketVars, effectVars, childVars, TypeOK, OkStep
<1>3. ASSUME NEW c \in Caller, GiveUp(c) PROVE OkStep
  BY <1>3
  DEF InputInv, GiveUp, socketVars, effectVars, childVars, TypeOK, OkStep
<1>4. ASSUME NEW c \in Caller, RecordSize(c) PROVE OkStep
  <2>1. \A d \in Caller \ {c} : call'[d] = call[d]
    BY <1>4 DEF RecordSize, InputInv, TypeOK
  <2>2. call'[c].request = "resize"
    BY <1>4 DEF RecordSize, InputInv, TypeOK, Known, Asks
  <2> QED BY <2>1, <2>2 DEF HasData, OkStep
<1>5. ASSUME NEW m \in mail, Refuse(m) PROVE OkStep
  <2>1. call' = Answered({m}, "failed")
    BY <1>5 DEF Refuse
  <2> QED BY <2>1, OkIfLocated DEF OkStep
<1>6. ASSUME NEW m \in mail, Hold(m) PROVE OkStep
  <2>1. buffered \in Seq(Caller) /\ m.caller \in Caller
    BY DEF InputInv, TypeOK, Message
  <2>2. HasData(Asks(m.caller)) => Located(m.caller)'
    <3> SUFFICES ASSUME HasData(Asks(m.caller)) PROVE Located(m.caller)'
      OBVIOUS
    <3>1. buffered' = Append(buffered, m.caller)
      BY <1>6 DEF Hold
    <3>2. Range(buffered') = Range(buffered) \cup {m.caller}
      BY <2>1, <3>1, Appended
    <3> QED BY <3>2 DEF Located
  <2>3. call' = Answered({m}, IF Asks(m.caller) = "resize" THEN "resized" ELSE "ok")
    BY <1>6 DEF Hold
  <2>4. CASE Asks(m.caller) = "resize"
    BY <2>3, <2>4, OkIfLocated DEF OkStep
  <2>5. CASE Asks(m.caller) # "resize"
    BY <2>2, <2>3, <2>5, OkIfLocated DEF OkStep
  <2> QED BY <2>4, <2>5 DEF OkStep
<1>7. ASSUME NEW m \in mail, Forward(m) PROVE OkStep
  <2>1. call' = call \/ call' = Answered({m}, "failed")
    BY <1>7 DEF Forward
  <2> QED BY <2>1, OkIfLocated DEF OkStep
<1>8. ASSUME Attach PROVE OkStep
  BY <1>8
  DEF InputInv, Attach, callerVars, TypeOK, OkStep
<1>9. ASSUME AttachWrites PROVE OkStep
  BY <1>9
  DEF InputInv, AttachWrites, Running, Writable, callerVars, effectVars, TypeOK, OkStep
<1>10. ASSUME AttachResizes PROVE OkStep
  BY <1>10
  DEF InputInv, AttachResizes, Running, effectVars, TypeOK, OkStep
<1>11. ASSUME AttachEnds PROVE OkStep
  BY <1>11
  DEF InputInv, AttachEnds, Running, Settled, callerVars, socketVars, TypeOK, OkStep
<1>12. ASSUME AttachFails PROVE OkStep
  BY <1>12
  DEF InputInv, AttachFails, Running, Settled, callerVars, childVars, TypeOK, OkStep
<1>13. ASSUME Write PROVE OkStep
  <2>1. chain # <<>> /\ Head(chain).kind = "write"
    BY <1>13 DEF Write, Running
  <2>2. PICK w \in Message : w = Head(chain).by /\ w.caller \in Caller
    BY <2>1, HeadOfChain
  <2>3. stdin \in Seq(Caller \cup {Eof}) /\ stdin' = Append(stdin, w.caller)
    BY <1>13, <2>2 DEF Write, InputInv, TypeOK
  <2>4. Located(w.caller)'
    <3>1. Range(stdin') = Range(stdin) \cup {w.caller}
      BY <2>2, <2>3, Appended
    <3> QED BY <3>1 DEF Located
  <2>5. call' = call \/ call' = Answered({w}, "ok")
    BY <1>13, <2>2 DEF Write
  <2> QED BY <2>4, <2>5, OkIfLocated DEF OkStep
<1>14. ASSUME Close PROVE OkStep
  <2>1. chain # <<>> /\ Head(chain).kind = "close"
    BY <1>14 DEF Close, Running
  <2>2. PICK w \in Message : w = Head(chain).by /\ w.caller \in Caller
    BY <2>1, HeadOfChain
  <2>3. HasData(Asks(w.caller)) => Located(w.caller)
    BY <2>1, <2>2, HeadOfChain DEF Standing, Located
  <2>5. Located(w.caller) => Located(w.caller)'
    <3>1. stdin \in Seq(Caller \cup {Eof}) /\ queued' = queued /\ buffered' = buffered
      BY <1>14 DEF Close, socketVars, InputInv, TypeOK
    <3>2. Range(stdin) \subseteq Range(stdin')
      BY <3>1, StdinGrows, StdinOnlyGrows
    <3> QED BY <3>1, <3>2 DEF Located
  <2>6. call' = Answered({w}, "ok")
    BY <1>14, <2>2 DEF Close
  <2> QED BY <2>3, <2>5, <2>6, OkIfLocated DEF OkStep
<1>15. ASSUME Resize PROVE OkStep
  <2>1. call' = Answered({Head(chain).by}, "resized")
    BY <1>15 DEF Resize
  <2> QED BY <2>1, OkIfLocated DEF OkStep
<1>16. ASSUME EffectFails PROVE OkStep
  <2>1. call' = Answered({e.by : e \in Range(chain)}, "failed")
    BY <1>16 DEF EffectFails
  <2> QED BY <2>1, OkIfLocated DEF OkStep
<1>17. ASSUME ChildExits PROVE OkStep
  BY <1>17
  DEF InputInv, ChildExits, callerVars, socketVars, effectVars, TypeOK, OkStep
<1>18. ASSUME SettleRow PROVE OkStep
  BY <1>18
  DEF InputInv, SettleRow, socketVars, effectVars, childVars, TypeOK, OkStep
<1>19. ASSUME CloseBegins PROVE OkStep
  BY <1>19
  DEF InputInv, CloseBegins, callerVars, socketVars, childVars, TypeOK, OkStep
<1>20. ASSUME CloseEnds PROVE OkStep
  BY <1>20
  DEF InputInv, CloseEnds, Gone, callerVars, childVars, TypeOK, OkStep
<1>21. ASSUME RunnerDies PROVE OkStep
  BY <1>21
  DEF InputInv, RunnerDies, Gone, callerVars, childVars, TypeOK, OkStep
<1> QED BY <1>1, <1>2, <1>3, <1>4, <1>5, <1>6, <1>7, <1>8, <1>9, <1>10, <1>11, <1>12,
      <1>13, <1>14, <1>15, <1>16, <1>17, <1>18, <1>19, <1>20, <1>21 DEF Next, RunEffect

(* Only a call that asks for it closes the input.                           *)
LEMMA ClosedKept ==
  ASSUME InputInv, Next
  PROVE  ClosedStep
<1>1. ASSUME NEW c \in Caller, NEW r \in Request, Call(c, r) PROVE ClosedStep
  BY <1>1
  DEF InputInv, Call, socketVars, effectVars, childVars, ClosedStep
<1>2. ASSUME NEW c \in Caller, SendAgain(c) PROVE ClosedStep
  BY <1>2
  DEF InputInv, SendAgain, socketVars, effectVars, childVars, ClosedStep
<1>3. ASSUME NEW c \in Caller, GiveUp(c) PROVE ClosedStep
  BY <1>3
  DEF InputInv, GiveUp, socketVars, effectVars, childVars, ClosedStep
<1>4. ASSUME NEW c \in Caller, RecordSize(c) PROVE ClosedStep
  BY <1>4
  DEF InputInv, RecordSize, socketVars, effectVars, childVars, ClosedStep
<1>5. ASSUME NEW m \in mail, Refuse(m) PROVE ClosedStep
  BY <1>5
  DEF InputInv, Refuse, Receive, childVars, ClosedStep
<1>6. ASSUME NEW m \in mail, Hold(m) PROVE ClosedStep
  <2>1. m.caller \in Caller /\ call[m.caller].phase # "idle"
    BY DEF InputInv, TypeOK, Message, Known
  <2>2. closed' = (closed \/ Closes(Asks(m.caller)))
    BY <1>6 DEF Hold
  <2> QED BY <2>1, <2>2 DEF ClosedStep
<1>7. ASSUME NEW m \in mail, Forward(m) PROVE ClosedStep
  <2>1. m.caller \in Caller /\ call[m.caller].phase # "idle"
    BY DEF InputInv, TypeOK, Message, Known
  <2>2. closed' = (closed \/ Asks(m.caller) = "close")
    BY <1>7 DEF Forward
  <2> QED BY <2>1, <2>2 DEF Closes, ClosedStep
<1>8. ASSUME Attach PROVE ClosedStep
  BY <1>8
  DEF InputInv, Attach, callerVars, ClosedStep
<1>9. ASSUME AttachWrites PROVE ClosedStep
  BY <1>9
  DEF InputInv, AttachWrites, Running, Writable, callerVars, effectVars, ClosedStep
<1>10. ASSUME AttachResizes PROVE ClosedStep
  BY <1>10
  DEF InputInv, AttachResizes, Running, effectVars, ClosedStep
<1>11. ASSUME AttachEnds PROVE ClosedStep
  BY <1>11
  DEF InputInv, AttachEnds, Running, Settled, callerVars, socketVars, ClosedStep
<1>12. ASSUME AttachFails PROVE ClosedStep
  BY <1>12
  DEF InputInv, AttachFails, Running, Settled, callerVars, childVars, ClosedStep
<1>13. ASSUME Write PROVE ClosedStep
  <2>1. chain # <<>> /\ Head(chain).kind = "write"
    BY <1>13 DEF Write, Running
  <2>2. PICK k \in Caller : k = Head(chain).by.caller /\ call[k].phase # "idle"
    BY <2>1, HeadOfChain DEF Standing
  <2>3. closed' = (closed \/ Closes(Asks(k)))
    BY <1>13, <2>2 DEF Write
  <2> QED BY <2>2, <2>3 DEF ClosedStep
<1>14. ASSUME Close PROVE ClosedStep
  BY <1>14
  DEF InputInv, Close, Running, Writable, Settled, socketVars, ClosedStep
<1>15. ASSUME Resize PROVE ClosedStep
  BY <1>15
  DEF InputInv, Resize, Running, Settled, socketVars, ClosedStep
<1>16. ASSUME EffectFails PROVE ClosedStep
  BY <1>16
  DEF InputInv, EffectFails, Running, Writable, childVars, ClosedStep
<1>17. ASSUME ChildExits PROVE ClosedStep
  BY <1>17
  DEF InputInv, ChildExits, callerVars, socketVars, effectVars, ClosedStep
<1>18. ASSUME SettleRow PROVE ClosedStep
  BY <1>18
  DEF InputInv, SettleRow, socketVars, effectVars, childVars, ClosedStep
<1>19. ASSUME CloseBegins PROVE ClosedStep
  BY <1>19
  DEF InputInv, CloseBegins, callerVars, socketVars, childVars, ClosedStep
<1>20. ASSUME CloseEnds PROVE ClosedStep
  BY <1>20
  DEF InputInv, CloseEnds, Gone, callerVars, childVars, ClosedStep
<1>21. ASSUME RunnerDies PROVE ClosedStep
  BY <1>21
  DEF InputInv, RunnerDies, Gone, callerVars, childVars, ClosedStep
<1> QED BY <1>1, <1>2, <1>3, <1>4, <1>5, <1>6, <1>7, <1>8, <1>9, <1>10, <1>11, <1>12,
      <1>13, <1>14, <1>15, <1>16, <1>17, <1>18, <1>19, <1>20, <1>21 DEF Next, RunEffect

(* The child gets things in order.                                          *)
LEMMA OrderKept ==
  ASSUME InputInv, Next
  PROVE  InOrder'
<1>1. ASSUME NEW c \in Caller, NEW r \in Request, Call(c, r) PROVE InOrder'
  BY <1>1, OrderStays, LaterStep
  DEF InputInv, Call, socketVars, effectVars, childVars
<1>2. ASSUME NEW c \in Caller, SendAgain(c) PROVE InOrder'
  BY <1>2, OrderStays, LaterStep
  DEF InputInv, SendAgain, socketVars, effectVars, childVars
<1>3. ASSUME NEW c \in Caller, GiveUp(c) PROVE InOrder'
  BY <1>3, OrderStays, LaterStep
  DEF InputInv, GiveUp, socketVars, effectVars, childVars
<1>4. ASSUME NEW c \in Caller, RecordSize(c) PROVE InOrder'
  BY <1>4, OrderStays, LaterStep
  DEF InputInv, RecordSize, socketVars, effectVars, childVars
<1>5. ASSUME NEW m \in mail, Refuse(m) PROVE InOrder'
  BY <1>5, OrderStays, LaterStep
  DEF InputInv, Refuse, Receive, childVars
<1>6. ASSUME NEW m \in mail, Hold(m) PROVE InOrder'
  BY <1>6, OrderStays, LaterStep
  DEF InputInv, Hold, Receive, childVars
<1>7. ASSUME NEW m \in mail, Forward(m) PROVE InOrder'
  BY <1>7, OrderStays, LaterStep
  DEF InputInv, Forward, Receive, childVars
<1>8. ASSUME Attach PROVE InOrder'
  BY <1>8, OrderStays, LaterStep
  DEF InputInv, Attach, callerVars
<1>9. ASSUME AttachWrites PROVE InOrder'
  <2>1. queued \in Seq(Caller) /\ queued # <<>> /\ stdin' = Append(stdin, Head(queued))
    BY <1>9 DEF AttachWrites, InputInv, TypeOK
  <2>2. Head(queued) = queued[1] /\ 1 \in DOMAIN queued /\ queued[1] \in Caller
    BY <2>1, Taken
  <2>3. call[queued[1]].phase # "idle"
    BY <2>2 DEF InputInv, Known, Located, Range
  <2>4. Ahead(queued, 1) = {}
    BY DEF Ahead
  <2>5. \A c \in before[queued[1]] : HasData(Asks(c)) => c \in Range(stdin)
    BY <2>2, <2>4 DEF InputInv, LineUp, InLine
  <2> QED BY <2>1, <2>2, <2>3, <2>5, OrderGrows, LaterStep, CallerAssumption
<1>10. ASSUME AttachResizes PROVE InOrder'
  BY <1>10, OrderStays, LaterStep
  DEF InputInv, AttachResizes, Running, effectVars
<1>11. ASSUME AttachEnds PROVE InOrder'
  <2>1. queued = <<>> /\ chain # <<>> /\ ((closed /\ child = "running") \/ stdin' = stdin)
        /\ stdin' \in {stdin, Append(stdin, Eof)}
    BY <1>11 DEF AttachEnds, Running
  <2>2. CASE stdin' = stdin
    BY <2>2, OrderStays, LaterStep
  <2>3. CASE closed /\ child = "running" /\ stdin' = Append(stdin, Eof)
    <3>1. buffered = <<>> /\ ~Torn
      BY <2>1, <2>3, Whole DEF InputInv, Held
    <3>2. PICK e \in Caller : call[e].phase # "idle" /\ Closes(Asks(e))
      BY <2>3 DEF InputInv, Known
    <3>3. \A c \in before[e] : HasData(Asks(c)) => c \in Range(stdin)
      BY <2>1, <3>1, AllDelivered
    <3> QED BY <2>3, <3>2, <3>3, OrderGrows, LaterStep
  <2> QED BY <2>1, <2>2, <2>3
<1>12. ASSUME AttachFails PROVE InOrder'
  BY <1>12, OrderStays, LaterStep
  DEF InputInv, AttachFails, Running, Settled, callerVars, childVars
<1>13. ASSUME Write PROVE InOrder'
  <2>1. chain # <<>> /\ Head(chain).kind = "write" /\ child = "running"
    BY <1>13 DEF Write, Running, Writable
  <2>2. PICK k \in Caller : k = Head(chain).by.caller /\ call[k].phase # "idle"
    BY <2>1, HeadOfChain DEF Standing
  <2>3. stdin' = Append(stdin, k)
    BY <1>13, <2>2 DEF Write
  <2>4. queued = <<>> /\ buffered = <<>> /\ ~Torn
    BY <2>1, HeadOfChain, Whole DEF InputInv, Held
  <2>5. \A c \in before[k] : HasData(Asks(c)) => c \in Range(stdin)
    BY <2>4, AllDelivered
  <2> QED BY <2>2, <2>3, <2>5, OrderGrows, LaterStep, CallerAssumption
<1>14. ASSUME Close PROVE InOrder'
  <2>1. chain # <<>> /\ Head(chain).kind = "close"
        /\ (stdin' = stdin \/ (child = "running" /\ stdin' = Append(stdin, Eof)))
    BY <1>14 DEF Close, Running, Writable
  <2>2. CASE stdin' = stdin
    BY <2>2, OrderStays, LaterStep
  <2>3. CASE child = "running" /\ stdin' = Append(stdin, Eof)
    <3>1. PICK e \in Caller : call[e].phase # "idle" /\ Closes(Asks(e))
      BY <2>1, HeadOfChain DEF Standing
    <3>2. queued = <<>> /\ buffered = <<>> /\ ~Torn
      BY <2>1, <2>3, HeadOfChain, Whole DEF InputInv, Held
    <3>3. \A c \in before[e] : HasData(Asks(c)) => c \in Range(stdin)
      BY <3>2, AllDelivered
    <3> QED BY <2>3, <3>1, <3>3, OrderGrows, LaterStep
  <2> QED BY <2>1, <2>2, <2>3
<1>15. ASSUME Resize PROVE InOrder'
  BY <1>15, OrderStays, LaterStep
  DEF InputInv, Resize, Running, Settled, socketVars
<1>16. ASSUME EffectFails PROVE InOrder'
  BY <1>16, OrderStays, LaterStep
  DEF InputInv, EffectFails, Running, Writable, childVars
<1>17. ASSUME ChildExits PROVE InOrder'
  BY <1>17, OrderStays, LaterStep
  DEF InputInv, ChildExits, callerVars, socketVars, effectVars
<1>18. ASSUME SettleRow PROVE InOrder'
  BY <1>18, OrderStays, LaterStep
  DEF InputInv, SettleRow, socketVars, effectVars, childVars
<1>19. ASSUME CloseBegins PROVE InOrder'
  BY <1>19, OrderStays, LaterStep
  DEF InputInv, CloseBegins, callerVars, socketVars, childVars
<1>20. ASSUME CloseEnds PROVE InOrder'
  BY <1>20, OrderStays, LaterStep
  DEF InputInv, CloseEnds, Gone, callerVars, childVars
<1>21. ASSUME RunnerDies PROVE InOrder'
  BY <1>21, OrderStays, LaterStep
  DEF InputInv, RunnerDies, Gone, callerVars, childVars
<1> QED BY <1>1, <1>2, <1>3, <1>4, <1>5, <1>6, <1>7, <1>8, <1>9, <1>10, <1>11, <1>12,
      <1>13, <1>14, <1>15, <1>16, <1>17, <1>18, <1>19, <1>20, <1>21 DEF Next, RunEffect


-----------------------------------------------------------------------------
(* The child never gives anything back.                                     *)
LEMMA GrownStdin == ASSUME InputInv, Next PROVE Range(stdin) \subseteq Range(stdin')
  BY StdinOnlyGrows, StdinGrows DEF InputInv, TypeOK

(* Both queues stay in line as they are.                                    *)
LEMMA LinesStay == ASSUME InputInv, Next PROVE StaysInLine(queued) /\ StaysInLine(buffered)
<1>1. Later /\ Range(stdin) \subseteq Range(stdin')
  BY LaterStep, GrownStdin
<1>2. queued \in Seq(Caller) /\ buffered \in Seq(Caller)
  BY DEF InputInv, TypeOK
<1>3. /\ \A i \in DOMAIN queued : call[queued[i]].phase # "idle"
      /\ \A i \in DOMAIN buffered : call[buffered[i]].phase # "idle"
  BY <1>2 DEF InputInv, Known, Located, Range
<1>4. InLine(queued) /\ InLine(buffered)
  BY DEF InputInv, LineUp
<1> QED BY <1>1, <1>2, <1>3, <1>4, LineStays

(* An empty queue is in line.                                               *)
LEMMA NothingInLine == StaysInLine(<<>>)
  BY DEF StaysInLine

(* What waits stays in line.                                                *)
LEMMA LinesKept ==
  ASSUME InputInv, Next
  PROVE  LineStep
<1>1. ASSUME NEW c \in Caller, NEW r \in Request, Call(c, r) PROVE LineStep
  BY <1>1, LinesStay, NothingInLine
  DEF InputInv, Call, socketVars, effectVars, childVars, LineStep
<1>2. ASSUME NEW c \in Caller, SendAgain(c) PROVE LineStep
  BY <1>2, LinesStay, NothingInLine
  DEF InputInv, SendAgain, socketVars, effectVars, childVars, LineStep
<1>3. ASSUME NEW c \in Caller, GiveUp(c) PROVE LineStep
  BY <1>3, LinesStay, NothingInLine
  DEF InputInv, GiveUp, socketVars, effectVars, childVars, LineStep
<1>4. ASSUME NEW c \in Caller, RecordSize(c) PROVE LineStep
  BY <1>4, LinesStay, NothingInLine
  DEF InputInv, RecordSize, socketVars, effectVars, childVars, LineStep
<1>5. ASSUME NEW m \in mail, Refuse(m) PROVE LineStep
  BY <1>5, LinesStay, NothingInLine
  DEF InputInv, Refuse, Receive, childVars, LineStep
<1>6. ASSUME NEW m \in mail, Hold(m) PROVE LineStep
  <2>1. buffered \in Seq(Caller) /\ queued' = queued /\ stdin' = stdin
    BY <1>6 DEF Hold, Receive, childVars, InputInv, TypeOK
  <2>2. m.caller \in Caller /\ call[m.caller].phase # "idle"
    BY DEF InputInv, TypeOK, Message, Known
  <2>3. buffered' = buffered \/ buffered' = Append(buffered, m.caller)
    BY <1>6 DEF Hold
  <2>4. CASE buffered' = Append(buffered, m.caller)
    <3>1. /\ DOMAIN buffered' = DOMAIN buffered \cup {Len(buffered) + 1}
          /\ \A i \in DOMAIN buffered : buffered'[i] = buffered[i] /\ Ahead(buffered', i) = Ahead(buffered, i)
          /\ buffered'[Len(buffered) + 1] = m.caller
          /\ Ahead(buffered', Len(buffered) + 1) = Range(buffered)
      BY <2>1, <2>2, <2>4, Appended
    <3>2. queued = <<>> /\ ~Torn
      BY <1>6 DEF Hold, InputInv, Held, Torn
    <3>3. \A c \in before[m.caller] : HasData(Asks(c)) => c \in Range(stdin) \cup Range(buffered)
      <4>1. \A c \in before[m.caller] : c \in Caller /\ Succeeded(c)
        BY <2>2 DEF InputInv, Known
      <4> QED BY <3>2, <4>1, Empty DEF InputInv, NothingLost
    <3>4. before'[m.caller] = before[m.caller]
          /\ \A c \in before[m.caller] : Asks(c)' = Asks(c)
      BY <2>2, BeforeStays, LaterStep
    <3>5. StaysInLine(buffered')
      <4> SUFFICES ASSUME NEW i \in DOMAIN buffered', NEW c \in before'[buffered'[i]],
                          HasData(Asks(c)')
                   PROVE  c \in Range(stdin') \cup Ahead(buffered', i)
        BY DEF StaysInLine
      <4>1. CASE i \in DOMAIN buffered
        BY <3>1, <4>1, LinesStay DEF StaysInLine
      <4>2. CASE i = Len(buffered) + 1
        BY <2>1, <3>1, <3>3, <3>4, <4>2
      <4> QED BY <3>1, <4>1, <4>2
    <3> QED BY <2>1, <3>5, LinesStay DEF LineStep
  <2> QED BY <2>1, <2>3, <2>4, LinesStay DEF LineStep
<1>7. ASSUME NEW m \in mail, Forward(m) PROVE LineStep
  BY <1>7, LinesStay, NothingInLine
  DEF InputInv, Forward, Receive, childVars, LineStep
<1>8. ASSUME Attach PROVE LineStep
  BY <1>8, LinesStay, NothingInLine
  DEF InputInv, Attach, callerVars, LineStep
<1>9. ASSUME AttachWrites PROVE LineStep
  <2>1. queued \in Seq(Caller) /\ queued # <<>> /\ queued' = Tail(queued) /\ buffered' = buffered
        /\ stdin \in Seq(Caller \cup {Eof}) /\ stdin' = Append(stdin, Head(queued))
    BY <1>9 DEF AttachWrites, InputInv, TypeOK
  <2>2. /\ \A i \in DOMAIN Tail(queued) :
             i + 1 \in DOMAIN queued /\ Tail(queued)[i] = queued[i + 1]
             /\ Ahead(queued, i + 1) = {Head(queued)} \cup Ahead(Tail(queued), i)
        /\ Head(queued) \in Caller
    BY <2>1, Taken
  <2>3. Head(queued) \in Range(stdin')
    BY <2>1, <2>2, Appended
  <2>4. StaysInLine(queued')
    <3> SUFFICES ASSUME NEW i \in DOMAIN queued', NEW c \in before'[queued'[i]], HasData(Asks(c)')
                 PROVE  c \in Range(stdin') \cup Ahead(queued', i)
      BY DEF StaysInLine
    <3>1. i + 1 \in DOMAIN queued /\ queued'[i] = queued[i + 1]
          /\ Ahead(queued, i + 1) = {Head(queued)} \cup Ahead(queued', i)
      BY <2>1, <2>2
    <3>2. c \in Range(stdin') \cup Ahead(queued, i + 1)
      BY <3>1, LinesStay DEF StaysInLine
    <3> QED BY <2>3, <3>1, <3>2
  <2> QED BY <2>1, <2>4, LinesStay DEF LineStep
<1>10. ASSUME AttachResizes PROVE LineStep
  BY <1>10, LinesStay, NothingInLine
  DEF InputInv, AttachResizes, Running, effectVars, LineStep
<1>11. ASSUME AttachEnds PROVE LineStep
  BY <1>11, LinesStay, NothingInLine
  DEF InputInv, AttachEnds, Running, Settled, callerVars, socketVars, LineStep
<1>12. ASSUME AttachFails PROVE LineStep
  BY <1>12, LinesStay, NothingInLine
  DEF InputInv, AttachFails, Running, Settled, callerVars, childVars, LineStep
<1>13. ASSUME Write PROVE LineStep
  BY <1>13, LinesStay, NothingInLine
  DEF InputInv, Write, Running, Writable, LineStep
<1>14. ASSUME Close PROVE LineStep
  BY <1>14, LinesStay, NothingInLine
  DEF InputInv, Close, Running, Writable, Settled, socketVars, LineStep
<1>15. ASSUME Resize PROVE LineStep
  BY <1>15, LinesStay, NothingInLine
  DEF InputInv, Resize, Running, Settled, socketVars, LineStep
<1>16. ASSUME EffectFails PROVE LineStep
  BY <1>16, LinesStay, NothingInLine
  DEF InputInv, EffectFails, Running, Writable, childVars, LineStep
<1>17. ASSUME ChildExits PROVE LineStep
  BY <1>17, LinesStay, NothingInLine
  DEF InputInv, ChildExits, callerVars, socketVars, effectVars, LineStep
<1>18. ASSUME SettleRow PROVE LineStep
  BY <1>18, LinesStay, NothingInLine
  DEF InputInv, SettleRow, socketVars, effectVars, childVars, LineStep
<1>19. ASSUME CloseBegins PROVE LineStep
  BY <1>19, LinesStay, NothingInLine
  DEF InputInv, CloseBegins, callerVars, socketVars, childVars, LineStep
<1>20. ASSUME CloseEnds PROVE LineStep
  BY <1>20, LinesStay, NothingInLine
  DEF InputInv, CloseEnds, Gone, callerVars, childVars, LineStep
<1>21. ASSUME RunnerDies PROVE LineStep
  BY <1>21, LinesStay, NothingInLine
  DEF InputInv, RunnerDies, Gone, callerVars, childVars, LineStep
<1> QED BY <1>1, <1>2, <1>3, <1>4, <1>5, <1>6, <1>7, <1>8, <1>9, <1>10, <1>11, <1>12,
      <1>13, <1>14, <1>15, <1>16, <1>17, <1>18, <1>19, <1>20, <1>21 DEF Next, RunEffect


-----------------------------------------------------------------------------
(* The invariant.                                                           *)

(* Every effect in the chain still stands for its call.                     *)
LEMMA EffectsKept == ASSUME InputInv, Next PROVE Effects'
<1>1. chain \in Seq(Effect) /\ chain' \in Seq(Effect)
  BY SeqsKept DEF InputInv, TypeOK, SeqsTyped
<1> SUFFICES ASSUME NEW i \in DOMAIN chain', NEW e \in Effect, e = chain'[i] PROVE Standing(e)'
  <2>1. \A i \in DOMAIN chain' : chain'[i] \in Effect
    BY <1>1
  <2> QED BY <2>1 DEF Effects, Standing
<1>2. ASSUME NEW j \in DOMAIN chain, e = chain[j] PROVE Standing(e)'
  BY <1>2, LaterStep, GrownStdin, StillStanding DEF InputInv, Effects
<1>3. ASSUME chain # <<>>, NEW j \in DOMAIN Tail(chain), e = Tail(chain)[j] PROVE Standing(e)'
  BY <1>1, <1>2, <1>3, Taken
<1>4. CASE chain' = chain \/ chain' = <<>> \/ (chain # <<>> /\ chain' = Tail(chain))
  BY <1>2, <1>3, <1>4
<1>5. ASSUME NEW f \in Effect, Puts(chain, f) PROVE Standing(e)'
  <2>1. (i \in DOMAIN chain /\ e = chain[i]) \/ e = f
    BY <1>1, <1>5, Appended DEF Puts
  <2> QED BY <1>2, <1>5, <2>1 DEF Puts
<1>6. ASSUME chain # <<>>, NEW f \in Effect, Puts(Tail(chain), f) PROVE Standing(e)'
  <2>1. Tail(chain) \in Seq(Effect)
    BY <1>1, <1>6, Taken
  <2>2. (i \in DOMAIN Tail(chain) /\ e = Tail(chain)[i]) \/ e = f
    BY <1>6, <2>1, Appended DEF Puts
  <2> QED BY <1>3, <1>6, <2>2 DEF Puts
<1> QED BY <1>4, <1>5, <1>6, ChainSteps DEF ChainStep

(* Whatever the runner has met was asked for, after every step.             *)
LEMMA KnownKept == ASSUME InputInv, Next PROVE Known'
<1>1. \A c \in Caller : call'[c].phase = "resized" => Asks(c)' = "resize"
  BY ResizedKept DEF Asks, SizeStep
<1>2. \A m \in mail' : call'[m.caller].phase # "idle"
  BY MailKept, LaterStep DEF InputInv, TypeOK, Message, Known, Later, MailStep
<1>3. \A c \in Caller : before'[c] \subseteq {d \in Caller : Succeeded(d)'}
  BY BeforeKept, LaterStep DEF InputInv, Known, Later, Succeeded, BeforeStep
<1>4. \A c \in Caller : Located(c)' => call'[c].phase # "idle"
  BY LocationsKept, LaterStep DEF InputInv, Known, Later, LocationStep,
      LocationSteps
<1>5. closed' => \E d \in Caller : call'[d].phase # "idle" /\ Closes(Asks(d)')
  BY ClosedKept, LaterStep DEF InputInv, Known, Later, Asks, ClosedStep
<1> QED BY <1>1, <1>2, <1>3, <1>4, <1>5 DEF Known, Closes

(* What succeeded was located, stays so, or is located now.                 *)
LEMMA NothingLostKept == ASSUME InputInv, Next PROVE NothingLost'
<1> SUFFICES ASSUME NEW c \in Caller, Succeeded(c)', HasData(Asks(c)'), ~Torn'
             PROVE  Located(c)'
  BY DEF NothingLost, Located, HasData
<1>1. CASE Succeeded(c)
  <2>1. Asks(c)' = Asks(c)
    BY <1>1, LaterStep DEF Later, Succeeded, Asks
  <2>2. ~Torn
    BY TornStays
  <2>3. Located(c)
    BY <1>1, <2>1, <2>2 DEF InputInv, NothingLost, Located
  <2> QED BY <2>3, LocationsKept DEF LocationStep, LocationSteps
<1>2. CASE ~Succeeded(c)
  BY <1>2, OkIsLocated DEF Succeeded, Asks, OkStep
<1> QED BY <1>1, <1>2

(* The beginning.                                                           *)
LEMMA InputInit == Init => InputInv
<1> SUFFICES ASSUME Init PROVE InputInv
  OBVIOUS
<1>1. TypeOK
  <2>1. FlatTyped
    BY DEF Init, FlatTyped
  <2>2. CallsTyped
    BY BoundAssumption DEF Init, CallsTyped, Calls, Request
  <2>3. SeqsTyped
    BY BoundAssumption DEF Init, SeqsTyped
  <2> QED BY <2>1, <2>2, <2>3, TypeParts
<1>2. Held /\ Effects
  BY DEF Init, Held, Effects
<1>3. Known /\ NothingLost
  BY Empty DEF Init, Known, NothingLost, Located, Succeeded
<1>4. InOrder /\ LineUp
  BY DEF Init, InOrder, LineUp, InLine
<1> QED BY <1>1, <1>2, <1>3, <1>4 DEF InputInv

(* Every step.                                                              *)
LEMMA InputNext == InputInv /\ [Next]_vars => InputInv'
<1> SUFFICES ASSUME InputInv, [Next]_vars PROVE InputInv'
  OBVIOUS
<1>1. CASE Next
  <2>1. TypeOK'
    <3>1. FlatTyped' /\ CallsTyped' /\ SeqsTyped'
      BY <1>1, FlatKept, CallsKept, SeqsKept
    <3> QED BY <3>1 DEF TypeOK, FlatTyped, CallsTyped, SeqsTyped, Calls
  <2>2. Held' /\ Effects' /\ Known' /\ NothingLost' /\ InOrder'
    BY <1>1, HeldKept, EffectsKept, KnownKept, NothingLostKept, OrderKept
  <2>3. LineUp'
    BY <1>1, LinesKept DEF LineUp, InLine, StaysInLine, LineStep, HasData, Ahead
  <2> QED BY <2>1, <2>2, <2>3 DEF InputInv
<1>2. CASE UNCHANGED vars
  <2>1. /\ mode' = mode /\ row' = row /\ call' = call /\ before' = before /\ mail' = mail
        /\ attached' = attached /\ failed' = failed /\ closed' = closed
        /\ buffered' = buffered /\ queued' = queued /\ resizeTo' = resizeTo
        /\ chain' = chain /\ broken' = broken /\ channel' = channel /\ awaited' = awaited
        /\ child' = child /\ stdin' = stdin /\ screen' = screen
    BY <1>2 DEF vars, callerVars, socketVars, effectVars, childVars
  <2>2. TypeOK'
    BY <2>1 DEF InputInv, TypeOK
  <2>3. Held'
    BY <2>1 DEF InputInv, Held
  <2>4. Known'
    BY <2>1 DEF InputInv, Known, Located, Succeeded, Asks
  <2>5. Effects'
    BY <2>1 DEF InputInv, Effects, Standing, Asks
  <2>6. NothingLost'
    BY <2>1 DEF InputInv, NothingLost, Succeeded, Asks, Torn
  <2>7. InOrder'
    BY <2>1 DEF InputInv, InOrder, Asks
  <2>8. LineUp'
    BY <2>1 DEF InputInv, LineUp, InLine, Asks
  <2> QED BY <2>2, <2>3, <2>4, <2>5, <2>6, <2>7, <2>8 DEF InputInv
<1> QED BY <1>1, <1>2

(* The input channel stays within its invariant.                            *)
THEOREM InvHolds == Spec => []InputInv
  BY InputInit, InputNext, PTL DEF Spec

(* Every reachable state of the input channel is well typed; the buffer     *)
(* keeps its limit.  (job-input.ts 135-149.)                                *)
THEOREM TypeCorrect == Spec => []TypeOK
<1>1. InputInv => TypeOK
  BY DEF InputInv
<1> QED BY <1>1, InvHolds, PTL

(* What a caller was told is written has been given to the child or is held *)
(* for it, while the child and the runner live.  (job-input.ts 81-84,       *)
(* 135-147, 158-173.)                                                       *)
THEOREM InputIsKept == Spec => []NothingLost
<1>1. InputInv => NothingLost
  BY DEF InputInv
<1> QED BY <1>1, InvHolds, PTL

(* The child gets the data of a call after that of the calls which had      *)
(* succeeded when it was made, and the end of its input after all that came *)
(* before some call that asked for it.  (job-input.ts 81-84, 158-173.)      *)
THEOREM InputIsOrdered == Spec => []InOrder
<1>1. InputInv => InOrder
  BY DEF InputInv
<1> QED BY <1>1, InvHolds, PTL

-----------------------------------------------------------------------------
(* Filtering. Whatever fails for some number fails for a smallest one.      *)

LEMMA LeastOf ==
  ASSUME NEW B \in SUBSET Nat, B # {}
  PROVE  \E m \in B : \A k \in B : m <= k
<1> DEFINE R == {ss \in Nat \X Nat : ss[1] < ss[2]}
<1>0. IsWellFoundedOn(R, Nat)
  BY NatLessThanWellFounded DEF OpToRel
<1> HIDE DEF R
<1>1. PICK m \in B : \A k \in B : ~ (<<k, m>> \in R)
  BY <1>0, WFMin
<1>2. \A k \in B : ~ (k < m)
  BY <1>1 DEF R
<1> QED BY <1>2

(* What DataIn has kept of the first n elements, for every n up to m.       *)
KeptOf(s, m, f) ==
  f = [n \in 0 .. m |-> IF n = 0 THEN <<>>
                        ELSE IF s[n] \in Caller THEN Append(f[n - 1], s[n]) ELSE f[n - 1]]

(* ... one step of it                                                       *)
LEMMA KeptSteps ==
  ASSUME NEW s, NEW m \in Nat, NEW f, KeptOf(s, m, f)
  PROVE  /\ f[0] = <<>>
         /\ \A n \in 1 .. m : f[n] = IF s[n] \in Caller THEN Append(f[n - 1], s[n]) ELSE f[n - 1]
<1> DEFINE G == [n \in 0 .. m |-> IF n = 0 THEN <<>>
                        ELSE IF s[n] \in Caller THEN Append(f[n - 1], s[n]) ELSE f[n - 1]]
<1>1. f = G
  BY DEF KeptOf
<1>2. G[0] = <<>>
  OBVIOUS
<1>3. \A n \in 1 .. m : G[n] = IF s[n] \in Caller THEN Append(f[n - 1], s[n]) ELSE f[n - 1]
  OBVIOUS
<1> HIDE DEF G
<1> QED BY <1>1, <1>2, <1>3

(* ... it exists                                                            *)
LEMMA KeptExists == ASSUME NEW s, NEW m \in Nat PROVE \E f : KeptOf(s, m, f)
<1> DEFINE B == {k \in Nat : ~ \E f : KeptOf(s, k, f)}
<1>1. ASSUME B # {} PROVE FALSE
  <2>1. PICK k \in B : \A i \in B : k <= i
    BY <1>1, LeastOf
  <2>2. CASE k = 0
    <3>1. KeptOf(s, 0, [n \in 0 .. 0 |-> <<>>])
      <4>1. \A n \in 0 .. 0 : n = 0
        OBVIOUS
      <4> QED BY <4>1 DEF KeptOf
    <3> QED BY <2>1, <2>2, <3>1
  <2>3. CASE k # 0
    <3>1. k - 1 \in Nat /\ k - 1 \notin B
      BY <2>1, <2>3
    <3>2. PICK f : KeptOf(s, k - 1, f)
      BY <3>1
    <3> DEFINE g == [n \in 0 .. k |-> IF n < k THEN f[n]
                       ELSE IF s[k] \in Caller THEN Append(f[k - 1], s[k]) ELSE f[k - 1]]
               h == [n \in 0 .. k |-> IF n = 0 THEN <<>>
                       ELSE IF s[n] \in Caller THEN Append(g[n - 1], s[n]) ELSE g[n - 1]]
    <3>3. f[0] = <<>>
          /\ \A n \in 1 .. k - 1 : f[n] = IF s[n] \in Caller THEN Append(f[n - 1], s[n]) ELSE f[n - 1]
      BY <3>1, <3>2, KeptSteps
    <3>4. \A n \in 0 .. k - 1 : g[n] = f[n]
      BY <2>1
    <3>5. g[k] = IF s[k] \in Caller THEN Append(f[k - 1], s[k]) ELSE f[k - 1]
      BY <2>1
    <3>6. \A n \in 0 .. k : h[n] = IF n = 0 THEN <<>>
                       ELSE IF s[n] \in Caller THEN Append(g[n - 1], s[n]) ELSE g[n - 1]
      OBVIOUS
    <3>7. DOMAIN g = 0 .. k /\ DOMAIN h = 0 .. k /\ g = [n \in 0 .. k |-> g[n]] /\ h = [n \in 0 .. k |-> h[n]]
      OBVIOUS
    <3> HIDE DEF g, h
    <3>8. ASSUME NEW n \in 0 .. k PROVE g[n] = h[n]
      <4>1. CASE n = 0
        BY <2>1, <2>3, <3>3, <3>4, <3>6, <4>1
      <4>2. CASE n = k
        <5>1. k - 1 \in 0 .. k - 1 /\ k \in 0 .. k
          BY <2>1, <2>3
        <5> QED BY <2>3, <3>4, <3>5, <3>6, <4>2, <5>1
      <4>3. CASE n # 0 /\ n # k
        <5>1. n \in 1 .. k - 1 /\ n \in 0 .. k - 1 /\ n - 1 \in 0 .. k - 1
          BY <2>1, <4>3
        <5> QED BY <3>3, <3>4, <3>6, <4>3, <5>1
      <4> QED BY <4>1, <4>2, <4>3
    <3>9. g = h
      BY <3>7, <3>8
    <3>10. KeptOf(s, k, g)
      BY <3>9 DEF KeptOf, h
    <3> QED BY <2>1, <3>10
  <2> QED BY <2>2, <2>3
<1> QED BY <1>1

(* ... and agrees with what is kept of a sequence that goes on              *)
LEMMA KeptAgrees ==
  ASSUME NEW s, NEW t, NEW m \in Nat, NEW k \in Nat, NEW f, NEW g, m <= k,
         KeptOf(s, m, f), KeptOf(t, k, g), \A i \in 1 .. m : s[i] = t[i]
  PROVE  \A n \in 0 .. m : f[n] = g[n]
<1> DEFINE B == {n \in Nat : n <= m /\ f[n] # g[n]}
<1>1. f[0] = <<>> /\ g[0] = <<>>
  BY KeptSteps
<1>2. /\ \A n \in 1 .. m : f[n] = IF s[n] \in Caller THEN Append(f[n - 1], s[n]) ELSE f[n - 1]
      /\ \A n \in 1 .. k : g[n] = IF t[n] \in Caller THEN Append(g[n - 1], t[n]) ELSE g[n - 1]
  BY KeptSteps
<1>3. ASSUME B # {} PROVE FALSE
  <2>1. PICK n \in B : \A i \in B : n <= i
    BY <1>3, LeastOf
  <2>2. n \in Nat \ {0} /\ n - 1 \in Nat /\ n - 1 \notin B
    BY <1>1, <2>1
  <2>3. f[n - 1] = g[n - 1] /\ n \in 1 .. m /\ n \in 1 .. k
    BY <2>1, <2>2
  <2> QED BY <1>2, <2>1, <2>3
<1>4. \A n \in 0 .. m : n \in Nat /\ n <= m
  OBVIOUS
<1> QED BY <1>3, <1>4

(* ... holds callers only                                                   *)
LEMMA KeptTyped ==
  ASSUME NEW s, NEW m \in Nat, NEW f, KeptOf(s, m, f)
  PROVE  \A n \in 0 .. m : f[n] \in Seq(Caller)
<1> DEFINE B == {n \in Nat : n <= m /\ f[n] \notin Seq(Caller)}
<1>1. f[0] = <<>>
      /\ \A n \in 1 .. m : f[n] = IF s[n] \in Caller THEN Append(f[n - 1], s[n]) ELSE f[n - 1]
  BY KeptSteps
<1>2. ASSUME B # {} PROVE FALSE
  <2>1. PICK n \in B : \A i \in B : n <= i
    BY <1>2, LeastOf
  <2>2. n # 0
    BY <1>1, <2>1, Empty
  <2>22. n \in Nat \ {0} /\ n - 1 \in Nat /\ n - 1 \notin B
    BY <2>1, <2>2
  <2>3. f[n - 1] \in Seq(Caller) /\ n \in 1 .. m
    BY <2>1, <2>22
  <2>4. s[n] \in Caller => Append(f[n - 1], s[n]) \in Seq(Caller)
    BY <2>3
  <2> QED BY <1>1, <2>1, <2>3, <2>4
<1>3. \A n \in 0 .. m : n \in Nat /\ n <= m
  OBVIOUS
<1> QED BY <1>2, <1>3

\* One sequence behind another, under a name, for the provers.
Joined(a, b) == a \o b

(* ... and is the first element's part followed by that of the rest.        *)
LEMMA KeptShifts ==
  ASSUME NEW s, NEW t, NEW m \in Nat, NEW l, NEW f, NEW g, l = m + 1,
         KeptOf(s, l, f), KeptOf(t, m, g), \A i \in 1 .. m : t[i] = s[i + 1]
  PROVE  f[l] = Joined(f[1], g[m])
<1> DEFINE B == {n \in Nat : n <= m /\ f[n + 1] # Joined(f[1], g[n])}
<1>1. /\ \A n \in 1 .. m + 1 : f[n] = IF s[n] \in Caller THEN Append(f[n - 1], s[n]) ELSE f[n - 1]
      /\ g[0] = <<>>
      /\ \A n \in 1 .. m : g[n] = IF t[n] \in Caller THEN Append(g[n - 1], t[n]) ELSE g[n - 1]
  <2>1. l \in Nat /\ l = m + 1
    OBVIOUS
  <2> QED BY <2>1, KeptSteps
<1>2. f[1] \in Seq(Caller) /\ \A n \in 0 .. m : g[n] \in Seq(Caller)
  <2>1. l \in Nat /\ 1 \in 0 .. l
    OBVIOUS
  <2> QED BY <2>1, KeptTyped
<1>3. ASSUME B # {} PROVE FALSE
  <2>1. PICK n \in B : \A i \in B : n <= i
    BY <1>3, LeastOf
  <2>2. n # 0
    <3>1. f[1] = f[1] \o g[0] /\ 0 + 1 = 1
      BY <1>1, <1>2
    <3> QED BY <2>1, <3>1 DEF Joined
  <2>3. n \in Nat \ {0} /\ n <= m /\ n - 1 \in Nat /\ (n - 1) + 1 = n /\ ~(n <= n - 1)
    BY <2>1, <2>2
  <2>4. f[n] = f[1] \o g[n - 1]
    <3>1. n - 1 \notin B
      BY <2>1, <2>3
    <3>2. n - 1 <= m
      BY <2>3
    <3> QED BY <2>3, <3>1, <3>2 DEF Joined
  <2>5. n \in 1 .. m /\ n + 1 \in 1 .. m + 1 /\ (n + 1) - 1 = n /\ n - 1 \in 0 .. m
    BY <2>1, <2>3
  <2>6. s[n + 1] = t[n]
    BY <2>5
  <2>7. f[n + 1] = IF t[n] \in Caller THEN Append(f[n], t[n]) ELSE f[n]
    BY <1>1, <2>5, <2>6
  <2>8. g[n] = IF t[n] \in Caller THEN Append(g[n - 1], t[n]) ELSE g[n - 1]
    BY <1>1, <2>5
  <2>9. g[n - 1] \in Seq(Caller)
    BY <1>2, <2>5
  <2>10. t[n] \in Caller => Append(f[1] \o g[n - 1], t[n]) = f[1] \o Append(g[n - 1], t[n])
    <3> DEFINE a == f[1]
               b == g[n - 1]
               x == t[n]
    <3>1. a \in Seq(Caller) /\ b \in Seq(Caller)
      BY <1>2, <2>9
    <3> HIDE DEF a, b, x
    <3>2. ASSUME x \in Caller PROVE Append(a \o b, x) = a \o Append(b, x)
      BY ONLY <3>1, x \in Caller
    <3> QED BY <3>2 DEF a, b, x
  <2> QED BY <2>1, <2>4, <2>7, <2>8, <2>10 DEF Joined
<1>4. m \notin B
  <2> HIDE DEF B
  <2> QED BY <1>3
<1> QED BY <1>4

(* DataIn is what is kept of all the elements.                              *)
LEMMA DataIsKept ==
  ASSUME NEW s, Len(s) \in Nat
  PROVE  \E f : KeptOf(s, Len(s), f) /\ DataIn(s) = f[Len(s)]
<1> DEFINE f == CHOOSE g : KeptOf(s, Len(s), g)
<1>1. KeptOf(s, Len(s), f)
  BY KeptExists
<1>2. DataIn(s) = f[Len(s)]
  BY DEF DataIn, KeptOf
<1> HIDE DEF f
<1> QED BY <1>1, <1>2

(* Filtering nothing, by type, behind the end and from the front.            *)
LEMMA DataInNothing == DataIn(<<>>) = <<>>
<1>1. Len(<<>>) = 0
  OBVIOUS
<1>2. PICK f : KeptOf(<<>>, 0, f) /\ DataIn(<<>>) = f[0]
  BY <1>1, DataIsKept
<1> QED BY <1>2, KeptSteps

LEMMA DataTyped ==
  ASSUME NEW s, Len(s) \in Nat
  PROVE  DataIn(s) \in Seq(Caller)
<1>1. PICK f : KeptOf(s, Len(s), f) /\ DataIn(s) = f[Len(s)]
  BY DataIsKept
<1>2. Len(s) \in 0 .. Len(s)
  OBVIOUS
<1> QED BY <1>1, <1>2, KeptTyped

LEMMA DataAppended ==
  ASSUME NEW S, NEW s \in Seq(S), NEW x \in S
  PROVE  DataIn(Append(s, x)) = IF x \in Caller THEN Append(DataIn(s), x) ELSE DataIn(s)
<1> DEFINE t == Append(s, x)
<1>1. Len(s) \in Nat /\ Len(t) = Len(s) + 1 /\ t[Len(s) + 1] = x
      /\ \A i \in 1 .. Len(s) : s[i] = t[i]
  OBVIOUS
<1> HIDE DEF t
<1>2. PICK f : KeptOf(s, Len(s), f) /\ DataIn(s) = f[Len(s)]
  BY <1>1, DataIsKept
<1>3. PICK g : KeptOf(t, Len(s) + 1, g) /\ DataIn(t) = g[Len(s) + 1]
  BY <1>1, DataIsKept
<1>4. Len(s) + 1 \in Nat /\ Len(s) <= Len(s) + 1 /\ Len(s) \in 0 .. Len(s)
      /\ Len(s) + 1 \in 1 .. Len(s) + 1 /\ (Len(s) + 1) - 1 = Len(s)
  BY <1>1
<1>5. f[Len(s)] = g[Len(s)]
  <2>1. \A n \in 0 .. Len(s) : f[n] = g[n]
    <3> DEFINE k == Len(s)
               l == k + 1
    <3>1. k \in Nat /\ l \in Nat /\ k <= l
      BY <1>1
    <3>2. KeptOf(s, k, f) /\ KeptOf(t, l, g) /\ \A i \in 1 .. k : s[i] = t[i]
      BY <1>1, <1>2, <1>3
    <3> HIDE DEF k, l
    <3>3. \A n \in 0 .. k : f[n] = g[n]
      BY <3>1, <3>2, KeptAgrees
    <3> QED BY <3>3 DEF k
  <2> QED BY <1>4, <2>1
<1>6. g[Len(s) + 1] = IF x \in Caller THEN Append(g[Len(s)], x) ELSE g[Len(s)]
  BY <1>1, <1>3, <1>4, KeptSteps
<1> QED BY <1>2, <1>3, <1>5, <1>6 DEF t

LEMMA DataTaken ==
  ASSUME NEW S, NEW s \in Seq(S), s # <<>>
  PROVE  DataIn(s) = Joined(IF Head(s) \in Caller THEN <<Head(s)>> ELSE <<>>, DataIn(Tail(s)))
<1> DEFINE t == Tail(s)
           m == Len(t)
<1>1. m \in Nat /\ Len(s) = m + 1 /\ Head(s) = s[1]
      /\ \A i \in 1 .. m : t[i] = s[i + 1]
  OBVIOUS
<1> HIDE DEF t
<1>2. PICK f : KeptOf(s, m + 1, f) /\ DataIn(s) = f[m + 1]
  BY <1>1, DataIsKept
<1>3. PICK g : KeptOf(t, m, g) /\ DataIn(t) = g[m]
  BY <1>1, DataIsKept
<1> HIDE DEF m
<1>4. m + 1 \in Nat /\ m \in 0 .. m /\ 1 \in 1 .. m + 1 /\ 1 - 1 = 0
  BY <1>1
<1>5. f[m + 1] = Joined(f[1], g[m])
  <2> DEFINE l == m + 1
  <2>1. m \in Nat /\ l = m + 1 /\ \A i \in 1 .. m : t[i] = s[i + 1]
    BY <1>1 DEF m
  <2>2. KeptOf(s, l, f) /\ KeptOf(t, m, g)
    BY <1>2, <1>3
  <2> HIDE DEF l
  <2>3. f[l] = Joined(f[1], g[m])
    BY <2>1, <2>2, KeptShifts
  <2> QED BY <2>3 DEF l
<1>6. f[0] = <<>> /\ f[1] = IF s[1] \in Caller THEN Append(f[0], s[1]) ELSE f[0]
  BY <1>2, <1>4, KeptSteps
<1>7. \A x : Append(<<>>, x) = <<x>>
  OBVIOUS
<1> QED BY <1>1, <1>2, <1>3, <1>5, <1>6, <1>7 DEF t

-----------------------------------------------------------------------------
(* The input in the chain: what its write effects were made for.            *)

WriterOf(e) == IF e.kind = "write" THEN e.by.caller ELSE NoCaller
WrittenIn(s) == [i \in DOMAIN s |-> WriterOf(s[i])]
InChain(s) == DataIn(WrittenIn(s))

Proper(e) == e \in Effect /\ (e.kind = "write" => e.by.caller \in Caller)

(* A sequence is the function of its elements.                              *)
LEMMA SeqShape ==
  ASSUME NEW S, NEW s \in Seq(S), NEW n, Len(s) = n
  PROVE  s = [i \in 1 .. n |-> s[i]]
  OBVIOUS

(* What the effects were made for, one by one ...                           *)
LEMMA WriterTyped ==
  ASSUME NEW e, Proper(e)
  PROVE  /\ WriterOf(e) \in Caller \cup {NoCaller}
         /\ WriterOf(e) \in Caller <=> e.kind = "write"
  BY CallerAssumption DEF WriterOf, Proper

LEMMA WrittenTyped ==
  ASSUME NEW s \in Seq(Effect), \A i \in DOMAIN s : Proper(s[i])
  PROVE  WrittenIn(s) \in Seq(Caller \cup {NoCaller}) /\ Len(WrittenIn(s)) = Len(s)
<1>1. \A i \in DOMAIN s : WriterOf(s[i]) \in Caller \cup {NoCaller}
  BY WriterTyped
<1> QED BY <1>1 DEF WrittenIn

(* ... and together, for each thing that happens to a chain.                *)
LEMMA NothingInChain == InChain(<<>>) = <<>>
<1>1. WrittenIn(<<>>) = <<>>
  BY DEF WrittenIn
<1> QED BY <1>1, DataInNothing DEF InChain

LEMMA ChainTyped ==
  ASSUME NEW s \in Seq(Effect), \A i \in DOMAIN s : Proper(s[i])
  PROVE  InChain(s) \in Seq(Caller)
<1>1. Len(WrittenIn(s)) \in Nat
  BY WrittenTyped
<1> QED BY <1>1, DataTyped DEF InChain

LEMMA ChainAppended ==
  ASSUME NEW s \in Seq(Effect), \A i \in DOMAIN s : Proper(s[i]), NEW e, Proper(e)
  PROVE  InChain(Append(s, e)) =
           IF e.kind = "write" THEN Append(InChain(s), e.by.caller) ELSE InChain(s)
<1>1. WrittenIn(s) \in Seq(Caller \cup {NoCaller}) /\ Len(WrittenIn(s)) = Len(s)
  BY WrittenTyped
<1>2. e \in Effect /\ WriterOf(e) \in Caller \cup {NoCaller}
  BY WriterTyped DEF Proper
<1>3. WrittenIn(Append(s, e)) = Append(WrittenIn(s), WriterOf(e))
  <2> DEFINE w == WrittenIn(s)
             x == WriterOf(e)
             t == Append(s, e)
             v == Append(w, x)
  <2>1. /\ DOMAIN t = 1 .. Len(s) + 1 /\ Len(s) \in Nat
        /\ \A i \in 1 .. Len(s) : t[i] = s[i]
        /\ t[Len(s) + 1] = e
    BY <1>2
  <2>2. \A i \in 1 .. Len(s) : w[i] = WriterOf(s[i])
    BY DEF WrittenIn
  <2>3. w \in Seq(Caller \cup {NoCaller}) /\ Len(w) = Len(s) /\ x \in Caller \cup {NoCaller}
    BY <1>1, <1>2
  <2>4. WrittenIn(t) = [i \in 1 .. Len(s) + 1 |-> WriterOf(t[i])]
    BY <2>1 DEF WrittenIn
  <2>5. x = WriterOf(e)
    OBVIOUS
  <2> HIDE DEF w, x, t
  <2>6. /\ v \in Seq(Caller \cup {NoCaller}) /\ Len(v) = Len(s) + 1
        /\ \A i \in 1 .. Len(s) : v[i] = w[i]
        /\ v[Len(s) + 1] = x
    BY <2>1, <2>3
  <2> HIDE DEF v
  <2>10. v = [i \in 1 .. Len(s) + 1 |-> v[i]]
    BY <2>6, SeqShape
  <2>7. \A i \in 1 .. Len(s) + 1 : i \in 1 .. Len(s) \/ i = Len(s) + 1
    BY <2>1
  <2>8. \A i \in 1 .. Len(s) + 1 : WriterOf(t[i]) = v[i]
    BY <2>1, <2>2, <2>5, <2>6, <2>7
  <2>9. WrittenIn(t) = v
    BY <2>4, <2>8, <2>10
  <2> QED BY <2>9 DEF w, x, t, v
<1>4. InChain(Append(s, e)) =
        IF WriterOf(e) \in Caller THEN Append(InChain(s), WriterOf(e)) ELSE InChain(s)
  BY <1>1, <1>2, <1>3, DataAppended DEF InChain
<1> QED BY <1>4, WriterTyped DEF WriterOf

LEMMA ChainTaken ==
  ASSUME NEW s \in Seq(Effect), s # <<>>, \A i \in DOMAIN s : Proper(s[i])
  PROVE  InChain(s) = Joined(IF Head(s).kind = "write" THEN <<Head(s).by.caller>> ELSE <<>>,
                             InChain(Tail(s)))
<1> DEFINE u == WrittenIn(s)
<1>1. u \in Seq(Caller \cup {NoCaller}) /\ Len(u) = Len(s) /\ Len(s) \in Nat \ {0}
  BY WrittenTyped
<1>2. \A i \in DOMAIN s : u[i] = WriterOf(s[i])
  BY DEF WrittenIn
<1>3. DOMAIN s = 1 .. Len(s) /\ Head(s) = s[1] /\ DOMAIN Tail(s) = 1 .. Len(s) - 1
      /\ \A i \in DOMAIN Tail(s) : Tail(s)[i] = s[i + 1]
  OBVIOUS
<1> HIDE DEF u
<1>4. u # <<>> /\ Head(u) = u[1] /\ DOMAIN Tail(u) = 1 .. Len(s) - 1
      /\ \A i \in DOMAIN Tail(u) : Tail(u)[i] = u[i + 1]
  BY <1>1
<1>5. Head(u) = WriterOf(Head(s)) /\ Proper(Head(s))
  BY <1>1, <1>2, <1>3, <1>4
<1>6. Tail(u) = WrittenIn(Tail(s))
  <2>1. \A i \in 1 .. Len(s) - 1 : i + 1 \in DOMAIN s
    BY <1>1, <1>3
  <2>2. \A i \in 1 .. Len(s) - 1 : Tail(u)[i] = WriterOf(Tail(s)[i])
    BY <1>2, <1>3, <1>4, <2>1
  <2>3. Tail(u) = [i \in 1 .. Len(s) - 1 |-> Tail(u)[i]]
    <3>1. Tail(u) \in Seq(Caller \cup {NoCaller}) /\ Len(Tail(u)) = Len(s) - 1
      BY <1>1
    <3> HIDE DEF u
    <3> DEFINE p == Tail(u)
    <3>2. p \in Seq(Caller \cup {NoCaller}) /\ Len(p) = Len(s) - 1
      BY <3>1
    <3> HIDE DEF p
    <3>3. p = [i \in 1 .. Len(s) - 1 |-> p[i]]
      BY <3>2, SeqShape
    <3> QED BY <3>3 DEF p
  <2>4. WrittenIn(Tail(s)) = [i \in 1 .. Len(s) - 1 |-> WriterOf(Tail(s)[i])]
    BY <1>3 DEF WrittenIn
  <2> QED BY <2>2, <2>3, <2>4
<1>7. InChain(s) = Joined(IF Head(u) \in Caller THEN <<Head(u)>> ELSE <<>>, DataIn(Tail(u)))
  BY <1>1, <1>4, DataTaken DEF InChain, u
<1>8. (IF Head(u) \in Caller THEN <<Head(u)>> ELSE <<>>) =
        (IF Head(s).kind = "write" THEN <<Head(s).by.caller>> ELSE <<>>)
  BY <1>5, WriterTyped DEF WriterOf
<1> QED BY <1>6, <1>7, <1>8 DEF InChain

-----------------------------------------------------------------------------
(* The stream, as StdinStream sees it: what is queued, then what waits in   *)
(* the buffer, then what is in the chain.                                   *)

Line(q, b, d) == q \o b \o d

(* What the line looks like to one who puts input behind it or takes it.    *)
LEMMA LineTyped ==
  ASSUME NEW q \in Seq(Caller), NEW b \in Seq(Caller), NEW d \in Seq(Caller)
  PROVE  Line(q, b, d) \in Seq(Caller)
  BY DEF Line

LEMMA LineHolds ==
  ASSUME NEW b \in Seq(Caller), NEW x \in Caller
  PROVE  Line(<<>>, Append(b, x), <<>>) = Append(Line(<<>>, b, <<>>), x)
  BY DEF Line

LEMMA LineForwards ==
  ASSUME NEW q \in Seq(Caller), NEW d \in Seq(Caller), NEW x \in Caller
  PROVE  Line(q, <<>>, Append(d, x)) = Append(Line(q, <<>>, d), x)
  BY DEF Line

LEMMA LineAttaches ==
  ASSUME NEW b \in Seq(Caller)
  PROVE  Line(b, <<>>, <<>>) = Line(<<>>, b, <<>>)
  BY DEF Line

LEMMA LineTaken ==
  ASSUME NEW q \in Seq(Caller), NEW d \in Seq(Caller), q # <<>>
  PROVE  /\ Line(q, <<>>, d) # <<>> /\ Head(Line(q, <<>>, d)) = Head(q)
         /\ Tail(Line(q, <<>>, d)) = Line(Tail(q), <<>>, d)
<1> DEFINE p == Line(q, <<>>, d)
           t == Line(Tail(q), <<>>, d)
<1>1. p \in Seq(Caller) /\ Tail(q) \in Seq(Caller) /\ Len(q) \in Nat \ {0} /\ Len(d) \in Nat
  BY DEF Line
<1>2. t \in Seq(Caller) /\ Len(p) = Len(q) + Len(d) /\ Len(t) = Len(q) - 1 + Len(d)
  BY <1>1 DEF Line
<1>3. /\ \A i \in 1 .. Len(q) : p[i] = q[i]
      /\ \A i \in 1 .. Len(d) : p[Len(q) + i] = d[i]
      /\ \A i \in 1 .. Len(q) - 1 : t[i] = q[i + 1]
      /\ \A i \in 1 .. Len(d) : t[Len(q) - 1 + i] = d[i]
  BY <1>1 DEF Line
<1> HIDE DEF p, t
<1>4. p # <<>> /\ Head(p) = Head(q) /\ Tail(p) \in Seq(Caller) /\ Len(Tail(p)) = Len(t)
  BY <1>1, <1>2, <1>3
<1>5. ASSUME NEW i \in 1 .. Len(t) PROVE Tail(p)[i] = t[i]
  <2>1. Tail(p)[i] = p[i + 1]
    BY <1>1, <1>2, <1>4
  <2>2. CASE i \in 1 .. Len(q) - 1
    <3>1. i + 1 \in 1 .. Len(q)
      BY <1>1, <2>2
    <3> QED BY <1>3, <2>1, <2>2, <3>1
  <2>3. CASE i \in Len(q) .. Len(t)
    <3> DEFINE k == i - (Len(q) - 1)
    <3>1. k \in 1 .. Len(d)
      BY <1>1, <1>2, <2>3
    <3>2. i + 1 = Len(q) + k /\ i = Len(q) - 1 + k
      BY <1>1, <2>3
    <3> HIDE DEF k
    <3> QED BY <1>3, <2>1, <3>1, <3>2
  <2> QED BY <1>1, <1>2, <2>2, <2>3
<1>6. Tail(p) = t
  <2> DEFINE r == Tail(p)
  <2>1. r \in Seq(Caller) /\ Len(r) = Len(t) /\ \A i \in 1 .. Len(t) : r[i] = t[i]
    BY <1>4, <1>5
  <2> HIDE DEF r
  <2>2. r = t
    BY <1>2, <2>1
  <2> QED BY <2>2 DEF r
<1> QED BY <1>4, <1>6 DEF p, t

LEMMA LineWritten ==
  ASSUME NEW d \in Seq(Caller), NEW x \in Caller
  PROVE  /\ Line(<<>>, <<>>, Joined(<<x>>, d)) # <<>>
         /\ Head(Line(<<>>, <<>>, Joined(<<x>>, d))) = x
         /\ Tail(Line(<<>>, <<>>, Joined(<<x>>, d))) = Line(<<>>, <<>>, d)
<1> DEFINE q == <<x>>
<1>1. q \in Seq(Caller) /\ q # <<>> /\ Head(q) = x /\ Tail(q) = <<>>
  OBVIOUS
<1>2. Line(<<>>, <<>>, Joined(q, d)) = Line(q, <<>>, d)
  BY <1>1 DEF Line, Joined
<1> HIDE DEF q
<1>3. /\ Line(q, <<>>, d) # <<>> /\ Head(Line(q, <<>>, d)) = Head(q)
      /\ Tail(Line(q, <<>>, d)) = Line(Tail(q), <<>>, d)
  BY <1>1, LineTaken
<1> QED BY <1>1, <1>2, <1>3 DEF q

LEMMA NothingJoined == ASSUME NEW d \in Seq(Caller) PROVE Joined(<<>>, d) = d
  BY DEF Joined

Pending   == Line(queued, buffered, InChain(chain))
Delivered == DataIn(stdin)
Ended     == Torn \/ (mode = "pipe" /\ Eof \in Range(stdin))

StreamStep == [Stream!Next]_(Stream!vars)

(* What StdinStream allows, in these words.                                 *)
Rests     == Pending' = Pending /\ Delivered' = Delivered /\ Ended' = Ended
Accepts   == /\ ~Ended /\ Ended' = Ended /\ Delivered' = Delivered
             /\ \E x \in Caller : Pending' = Append(Pending, x)
Delivers  == /\ ~Ended /\ Ended' = Ended /\ Pending # <<>> /\ Pending' = Tail(Pending)
             /\ Delivered' = Append(Delivered, Head(Pending))
Tears     == Ended' /\ Delivered' = Delivered

LEMMA StreamWords ==
  /\ Pending = queued \o buffered \o DataIn(Written)
  /\ Pending' = (queued \o buffered \o DataIn(Written))'
<1>1. Written = WrittenIn(chain) /\ Written' = WrittenIn(chain)'
  BY DEF Written, WrittenIn, WriterOf
<1> QED BY <1>1, Zenon DEF Pending, Line, InChain

LEMMA StreamAllows ==
  ASSUME Pending' \in Seq(Caller), Rests \/ Accepts \/ Delivers \/ Tears
  PROVE  StreamStep
<1>1. CASE Rests
  BY <1>1, StreamWords, Zenon DEF Rests, Delivered, Ended, StreamStep, Stream!vars
<1>2. CASE Accepts
  BY <1>2, StreamWords, Zenon DEF Accepts, Delivered, Ended, StreamStep, Stream!vars, Stream!Next, Stream!Accept
<1>3. CASE Delivers
  BY <1>3, StreamWords, Zenon DEF Delivers, Delivered, Ended, StreamStep, Stream!vars, Stream!Next, Stream!Deliver
<1>4. CASE Tears
  BY <1>4, StreamWords, Zenon DEF Tears, Delivered, Ended, StreamStep, Stream!vars, Stream!Next, Stream!Tear
<1> QED BY <1>1, <1>2, <1>3, <1>4

-----------------------------------------------------------------------------
(* Every step is a step of the stream, or one that the stream does not see. *)

(* Nothing is given to a child that is not there.                           *)
ChildFirst == child = "none" => stdin = <<>> /\ ~attached
StreamInv == InputInv /\ ChildFirst

(* ... because nothing is spawned twice.                                    *)
LEMMA ChildFirstKept == ASSUME ChildFirst, Next PROVE ChildFirst'
<1> USE DEF ChildFirst
<1>1. ASSUME NEW c \in Caller,
             (\E r \in Request : Call(c, r)) \/ SendAgain(c) \/ GiveUp(c) \/ RecordSize(c)
      PROVE  ChildFirst'
  BY <1>1 DEF Call, SendAgain, GiveUp, RecordSize, socketVars, childVars
<1>2. ASSUME NEW m \in mail, Refuse(m) \/ Hold(m) \/ Forward(m) PROVE ChildFirst'
  BY <1>2 DEF Refuse, Hold, Forward, Receive, childVars
<1>3. CASE Attach
  BY <1>3 DEF Attach
<1>4. CASE RunEffect
  BY <1>4 DEF RunEffect, AttachWrites, AttachResizes, AttachEnds, AttachFails, Write, Close,
      Resize, EffectFails, Writable, socketVars, childVars
<1>5. CASE ChildExits \/ SettleRow \/ CloseBegins \/ CloseEnds \/ RunnerDies
  BY <1>5 DEF ChildExits, SettleRow, CloseBegins, CloseEnds, RunnerDies, Gone, socketVars, childVars
<1> QED BY <1>1, <1>2, <1>3, <1>4, <1>5 DEF Next

(* What the steps below use of the invariant.                               *)
LEMMA StreamParts ==
  ASSUME StreamInv
  PROVE  /\ queued \in Seq(Caller) /\ buffered \in Seq(Caller) /\ chain \in Seq(Effect)
         /\ stdin \in Seq(Caller \cup {Eof})
         /\ \A i \in DOMAIN chain : Proper(chain[i])
         /\ InChain(chain) \in Seq(Caller)
         /\ attached => buffered = <<>> /\ channel # "closed" /\ child # "none"
         /\ ~attached => queued = <<>> /\ chain = <<>>
         /\ chain # <<>> => /\ attached /\ Head(chain) \in Effect /\ Proper(Head(chain))
                            /\ Head(chain) = chain[1]
                            /\ Head(chain).kind # "attach" => Head(chain).by.caller \in Caller
         /\ queued # <<>> => Head(chain).kind = "attach"
<1>1. /\ queued \in Seq(Caller) /\ buffered \in Seq(Caller) /\ chain \in Seq(Effect)
      /\ stdin \in Seq(Caller \cup {Eof})
  BY DEF StreamInv, InputInv, TypeOK
<1>2. \A i \in DOMAIN chain : Proper(chain[i])
  <2>1. \A i \in DOMAIN chain : chain[i] \in Effect /\ Standing(chain[i])
    BY <1>1 DEF StreamInv, InputInv, Effects
  <2> QED BY <2>1 DEF Standing, Proper, Message
<1>3. InChain(chain) \in Seq(Caller)
  BY <1>1, <1>2, ChainTyped
<1>4. /\ attached => buffered = <<>> /\ channel # "closed"
      /\ ~attached => queued = <<>> /\ chain = <<>>
      /\ queued # <<>> => chain # <<>> /\ chain[1].kind = "attach"
  BY DEF StreamInv, InputInv, Held
<1>5. attached => child # "none"
  BY DEF StreamInv, ChildFirst
<1>6. chain # <<>> => /\ Head(chain) = chain[1] /\ 1 \in DOMAIN chain
                      /\ Head(chain) \in Effect
                      /\ Head(chain).kind # "attach" => Head(chain).by.caller \in Caller
  BY HeadOfChain DEF StreamInv
<1>7. chain # <<>> => Proper(Head(chain))
  BY <1>2, <1>6
<1> QED BY <1>1, <1>2, <1>3, <1>4, <1>5, <1>6, <1>7

(* What is pending is input, also after a step.                             *)
LEMMA PendingTyped == ASSUME InputInv' PROVE Pending' \in Seq(Caller)
<1>1. queued' \in Seq(Caller) /\ buffered' \in Seq(Caller) /\ chain' \in Seq(Effect)
  BY DEF InputInv, TypeOK
<1>2. \A i \in DOMAIN chain' : Proper(chain'[i])
  <2>1. \A i \in DOMAIN chain' : chain'[i] \in Effect
    BY <1>1
  <2>2. \A i \in DOMAIN chain' : chain'[i].kind # "attach" => chain'[i].by \in Message
    BY DEF InputInv, Effects, Standing
  <2> QED BY <2>1, <2>2 DEF Proper, Message
<1>3. InChain(chain') \in Seq(Caller)
  BY <1>1, <1>2, ChainTyped
<1>4. Line(queued', buffered', InChain(chain')) \in Seq(Caller)
  BY <1>1, <1>3, LineTyped
<1> QED BY <1>4, Zenon DEF Pending, InChain, WrittenIn, WriterOf, DataIn, Line

(* A stream that has ended stays so.                                        *)
LEMMA EndedStays == ASSUME InputInv, Next PROVE Ended => Ended'
<1>1. Torn => Torn'
  BY TornStays
<1>2. Range(stdin) \subseteq Range(stdin')
  BY GrownStdin
<1>3. mode' = mode
  BY DEF Next, RunEffect, Call, SendAgain, GiveUp, RecordSize, Refuse, Hold, Forward, Receive,
      Attach, AttachWrites, AttachResizes, AttachEnds, AttachFails, Write, Close, Resize,
      EffectFails, ChildExits, SettleRow, CloseBegins, CloseEnds, RunnerDies, Gone
<1> QED BY <1>1, <1>2, <1>3 DEF Ended

(* Input that stays where it is, while the child is given nothing.          *)
LEMMA StreamStays ==
  ASSUME StreamInv, Next, UNCHANGED <<queued, buffered, chain, stdin>>
  PROVE  Rests \/ Tears
<1>1. Pending' = Pending /\ Delivered' = Delivered
  BY DEF Pending, Line, InChain, WrittenIn, WriterOf, DataIn, Delivered
<1>2. Ended => Ended'
  BY EndedStays DEF StreamInv
<1> QED BY <1>1, <1>2 DEF Rests, Tears, Ended

(* What the chain loses at its front, or gets behind it, is no input.       *)
LEMMA StreamSettles ==
  ASSUME StreamInv, Next, chain # <<>>, Head(chain).kind # "write",
         chain' = Tail(chain), UNCHANGED <<queued, buffered>>, Delivered' = Delivered
  PROVE  Rests \/ Tears
<1>1. InChain(chain) = Joined(<<>>, InChain(Tail(chain)))
  BY StreamParts, ChainTaken
<1>2. InChain(Tail(chain)) \in Seq(Caller)
  <2>1. Tail(chain) \in Seq(Effect) /\ \A i \in DOMAIN Tail(chain) : Proper(Tail(chain)[i])
    BY StreamParts, Taken
  <2> QED BY <2>1, ChainTyped
<1>3. InChain(chain) = InChain(Tail(chain))
  BY <1>1, <1>2, NothingJoined
<1>4. Pending' = Line(queued, buffered, InChain(Tail(chain)))
  BY DEF Pending, Line, InChain, WrittenIn, WriterOf, DataIn
<1>5. Pending' = Pending
  BY <1>3, <1>4 DEF Pending
<1>6. Ended => Ended'
  BY EndedStays DEF StreamInv
<1> QED BY <1>5, <1>6 DEF Rests, Tears, Ended

(* The end of its input is nothing that the child is given.                 *)
LEMMA EndIsNoInput ==
  ASSUME StreamInv, stdin' = stdin \/ stdin' = Append(stdin, Eof)
  PROVE  Delivered' = Delivered
<1>1. Delivered' = DataIn(stdin')
  BY Zenon DEF Delivered, DataIn
<1>2. DataIn(Append(stdin, Eof)) = DataIn(stdin)
  <2>1. stdin \in Seq(Caller \cup {Eof})
    BY StreamParts
  <2> QED BY <2>1, DataAppended, CallerAssumption
<1> QED BY <1>1, <1>2 DEF Delivered

(* The child is given what a call wrote.                                    *)
LEMMA InputIsGiven ==
  ASSUME StreamInv, NEW x \in Caller, stdin' = Append(stdin, x), ~Ended,
         UNCHANGED <<mode, child, channel>>
  PROVE  Delivered' = Append(Delivered, x) /\ Ended' = Ended
<1>1. stdin \in Seq(Caller \cup {Eof})
  BY StreamParts
<1>2. Delivered' = DataIn(stdin')
  BY Zenon DEF Delivered, DataIn
<1>3. DataIn(Append(stdin, x)) = Append(DataIn(stdin), x)
  BY <1>1, DataAppended
<1>4. Range(stdin') = Range(stdin) \cup {x}
  BY <1>1, Appended
<1>5. ~Ended'
  BY <1>4, CallerAssumption DEF Ended, Torn
<1> QED BY <1>2, <1>3, <1>5 DEF Delivered, Ended

StreamMoves == Rests \/ Accepts \/ Delivers \/ Tears

(* What callers do, and most of the end, the stream does not see.           *)
LEMMA CallersStream ==
  ASSUME StreamInv, Next, NEW c \in Caller,
         (\E r \in Request : Call(c, r)) \/ SendAgain(c) \/ GiveUp(c) \/ RecordSize(c)
  PROVE  StreamMoves
<1>1. UNCHANGED <<queued, buffered, chain, stdin>>
  BY DEF Call, SendAgain, GiveUp, RecordSize, socketVars, effectVars, childVars
<1> QED BY <1>1, StreamStays DEF StreamMoves

(* A message is refused, held in the buffer or forwarded to the chain.      *)
LEMMA HoldStream ==
  ASSUME StreamInv, Next, NEW m \in mail, Hold(m)
  PROVE  StreamMoves
<1>1. m.caller \in Caller /\ channel # "closed"
  BY DEF StreamInv, InputInv, TypeOK, Held, Message
<1>2. /\ queued = <<>> /\ chain = <<>> /\ queued' = queued /\ chain' = chain
      /\ stdin' = stdin /\ channel' = channel /\ child' = child /\ mode' = mode
  BY StreamParts DEF Hold, Receive, childVars
<1>3. Delivered' = Delivered /\ Ended' = Ended
  BY <1>2 DEF Delivered, DataIn, Ended, Torn
<1>4. ~Ended
  <2>1. child = "none" /\ stdin = <<>>
    BY <1>1 DEF StreamInv, InputInv, Held, ChildFirst, Hold
  <2> QED BY <1>1, <2>1, Empty DEF Ended, Torn
<1>5. CASE HasData(Asks(m.caller))
  <2>1. buffered' = Append(buffered, m.caller)
    BY <1>5 DEF Hold
  <2>2. Pending = Line(<<>>, buffered, <<>>)
    BY <1>2, NothingInChain DEF Pending
  <2>3. Pending' = Line(queued', buffered', InChain(chain'))
    BY Zenon DEF Pending, Line, InChain, WrittenIn, WriterOf, DataIn
  <2>4. Pending' = Line(<<>>, Append(buffered, m.caller), <<>>)
    BY <1>2, <2>1, <2>3, NothingInChain
  <2>5. Pending' = Append(Pending, m.caller)
    BY <1>1, <2>2, <2>4, StreamParts, LineHolds
  <2> QED BY <1>1, <1>3, <1>4, <2>5 DEF StreamMoves, Accepts
<1>6. CASE ~HasData(Asks(m.caller))
  <2>1. buffered' = buffered
    BY <1>6 DEF Hold
  <2> QED BY <1>2, <2>1, StreamStays DEF StreamMoves
<1> QED BY <1>5, <1>6

LEMMA ForwardStream ==
  ASSUME StreamInv, Next, NEW m \in mail, Forward(m)
  PROVE  StreamMoves
<1>1. m \in Message /\ m.caller \in Caller /\ Asks(m.caller) \in Request
  BY DEF StreamInv, InputInv, TypeOK, Message, Asks
<1>2. /\ attached /\ buffered = <<>> /\ queued' = queued /\ buffered' = buffered
      /\ stdin' = stdin /\ channel' = channel /\ child' = child /\ mode' = mode
  BY StreamParts DEF Forward, Receive, childVars
<1>3. Delivered' = Delivered /\ Ended' = Ended
  BY <1>2 DEF Delivered, DataIn, Ended, Torn
<1>4. CASE broken
  <2>1. chain' = chain
    BY <1>4 DEF Forward
  <2> QED BY <1>2, <2>1, StreamStays DEF StreamMoves
<1>5. CASE ~broken
  <2> DEFINE e == [kind |-> IF HasData(Asks(m.caller)) THEN "write" ELSE Asks(m.caller), by |-> m]
  <2>1. chain' = Append(chain, e)
    BY <1>5 DEF Forward
  <2>2. Proper(e) /\ e.by.caller = m.caller /\ (e.kind = "write" <=> HasData(Asks(m.caller)))
    BY <1>1 DEF Proper, Effect, HasData, Request
  <2> HIDE DEF e
  <2>3. InChain(chain') = IF HasData(Asks(m.caller)) THEN Append(InChain(chain), m.caller)
                          ELSE InChain(chain)
    BY <2>1, <2>2, StreamParts, ChainAppended
  <2>4. Pending' = Line(queued', buffered', InChain(chain'))
    BY Zenon DEF Pending, Line, InChain, WrittenIn, WriterOf, DataIn
  <2>5. CASE ~HasData(Asks(m.caller))
    <3>1. Pending' = Pending
      BY <1>2, <2>3, <2>4, <2>5 DEF Pending
    <3> QED BY <1>3, <3>1 DEF StreamMoves, Rests
  <2>6. CASE HasData(Asks(m.caller))
    <3>1. Pending' = Append(Pending, m.caller)
      <4>1. Pending = Line(queued, <<>>, InChain(chain))
        BY <1>2 DEF Pending
      <4>2. Pending' = Line(queued, <<>>, Append(InChain(chain), m.caller))
        BY <1>2, <2>3, <2>4, <2>6
      <4> QED BY <1>1, <4>1, <4>2, StreamParts, LineForwards
    <3> QED BY <1>1, <1>3, <3>1 DEF StreamMoves, Accepts, Tears
  <2> QED BY <2>5, <2>6
<1> QED BY <1>4, <1>5

(* What was in the buffer is queued.                                        *)
LEMMA AttachStream == ASSUME StreamInv, Next, Attach PROVE StreamMoves
<1> DEFINE e == [kind |-> "attach", by |-> NoCaller]
<1>1. /\ queued = <<>> /\ chain = <<>> /\ stdin = <<>> /\ channel = "open" /\ child = "none"
      /\ queued' = buffered /\ buffered' = <<>> /\ chain' = Append(chain, e)
      /\ stdin' = stdin /\ channel' = channel /\ child' = "running" /\ mode' = mode
  BY StreamParts DEF StreamInv, ChildFirst, Attach, callerVars
<1>2. Proper(e) /\ e.kind # "write"
  BY DEF Proper, Effect
<1> HIDE DEF e
<1>3. InChain(chain') = <<>>
  <2>1. InChain(chain') = InChain(chain)
    BY <1>1, <1>2, StreamParts, ChainAppended
  <2> QED BY <1>1, <2>1, NothingInChain
<1>4. Pending' = Line(queued', buffered', InChain(chain'))
  BY Zenon DEF Pending, Line, InChain, WrittenIn, WriterOf, DataIn
<1>5. Pending' = Line(buffered, <<>>, <<>>) /\ Pending = Line(<<>>, buffered, <<>>)
  BY <1>1, <1>3, <1>4, NothingInChain DEF Pending
<1>6. Pending' = Pending
  BY <1>5, StreamParts, LineAttaches
<1>7. Delivered' = Delivered
  BY <1>1 DEF Delivered, DataIn
<1>8. ~Ended /\ ~Ended'
  BY <1>1, Empty DEF Ended, Torn
<1>9. Ended' = Ended
  BY <1>8 DEF Ended
<1> QED BY <1>6, <1>7, <1>9 DEF StreamMoves, Rests

(* What is queued, and then what is in the chain, is given to the child.    *)
LEMMA AttachWritesStream == ASSUME StreamInv, Next, AttachWrites PROVE StreamMoves
<1>1. /\ queued # <<>> /\ chain # <<>> /\ Writable /\ queued' = Tail(queued)
      /\ buffered' = buffered /\ chain' = chain /\ stdin' = Append(stdin, Head(queued))
      /\ UNCHANGED <<mode, child, channel>>
  BY DEF AttachWrites, Running, callerVars, effectVars
<1>2. Head(queued) \in Caller /\ Tail(queued) \in Seq(Caller) /\ buffered = <<>> /\ channel # "closed"
  BY <1>1, StreamParts, Taken
<1>3. ~Ended
  BY <1>1, <1>2 DEF Ended, Torn, Writable
<1>4. Delivered' = Append(Delivered, Head(queued)) /\ Ended' = Ended
  BY <1>1, <1>2, <1>3, InputIsGiven
<1>5. Pending' = Line(queued', buffered', InChain(chain'))
  BY Zenon DEF Pending, Line, InChain, WrittenIn, WriterOf, DataIn
<1>6. Pending = Line(queued, <<>>, InChain(chain)) /\ Pending' = Line(Tail(queued), <<>>, InChain(chain))
  BY <1>1, <1>2, <1>5 DEF Pending
<1>7. Pending # <<>> /\ Head(Pending) = Head(queued) /\ Tail(Pending) = Pending'
  <2>1. queued \in Seq(Caller) /\ InChain(chain) \in Seq(Caller)
    BY StreamParts
  <2> QED BY <1>1, <1>6, <2>1, LineTaken
<1> QED BY <1>3, <1>4, <1>7 DEF StreamMoves, Delivers

LEMMA WriteStream == ASSUME StreamInv, Next, Write PROVE StreamMoves
<1> DEFINE m == Head(chain).by
           e == [kind |-> "close", by |-> m]
<1>1. /\ chain # <<>> /\ Head(chain).kind = "write" /\ Writable
      /\ buffered' = buffered /\ queued' = queued
      /\ stdin' = Append(stdin, m.caller)
      /\ chain' = Tail(chain) \/ chain' = Append(Tail(chain), e)
      /\ UNCHANGED <<mode, child, channel>>
  BY DEF Write, Running
<1>2. /\ m.caller \in Caller /\ buffered = <<>> /\ queued = <<>> /\ channel # "closed"
      /\ m \in Message
  BY <1>1, StreamParts, HeadOfChain DEF StreamInv
<1>3. ~Ended
  BY <1>1, <1>2 DEF Ended, Torn, Writable
<1>4. Delivered' = Append(Delivered, m.caller) /\ Ended' = Ended
  BY <1>1, <1>2, <1>3, InputIsGiven
<1>5. Tail(chain) \in Seq(Effect) /\ \A i \in DOMAIN Tail(chain) : Proper(Tail(chain)[i])
  BY <1>1, StreamParts, Taken
<1>6. InChain(chain') = InChain(Tail(chain))
  <2>1. Proper(e) /\ e.kind # "write"
    BY <1>2 DEF Proper, Effect
  <2> HIDE DEF e
  <2>2. InChain(Append(Tail(chain), e)) = InChain(Tail(chain))
    BY <1>5, <2>1, ChainAppended
  <2> QED BY <1>1, <2>2
<1>7. InChain(Tail(chain)) \in Seq(Caller)
  BY <1>5, ChainTyped
<1>8. InChain(chain) = Joined(<<m.caller>>, InChain(Tail(chain)))
  BY <1>1, StreamParts, ChainTaken
<1>9. Pending' = Line(queued', buffered', InChain(chain'))
  BY Zenon DEF Pending, Line, InChain, WrittenIn, WriterOf, DataIn
<1>10. /\ Pending = Line(<<>>, <<>>, Joined(<<m.caller>>, InChain(Tail(chain))))
       /\ Pending' = Line(<<>>, <<>>, InChain(Tail(chain)))
  BY <1>1, <1>2, <1>6, <1>8, <1>9 DEF Pending
<1>11. Pending # <<>> /\ Head(Pending) = m.caller /\ Tail(Pending) = Pending'
  BY <1>2, <1>7, <1>10, LineWritten
<1> QED BY <1>3, <1>4, <1>11 DEF StreamMoves, Delivers

(* The other effects take no input; one that fails has nobody to write to.  *)
LEMMA EffectsStream ==
  ASSUME StreamInv, Next,
         AttachResizes \/ AttachEnds \/ AttachFails \/ Close \/ Resize \/ EffectFails
  PROVE  StreamMoves
<1>1. CASE AttachResizes
  <2>1. UNCHANGED <<queued, buffered, chain, stdin>>
    BY <1>1 DEF AttachResizes, effectVars
  <2> QED BY <2>1, StreamStays DEF StreamMoves
<1>2. CASE AttachEnds \/ Close \/ Resize
  <2>1. /\ chain # <<>> /\ Head(chain).kind # "write" /\ chain' = Tail(chain)
        /\ UNCHANGED <<queued, buffered>>
    BY <1>2 DEF AttachEnds, Close, Resize, Running, Settled, socketVars
  <2>2. stdin' = stdin \/ stdin' = Append(stdin, Eof)
    BY <1>2 DEF AttachEnds, Close, Resize
  <2> QED BY <2>1, <2>2, EndIsNoInput, StreamSettles DEF StreamMoves
<1>3. CASE AttachFails \/ EffectFails
  <2>1. Ended /\ stdin' = stdin
    <3>1. CASE AttachFails
      BY <3>1 DEF AttachFails, Ended, Torn, childVars
    <3>2. CASE EffectFails
      <4>1. stdin' = stdin /\ chain # <<>>
        BY <3>2 DEF EffectFails, Running, childVars
      <4>2. child \in {"running", "gone"}
        BY <4>1, StreamParts DEF StreamInv, InputInv, TypeOK
      <4> QED BY <3>2, <4>1, <4>2 DEF EffectFails, Writable, Ended, Torn
    <3> QED BY <1>3, <3>1, <3>2
  <2>2. Delivered' = Delivered
    BY <2>1 DEF Delivered, DataIn
  <2> QED BY <2>1, <2>2, EndedStays DEF StreamInv, StreamMoves, Tears
<1> QED BY <1>1, <1>2, <1>3

(* The child or the runner ends, and the stream with it.                    *)
LEMMA EndStream ==
  ASSUME StreamInv, Next, ChildExits \/ SettleRow \/ CloseBegins \/ CloseEnds \/ RunnerDies
  PROVE  StreamMoves
<1>1. CASE SettleRow \/ CloseBegins
  <2>1. UNCHANGED <<queued, buffered, chain, stdin>>
    BY <1>1 DEF SettleRow, CloseBegins, socketVars, effectVars, childVars
  <2> QED BY <2>1, StreamStays DEF StreamMoves
<1>2. CASE ChildExits \/ CloseEnds \/ RunnerDies
  <2>1. Ended' /\ stdin' = stdin
    BY <1>2 DEF ChildExits, CloseEnds, RunnerDies, Gone, childVars, Ended, Torn
  <2>2. Delivered' = Delivered
    BY <2>1 DEF Delivered, DataIn
  <2> QED BY <2>1, <2>2 DEF StreamMoves, Tears
<1> QED BY <1>1, <1>2

(* Each step keeps the invariant and is a step of the stream, or no step.   *)
LEMMA StreamKept ==
  StreamInv /\ [Next]_vars => StreamInv' /\ StreamStep
<1> SUFFICES ASSUME StreamInv, [Next]_vars PROVE StreamInv' /\ StreamStep
  OBVIOUS
<1>1. InputInv'
  BY InputNext DEF StreamInv
<1>2. Pending' \in Seq(Caller)
  BY <1>1, PendingTyped
<1>3. CASE Next
  <2>1. ChildFirst'
    BY <1>3, ChildFirstKept DEF StreamInv
  <2>2. ASSUME NEW m \in mail, Refuse(m) PROVE StreamMoves
    <3>1. UNCHANGED <<queued, buffered, chain, stdin>>
      BY <2>2 DEF Refuse, Receive, childVars
    <3> QED BY <1>3, <3>1, StreamStays DEF StreamMoves
  <2>3. StreamMoves
    BY <1>3, <2>2, CallersStream, HoldStream, ForwardStream, AttachStream, AttachWritesStream,
       WriteStream, EffectsStream, EndStream DEF Next, RunEffect
  <2> QED BY <1>1, <1>2, <2>1, <2>3, StreamAllows DEF StreamInv, StreamMoves
<1>4. CASE UNCHANGED vars
  <2>1. /\ mode' = mode /\ queued' = queued /\ buffered' = buffered /\ chain' = chain
        /\ stdin' = stdin /\ child' = child /\ channel' = channel /\ attached' = attached
    BY <1>4 DEF vars, socketVars, effectVars, childVars
  <2>2. Rests
    BY <2>1 DEF Rests, Pending, Line, InChain, WrittenIn, WriterOf, DataIn, Delivered, Ended, Torn
  <2>3. ChildFirst'
    BY <2>1 DEF StreamInv, ChildFirst
  <2> QED BY <1>1, <1>2, <2>2, <2>3, StreamAllows DEF StreamInv
<1> QED BY <1>3, <1>4

(* The runner and its callers implement StdinStream: input that has been    *)
(* accepted reaches the child once for each time it was accepted, in that   *)
(* order, until the child or the runner is gone or the pipe has been ended. *)
(* (job-input.ts 81-84, 135-145, 158-173.)                                  *)
THEOREM InputIsAStream == Spec => StreamSpec
<1>1. Init => InputInv /\ ChildFirst /\ Stream!Init
  <2>1. Init => ChildFirst
    BY DEF Init, ChildFirst
  <2>2. ASSUME Init PROVE Stream!Init
    <3>1. queued = <<>> /\ buffered = <<>> /\ chain = <<>> /\ stdin = <<>> /\ ~Ended
      BY <2>2, Empty DEF Init, Ended, Torn
    <3>2. DataIn(Written) = <<>>
      BY <3>1, DataInNothing DEF Written
    <3>3. queued \o buffered \o DataIn(Written) = <<>>
      BY <3>1, <3>2
    <3> QED BY <3>1, <3>3, DataInNothing, Zenon DEF Stream!Init, Ended
  <2> QED BY <2>1, <2>2, InputInit
<1>2. Init => StreamInv /\ Stream!Init
  BY <1>1 DEF StreamInv
<1>3. StreamInv /\ [Next]_vars => StreamInv' /\ [Stream!Next]_(Stream!vars)
  BY StreamKept DEF StreamStep
<1> QED BY <1>2, <1>3, PTL DEF Spec, StreamSpec, Stream!Spec
=============================================================================
