-------------------------- MODULE RpcSessionProofs --------------------------
(***************************************************************************)
(* Proofs about RpcSession, for any number of calls, ids and sessions.     *)
(*                                                                         *)
(* Only the Worker's steps touch the request ledger, and only the Mac's    *)
(* steps touch the calls; so the ledger's invariant is proved against the  *)
(* Worker's steps, with one lemma for all the others, and the calls' too.  *)
(***************************************************************************)
EXTENDS RpcSession, TLAPS

InFlight(s, r) == flight[s][r].stage # "none"

(* A flight runs what the tombstone of its id admitted.                    *)
FlightAdmitted ==
    \A s \in Session, r \in ReqId : InFlight(s, r) =>
        flight[s][r].payload = tombstone[r] /\ tombstone[r] # NoPayload

(* Without a tombstone nothing ran; a response is stored when its one      *)
(* flight is over.                                                         *)
LedgerOrder ==
    \A r \in ReqId :
        /\ tombstone[r] = NoPayload => execs[r] = 0
        /\ stored[r] # NoPayload =>
              /\ stored[r] = tombstone[r] /\ stored[r] \notin ReplaySafe
              /\ \A s \in Session : ~InFlight(s, r)

(* What must not be repeated has one flight at most, which has executed    *)
(* nothing while it still executes.                                        *)
SingleFlight ==
    \A r \in ReqId : tombstone[r] \notin ReplaySafe =>
        /\ execs[r] <= 1
        /\ \A s \in Session : flight[s][r].stage = "executing" => execs[r] = 0
        /\ \A s, t \in Session : InFlight(s, r) /\ InFlight(t, r) => s = t

LedgerInv == FlightAdmitted /\ LedgerOrder /\ SingleFlight

WorkerVars == <<flight, tombstone, stored, execs>>

-----------------------------------------------------------------------------
(* The Mac's steps leave the Worker's part of the state alone.             *)

MacStep ==
    \/ \E c \in Call : CallStep(c)
    \/ \E s \in Session : SessionExits(s) \/ Garbled(s) \/ LinkDrops(s)
    \/ \E reply \in replies : Receive(reply)

LEMMA MacLeavesLedger == MacStep => UNCHANGED WorkerVars /\ replies' \subseteq replies
<1> SUFFICES ASSUME MacStep PROVE UNCHANGED WorkerVars /\ replies' \subseteq replies
  OBVIOUS
<1>1. CASE \E c \in Call : CallStep(c)
  BY <1>1 DEF CallStep, Invoke, Connect, ConnectFails, CallFails, ledger, WorkerVars
<1>2. CASE \E s \in Session : SessionExits(s) \/ Garbled(s) \/ LinkDrops(s)
  BY <1>2 DEF SessionExits, Garbled, LinkDrops, ledger, WorkerVars
<1>3. CASE \E reply \in replies : Receive(reply)
  BY <1>3 DEF Receive, ledger, WorkerVars
<1> QED BY <1>1, <1>2, <1>3 DEF MacStep

LEMMA LedgerStands == LedgerInv /\ UNCHANGED WorkerVars => LedgerInv'
  BY DEF LedgerInv, FlightAdmitted, LedgerOrder, SingleFlight, InFlight, WorkerVars

-----------------------------------------------------------------------------
(* The Worker's steps.                                                     *)

(* A flight starts, moves on or ends at one process and id.                *)
LEMMA FlyEffect ==
  ASSUME TypeOK, NEW s \in Session, NEW r \in ReqId, NEW stage, NEW p, Fly(s, r, stage, p)
  PROVE  /\ flight'[s][r] = [stage |-> stage, payload |-> p]
         /\ \A t \in Session, q \in ReqId : t # s \/ q # r => flight'[t][q] = flight[t][q]
  BY DEF Fly, TypeOK

LEMMA ReadLineKeeps ==
  ASSUME TypeOK, LedgerInv, NEW s \in Session, NEW c \in Call, ReadLine(s, c)
  PROVE  LedgerInv'
<1> DEFINE r == IdOf[c]
<1>0. r \in ReqId /\ PayloadOf[c] \in Payload /\ PayloadOf[c] # NoPayload /\ execs' = execs
  BY RpcAssumption DEF ReadLine
<1>1. CASE JoinFlight(s, c) \/ Replay(s, c) \/ Refuse(s, c)
  BY <1>0, <1>1, LedgerStands DEF JoinFlight, Replay, Refuse, ledger, WorkerVars
<1>2. CASE Admit(s, c)
  <2> USE <1>0
  <2>1. /\ flight'[s][r] = [stage |-> "executing", payload |-> PayloadOf[c]]
        /\ \A t \in Session, q \in ReqId : t # s \/ q # r => flight'[t][q] = flight[t][q]
    BY <1>2, FlyEffect DEF Admit
  <2>2. /\ tombstone'[r] = PayloadOf[c]
        /\ \A q \in ReqId : q # r => tombstone'[q] = tombstone[q]
        /\ stored' = stored /\ stored[r] = NoPayload
    BY <1>2 DEF Admit, TypeOK
  <2>3. tombstone[r] # NoPayload => tombstone[r] = PayloadOf[c] /\ PayloadOf[c] \in ReplaySafe
    BY <1>2 DEF Admit, Existing, Repeatable
  <2>4. tombstone[r] = NoPayload => execs[r] = 0 /\ \A t \in Session : ~InFlight(t, r)
    BY DEF LedgerInv, FlightAdmitted, LedgerOrder
  <2> HIDE DEF r
  <2>5. FlightAdmitted'
    BY <2>1, <2>2, <2>3, <2>4 DEF LedgerInv, FlightAdmitted, InFlight
  <2>6. LedgerOrder'
    BY <2>1, <2>2 DEF LedgerInv, LedgerOrder, InFlight
  <2>7. SingleFlight'
    BY <2>1, <2>2, <2>3, <2>4 DEF LedgerInv, SingleFlight, InFlight
  <2> QED BY <2>5, <2>6, <2>7 DEF LedgerInv
<1> QED BY <1>1, <1>2 DEF ReadLine

LEMMA ExecuteKeeps ==
  ASSUME TypeOK, LedgerInv, NEW s \in Session, NEW r \in ReqId, Execute(s, r)
  PROVE  LedgerInv'
<1>1. /\ flight'[s][r] = [stage |-> "executed", payload |-> flight[s][r].payload]
      /\ \A t \in Session, q \in ReqId : t # s \/ q # r => flight'[t][q] = flight[t][q]
  BY FlyEffect DEF Execute
<1>2. /\ execs'[r] = execs[r] + 1
      /\ \A q \in ReqId : q # r => execs'[q] = execs[q]
      /\ tombstone' = tombstone /\ stored' = stored
      /\ execs[r] \in Nat
  BY DEF Execute, ledger, TypeOK
<1>3. flight[s][r].stage = "executing" /\ InFlight(s, r)
  BY DEF Execute, InFlight
<1>4. FlightAdmitted'
  BY <1>1, <1>2, <1>3 DEF LedgerInv, FlightAdmitted, InFlight
<1>5. LedgerOrder'
  BY <1>1, <1>2, <1>3 DEF LedgerInv, FlightAdmitted, LedgerOrder, InFlight
<1>6. SingleFlight'
  BY <1>1, <1>2, <1>3 DEF LedgerInv, SingleFlight, InFlight
<1> QED BY <1>4, <1>5, <1>6 DEF LedgerInv

LEMMA CompleteKeeps ==
  ASSUME TypeOK, LedgerInv, NEW s \in Session, NEW r \in ReqId, Complete(s, r)
  PROVE  LedgerInv' /\ tombstone' = tombstone
<1>1. /\ flight'[s][r] = NoFlight
      /\ \A t \in Session, q \in ReqId : t # s \/ q # r => flight'[t][q] = flight[t][q]
      /\ execs' = execs
  BY DEF Complete, TypeOK
<1>2. InFlight(s, r) /\ flight[s][r].payload = tombstone[r] /\ tombstone[r] # NoPayload
  BY DEF Complete, InFlight, LedgerInv, FlightAdmitted
<1>3. tombstone' = tombstone
  BY <1>2 DEF Complete, PutRequest, ledger, TypeOK
<1>4. \A q \in ReqId :
         stored'[q] = stored[q] \/ (q = r /\ stored'[q] = tombstone[r] /\ tombstone[r] \notin ReplaySafe)
  BY <1>2 DEF Complete, PutRequest, ledger, TypeOK
<1>5. FlightAdmitted'
  BY <1>1, <1>3 DEF LedgerInv, FlightAdmitted, InFlight, NoFlight
<1>6. LedgerOrder'
  BY <1>1, <1>2, <1>3, <1>4 DEF LedgerInv, LedgerOrder, SingleFlight, InFlight, NoFlight
<1>7. SingleFlight'
  BY <1>1, <1>3 DEF LedgerInv, SingleFlight, InFlight, NoFlight
<1> QED BY <1>3, <1>5, <1>6, <1>7 DEF LedgerInv

LEMMA WorkerCrashKeeps ==
  ASSUME TypeOK, LedgerInv, NEW s \in Session, WorkerCrash(s)
  PROVE  LedgerInv'
<1>1. /\ \A r \in ReqId : flight'[s][r] = NoFlight
      /\ \A t \in Session, q \in ReqId : t # s => flight'[t][q] = flight[t][q]
      /\ execs' = execs /\ tombstone' = tombstone /\ stored' = stored
  BY DEF WorkerCrash, ledger, TypeOK
<1>2. FlightAdmitted' /\ LedgerOrder'
  BY <1>1 DEF LedgerInv, FlightAdmitted, LedgerOrder, InFlight, NoFlight
<1>3. SingleFlight'
  BY <1>1 DEF LedgerInv, SingleFlight, InFlight, NoFlight
<1> QED BY <1>2, <1>3 DEF LedgerInv

LEMMA ExpireResponseKeeps ==
  ASSUME TypeOK, LedgerInv, NEW r \in ReqId, ExpireResponse(r)
  PROVE  LedgerInv'
<1>1. /\ flight' = flight /\ execs' = execs /\ tombstone' = tombstone
      /\ \A q \in ReqId : stored'[q] = stored[q] \/ stored'[q] = NoPayload
  BY DEF ExpireResponse, TypeOK
<1> QED BY <1>1 DEF LedgerInv, FlightAdmitted, LedgerOrder, SingleFlight, InFlight

LEMMA LedgerKept == TypeOK /\ LedgerInv /\ [Next]_vars => LedgerInv'
<1> SUFFICES ASSUME TypeOK, LedgerInv, [Next]_vars PROVE LedgerInv'
  OBVIOUS
<1>1. CASE MacStep
  BY <1>1, MacLeavesLedger, LedgerStands
<1>2. CASE \E s \in Session : WorkerCrash(s)
  BY <1>2, WorkerCrashKeeps
<1>3. CASE \E s \in Session, c \in Call : ReadLine(s, c)
  BY <1>3, ReadLineKeeps
<1>4. CASE \E s \in Session, r \in ReqId : Execute(s, r) \/ Complete(s, r)
  BY <1>4, ExecuteKeeps, CompleteKeeps
<1>5. CASE \E r \in ReqId : ExpireResponse(r)
  BY <1>5, ExpireResponseKeeps
<1>6. CASE UNCHANGED vars
  BY <1>6, LedgerStands DEF vars, WorkerVars
<1> QED BY <1>1, <1>2, <1>3, <1>4, <1>5, <1>6 DEF Next, SessionStep, MacStep

-----------------------------------------------------------------------------
(* Type correctness.                                                       *)

CallerType == [pc : {"idle", "lookup", "first", "relookup", "second", "done"},
               client : Client \cup {NoClient},
               answer : [kind : AnswerKind, payload : Payload \cup {NoPayload}]]
AnswerType == [kind : AnswerKind, payload : Payload \cup {NoPayload}]
SessionType == [link : {"unused", "up", "cut", "gone"}, client : Client \cup {NoClient}]

LEMMA CallerMoves ==
  ASSUME NEW x \in CallerType
  PROVE  /\ \A pc \in {"first", "second", "lookup"}, k \in Client : [x EXCEPT !.pc = pc, !.client = k] \in CallerType
         /\ [x EXCEPT !.pc = "lookup"] \in CallerType
         /\ [x EXCEPT !.pc = "relookup", !.client = NoClient] \in CallerType
         /\ \A a \in AnswerType :
               /\ [x EXCEPT !.pc = "done", !.client = NoClient, !.answer = a] \in CallerType
               /\ [x EXCEPT !.pc = "done", !.answer = a] \in CallerType
  BY DEF CallerType, AnswerType

LEMMA SendTyped ==
  ASSUME TypeOK, NEW c \in Call, NEW k \in Client, NEW pc \in {"first", "second"}, Send(c, k, pc)
  PROVE  /\ caller' \in [Call -> CallerType] /\ child' \in [Client -> Session \cup {NoSession}]
         /\ pending' \subseteq Call /\ session' \in [Session -> SessionType]
         /\ lines' \in [Session -> SUBSET Call]
<1> DEFINE s == IF child[k] = NoSession THEN NewSession ELSE child[k]
<1>1. s \in Session
  BY DEF Send, NewSession, Unused, TypeOK
<1>2. [link |-> "up", client |-> k] \in SessionType
  BY DEF SessionType
<1>3. session' \in [Session -> SessionType] /\ child' \in [Client -> Session \cup {NoSession}]
  BY <1>1, <1>2 DEF Send, TypeOK, SessionType
<1>4. caller' \in [Call -> CallerType]
  <2>1. caller \in [Call -> CallerType]
    BY DEF TypeOK, CallerType
  <2>2. [caller[c] EXCEPT !.pc = pc, !.client = k] \in CallerType
    BY <2>1, CallerMoves
  <2>3. caller' = [caller EXCEPT ![c] = [caller[c] EXCEPT !.pc = pc, !.client = k]]
    BY <2>1 DEF Send
  <2> QED BY <2>1, <2>2, <2>3
<1>5. pending' \subseteq Call /\ lines' \in [Session -> SUBSET Call]
  BY <1>1 DEF Send, TypeOK
<1> QED BY <1>3, <1>4, <1>5

LEMMA SettleTyped ==
  ASSUME TypeOK, NEW rejected, NEW retryable \in BOOLEAN, Settle(rejected, retryable)
  PROVE  caller' \in [Call -> CallerType] /\ pool' \in Client \cup {NoClient}
<1>1. caller \in [Call -> CallerType]
  BY DEF TypeOK, CallerType
<1>2. Answer(IF retryable THEN "offline" ELSE "refused") \in AnswerType
  BY DEF Answer, AnswerType, AnswerKind
<1>3. \A c \in Call :
         /\ caller[c] \in CallerType
         /\ [caller[c] EXCEPT !.pc = "relookup", !.client = NoClient] \in CallerType
         /\ [caller[c] EXCEPT !.pc = "done", !.client = NoClient,
                              !.answer = Answer(IF retryable THEN "offline" ELSE "refused")] \in CallerType
  BY <1>1, <1>2, CallerMoves
<1>4. caller' \in [Call -> CallerType]
  BY <1>3 DEF Settle
<1> QED BY <1>4 DEF Settle, TypeOK

LEMMA CloseTyped ==
  ASSUME TypeOK, NEW k \in Client \cup {NoClient}, NEW links \in [Session -> SessionType], Close(k, links)
  PROVE  child' \in [Client -> Session \cup {NoSession}] /\ session' \in [Session -> SessionType]
  BY DEF Close, TypeOK, SessionType

LEMMA CallTyped == ASSUME TypeOK, NEW c \in Call, CallStep(c) PROVE TypeOK'
<1> USE DEF CallerType, SessionType
<1>1. CASE Invoke(c)
  <2>1. CASE pool # NoClient /\ Send(c, pool, "first")
    <3>1. pool \in Client
      BY <2>1 DEF TypeOK
    <3> QED BY <1>1, <2>1, <3>1, SendTyped DEF Invoke, TypeOK, ledger
  <2>2. CASE caller' = [caller EXCEPT ![c].pc = "lookup"] /\ UNCHANGED <<child, pending, session, lines>>
    <3>1. caller \in [Call -> CallerType] /\ [caller[c] EXCEPT !.pc = "lookup"] \in CallerType
      BY CallerMoves DEF TypeOK
    <3>2. caller' \in [Call -> CallerType]
      BY <2>2, <3>1
    <3> QED BY <1>1, <2>2, <3>2 DEF Invoke, TypeOK, ledger
  <2> QED BY <1>1, <2>1, <2>2 DEF Invoke
<1>2. CASE Connect(c)
  <2>1. NewClient \in Client
    BY <1>2 DEF Connect, NewClient
  <2>2. PICK pc \in {"first", "second"} : Send(c, NewClient, pc)
    BY <1>2 DEF Connect
  <2> QED BY <1>2, <2>1, <2>2, SendTyped DEF Connect, TypeOK, ledger
<1>3. CASE ConnectFails(c)
  <2>1. Answer("refused") \in AnswerType
    BY DEF Answer, AnswerType, AnswerKind
  <2>2. caller \in [Call -> CallerType] /\ caller[c] \in CallerType
    BY DEF TypeOK
  <2> HIDE DEF CallerType
  <2>4. [caller[c] EXCEPT !.pc = "done", !.answer = Answer("refused")] \in CallerType
    BY <2>1, <2>2, CallerMoves
  <2>3. caller' \in [Call -> CallerType]
    BY <1>3, <2>2, <2>4 DEF ConnectFails
  <2> USE DEF CallerType
  <2> QED BY <1>3, <2>3 DEF ConnectFails, TypeOK, ledger
<1>4. CASE CallFails(c)
  <2>1. PICK retryable \in BOOLEAN :
           /\ Settle({c}, retryable)
           /\ IF Retried({c}, retryable) # {} THEN Close(caller[c].client, session)
                                              ELSE UNCHANGED <<child, session>>
    BY <1>4 DEF CallFails
  <2>2. caller[c].client \in Client \cup {NoClient} /\ session \in [Session -> SessionType]
    BY DEF TypeOK
  <2>3. child' \in [Client -> Session \cup {NoSession}] /\ session' \in [Session -> SessionType]
    BY <2>1, <2>2, CloseTyped DEF TypeOK
  <2> QED BY <1>4, <2>1, <2>3, SettleTyped DEF CallFails, TypeOK, ledger
<1> QED BY <1>1, <1>2, <1>3, <1>4 DEF CallStep

LEMMA LinkTyped ==
  ASSUME TypeOK, NEW s \in Session, SessionExits(s) \/ Garbled(s) \/ LinkDrops(s)
  PROVE  TypeOK'
<1> USE DEF CallerType, SessionType
<1> DEFINE k == session[s].client
<1>0. k \in Client \cup {NoClient} /\ session \in [Session -> SessionType]
  BY DEF TypeOK
<1>1. CASE SessionExits(s)
  <2> DEFINE links == [session EXCEPT ![s].link = "gone"]
  <2>1. PICK retryable \in BOOLEAN :
           /\ Settle(PendingOn(k), retryable)
           /\ \/ Close(k, links)
              \/ /\ child' = [child EXCEPT ![k] = IF @ = s THEN NoSession ELSE @]
                 /\ session' = links
    BY <1>1 DEF SessionExits
  <2>2. links \in [Session -> SessionType]
    BY <1>0
  <2>3. child' \in [Client -> Session \cup {NoSession}] /\ session' \in [Session -> SessionType]
    <3>1. CASE Close(k, links)
      BY <1>0, <2>2, <3>1, CloseTyped
    <3>2. CASE child' = [child EXCEPT ![k] = IF @ = s THEN NoSession ELSE @] /\ session' = links
      BY <2>2, <3>2 DEF TypeOK
    <3> QED BY <2>1, <3>1, <3>2
  <2> QED BY <1>1, <2>1, <2>3, SettleTyped DEF SessionExits, TypeOK, ledger
<1>2. CASE Garbled(s)
  <2>1. child' \in [Client -> Session \cup {NoSession}] /\ session' \in [Session -> SessionType]
    BY <1>0, <1>2, CloseTyped DEF Garbled, TypeOK
  <2> QED BY <1>2, <2>1, SettleTyped DEF Garbled, TypeOK, ledger
<1>3. CASE LinkDrops(s)
  BY <1>3 DEF LinkDrops, TypeOK, mac, ledger
<1> QED BY <1>1, <1>2, <1>3

LEMMA ReceiveTyped == ASSUME TypeOK, NEW reply \in replies, Receive(reply) PROVE TypeOK'
<1>1. reply.answer \in AnswerType
  BY DEF TypeOK, AnswerType
<1>4. \A c \in Call : caller[c] \in CallerType
  BY DEF TypeOK, CallerType
<1>2. \A c \in Call :
         /\ caller[c] \in CallerType
         /\ [caller[c] EXCEPT !.pc = "done", !.client = NoClient, !.answer = reply.answer] \in CallerType
  BY <1>1, <1>4, CallerMoves
<1>3. caller' \in [Call -> CallerType]
  BY <1>2 DEF Receive
<1> QED BY <1>3 DEF Receive, TypeOK, CallerType, ledger

LEMMA ReplyTyped ==
  ASSUME TypeOK, NEW s \in Session, NEW r \in ReqId, NEW answer \in AnswerType, Reply(s, r, answer)
  PROVE  replies' \subseteq [session : Session, id : ReqId, answer : AnswerType]
  BY DEF Reply, TypeOK, AnswerType

LEMMA FlyTyped ==
  ASSUME TypeOK, NEW s \in Session, NEW r \in ReqId, NEW p \in Payload \cup {NoPayload},
         NEW stage \in {"executing", "executed"}, Fly(s, r, stage, p)
  PROVE  flight' \in [Session -> [ReqId -> [stage : {"none", "executing", "executed"},
                                            payload : Payload \cup {NoPayload}]]]
  BY DEF Fly, TypeOK

LEMMA WorkerTyped == ASSUME TypeOK, NEW s \in Session, NEW c \in Call, ReadLine(s, c) PROVE TypeOK'
<1>1. IdOf[c] \in ReqId /\ PayloadOf[c] \in Payload
  BY RpcAssumption
<1>2. /\ UNCHANGED <<mac, session, execs>>
      /\ lines' \in [Session -> SUBSET Call]
  BY DEF ReadLine, TypeOK
<1>3. \A k \in {"duplicate", "unknown"} : Answer(k) \in AnswerType
  BY DEF Answer, AnswerType, AnswerKind
<1>4. CASE JoinFlight(s, c)
  BY <1>1, <1>2, <1>3, <1>4, ReplyTyped DEF JoinFlight, TypeOK, mac, ledger, AnswerType
<1>5. CASE Replay(s, c)
  <2>1. Result(stored[IdOf[c]]) \in AnswerType
    BY <1>1 DEF Result, AnswerType, AnswerKind, TypeOK
  <2> QED BY <1>1, <1>2, <1>3, <1>5, <2>1, ReplyTyped DEF Replay, TypeOK, mac, ledger, AnswerType
<1>6. CASE Refuse(s, c)
  BY <1>1, <1>2, <1>3, <1>6, ReplyTyped DEF Refuse, Refusal, TypeOK, mac, ledger, AnswerType
<1>7. CASE Admit(s, c)
  BY <1>1, <1>2, <1>7, FlyTyped DEF Admit, TypeOK, mac
<1> QED BY <1>4, <1>5, <1>6, <1>7 DEF ReadLine

LEMMA RunTyped ==
  ASSUME TypeOK, NEW s \in Session, NEW r \in ReqId, Execute(s, r) \/ Complete(s, r)
  PROVE  TypeOK'
<1> DEFINE p == flight[s][r].payload
<1>0. p \in Payload \cup {NoPayload}
  BY DEF TypeOK
<1>1. CASE Execute(s, r)
  BY <1>0, <1>1, FlyTyped DEF Execute, TypeOK, mac, ledger
<1>2. CASE Complete(s, r)
  <2>1. Result(p) \in AnswerType
    BY <1>0 DEF Result, AnswerType, AnswerKind
  <2>2. stored' \in [ReqId -> Payload \cup {NoPayload}] /\ tombstone' \in [ReqId -> Payload \cup {NoPayload}]
    BY <1>0, <1>2 DEF Complete, PutRequest, ledger, TypeOK
  <2>3. flight' \in [Session -> [ReqId -> [stage : {"none", "executing", "executed"},
                                           payload : Payload \cup {NoPayload}]]]
    BY <1>2 DEF Complete, NoFlight, TypeOK
  <2> QED BY <1>2, <2>1, <2>2, <2>3, ReplyTyped DEF Complete, TypeOK, mac, AnswerType
<1> QED BY <1>1, <1>2

LEMMA TypeKept == TypeOK /\ [Next]_vars => TypeOK'
<1> SUFFICES ASSUME TypeOK, [Next]_vars PROVE TypeOK'
  OBVIOUS
<1>1. CASE \E s \in Session : WorkerCrash(s)
  <2>1. PICK s \in Session : WorkerCrash(s)
    BY <1>1
  <2>2. session' \in [Session -> SessionType]
    BY <2>1 DEF WorkerCrash, TypeOK, SessionType
  <2>3. flight' \in [Session -> [ReqId -> [stage : {"none", "executing", "executed"},
                                           payload : Payload \cup {NoPayload}]]]
    BY <2>1 DEF WorkerCrash, TypeOK, NoFlight
  <2>4. lines' \in [Session -> SUBSET Call]
    BY <2>1 DEF WorkerCrash, TypeOK
  <2> QED BY <2>1, <2>2, <2>3, <2>4 DEF WorkerCrash, TypeOK, SessionType, mac, ledger
<1>2. CASE \E r \in ReqId : ExpireResponse(r)
  BY <1>2 DEF ExpireResponse, TypeOK, mac
<1>3. CASE \E c \in Call : CallStep(c)
  BY <1>3, CallTyped
<1>4. CASE \E reply \in replies : Receive(reply)
  BY <1>4, ReceiveTyped
<1>5. CASE \E s \in Session, c \in Call : ReadLine(s, c)
  BY <1>5, WorkerTyped
<1>6. CASE \E s \in Session, r \in ReqId : Execute(s, r) \/ Complete(s, r)
  BY <1>6, RunTyped
<1>7. CASE \E s \in Session : SessionExits(s) \/ Garbled(s) \/ LinkDrops(s)
  BY <1>7, LinkTyped
<1>8. CASE UNCHANGED vars
  BY <1>8 DEF vars, TypeOK
<1> QED BY <1>1, <1>2, <1>3, <1>4, <1>5, <1>6, <1>7, <1>8 DEF Next, SessionStep

LEMMA Initially == Init => TypeOK /\ LedgerInv
<1> SUFFICES ASSUME Init PROVE TypeOK /\ LedgerInv
  OBVIOUS
<1>1. TypeOK
  BY DEF Init, TypeOK, NoAnswer, AnswerKind, NoFlight
<1>2. LedgerInv
  BY DEF Init, LedgerInv, FlightAdmitted, LedgerOrder, SingleFlight, InFlight, NoFlight
<1> QED BY <1>1, <1>2

(* Every variable keeps its type.                                          *)
THEOREM TypeCorrect == Spec => []TypeOK
<1> QED BY Initially, TypeKept, PTL DEF Spec

LEMMA LedgerInvariance == Spec => [](TypeOK /\ LedgerInv)
<1> QED BY Initially, TypeKept, LedgerKept, PTL DEF Spec

(* Under one request id nothing but a chunk read is executed twice, with   *)
(* any number of calls, retries, sessions and Worker crashes.              *)
THEOREM ExecutedOnce == Spec => []AtMostOnce
<1>1. LedgerInv => AtMostOnce
  BY DEF LedgerInv, SingleFlight, AtMostOnce
<1> QED BY <1>1, LedgerInvariance, PTL

-----------------------------------------------------------------------------
(* The first payload under an id owns it.                                  *)

TombstonesStand == \A r \in ReqId : tombstone[r] # NoPayload => tombstone'[r] = tombstone[r]

LEMMA TombstonesKept == TypeOK /\ LedgerInv /\ [Next]_vars => TombstonesStand
<1> SUFFICES ASSUME TypeOK, LedgerInv, [Next]_vars PROVE TombstonesStand
  OBVIOUS
<1>1. CASE MacStep
  BY <1>1, MacLeavesLedger DEF TombstonesStand, WorkerVars
<1>2. CASE \E s \in Session : WorkerCrash(s) \/ \E r \in ReqId : Execute(s, r)
  BY <1>2 DEF WorkerCrash, Execute, ledger, TombstonesStand
<1>3. CASE \E s \in Session, c \in Call : ReadLine(s, c)
  <2>1. PICK s \in Session, c \in Call : ReadLine(s, c)
    BY <1>3
  <2>2. CASE Admit(s, c)
    BY <2>2, RpcAssumption DEF Admit, Existing, Repeatable, TombstonesStand, TypeOK
  <2>3. CASE JoinFlight(s, c) \/ Replay(s, c) \/ Refuse(s, c)
    BY <2>3 DEF JoinFlight, Replay, Refuse, ledger, TombstonesStand
  <2> QED BY <2>1, <2>2, <2>3 DEF ReadLine
<1>4. CASE \E s \in Session, r \in ReqId : Complete(s, r)
  BY <1>4, CompleteKeeps DEF TombstonesStand
<1>5. CASE (\E r \in ReqId : ExpireResponse(r)) \/ UNCHANGED vars
  BY <1>5 DEF ExpireResponse, vars, TombstonesStand
<1> QED BY <1>1, <1>2, <1>3, <1>4, <1>5 DEF Next, SessionStep, MacStep

(* No later line and no late response replaces the payload admitted first. *)
THEOREM FirstPayloadOwnsId == Spec => FirstPayloadWins
<1>1. TypeOK /\ LedgerInv /\ [Next]_vars => [TombstonesStand]_vars
  BY TombstonesKept
<1> QED BY <1>1, LedgerInvariance, PTL DEF Spec, FirstPayloadWins, TombstonesStand

-----------------------------------------------------------------------------
(* The promise to the callers, when each call has an id of its own.        *)

OwnIds == \A c, d \in Call : IdOf[c] = IdOf[d] => c = d

(* Whatever result is stored, or on its way to the Mac, has been executed. *)
Executed ==
    /\ \A s \in Session, r \in ReqId : flight[s][r].stage = "executed" => execs[r] > 0
    /\ \A r \in ReqId : stored[r] # NoPayload => execs[r] > 0
    /\ \A reply \in replies :
          \/ reply.answer = Result(tombstone[reply.id]) /\ execs[reply.id] > 0
             /\ tombstone[reply.id] # NoPayload
          \/ reply.answer = Answer("unknown")

OwnPayloads == \A c \in Call : tombstone[IdOf[c]] \in {NoPayload, PayloadOf[c]}

(* Only a waiting call can be answered, and it has no answer yet.          *)
AnswersOpen ==
    \A c \in Call : /\ c \in pending => Waiting(c)
                    /\ caller[c].pc # "done" => caller[c].answer = NoAnswer

PromiseInv == Executed /\ OwnPayloads /\ AnswersOpen

PromiseRuns == [c \in Call |-> execs[IdOf[c]]]
PromiseAnswer == [c \in Call |-> caller[c].answer]
PromiseStep == [Promise!Next]_<<PromiseRuns, PromiseAnswer>>

LEMMA FailStep ==
  ASSUME NEW failed \in SUBSET Call, NEW kind \in {"refused", "offline", "unknown"}, AnswersOpen,
         \A c \in failed : caller[c].pc # "done" /\ caller'[c].answer = Answer(kind),
         \A c \in Call \ failed : caller'[c].answer = caller[c].answer,
         execs' = execs
  PROVE  PromiseStep
<1>1. \A c \in failed : PromiseAnswer[c] = Promise!Open
  BY DEF AnswersOpen, PromiseAnswer, NoAnswer, Promise!Open
<1>2. PromiseAnswer' = [c \in Call |->
        IF c \in failed THEN [kind |-> kind, payload |-> NoPayload] ELSE PromiseAnswer[c]]
  BY DEF PromiseAnswer, Answer
<1>3. PromiseRuns' = PromiseRuns
  BY DEF PromiseRuns
<1>4. Promise!Fail(failed)
  BY <1>1, <1>2, <1>3 DEF Promise!Fail, PromiseRuns, PromiseAnswer
<1> QED BY <1>4 DEF PromiseStep, Promise!Next

LEMMA SilentStep ==
  ASSUME execs' = execs, \A c \in Call : caller'[c].answer = caller[c].answer
  PROVE  PromiseStep
<1>1. PromiseAnswer' = PromiseAnswer /\ PromiseRuns' = PromiseRuns
  BY DEF PromiseAnswer, PromiseRuns
<1> QED BY <1>1 DEF PromiseStep

(* A transport error reaches only pending or waiting calls.                *)
LEMMA SettlePromise ==
  ASSUME TypeOK, PromiseInv, NEW rejected \in SUBSET Call, NEW retryable \in BOOLEAN,
         Settle(rejected, retryable), \A c \in rejected : Waiting(c),
         pending' \subseteq pending \ rejected, execs' = execs
  PROVE  AnswersOpen' /\ PromiseStep
<1> DEFINE kind == IF retryable THEN "offline" ELSE "refused"
           failed == rejected \ Retried(rejected, retryable)
<1>0. caller \in [Call -> CallerType]
  BY DEF TypeOK, CallerType
<1>1. \A c \in failed : caller[c].pc # "done" /\ caller'[c].pc = "done" /\ caller'[c].answer = Answer(kind)
  BY <1>0 DEF Settle, Waiting, CallerType
<1>2. \A c \in Retried(rejected, retryable) : caller'[c].pc = "relookup" /\ caller'[c].answer = caller[c].answer
  BY <1>0 DEF Settle, CallerType, Retried
<1>3. \A c \in Call \ rejected : caller'[c] = caller[c]
  BY DEF Settle
<1>4. AnswersOpen'
  BY <1>1, <1>2, <1>3 DEF PromiseInv, AnswersOpen, Waiting, Retried
<1>5. PromiseStep
  <2>1. \A c \in Call \ failed : caller'[c].answer = caller[c].answer
    BY <1>2, <1>3
  <2>2. failed \in SUBSET Call /\ kind \in {"refused", "offline", "unknown"}
    OBVIOUS
  <2> HIDE DEF failed, kind
  <2> QED BY <1>1, <2>1, <2>2, FailStep DEF PromiseInv
<1> QED BY <1>4, <1>5

LEMMA SendPromise ==
  ASSUME TypeOK, PromiseInv, NEW c \in Call, NEW k, NEW pc \in {"first", "second"},
         caller[c].pc # "done", Send(c, k, pc), execs' = execs
  PROVE  AnswersOpen' /\ PromiseStep
<1>1. /\ caller'[c].pc = pc /\ caller'[c].answer = caller[c].answer
      /\ \A d \in Call : d # c => caller'[d] = caller[d]
      /\ pending' \subseteq pending \cup {c}
  BY DEF Send, TypeOK
<1>2. AnswersOpen'
  BY <1>1 DEF PromiseInv, AnswersOpen, Waiting
<1>3. PromiseStep
  BY <1>1, SilentStep
<1> QED BY <1>2, <1>3

LEMMA MacStepPromise ==
  ASSUME OwnIds, TypeOK, PromiseInv, MacStep
  PROVE  AnswersOpen' /\ PromiseStep
<1>0. execs' = execs /\ pending \subseteq Call
  BY MacLeavesLedger DEF WorkerVars, TypeOK
<1>1. CASE \E c \in Call : CallStep(c)
  <2>0. PICK c \in Call : CallStep(c)
    BY <1>1
  <2>1. CASE Invoke(c)
    <3>1. CASE pool # NoClient /\ Send(c, pool, "first")
      BY <1>0, <2>1, <3>1, SendPromise DEF Invoke
    <3>2. CASE caller' = [caller EXCEPT ![c].pc = "lookup"] /\ UNCHANGED pending
      <4>1. /\ caller'[c].answer = caller[c].answer /\ caller'[c].pc = "lookup" /\ ~Waiting(c)
            /\ \A d \in Call : d # c => caller'[d] = caller[d]
        BY <2>1, <3>2 DEF Invoke, TypeOK, Waiting
      <4>2. AnswersOpen'
        BY <2>1, <3>2, <4>1 DEF PromiseInv, AnswersOpen, Waiting, Invoke
      <4> QED BY <1>0, <4>1, <4>2, SilentStep
    <3> QED BY <2>1, <3>1, <3>2 DEF Invoke
  <2>2. CASE Connect(c)
    <3>1. PICK pc \in {"first", "second"} : Send(c, NewClient, pc)
      BY <2>2 DEF Connect
    <3> QED BY <1>0, <2>2, <3>1, SendPromise DEF Connect
  <2>3. CASE ConnectFails(c)
    <3>1. /\ caller'[c].pc = "done" /\ caller'[c].answer = Answer("refused")
          /\ \A d \in Call : d # c => caller'[d] = caller[d]
          /\ caller[c].pc # "done" /\ ~Waiting(c) /\ pending' = pending
      BY <2>3 DEF ConnectFails, TypeOK, Waiting
    <3>2. AnswersOpen'
      BY <3>1 DEF PromiseInv, AnswersOpen, Waiting
    <3>3. PromiseStep
      <4>1. {c} \in SUBSET Call /\ "refused" \in {"refused", "offline", "unknown"}
        OBVIOUS
      <4> QED BY <1>0, <3>1, <4>1, FailStep DEF PromiseInv
    <3> QED BY <3>2, <3>3
  <2>4. CASE CallFails(c)
    <3>1. PICK retryable \in BOOLEAN : Settle({c}, retryable)
      BY <2>4 DEF CallFails
    <3>2. Waiting(c) /\ pending' = pending \ SameSlot(c, caller[c].client)
      BY <2>4 DEF CallFails, Timed
    <3>3. c \in pending => c \in SameSlot(c, caller[c].client)
      BY DEF SameSlot, PendingOn
    <3> QED BY <1>0, <3>1, <3>2, <3>3, SettlePromise
  <2> QED BY <2>0, <2>1, <2>2, <2>3, <2>4 DEF CallStep
<1>2. CASE \E s \in Session : SessionExits(s) \/ Garbled(s)
  <2>1. PICK s \in Session, retryable \in BOOLEAN :
           /\ Settle(PendingOn(session[s].client), retryable)
           /\ pending' = pending \ PendingOn(session[s].client)
    BY <1>2 DEF SessionExits, Garbled
  <2>2. PendingOn(session[s].client) \in SUBSET Call
        /\ \A c \in PendingOn(session[s].client) : Waiting(c)
    BY <1>0 DEF PendingOn, PromiseInv, AnswersOpen
  <2> QED BY <1>0, <2>1, <2>2, SettlePromise
<1>3. CASE \E s \in Session : LinkDrops(s)
  BY <1>0, <1>3, SilentStep DEF LinkDrops, mac, PromiseInv, AnswersOpen, Waiting
<1>4. CASE \E reply \in replies : Receive(reply)
  <2>1. PICK reply \in replies : Receive(reply)
    BY <1>4
  <2>2. \A c \in Matched(reply) : c \in Call /\ Waiting(c) /\ IdOf[c] = reply.id
    BY <1>0 DEF Matched, PendingOn, PromiseInv, AnswersOpen
  <2>3. /\ \A c \in Matched(reply) : caller'[c].pc = "done" /\ caller'[c].answer = reply.answer
        /\ \A c \in Call \ Matched(reply) : caller'[c] = caller[c]
        /\ pending' = pending \ Matched(reply)
    <3>1. \A c \in Call : caller[c] \in CallerType
      BY DEF TypeOK, CallerType
    <3>2. caller' = [c \in Call |->
             IF c \in Matched(reply)
             THEN [caller[c] EXCEPT !.pc = "done", !.client = NoClient, !.answer = reply.answer]
             ELSE caller[c]]
      BY <2>1 DEF Receive
    <3>3. ASSUME NEW x \in CallerType, NEW a
          PROVE  /\ [x EXCEPT !.pc = "done", !.client = NoClient, !.answer = a].pc = "done"
                 /\ [x EXCEPT !.pc = "done", !.client = NoClient, !.answer = a].answer = a
      BY DEF CallerType
    <3>4. \A c \in Matched(reply) : caller'[c].pc = "done" /\ caller'[c].answer = reply.answer
      BY <2>2, <3>1, <3>2, <3>3
    <3> QED BY <2>1, <3>2, <3>4 DEF Receive
  <2>4. AnswersOpen'
    BY <2>2, <2>3 DEF PromiseInv, AnswersOpen, Waiting
  <2>5. CASE Matched(reply) = {}
    BY <1>0, <2>3, <2>4, <2>5, SilentStep
  <2>6. CASE reply.answer = Answer("unknown")
    <3>1. Matched(reply) \in SUBSET Call /\ "unknown" \in {"refused", "offline", "unknown"}
      BY <2>2
    <3>2. \A c \in Matched(reply) : caller[c].pc # "done"
      BY <2>2 DEF Waiting
    <3> QED BY <1>0, <2>3, <2>4, <2>6, <3>1, <3>2, FailStep DEF PromiseInv
  <2>7. ASSUME NEW c \in Matched(reply), reply.answer = Result(tombstone[reply.id]),
               execs[reply.id] > 0, tombstone[reply.id] # NoPayload
        PROVE  PromiseStep
    <3>1. c \in Call /\ Matched(reply) = {c} /\ reply.id = IdOf[c]
      BY <2>2, <2>7 DEF OwnIds
    <3>2. reply.answer = Result(PayloadOf[c])
      BY <2>7, <3>1 DEF PromiseInv, OwnPayloads
    <3>3. caller[c].answer = NoAnswer
      BY <2>2, <2>7 DEF PromiseInv, AnswersOpen, Waiting
    <3>4. PromiseRuns' = PromiseRuns /\ PromiseRuns[c] > 0
      BY <1>0, <2>7, <3>1 DEF PromiseRuns
    <3>5. PromiseAnswer[c] = Promise!Open
          /\ PromiseAnswer' = [PromiseAnswer EXCEPT ![c] = [kind |-> "result", payload |-> PayloadOf[c]]]
      BY <2>3, <3>1, <3>2, <3>3 DEF PromiseAnswer, Result, NoAnswer, Promise!Open
    <3>6. Promise!Return(c)
      BY <3>4, <3>5 DEF Promise!Return, PromiseRuns, PromiseAnswer
    <3> QED BY <3>1, <3>6 DEF PromiseStep, Promise!Next
  <2> QED BY <2>1, <2>4, <2>5, <2>6, <2>7 DEF PromiseInv, Executed
<1> QED BY <1>1, <1>2, <1>3, <1>4 DEF MacStep

LEMMA MacKeepsExecuted ==
  ASSUME TypeOK, PromiseInv, UNCHANGED WorkerVars, replies' \subseteq replies
  PROVE  Executed' /\ OwnPayloads'
  BY DEF PromiseInv, Executed, OwnPayloads, WorkerVars

LEMMA WorkerLeavesCalls ==
  ASSUME PromiseInv, UNCHANGED mac PROVE AnswersOpen'
  BY DEF PromiseInv, AnswersOpen, Waiting, mac

LEMMA ReadLinePromise ==
  ASSUME OwnIds, TypeOK, LedgerInv, PromiseInv, NEW s \in Session, NEW c \in Call, ReadLine(s, c)
  PROVE  PromiseInv' /\ PromiseStep
<1> DEFINE r == IdOf[c]
<1>0. /\ r \in ReqId /\ PayloadOf[c] \in Payload /\ PayloadOf[c] # NoPayload
      /\ execs' = execs /\ UNCHANGED mac /\ tombstone[r] \in {NoPayload, PayloadOf[c]}
  BY RpcAssumption DEF ReadLine, PromiseInv, OwnPayloads
<1>1. AnswersOpen' /\ PromiseStep
  BY <1>0, WorkerLeavesCalls, SilentStep DEF mac
<1>2. CASE JoinFlight(s, c)
  <2>1. flight[s][r].payload = PayloadOf[c]
    BY <1>0, <1>2 DEF JoinFlight, LedgerInv, FlightAdmitted, InFlight
  <2>2. UNCHANGED WorkerVars /\ replies' = replies
    BY <1>0, <1>2, <2>1 DEF JoinFlight, ledger, WorkerVars
  <2> QED BY <1>1, <2>2, MacKeepsExecuted DEF PromiseInv
<1>3. CASE Replay(s, c)
  <2>1. stored[r] = PayloadOf[c] /\ stored[r] = tombstone[r] /\ execs[r] > 0
    BY <1>0, <1>3 DEF Replay, LedgerInv, LedgerOrder, PromiseInv, Executed
  <2>2. /\ UNCHANGED WorkerVars
        /\ replies' = replies \cup {[session |-> s, id |-> r, answer |-> Result(tombstone[r])]}
    BY <1>0, <1>3, <2>1 DEF Replay, Reply, ledger, WorkerVars
  <2>3. Executed' /\ OwnPayloads'
    BY <1>0, <2>1, <2>2 DEF PromiseInv, Executed, OwnPayloads, WorkerVars
  <2> QED BY <1>1, <2>3 DEF PromiseInv
<1>4. CASE Refuse(s, c)
  <2>1. /\ UNCHANGED WorkerVars
        /\ replies' = replies \cup {[session |-> s, id |-> r, answer |-> Answer("unknown")]}
    BY <1>0, <1>4 DEF Refuse, Refusal, Existing, Reply, ledger, WorkerVars
  <2>2. Executed' /\ OwnPayloads'
    BY <2>1 DEF PromiseInv, Executed, OwnPayloads, WorkerVars
  <2> QED BY <1>1, <2>2 DEF PromiseInv
<1>5. CASE Admit(s, c)
  <2>1. /\ flight'[s][r] = [stage |-> "executing", payload |-> PayloadOf[c]]
        /\ \A t \in Session, q \in ReqId : t # s \/ q # r => flight'[t][q] = flight[t][q]
    BY <1>0, <1>5, FlyEffect DEF Admit
  <2>2. /\ tombstone'[r] = PayloadOf[c]
        /\ \A q \in ReqId : q # r => tombstone'[q] = tombstone[q]
        /\ stored' = stored /\ replies' = replies
    BY <1>0, <1>5 DEF Admit, TypeOK
  <2>3. OwnPayloads'
    BY <1>0, <2>2, RpcAssumption DEF PromiseInv, OwnPayloads, OwnIds
  <2>4. \A reply \in replies : reply.id \in ReqId
    BY DEF TypeOK
  <2>5. \A q \in ReqId : tombstone[q] # NoPayload => tombstone'[q] = tombstone[q]
    BY <1>0, <2>2
  <2> HIDE DEF r
  <2>6. Executed'
    BY <1>0, <2>1, <2>2, <2>4, <2>5 DEF PromiseInv, Executed
  <2> QED BY <1>1, <2>3, <2>6 DEF PromiseInv
<1> QED BY <1>2, <1>3, <1>4, <1>5 DEF ReadLine

(* A second execution is one of a chunk read.                              *)
LEMMA ExecutePromise ==
  ASSUME OwnIds, TypeOK, LedgerInv, PromiseInv, NEW s \in Session, NEW r \in ReqId, Execute(s, r)
  PROVE  PromiseInv' /\ PromiseStep
<1>1. /\ flight'[s][r] = [stage |-> "executed", payload |-> flight[s][r].payload]
      /\ flight[s][r].stage = "executing"
      /\ \A t \in Session, q \in ReqId : t # s \/ q # r => flight'[t][q] = flight[t][q]
  BY FlyEffect DEF Execute
<1>2. /\ execs' = [execs EXCEPT ![r] = @ + 1] /\ UNCHANGED <<mac, replies, tombstone, stored>>
      /\ \A q \in ReqId : execs[q] \in Nat
  BY DEF Execute, ledger, TypeOK
<1>3. \A q \in ReqId : execs'[q] = IF q = r THEN execs[q] + 1 ELSE execs[q]
  BY <1>2 DEF TypeOK
<1>4. \A reply \in replies : reply.id \in ReqId
  BY DEF TypeOK
<1>5. Executed' /\ OwnPayloads'
  BY <1>1, <1>2, <1>3, <1>4 DEF PromiseInv, Executed, OwnPayloads
<1>6. PromiseAnswer' = PromiseAnswer
  BY <1>2 DEF PromiseAnswer, mac
<1>7. CASE \E c \in Call : IdOf[c] = r
  <2>1. PICK c \in Call : IdOf[c] = r
    BY <1>7
  <2>2. PromiseRuns' = [PromiseRuns EXCEPT ![c] = @ + 1]
    BY <1>3, <2>1, RpcAssumption DEF PromiseRuns, OwnIds
  <2>3. tombstone[r] = PayloadOf[c] /\ tombstone[r] # NoPayload
    BY <1>1, <2>1 DEF PromiseInv, OwnPayloads, LedgerInv, FlightAdmitted, InFlight
  <2>4. PromiseRuns[c] = 0 \/ PayloadOf[c] \in ReplaySafe
    BY <1>1, <2>1, <2>3 DEF LedgerInv, SingleFlight, PromiseRuns
  <2>5. Promise!Execute(c)
    BY <1>6, <2>2, <2>4 DEF Promise!Execute, PromiseRuns, PromiseAnswer
  <2> QED BY <1>2, <1>5, <2>5, WorkerLeavesCalls DEF PromiseInv, PromiseStep, Promise!Next
<1>8. CASE \A c \in Call : IdOf[c] # r
  <2>1. PromiseRuns' = PromiseRuns
    BY <1>3, <1>8, RpcAssumption DEF PromiseRuns
  <2> QED BY <1>2, <1>5, <1>6, <2>1, WorkerLeavesCalls DEF PromiseInv, PromiseStep
<1> QED BY <1>7, <1>8

LEMMA CompletePromise ==
  ASSUME TypeOK, LedgerInv, PromiseInv, NEW s \in Session, NEW r \in ReqId, Complete(s, r)
  PROVE  PromiseInv' /\ PromiseStep
<1>1. /\ flight'[s][r].stage = "none"
      /\ \A t \in Session, q \in ReqId : t # s \/ q # r => flight'[t][q] = flight[t][q]
  BY DEF Complete, TypeOK, NoFlight
<1>2. execs' = execs /\ UNCHANGED mac /\ tombstone' = tombstone
  BY CompleteKeeps DEF Complete
<1>3. flight[s][r].payload = tombstone[r] /\ tombstone[r] # NoPayload /\ execs[r] > 0
  BY DEF Complete, LedgerInv, FlightAdmitted, InFlight, PromiseInv, Executed
<1>4. replies' = replies \cup {[session |-> s, id |-> r, answer |-> Result(tombstone[r])]}
  BY <1>3 DEF Complete, Reply
<1>5. \A q \in ReqId : stored'[q] = stored[q] \/ q = r
  BY DEF Complete, PutRequest, ledger, TypeOK
<1>6. Executed' /\ OwnPayloads'
  BY <1>1, <1>2, <1>3, <1>4, <1>5 DEF PromiseInv, Executed, OwnPayloads
<1> QED BY <1>2, <1>6, WorkerLeavesCalls, SilentStep DEF PromiseInv, mac

LEMMA LossPromise ==
  ASSUME TypeOK, PromiseInv, (\E s \in Session : WorkerCrash(s)) \/ (\E r \in ReqId : ExpireResponse(r))
  PROVE  PromiseInv' /\ PromiseStep
<1>1. /\ execs' = execs /\ UNCHANGED <<mac, replies, tombstone>>
      /\ \A t \in Session, q \in ReqId : flight'[t][q] = flight[t][q] \/ flight'[t][q].stage = "none"
      /\ \A q \in ReqId : stored'[q] = stored[q] \/ stored'[q] = NoPayload
  <2>1. CASE \E s \in Session : WorkerCrash(s)
    BY <2>1 DEF WorkerCrash, ledger, TypeOK, NoFlight
  <2>2. CASE \E r \in ReqId : ExpireResponse(r)
    BY <2>2 DEF ExpireResponse, TypeOK
  <2> QED BY <2>1, <2>2
<1>2. Executed' /\ OwnPayloads'
  BY <1>1 DEF PromiseInv, Executed, OwnPayloads
<1> QED BY <1>1, <1>2, WorkerLeavesCalls, SilentStep DEF PromiseInv, mac

LEMMA PromiseKept ==
  ASSUME OwnIds, TypeOK, LedgerInv, PromiseInv, [Next]_vars
  PROVE  PromiseInv' /\ PromiseStep
<1>1. CASE MacStep
  BY <1>1, MacStepPromise, MacLeavesLedger, MacKeepsExecuted DEF PromiseInv
<1>2. CASE \E s \in Session, c \in Call : ReadLine(s, c)
  BY <1>2, ReadLinePromise
<1>3. CASE \E s \in Session, r \in ReqId : Execute(s, r) \/ Complete(s, r)
  BY <1>3, ExecutePromise, CompletePromise
<1>4. CASE (\E s \in Session : WorkerCrash(s)) \/ (\E r \in ReqId : ExpireResponse(r))
  BY <1>4, LossPromise
<1>5. CASE UNCHANGED vars
  BY <1>5, SilentStep DEF vars, mac, PromiseInv, Executed, OwnPayloads, AnswersOpen, Waiting
<1> QED BY <1>1, <1>2, <1>3, <1>4, <1>5 DEF Next, SessionStep, MacStep

LEMMA PromiseInitially == Init => PromiseInv /\ Promise!Init
<1> SUFFICES ASSUME Init PROVE PromiseInv /\ Promise!Init
  OBVIOUS
<1>1. PromiseInv
  <2>1. Executed
    BY DEF Init, Executed, NoFlight
  <2>2. OwnPayloads /\ AnswersOpen
    BY RpcAssumption DEF Init, OwnPayloads, AnswersOpen
  <2> QED BY <2>1, <2>2 DEF PromiseInv
<1>2. Promise!Init
  BY RpcAssumption DEF Init, Promise!Init, Promise!Open, NoAnswer
<1> QED BY <1>1, <1>2

(* SshPool, the Workers and the ledger implement the promise of a call: no *)
(* second execution, and no result but of the call's own executed request. *)
THEOREM CallsKeepPromise ==
  ASSUME OwnIds
  PROVE  Spec => KeepsPromise
<1>1. TypeOK /\ LedgerInv /\ PromiseInv /\ [Next]_vars => PromiseInv' /\ PromiseStep
  BY PromiseKept
<1>2. Spec => Promise!Init /\ [][Promise!Next]_<<PromiseRuns, PromiseAnswer>>
  BY <1>1, PromiseInitially, LedgerInvariance, PTL DEF Spec, PromiseStep
<1>3. KeepsPromise <=> Promise!Init /\ [][Promise!Next]_<<PromiseRuns, PromiseAnswer>>
  BY DEF KeepsPromise, Promise!Spec, Promise!vars, PromiseRuns, PromiseAnswer
<1> QED BY <1>2, <1>3
=============================================================================
