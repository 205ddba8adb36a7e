----------------------------- MODULE RpcSession -----------------------------
(***************************************************************************)
(* One node's RPC path: the Mac's SshPool with its SshRpcClients, the SSH  *)
(* sessions they start, the Worker process at the end of each session      *)
(* (WorkerStdioServer) and the request ledger in SQLite that all Worker    *)
(* processes share. A lost session is replaced and the call sent again     *)
(* with the same request id, while the Worker of the old session may still *)
(* be reading, executing or answering the first line.                      *)
(*                                                                         *)
(* A step is what one event loop does between two awaits: promise          *)
(* rejections run to their next await within the event that causes them.   *)
(*                                                                         *)
(* A definition written just above the one it resembles, and used nowhere, *)
(* is a mutant: the bug that the properties named in PROJECT.json exclude. *)
(***************************************************************************)
EXTENDS Naturals

CONSTANTS
    Call,        \* invocations of SshPool.call
    ReqId,       \* request ids
    Payload,     \* what the Worker hashes: operation and arguments
    IdOf,        \* [Call -> ReqId]; the pool draws a fresh UUID by default
    PayloadOf,   \* [Call -> Payload]
    ReplaySafe,  \* payloads of transfer_read_chunk
    Client,      \* SshRpcClient objects
    Session,     \* ssh child processes, each with its Worker process
    NoClient, NoSession, NoPayload

ASSUME RpcAssumption ==
    /\ IdOf \in [Call -> ReqId] /\ PayloadOf \in [Call -> Payload]
    /\ ReplaySafe \subseteq Payload
    /\ NoClient \notin Client /\ NoSession \notin Session /\ NoPayload \notin Payload

VARIABLES
    caller,      \* where each call is, the client it waits on, its answer
    pool,        \* SshPool.clients for the node
    made,        \* the clients created so far
    child,       \* SshRpcClient.child
    pending,     \* calls registered in the pending map of their client
    session,     \* each session's link as the Mac sees it, and its client
    lines,       \* request lines a Worker has not read yet
    flight,      \* WorkerStdioServer.inFlight, per Worker process
    replies,     \* response lines the Mac has not read yet
    tombstone,   \* request_tombstones: the payload admitted under an id
    stored,      \* requests: the payload whose response is stored
    execs        \* how often runtime.execute ran under an id

mac == <<caller, pool, made, child, pending>>
ledger == <<tombstone, stored>>
vars == <<caller, pool, made, child, pending, session, lines, flight, replies,
          tombstone, stored, execs>>

NoAnswer == [kind |-> "none", payload |-> NoPayload]
Answer(kind) == [kind |-> kind, payload |-> NoPayload]
Result(p) == [kind |-> "result", payload |-> p]
AnswerKind == {"none", "result", "duplicate", "unknown", "offline", "refused"}

NoFlight == [stage |-> "none", payload |-> NoPayload]

Init ==
    /\ caller = [c \in Call |-> [pc |-> "idle", client |-> NoClient, answer |-> NoAnswer]]
    /\ pool = NoClient
    /\ made = {}
    /\ child = [k \in Client |-> NoSession]
    /\ pending = {}
    /\ session = [s \in Session |-> [link |-> "unused", client |-> NoClient]]
    /\ lines = [s \in Session |-> {}]
    /\ flight = [s \in Session |-> [r \in ReqId |-> NoFlight]]
    /\ replies = {}
    /\ tombstone = [r \in ReqId |-> NoPayload]
    /\ stored = [r \in ReqId |-> NoPayload]
    /\ execs = [r \in ReqId |-> 0]

Waiting(c) == caller[c].pc \in {"first", "second"}
PendingOn(k) == {c \in pending : caller[c].client = k}
MatchedByOrder(reply) == PendingOn(session[reply.session].client)
Matched(reply) == {c \in PendingOn(session[reply.session].client) : IdOf[c] = reply.id}
SameSlot(c, k) == {d \in PendingOn(k) : IdOf[d] = IdOf[c]}

-----------------------------------------------------------------------------
(* A new object or process has the first identity that is not taken.       *)
NewClient == CHOOSE k \in Client : k \notin made
Unused == {s \in Session : session[s].link = "unused"}
NewSession == CHOOSE s \in Session : s \in Unused

(* SshRpcClient.call on client k: start a session unless one is there,     *)
(* register the call under its id, write the line.                         *)
Send(c, k, pc) ==
    LET s == IF child[k] = NoSession THEN NewSession ELSE child[k] IN
    /\ IF child[k] = NoSession
       THEN /\ Unused # {}
            /\ session' = [session EXCEPT ![s] = [link |-> "up", client |-> k]]
            /\ child' = [child EXCEPT ![k] = s]
       ELSE UNCHANGED <<session, child>>
    /\ caller' = [caller EXCEPT ![c].pc = pc, ![c].client = k]
    /\ pending' = (pending \ SameSlot(c, k)) \cup {c}
    /\ lines' = IF session[s].link = "cut" THEN lines ELSE [lines EXCEPT ![s] = @ \cup {c}]

(* SshPool.call: the client of the node, or else the awaited node config.  *)
Invoke(c) ==
    /\ caller[c].pc = "idle"
    /\ \/ pool # NoClient /\ Send(c, pool, "first")
       \/ /\ pool = NoClient
          /\ caller' = [caller EXCEPT ![c].pc = "lookup"]
          /\ UNCHANGED <<child, pending, session, lines>>
    /\ UNCHANGED <<pool, made, flight, replies, ledger, execs>>

(* requireNode returned. Whatever the pool holds by now is overwritten.    *)
Connect(c) ==
    /\ caller[c].pc \in {"lookup", "relookup"}
    /\ Client \ made # {}
    /\ pool' = NewClient
    /\ made' = made \cup {NewClient}
    /\ Send(c, NewClient, IF caller[c].pc = "lookup" THEN "first" ELSE "second")
    /\ UNCHANGED <<flight, replies, ledger, execs>>

(* The node config or the pinned host key is refused.                      *)
ConnectFails(c) ==
    /\ caller[c].pc \in {"lookup", "relookup"}
    /\ caller' = [caller EXCEPT ![c].pc = "done", ![c].answer = Answer("refused")]
    /\ UNCHANGED <<pool, made, child, pending, session, lines, flight, replies, ledger, execs>>

(* The calls in rejected, all on client k, get a transport error. A first  *)
(* attempt that may be retried closes the client, drops whatever client    *)
(* the pool holds and looks the node up again.                             *)
Retried(rejected, retryable) == {c \in rejected : retryable /\ caller[c].pc = "first"}
Settle(rejected, retryable) ==
    /\ caller' = [c \in Call |->
          IF c \notin rejected THEN caller[c]
          ELSE IF c \in Retried(rejected, retryable)
          THEN [caller[c] EXCEPT !.pc = "relookup", !.client = NoClient]
          ELSE [caller[c] EXCEPT !.pc = "done", !.client = NoClient,
                                 !.answer = Answer(IF retryable THEN "offline" ELSE "refused")]]
    /\ pool' = IF Retried(rejected, retryable) = {} THEN pool ELSE NoClient

(* close(): the client's ssh process is killed, its exit comes later.      *)
Close(k, links) ==
    /\ child' = [child EXCEPT ![k] = NoSession]
    /\ session' = IF child[k] # NoSession /\ links[child[k]].link = "up"
                  THEN [links EXCEPT ![child[k]].link = "cut"] ELSE links

(* Each call has a timer of its own, also one whose pending entry another  *)
(* call with the same id has taken over.                                   *)
TimedByEntry(c) == c \in pending
Timed(c) == Waiting(c)

(* The response timer of a call, or the error of its own write.            *)
CallFails(c) ==
    LET k == caller[c].client IN
    /\ Timed(c)
    /\ \E retryable \in BOOLEAN :
          /\ Settle({c}, retryable)
          /\ IF Retried({c}, retryable) # {} THEN Close(k, session) ELSE UNCHANGED <<child, session>>
    /\ pending' = pending \ SameSlot(c, k)
    /\ UNCHANGED <<made, lines, flight, replies, ledger, execs>>

(* The exit event of an ssh process fails every call pending on its        *)
(* client, also when the client runs another process by now.               *)
SessionExits(s) ==
    LET k == session[s].client
        links == [session EXCEPT ![s].link = "gone"] IN
    /\ session[s].link = "cut"
    /\ \E retryable \in BOOLEAN :
          /\ Settle(PendingOn(k), retryable)
          /\ IF Retried(PendingOn(k), retryable) # {} THEN Close(k, links)
             ELSE /\ child' = [child EXCEPT ![k] = IF @ = s THEN NoSession ELSE @]
                  /\ session' = links
    /\ pending' = pending \ PendingOn(k)
    /\ UNCHANGED <<made, lines, flight, replies, ledger, execs>>

(* A line that is too long or no RPC response fails every pending call;    *)
(* the long one also closes the client, which stays in the pool.           *)
Garbled(s) ==
    LET k == session[s].client IN
    /\ session[s].link = "up"
    /\ Settle(PendingOn(k), FALSE)
    /\ Close(k, session) \/ UNCHANGED <<child, session>>
    /\ pending' = pending \ PendingOn(k)
    /\ UNCHANGED <<made, lines, flight, replies, ledger, execs>>

(* handleLine: a response is matched by id; without a match it is dropped. *)
Receive(reply) ==
    /\ session[reply.session].link \in {"up", "cut"}
    /\ replies' = replies \ {reply}
    /\ caller' = [c \in Call |->
          IF c \in Matched(reply)
          THEN [caller[c] EXCEPT !.pc = "done", !.client = NoClient, !.answer = reply.answer]
          ELSE caller[c]]
    /\ pending' = pending \ Matched(reply)
    /\ UNCHANGED <<pool, made, child, session, lines, flight, ledger, execs>>

(* The connection or the ssh process dies.                                 *)
LinkDrops(s) ==
    /\ session[s].link = "up"
    /\ session' = [session EXCEPT ![s].link = "cut"]
    /\ UNCHANGED <<mac, lines, flight, replies, ledger, execs>>

-----------------------------------------------------------------------------
(* The Worker process of session s.                                        *)

Reply(s, r, answer) == replies' = replies \cup {[session |-> s, id |-> r, answer |-> answer]}
Fly(s, r, stage, p) == flight' = [flight EXCEPT ![s][r] = [stage |-> stage, payload |-> p]]

(* A request that this process has in flight already: the same payload     *)
(* joins its response.                                                     *)
JoinFlight(s, c) ==
    LET r == IdOf[c] IN
    /\ flight[s][r].stage # "none"
    /\ IF flight[s][r].payload = PayloadOf[c]
       THEN UNCHANGED replies ELSE Reply(s, r, Answer("duplicate"))
    /\ UNCHANGED <<flight, ledger>>

(* beginRequest found a stored response.                                   *)
Replay(s, c) ==
    LET r == IdOf[c] IN
    /\ flight[s][r].stage = "none" /\ stored[r] # NoPayload
    /\ Reply(s, r, IF stored[r] = PayloadOf[c] THEN Result(stored[r]) ELSE Answer("duplicate"))
    /\ UNCHANGED <<flight, ledger>>

Existing(r) == stored[r] = NoPayload /\ tombstone[r] # NoPayload
RepeatableByHash(c) == tombstone[IdOf[c]] = PayloadOf[c]
RepeatableByOperation(c) == PayloadOf[c] \in ReplaySafe
Repeatable(c) == PayloadOf[c] \in ReplaySafe /\ tombstone[IdOf[c]] = PayloadOf[c]

Refusal(c) == IF tombstone[IdOf[c]] = PayloadOf[c] THEN "unknown" ELSE "duplicate"

(* beginRequest found the tombstone alone: nothing but a chunk read is     *)
(* repeated.                                                               *)
Refuse(s, c) ==
    LET r == IdOf[c] IN
    /\ flight[s][r].stage = "none" /\ Existing(r) /\ ~Repeatable(c)
    /\ Reply(s, r, Answer(Refusal(c)))
    /\ UNCHANGED <<flight, ledger>>

(* beginRequest admitted the id, or the operation may be repeated.         *)
Admit(s, c) ==
    LET r == IdOf[c] IN
    /\ flight[s][r].stage = "none"
    /\ stored[r] = NoPayload
    /\ Existing(r) => Repeatable(c)
    /\ tombstone' = [tombstone EXCEPT ![r] = PayloadOf[c]]
    /\ Fly(s, r, "executing", PayloadOf[c])
    /\ UNCHANGED <<stored, replies>>

ReadLine(s, c) ==
    /\ c \in lines[s]
    /\ lines' = [lines EXCEPT ![s] = @ \ {c}]
    /\ JoinFlight(s, c) \/ Replay(s, c) \/ Refuse(s, c) \/ Admit(s, c)
    /\ UNCHANGED <<mac, session, execs>>

(* runtime.execute takes its effect.                                       *)
Execute(s, r) ==
    /\ flight[s][r].stage = "executing"
    /\ Fly(s, r, "executed", flight[s][r].payload)
    /\ execs' = [execs EXCEPT ![r] = @ + 1]
    /\ UNCHANGED <<mac, session, lines, replies, ledger>>

(* putRequest, except after a chunk read, then the response line.          *)
PutRequest(r, p) ==
    IF p \in ReplaySafe THEN UNCHANGED ledger
    ELSE /\ stored' = [stored EXCEPT ![r] = p]
         /\ tombstone' = [tombstone EXCEPT ![r] = p]
Complete(s, r) ==
    LET p == flight[s][r].payload IN
    /\ flight[s][r].stage = "executed"
    /\ PutRequest(r, p)
    /\ Reply(s, r, Result(p))
    /\ flight' = [flight EXCEPT ![s][r] = NoFlight]
    /\ UNCHANGED <<mac, session, lines, execs>>

(* The process dies: with it go what it reads, executes and answers.       *)
WorkerCrash(s) ==
    /\ session[s].link # "unused"
    /\ lines[s] # {} \/ \E r \in ReqId : flight[s][r] # NoFlight
    /\ lines' = [lines EXCEPT ![s] = {}]
    /\ flight' = [flight EXCEPT ![s] = [r \in ReqId |-> NoFlight]]
    /\ session' = [session EXCEPT ![s].link = IF @ = "up" THEN "cut" ELSE @]
    /\ UNCHANGED <<mac, replies, ledger, execs>>

(* pruneStorage deletes a response after request_retention_days, at least  *)
(* a day, which outlasts the timers of every call.                         *)
ExpireResponse(r) ==
    /\ stored[r] # NoPayload
    /\ \A c \in Call : IdOf[c] = r => caller[c].pc \in {"idle", "done"}
    /\ stored' = [stored EXCEPT ![r] = NoPayload]
    /\ UNCHANGED <<mac, session, lines, flight, replies, tombstone, execs>>

-----------------------------------------------------------------------------
CallStep(c) == Invoke(c) \/ Connect(c) \/ ConnectFails(c) \/ CallFails(c)
SessionStep(s) ==
    \/ SessionExits(s) \/ Garbled(s) \/ LinkDrops(s) \/ WorkerCrash(s)
    \/ \E c \in Call : ReadLine(s, c)
    \/ \E r \in ReqId : Execute(s, r) \/ Complete(s, r)

Next ==
    \/ \E c \in Call : CallStep(c)
    \/ \E s \in Session : SessionStep(s)
    \/ \E reply \in replies : Receive(reply)
    \/ \E r \in ReqId : ExpireResponse(r)

Spec == Init /\ [][Next]_vars

(* The event loops keep running and every call has a response timer.       *)
FairSpec == Spec /\ \A c \in Call : WF_vars(Connect(c) \/ ConnectFails(c)) /\ WF_vars(CallFails(c))

-----------------------------------------------------------------------------
(* Properties.                                                             *)

TypeOK ==
    /\ caller \in [Call -> [pc : {"idle", "lookup", "first", "relookup", "second", "done"},
                            client : Client \cup {NoClient},
                            answer : [kind : AnswerKind, payload : Payload \cup {NoPayload}]]]
    /\ pool \in Client \cup {NoClient}
    /\ made \subseteq Client
    /\ child \in [Client -> Session \cup {NoSession}]
    /\ pending \subseteq Call
    /\ session \in [Session -> [link : {"unused", "up", "cut", "gone"}, client : Client \cup {NoClient}]]
    /\ lines \in [Session -> SUBSET Call]
    /\ flight \in [Session -> [ReqId -> [stage : {"none", "executing", "executed"},
                                         payload : Payload \cup {NoPayload}]]]
    /\ replies \subseteq [session : Session, id : ReqId,
                          answer : [kind : AnswerKind, payload : Payload \cup {NoPayload}]]
    /\ tombstone \in [ReqId -> Payload \cup {NoPayload}]
    /\ stored \in [ReqId -> Payload \cup {NoPayload}]
    /\ execs \in [ReqId -> Nat]

(* An operation is executed at most once under a request id, however its   *)
(* call is retried and whichever Workers die; chunk reads excepted.        *)
AtMostOnce == \A r \in ReqId : tombstone[r] \notin ReplaySafe => execs[r] <= 1

(* The payload first admitted under a request id owns the id: no later     *)
(* line, and no response stored late, puts another one in its place.       *)
FirstPayloadWins ==
    [][\A r \in ReqId : tombstone[r] # NoPayload => tombstone'[r] = tombstone[r]]_vars

(* Every call returns to its caller.                                       *)
EveryCallReturns == \A c \in Call : caller[c].pc # "idle" ~> caller[c].pc = "done"

(* What the caller of SshPool.call may rely on when ids are its own.       *)
Promise == INSTANCE RpcPromise WITH
    runs <- [c \in Call |-> execs[IdOf[c]]],
    answer <- [c \in Call |-> caller[c].answer]

(* A call returns its own result, and only after its operation ran; the    *)
(* operation of a call runs once at most, whatever the call returns.       *)
KeepsPromise == Promise!Spec
=============================================================================
