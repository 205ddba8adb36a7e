------------------------------ MODULE Pairing ------------------------------
(* How a Mac and Windows machines come to trust each other and part again:  *)
(* the Mac's commands pair request, pair accept, reconnect and pair revoke  *)
(* (pairing-client.ts), the app's elevated helper that adds and revokes a   *)
(* key (Elevated/Program.cs, AuthorizedKeysManager.cs, PairingStore.cs) and *)
(* the Worker's revoke over SSH (authorized-keys.ts).  Every file is read   *)
(* whole and replaced whole; a command changes several files one after the  *)
(* other, and may fail or die between them.                                 *)
(*                                                                          *)
(* A node id stands for the key that the Mac made for it; a machine stands  *)
(* for its host key.  A code is known by its nonce, and the user carries it *)
(* where he likes.  One command runs on the Mac at a time, one helper and   *)
(* one revoke of the Worker on each machine.                                *)
(*                                                                          *)
(* A definition written just above the one it resembles, and used nowhere,  *)
(* is a mutant: the bug that the properties named in PROJECT.json exclude.  *)
EXTENDS Naturals

CONSTANTS
  Node,        \* node ids of the Mac's configuration
  Machine,     \* Windows machines
  Address,     \* LAN addresses
  Nonce,       \* nonces of the request codes
  None,
  MaxMishaps   \* bound: failures, deaths and changes of the network

ASSUME BoundAssumption == MaxMishaps \in Nat

VARIABLES
  config,    \* Mac: host and pinned machine of each node (proven is history: a
             \* verification has reached it so)
  hosts,     \* Mac: lines of known_hosts
  accepted,  \* Mac: nodes with a pairing record
  pending,   \* Mac: requests not yet accepted
  cli,       \* Mac: the command that runs
  keys,      \* Windows: managed lines of administrators_authorized_keys
  records,   \* Windows: pairing records
  used,      \* Windows: nonces already used
  helper,    \* Windows: the elevated helper
  worker,    \* Windows: the Worker's revoke, that ssh has started
  codes,     \* request and response codes the user holds
  net,       \* who answers at each address
  mishaps,
  excused    \* history: the nodes and machines that lose their protection by a
             \* death, a failed restore, a swallowed error, a lost write, or
             \* another node's revoke or pairing at their address

mac == <<config, hosts, accepted, pending>>
win == <<keys, records, used, helper, worker>>
vars == <<config, hosts, accepted, pending, cli, keys, records, used, helper, worker,
          codes, net, mishaps, excused>>

Line == [host : Address, fp : Machine]
Code == [nonce : Nonce, node : Node, from : Machine \cup {None}]
Rest == [pc |-> "idle", node |-> None, nonce |-> None, host |-> None, fp |-> None,
         config |-> None, hosts |-> {}]
Resting == [pc |-> "idle", node |-> None, copy |-> {}]
Helper == [pc |-> "idle", node |-> None, nonce |-> None, copy |-> {}, added |-> FALSE]

Init ==
  /\ config = [n \in Node |-> None]
  /\ hosts = {} /\ accepted = {} /\ pending = {} /\ codes = {}
  /\ cli = Rest
  /\ keys = [m \in Machine |-> {}]
  /\ records = [m \in Machine |-> {}]
  /\ used = [m \in Machine |-> {}]
  /\ helper = [m \in Machine |-> Helper]
  /\ worker = [m \in Machine |-> Resting]
  /\ net \in [Address -> Machine \cup {None}]
  /\ mishaps = 0
  /\ excused = {}

At(pc) == cli.pc = pc
Goes(pc) == cli' = [cli EXCEPT !.pc = pc]
Configured == {n \in Node : config[n] # None}
Without(lines, a) == {l \in lines : l.host # a}
Mishap == mishaps < MaxMishaps /\ mishaps' = mishaps + 1
Elsewhere == UNCHANGED <<win, codes, net, mishaps>>

\* known_hosts as a command reads it: an error that is swallowed reads as an
\* empty file, and what the command writes then lacks every line.
Reads(lines) ==
  \/ lines = hosts /\ UNCHANGED mishaps
  \/ lines = {} /\ hosts # {} /\ Mishap
Losers(lines) == IF lines = hosts THEN {} ELSE Configured

-----------------------------------------------------------------------------
(* The Mac: pair request and pair accept. *)

Request(n) ==
  /\ At("idle")
  /\ \E x \in Nonce :
       /\ \A c \in codes : c.nonce # x
       /\ codes' = codes \cup {[nonce |-> x, node |-> n, from |-> None]}
       /\ pending' = pending \cup {x}
  /\ UNCHANGED <<config, hosts, accepted, cli, win, net, mishaps, excused>>

\* The response must answer a pending request, and an address must present
\* the machine's key now; whether a node of another machine is configured
\* there is not asked.
Accept(c, a) ==
  /\ At("idle")
  /\ c.from # None /\ c.nonce \in pending /\ net[a] = c.from
  /\ \E lines \in {hosts, {}} :
       /\ Reads(lines)
       /\ cli' = [Rest EXCEPT !.pc = "hosts", !.node = c.node, !.nonce = c.nonce,
                    !.host = a, !.fp = c.from, !.config = config, !.hosts = lines]
       /\ excused' = excused \cup Losers(lines)
            \cup {n \in Configured : config[n].host = a /\ config[n].fp # c.from}
  /\ UNCHANGED <<mac, win, codes, net>>

WriteHosts ==
  /\ At("hosts")
  /\ hosts' = Without(cli.hosts, cli.host) \cup {[host |-> cli.host, fp |-> cli.fp]}
  /\ Goes("config")
  /\ UNCHANGED <<config, accepted, pending, excused>> /\ Elsewhere

Entered == [cli.config EXCEPT ![cli.node] =
                              [host |-> cli.host, fp |-> cli.fp, proven |-> FALSE]]
WriteConfig ==
  /\ At("config")
  /\ config' = Entered
  /\ Goes("verify")
  /\ UNCHANGED <<hosts, accepted, pending, excused>> /\ Elsewhere

\* describe_node over SSH, with strict host keys.
Reaches(n) ==
  LET node == config[n]
  IN  /\ net[node.host] = node.fp
      /\ [host |-> node.host, fp |-> node.fp] \in hosts
      /\ n \in keys[node.fp]

AfterVerify == IF cli.nonce = None THEN "drop" ELSE "record"
VerifyGivesUp ==
  /\ At("verify")
  /\ IF Reaches(cli.node)
     THEN Goes(AfterVerify) /\ config' = [config EXCEPT ![cli.node].proven = TRUE]
     ELSE cli' = Rest /\ UNCHANGED config
  /\ UNCHANGED <<hosts, accepted, pending, excused>> /\ Elsewhere

Verify ==
  /\ At("verify")
  /\ IF Reaches(cli.node)
     THEN Goes(AfterVerify) /\ config' = [config EXCEPT ![cli.node].proven = TRUE]
     ELSE Goes("unconfig") /\ UNCHANGED config
  /\ UNCHANGED <<hosts, accepted, pending, excused>> /\ Elsewhere

Record ==
  /\ At("record")
  /\ accepted' = accepted \cup {cli.node}
  /\ Goes("unpend")
  /\ UNCHANGED <<config, hosts, pending, excused>> /\ Elsewhere

Unpend ==
  /\ At("unpend")
  /\ pending' = pending \ {cli.nonce}
  /\ cli' = Rest
  /\ UNCHANGED <<config, hosts, accepted, excused>> /\ Elsewhere

\* The catch blocks: the whole configuration, then all the host lines.
RestoreConfig ==
  /\ At("unconfig")
  /\ config' = cli.config
  /\ Goes("unhosts")
  /\ UNCHANGED <<hosts, accepted, pending, excused>> /\ Elsewhere

RestoreHosts ==
  /\ At("unhosts")
  /\ hosts' = cli.hosts
  /\ cli' = Rest
  /\ UNCHANGED <<config, accepted, pending, excused>> /\ Elsewhere

-----------------------------------------------------------------------------
(* The Mac: reconnect and pair revoke. *)

Reconnect(n, a) ==
  /\ At("idle") /\ n \in Configured
  /\ net[a] = config[n].fp
  /\ \A o \in Configured \ {n} : config[o].host = a => config[o].fp = config[n].fp
  /\ \E lines \in {hosts, {}} :
       /\ Reads(lines)
       /\ cli' = [Rest EXCEPT !.pc = "hosts", !.node = n, !.host = a, !.fp = config[n].fp,
                    !.config = config, !.hosts = lines]
       /\ excused' = excused \cup Losers(lines)
  /\ UNCHANGED <<mac, win, codes, net>>

OldAddress == cli.config[cli.node].host
RetainedAlways == IF OldAddress = cli.host THEN hosts ELSE Without(hosts, OldAddress)

\* The line of the old address goes unless another node uses it.
Retained ==
  LET used_by_others == \E o \in Configured \ {cli.node} : cli.config[o].host = OldAddress
  IN  IF OldAddress = cli.host \/ used_by_others THEN hosts ELSE Without(hosts, OldAddress)

DropOld ==
  /\ At("drop")
  /\ hosts' = Retained
  /\ cli' = Rest
  /\ UNCHANGED <<config, accepted, pending, excused>> /\ Elsewhere

\* The Worker removes the key of this record first; --local-only skips it.
Revoke(n, local) ==
  /\ At("idle") /\ n \in Configured
  /\ LET m == config[n].fp
     IN  IF local THEN UNCHANGED worker
         ELSE /\ n \in accepted /\ Reaches(n) /\ worker[m].pc = "idle"
              /\ worker' = [worker EXCEPT ![m] = [Resting EXCEPT !.pc = "read", !.node = n]]
  /\ cli' = [Rest EXCEPT !.pc = IF local THEN "forget" ELSE "remote", !.node = n,
               !.host = config[n].host, !.fp = config[n].fp, !.config = config]
  /\ UNCHANGED <<mac, keys, records, used, helper, codes, net, mishaps, excused>>

\* A file replaced from a copy that is no longer what it holds.
Overwrites(m, copy, now) ==
  /\ keys' = [keys EXCEPT ![m] = now]
  /\ excused' = IF copy = keys[m] THEN excused ELSE excused \cup {m}

WorkerReads(m) ==
  /\ worker[m].pc = "read"
  /\ worker' = [worker EXCEPT ![m].pc = "write", ![m].copy = keys[m]]
  /\ UNCHANGED <<mac, cli, keys, records, used, helper, codes, net, mishaps, excused>>

\* The command that waits for the Worker goes on; it may have given up.
WorkerWrites(m) ==
  /\ worker[m].pc = "write"
  /\ LET n == worker[m].node
     IN  IF n \in worker[m].copy THEN Overwrites(m, worker[m].copy, worker[m].copy \ {n})
                                 ELSE UNCHANGED <<keys, excused>>
  /\ worker' = [worker EXCEPT ![m] = Resting]
  /\ IF At("remote") /\ cli.fp = m THEN Goes("forget") ELSE UNCHANGED cli
  /\ UNCHANGED <<mac, records, used, helper, codes, net, mishaps>>

Forget ==
  /\ At("forget")
  /\ config' = [cli.config EXCEPT ![cli.node] = None]
  /\ Goes("forget_host")
  /\ UNCHANGED <<hosts, accepted, pending, excused>> /\ Elsewhere

ForgetHost ==
  /\ At("forget_host")
  /\ \E lines \in {hosts, {}} :
       /\ Reads(lines)
       /\ hosts' = Without(lines, cli.host)
       /\ excused' = excused \cup Losers(lines)
                              \cup {n \in Configured : config[n].host = cli.host}
  /\ Goes("forget_record")
  /\ UNCHANGED <<config, accepted, pending, win, codes, net>>

ForgetRecord ==
  /\ At("forget_record")
  /\ accepted' = accepted \ {cli.node}
  /\ cli' = Rest
  /\ UNCHANGED <<config, hosts, pending, excused>> /\ Elsewhere

-----------------------------------------------------------------------------
(* Windows: the elevated helper. *)

Does(m, pc) == helper[m].pc = pc
Then(m, pc) == helper' = [helper EXCEPT ![m] = IF pc = "idle" THEN Helper ELSE [@ EXCEPT !.pc = pc]]
OnMac == UNCHANGED <<mac, cli, worker, net, mishaps>>

PairAdd(m, c) ==
  /\ Does(m, "idle") /\ c.from = None
  /\ helper' = [helper EXCEPT ![m] = [Helper EXCEPT !.pc = "add", !.node = c.node, !.nonce = c.nonce]]
  /\ UNCHANGED <<keys, records, used, codes, excused>> /\ OnMac

PairRevoke(m, n) ==
  /\ Does(m, "idle") /\ n \in records[m]
  /\ helper' = [helper EXCEPT ![m] = [Helper EXCEPT !.pc = "remove", !.node = n]]
  /\ UNCHANGED <<keys, records, used, codes, excused>> /\ OnMac

\* administrators_authorized_keys is read, and then replaced.
Read(m) ==
  /\ helper[m].pc \in {"add", "takeback", "remove"}
  /\ LET next == CASE Does(m, "add") -> "add_write" [] Does(m, "takeback") -> "takeback_write"
                    [] OTHER -> "remove_write"
     IN  helper' = [helper EXCEPT ![m].pc = next, ![m].copy = keys[m]]
  /\ UNCHANGED <<keys, records, used, codes, excused>> /\ OnMac

AddKey(m) ==
  /\ Does(m, "add_write")
  /\ LET added == helper[m].node \notin helper[m].copy
     IN  /\ IF added THEN Overwrites(m, helper[m].copy, helper[m].copy \cup {helper[m].node})
                     ELSE UNCHANGED <<keys, excused>>
         /\ helper' = [helper EXCEPT ![m].pc = "store", ![m].added = added]
  /\ UNCHANGED <<records, used, codes>> /\ OnMac

\* The nonces are written, then the records; a used nonce throws.
AfterThrow(m) == IF helper[m].added THEN "takeback" ELSE "idle"
StoreNonceKeeps(m) ==
  /\ Does(m, "store")
  /\ IF helper[m].nonce \in used[m] THEN Then(m, "idle") /\ UNCHANGED used
     ELSE Then(m, "records") /\ used' = [used EXCEPT ![m] = @ \cup {helper[m].nonce}]
  /\ UNCHANGED <<keys, records, codes, excused>> /\ OnMac

StoreNonce(m) ==
  /\ Does(m, "store")
  /\ IF helper[m].nonce \in used[m] THEN Then(m, AfterThrow(m)) /\ UNCHANGED used
     ELSE Then(m, "records") /\ used' = [used EXCEPT ![m] = @ \cup {helper[m].nonce}]
  /\ UNCHANGED <<keys, records, codes, excused>> /\ OnMac

StoreRecord(m) ==
  /\ Does(m, "records")
  /\ records' = [records EXCEPT ![m] = @ \cup {helper[m].node}]
  /\ Then(m, "respond")
  /\ UNCHANGED <<keys, used, codes, excused>> /\ OnMac

Respond(m) ==
  /\ Does(m, "respond")
  /\ codes' = codes \cup {[nonce |-> helper[m].nonce, node |-> helper[m].node, from |-> m]}
  /\ Then(m, "idle")
  /\ UNCHANGED <<keys, records, used, excused>> /\ OnMac

RemoveKey(m) ==
  /\ helper[m].pc \in {"takeback_write", "remove_write"}
  /\ IF helper[m].node \in helper[m].copy
     THEN Overwrites(m, helper[m].copy, helper[m].copy \ {helper[m].node})
     ELSE UNCHANGED <<keys, excused>>
  /\ Then(m, IF Does(m, "remove_write") THEN "unrecord" ELSE "idle")
  /\ UNCHANGED <<records, used, codes>> /\ OnMac

RemoveRecord(m) ==
  /\ Does(m, "unrecord")
  /\ records' = [records EXCEPT ![m] = @ \ {helper[m].node}]
  /\ Then(m, "idle")
  /\ UNCHANGED <<keys, used, codes, excused>> /\ OnMac

-----------------------------------------------------------------------------
(* What goes wrong. *)

\* A step of the Mac's command throws; accept writes ahead of its try block.
AfterFailure ==
  CASE cli.pc \in {"hosts", "config"} -> IF cli.nonce = None THEN "unconfig" ELSE "idle"
    [] cli.pc \in {"verify", "record", "unpend", "drop"} -> "unconfig"
    [] OTHER -> "idle"
\* The Worker that ssh has started stops with the command, or runs on.
WorkerGoesOn ==
  IF At("remote") THEN worker' \in {worker, [worker EXCEPT ![cli.fp] = Resting]}
                  ELSE UNCHANGED worker
StepFails ==
  /\ ~At("idle") /\ Mishap
  /\ cli' = IF AfterFailure = "idle" THEN Rest ELSE [cli EXCEPT !.pc = AfterFailure]
  /\ excused' = IF cli.pc \in {"unconfig", "unhosts"} THEN excused \cup {cli.node} ELSE excused
  /\ WorkerGoesOn
  /\ UNCHANGED <<mac, keys, records, used, helper, codes, net>>

\* chmod throws behind the rename: accept leaves its node configured, and
\* reconnect goes to its undoing without the old line.  Behind any other
\* rename this is the failure of the next step.
ChmodFails ==
  /\ Mishap
  /\ \/ /\ At("config") /\ cli.nonce # None
        /\ config' = Entered /\ cli' = Rest /\ UNCHANGED hosts
     \/ /\ At("drop")
        /\ hosts' = Retained /\ Goes("unconfig") /\ UNCHANGED config
  /\ excused' = excused \cup {cli.node}
  /\ UNCHANGED <<accepted, pending, win, codes, net>>

CommandDies ==
  /\ ~At("idle") /\ Mishap
  /\ cli' = Rest
  /\ excused' = excused \cup {cli.node}
  /\ WorkerGoesOn
  /\ UNCHANGED <<mac, keys, records, used, helper, codes, net>>

HelperFails(m) ==
  /\ ~Does(m, "idle") /\ Mishap
  /\ Then(m, IF helper[m].pc \in {"store", "records"} THEN AfterThrow(m) ELSE "idle")
  /\ excused' = IF helper[m].pc \in {"takeback", "takeback_write"} THEN excused \cup {m} ELSE excused
  /\ UNCHANGED <<mac, cli, keys, records, used, worker, codes, net>>

HelperDies(m) ==
  /\ ~Does(m, "idle") /\ Mishap
  /\ Then(m, "idle")
  /\ excused' = excused \cup {m}
  /\ UNCHANGED <<mac, cli, keys, records, used, worker, codes, net>>

\* An address passes to another machine, or to none.
AddressMoves(a, m) ==
  /\ net[a] # m /\ Mishap
  /\ net' = [net EXCEPT ![a] = m]
  /\ UNCHANGED <<mac, cli, win, codes, excused>>

\* Ten minutes pass.
CodesExpire(x) ==
  /\ \E c \in codes : c.nonce = x
  /\ Mishap
  /\ codes' = {c \in codes : c.nonce # x}
  /\ UNCHANGED <<mac, cli, win, net, excused>>

Next ==
  \/ \E n \in Node : \/ Request(n)
                    \/ \E a \in Address : Reconnect(n, a)
                    \/ \E local \in BOOLEAN : Revoke(n, local)
  \/ \E c \in codes, a \in Address : Accept(c, a)
  \/ WriteHosts \/ WriteConfig \/ Verify \/ Record \/ Unpend \/ RestoreConfig \/ RestoreHosts
  \/ DropOld \/ Forget \/ ForgetHost \/ ForgetRecord
  \/ \E m \in Machine :
       \/ \E c \in codes : PairAdd(m, c)
       \/ \E n \in Node : PairRevoke(m, n)
       \/ Read(m) \/ AddKey(m) \/ StoreNonce(m) \/ StoreRecord(m) \/ Respond(m)
       \/ RemoveKey(m) \/ RemoveRecord(m) \/ HelperFails(m) \/ HelperDies(m)
       \/ WorkerReads(m) \/ WorkerWrites(m)
  \/ StepFails \/ ChmodFails \/ CommandDies
  \/ \E a \in Address, m \in Machine \cup {None} : AddressMoves(a, m)
  \/ \E x \in Nonce : CodesExpire(x)

Spec == Init /\ [][Next]_vars

-----------------------------------------------------------------------------
(* Properties. *)

NodeConfig == [host : Address, fp : Machine, proven : BOOLEAN]

TypeOK ==
  /\ config \in [Node -> NodeConfig \cup {None}]
  /\ hosts \subseteq Line
  /\ accepted \subseteq Node /\ pending \subseteq Nonce
  /\ codes \subseteq Code
  /\ keys \in [Machine -> SUBSET Node] /\ records \in [Machine -> SUBSET Node]
  /\ used \in [Machine -> SUBSET Nonce]
  /\ net \in [Address -> Machine \cup {None}]
  /\ mishaps \in 0 .. MaxMishaps
  /\ excused \subseteq Node \cup Machine

(* Whenever ssh may be asked to reach a configured node, known_hosts has a  *)
(* line of its address with its own fingerprint, in the midst of a command  *)
(* and after one that failed: a line comes before its node and goes after   *)
(* it, and no command takes another node's.  It does so, and the node is    *)
(* excused, when reading known_hosts fails and the error is swallowed, when *)
(* a node at the same address is revoked, and when another machine is       *)
(* paired that now answers there.  Excused as well is the node whose own    *)
(* command died, or failed in its undoing or in a chmod behind a rename.    *)
(* (pairing-client.ts 243-247, 251-265, 277-280, 326-341, 350-358, 401-406.)*)
Pinned ==
  \A n \in Configured :
    n \in excused \/ [host |-> config[n].host, fp |-> config[n].fp] \in hosts

(* At rest a node is configured as a verification has once reached it: what *)
(* failed to verify is undone, unless the command died, its undoing failed, *)
(* or accept threw behind the rename of its configuration, ahead of its try *)
(* block.  (pairing-client.ts 248-258, 277-281, 337-355; config.ts 60-61.)  *)
ProvenAtRest ==
  At("idle") => \A n \in Configured : n \in excused \/ config[n].proven

(* Each key that may log in is a key the app lists, unless a helper works   *)
(* on it, died, could not undo, or the file was replaced from a stale copy. *)
(* (Program.cs 87-97, 124-131; PairingStore.cs 24-35.)                      *)
KeysListed ==
  \A m \in Machine : \A n \in keys[m] :
    n \in records[m] \/ m \in excused \/ helper[m].node = n
=============================================================================
