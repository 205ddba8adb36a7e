--------------------------- MODULE PairingProofs ---------------------------
(* Proofs about Pairing, for any nodes, machines, addresses, codes and      *)
(* mishaps: a configured node has a pinned host, at rest it has once been   *)
(* verified, and no key may log in that the app does not list; who loses    *)
(* that protection is named by "excused".                                   *)
(*                                                                          *)
(* Nothing but the one command changes the Mac's files, so that the copies  *)
(* it took at its start say what each file holds at each of its steps, and  *)
(* what an undoing puts back.  On a machine the Worker's revoke changes the *)
(* key file under the helper, but either takes a key away or leaves the     *)
(* machine excused.                                                         *)
EXTENDS Pairing, TLAPS

CliPcs == {"idle", "hosts", "config", "verify", "record", "unpend", "drop", "unconfig",
           "unhosts", "remote", "forget", "forget_host", "forget_record"}
HelperPcs == {"idle", "add", "add_write", "store", "records", "respond", "takeback",
              "takeback_write", "remove", "remove_write", "unrecord"}
Configs == [Node -> NodeConfig \cup {None}]

(* The types of the three processes, and what they have while they run.       *)
CliType ==
  /\ cli \in [pc : CliPcs, node : Node \cup {None}, nonce : Nonce \cup {None},
              host : Address \cup {None}, fp : Machine \cup {None},
              config : Configs \cup {None}, hosts : SUBSET Line]
  /\ cli.pc # "idle" => /\ cli.node \in Node /\ cli.host \in Address
                        /\ cli.fp \in Machine /\ cli.config \in Configs
HelperRecord == [pc : HelperPcs, node : Node \cup {None}, nonce : Nonce \cup {None},
                 copy : SUBSET Node, added : BOOLEAN]
HelperType ==
  /\ helper \in [Machine -> HelperRecord]
  /\ \A m \in Machine :
       /\ helper[m].pc # "idle" => helper[m].node \in Node
       /\ helper[m].pc \in {"add", "add_write", "store", "records", "respond"} =>
            helper[m].nonce \in Nonce
WorkerRecord == [pc : {"idle", "read", "write"}, node : Node \cup {None}, copy : SUBSET Node]
WorkerType ==
  /\ worker \in [Machine -> WorkerRecord]
  /\ \A m \in Machine : worker[m].pc # "idle" => worker[m].node \in Node
Types == TypeOK /\ CliType /\ HelperType /\ WorkerType

-----------------------------------------------------------------------------
(* The Mac. *)

HasLine(lines, a, m) == [host |-> a, fp |-> m] \in lines
PinnedBy(cfg, lines) ==
  \A n \in Node : cfg[n] # None => n \in excused \/ HasLine(lines, cfg[n].host, cfg[n].fp)

Connecting == {"hosts", "config", "verify", "record", "unpend", "drop", "unconfig", "unhosts"}

(* What the command's copies of the configuration and the host lines say of *)
(* the files.                                                               *)
Copies ==
  cli.pc # "idle" =>
    /\ \A n \in Node : n # cli.node => config[n] = cli.config[n]
    /\ \A n \in Node : cli.config[n] # None => n \in excused \/ cli.config[n].proven
    /\ cli.pc \in {"hosts", "config", "unhosts", "remote", "forget"} =>
         config = cli.config
    /\ cli.pc \in {"forget_host", "forget_record"} => config[cli.node] = None

(* How far accept and reconnect have got: the copies, and what there is of  *)
(* the lines, pin the old configuration at every step, so that either may   *)
(* be put back first.                                                       *)
Connection ==
  cli.pc \in Connecting =>
    /\ PinnedBy(cli.config, cli.hosts)
    /\ PinnedBy(cli.config, hosts)
    /\ \A n \in Node : cli.config[n] # None /\ cli.config[n].host = cli.host =>
         n \in excused \/ cli.config[n].fp = cli.fp
    /\ cli.pc \in {"config", "verify", "record", "unpend", "drop"} =>
         HasLine(hosts, cli.host, cli.fp)
    /\ cli.pc \in {"verify", "record", "unpend", "drop"} =>
         /\ config[cli.node] \in NodeConfig
         /\ config[cli.node].host = cli.host /\ config[cli.node].fp = cli.fp
    /\ cli.pc \in {"record", "unpend", "drop"} => config[cli.node].proven

MacInv == PinnedBy(config, hosts) /\ ProvenAtRest /\ Copies /\ Connection

-----------------------------------------------------------------------------
(* Windows. *)

(* A key that no helper works on is listed; when a helper ends, its own is. *)
Listed(m, n) == n \in records[m] \/ m \in excused
KeysOf(m) ==
  \A n \in keys[m] : Listed(m, n) \/ (helper[m].pc # "idle" /\ helper[m].node = n)

HelperAt(m) ==
  LET h == helper[m]
  IN  /\ h.pc \in {"add", "add_write"} /\ h.node \in keys[m] => Listed(m, h.node)
      /\ h.pc \in {"store", "records"} /\ ~h.added /\ h.node \in keys[m] => Listed(m, h.node)
      /\ h.pc \in {"respond", "remove", "remove_write"} => Listed(m, h.node)
      /\ h.pc \in {"takeback_write", "remove_write"} /\ h.node \in keys[m] =>
           h.node \in h.copy \/ m \in excused
      /\ h.pc = "unrecord" => h.node \notin keys[m] \/ m \in excused

WinInv == \A m \in Machine : KeysOf(m) /\ HelperAt(m)

PairingInv == Types /\ MacInv /\ WinInv

-----------------------------------------------------------------------------
(* The first state. *)

(* Nothing is configured, no key is known and nobody is at work.            *)
LEMMA InitHolds == Init => PairingInv
<1> SUFFICES ASSUME Init PROVE PairingInv OBVIOUS
<1> USE BoundAssumption
<1>1. TypeOK BY DEF Init, TypeOK
<1>2. CliType BY DEF Init, CliType, Rest, CliPcs
<1>3. HelperType BY DEF Init, HelperType, HelperRecord, Helper, HelperPcs
<1>6. WorkerType BY DEF Init, WorkerType, WorkerRecord, Resting
<1>4. MacInv BY DEF Init, MacInv, PinnedBy, ProvenAtRest, At, Configured, Copies, Connection, Rest, Connecting
<1>5. WinInv BY DEF Init, WinInv, KeysOf, HelperAt, Helper
<1> QED BY <1>1, <1>2, <1>3, <1>4, <1>5, <1>6 DEF PairingInv, Types

-----------------------------------------------------------------------------
(* Frames. *)

(* Excusing more leaves the Mac's part alone.                               *)
LEMMA MacIdle ==
  ASSUME MacInv, UNCHANGED <<mac, cli>>, excused \subseteq excused'
  PROVE  MacInv'
<1>1. PinnedBy(config, hosts)' BY DEF MacInv, PinnedBy, HasLine, mac
<1>2. ProvenAtRest' BY DEF MacInv, ProvenAtRest, At, Configured, mac
<1>3. Copies' BY DEF MacInv, Copies, mac
<1>4. Connection' BY DEF MacInv, Connection, PinnedBy, HasLine, mac
<1> QED BY <1>1, <1>2, <1>3, <1>4 DEF MacInv

(* Excusing more leaves the machines' part alone.                           *)
LEMMA WinIdle ==
  ASSUME WinInv, UNCHANGED <<keys, records, helper>>, excused \subseteq excused'
  PROVE  WinInv'
<1> SUFFICES ASSUME NEW m \in Machine PROVE KeysOf(m)' /\ HelperAt(m)'
  BY DEF WinInv
<1>1. KeysOf(m) /\ HelperAt(m) BY DEF WinInv
<1>2. KeysOf(m)' BY <1>1 DEF KeysOf, Listed
<1>3. HelperAt(m)' BY <1>1 DEF HelperAt, Listed
<1> QED BY <1>2, <1>3

(* A helper of the right type takes the place of another.                   *)
LEMMA HelperChanges ==
  ASSUME HelperType, NEW m \in Machine, NEW h \in HelperRecord,
         helper' = [helper EXCEPT ![m] = h],
         h.pc # "idle" => h.node \in Node,
         h.pc \in {"add", "add_write", "store", "records", "respond"} => h.nonce \in Nonce
  PROVE  HelperType'
<1>1. helper' \in [Machine -> HelperRecord] BY DEF HelperType
<1>2. \A k \in Machine : helper'[k] = IF k = m THEN h ELSE helper[k] BY DEF HelperType
<1> QED BY <1>1, <1>2 DEF HelperType

-----------------------------------------------------------------------------
(* The Mac's commands. *)

(* A request changes only what is pending.                                  *)
LEMMA RequestKeeps ==
  ASSUME PairingInv, NEW n \in Node, Request(n)
  PROVE  PairingInv'
<1>1. TypeOK'
  BY DEF PairingInv, Types, TypeOK, CliType, Configs, NodeConfig, Request, At, win, Code
<1>2. CliType'
  BY DEF PairingInv, Types, TypeOK, CliType, Configs, CliPcs, NodeConfig, Request, At,
     win, Code
<1>3. HelperType'
  BY DEF PairingInv, Types, HelperType, Request, win
<1>6. WorkerType'
  BY DEF PairingInv, Types, WorkerType, Request, win
<1>4. MacInv'
  BY DEF PairingInv, Types, TypeOK, CliType, Configs, NodeConfig, MacInv, PinnedBy,
     HasLine, ProvenAtRest, Copies, Connection, Connecting, Request, At, win,
     Configured, Code
<1>5. WinInv'
  BY WinIdle DEF PairingInv, Request, win
<1> QED BY <1>1, <1>2, <1>3, <1>4, <1>5, <1>6 DEF PairingInv, Types

(* A read of known_hosts is a step that may fail, and what it yields pins   *)
(* every node that is not excused.                                          *)
LEMMA ReadsBounded ==
  ASSUME Types, NEW lines, Reads(lines)
  PROVE  mishaps' \in 0 .. MaxMishaps
  BY BoundAssumption DEF Types, TypeOK, Reads, Mishap

LEMMA ReadPins ==
  ASSUME PinnedBy(config, hosts), NEW lines, UNCHANGED <<config, hosts>>,
         excused \subseteq excused', Losers(lines) \subseteq excused'
  PROVE  PinnedBy(config, hosts)' /\ PinnedBy(config, lines)'
<1>1. CASE lines = hosts
  BY <1>1 DEF PinnedBy, HasLine
<1>2. CASE lines # hosts
  BY <1>2 DEF PinnedBy, HasLine, Losers, Configured
<1> QED BY <1>1, <1>2

(* Accept copies the configuration and the host lines.                      *)
LEMMA AcceptKeeps ==
  ASSUME PairingInv, NEW c \in codes, NEW a \in Address, Accept(c, a)
  PROVE  PairingInv'
<1>0. PICK lines \in {hosts, {}} :
        /\ Reads(lines)
        /\ cli' = [Rest EXCEPT !.pc = "hosts", !.node = c.node, !.nonce = c.nonce,
                     !.host = a, !.fp = c.from, !.config = config, !.hosts = lines]
        /\ excused' = excused \cup Losers(lines)
             \cup {n \in Configured : config[n].host = a /\ config[n].fp # c.from}
  BY DEF Accept
<1>a. /\ UNCHANGED <<mac, win, codes, net>>
      /\ c.from \in Machine /\ c.node \in Node /\ c.nonce \in Nonce /\ At("idle")
  BY DEF PairingInv, Types, TypeOK, Accept, Code
<1>b. /\ cli'.pc = "hosts" /\ cli'.node = c.node /\ cli'.host = a /\ cli'.fp = c.from
      /\ cli'.config = config /\ cli'.hosts = lines
  BY <1>0 DEF Rest
<1>1. TypeOK'
  <2>1. mishaps' \in 0 .. MaxMishaps
    BY <1>0, ReadsBounded DEF PairingInv
  <2>2. excused' \subseteq Node \cup Machine
    BY <1>0 DEF PairingInv, Types, TypeOK, Losers, Configured
  <2> QED BY <1>a, <2>1, <2>2 DEF PairingInv, Types, TypeOK, mac, win
<1>2. CliType'
  <2>1. lines \subseteq Line
    BY <1>0 DEF PairingInv, Types, TypeOK
  <2> QED BY <1>0, <1>a, <2>1 DEF PairingInv, Types, TypeOK, CliType, Configs, CliPcs, Rest
<1>3. HelperType'
  BY <1>a DEF PairingInv, Types, HelperType, win
<1>6. WorkerType'
  BY <1>a DEF PairingInv, Types, WorkerType, win
<1>4. MacInv'
  <2>1. UNCHANGED <<config, hosts>> /\ excused \subseteq excused'
    BY <1>0, <1>a DEF mac
  <2>2. PinnedBy(config, hosts)' /\ PinnedBy(config, lines)'
    BY <1>0, <2>1, ReadPins DEF PairingInv, MacInv
  <2>3. ProvenAtRest'
    BY <1>b DEF ProvenAtRest, At
  <2>4. Copies'
    BY <1>a, <1>b, <2>1 DEF PairingInv, MacInv, ProvenAtRest, Configured, Copies
  <2>5. Connection'
    <3>1. \A n \in Node : config[n] # None /\ config[n].host = a =>
            n \in excused' \/ config[n].fp = c.from
      BY <1>0 DEF Configured
    <3>2. PinnedBy(cli.config, cli.hosts)' /\ PinnedBy(cli.config, hosts)'
      BY <1>b, <2>1, <2>2 DEF PinnedBy, HasLine
    <3> QED BY <1>b, <2>1, <2>2, <3>1, <3>2 DEF Connection
  <2> QED BY <2>2, <2>3, <2>4, <2>5 DEF MacInv
<1>5. WinInv'
  BY <1>0, <1>a, WinIdle DEF PairingInv, win
<1> QED BY <1>1, <1>2, <1>3, <1>4, <1>5, <1>6 DEF PairingInv, Types

(* The new line stands beside those of all other hosts.                     *)
LEMMA WriteHostsKeeps ==
  ASSUME PairingInv, WriteHosts
  PROVE  PairingInv'
<1>1. TypeOK'
  BY DEF PairingInv, Types, TypeOK, CliType, Configs, NodeConfig, WriteHosts, At,
     Elsewhere, Goes, Without, win, Line
<1>2. CliType'
  BY DEF PairingInv, Types, TypeOK, CliType, Configs, CliPcs, NodeConfig, WriteHosts,
     At, Elsewhere, Goes, Without, win, Line
<1>3. HelperType'
  BY DEF PairingInv, Types, HelperType, WriteHosts, Elsewhere, win
<1>6. WorkerType'
  BY DEF PairingInv, Types, WorkerType, WriteHosts, Elsewhere, win
<1>4. MacInv'
  <2>1. /\ cli.pc = "hosts" /\ config = cli.config /\ UNCHANGED <<config, excused>>
        /\ cli' = [cli EXCEPT !.pc = "config"]
    BY DEF PairingInv, MacInv, Copies, WriteHosts, At, Goes
  <2>2. HasLine(hosts', cli.host, cli.fp)
    BY DEF WriteHosts, HasLine
  <2>3. \A h \in Address, m \in Machine : h # cli.host /\ HasLine(cli.hosts, h, m) =>
          HasLine(hosts', h, m)
    BY DEF WriteHosts, HasLine, Without
  <2>4. /\ PinnedBy(cli.config, cli.hosts)
        /\ \A n \in Node : cli.config[n] # None /\ cli.config[n].host = cli.host =>
             n \in excused \/ cli.config[n].fp = cli.fp
    BY <2>1 DEF PairingInv, MacInv, Connection, Connecting
  <2>5. PinnedBy(cli.config, hosts)'
    <3> SUFFICES ASSUME NEW n \in Node, cli.config[n] # None
                 PROVE  n \in excused \/ HasLine(hosts', cli.config[n].host, cli.config[n].fp)
      BY <2>1 DEF PairingInv, Types, CliType, PinnedBy, HasLine
    <3>1. cli.config[n].host \in Address /\ cli.config[n].fp \in Machine
      BY <2>1 DEF PairingInv, Types, TypeOK, NodeConfig
    <3>2. n \in excused \/ HasLine(cli.hosts, cli.config[n].host, cli.config[n].fp)
      BY <2>4 DEF PinnedBy
    <3>3. CASE cli.config[n].host = cli.host
      BY <2>2, <2>4, <3>3
    <3>4. CASE cli.config[n].host # cli.host
      BY <2>3, <3>1, <3>2, <3>4
    <3> QED BY <3>3, <3>4
  <2>6. PinnedBy(config, hosts)'
    BY <2>1, <2>5 DEF PairingInv, Types, CliType, PinnedBy, HasLine
  <2>7. ProvenAtRest' /\ Copies'
    BY <2>1 DEF PairingInv, Types, CliType, MacInv, Copies, ProvenAtRest, At
  <2>8. Connection'
    BY <2>1, <2>2, <2>4, <2>5 DEF PairingInv, Types, CliType, Connection, PinnedBy, HasLine
  <2> QED BY <2>6, <2>7, <2>8 DEF MacInv
<1>5. WinInv'
  BY WinIdle DEF PairingInv, WriteHosts, Elsewhere, win
<1> QED BY <1>1, <1>2, <1>3, <1>4, <1>5, <1>6 DEF PairingInv, Types

(* The node's own entry is all that differs from the copy.                  *)
LEMMA WriteConfigKeeps ==
  ASSUME PairingInv, WriteConfig
  PROVE  PairingInv'
<1>0. /\ cli.pc = "config" /\ cli.node \in Node /\ cli.config \in Configs
      /\ cli.host \in Address /\ cli.fp \in Machine
      /\ cli' = [cli EXCEPT !.pc = "verify"]
      /\ UNCHANGED <<hosts, accepted, pending, excused, win, codes, net, mishaps>>
  BY DEF PairingInv, Types, CliType, WriteConfig, At, Goes, Elsewhere
<1>a. \E new \in NodeConfig :
        /\ new.host = cli.host /\ new.fp = cli.fp
        /\ config' = [cli.config EXCEPT ![cli.node] = new]
  <2> DEFINE new == [host |-> cli.host, fp |-> cli.fp, proven |-> FALSE]
  <2>1. new \in NodeConfig /\ new.host = cli.host /\ new.fp = cli.fp
    BY <1>0 DEF NodeConfig
  <2>2. config' = [cli.config EXCEPT ![cli.node] = new]
    BY DEF WriteConfig, Entered
  <2> HIDE DEF new
  <2> QED BY <2>1, <2>2
<1>b. /\ config' \in Configs
      /\ \A n \in Node : n # cli.node => config'[n] = cli.config[n]
      /\ config'[cli.node] \in NodeConfig
      /\ config'[cli.node].host = cli.host /\ config'[cli.node].fp = cli.fp
  BY <1>0, <1>a DEF Configs
<1>1. TypeOK'
  BY <1>0, <1>b DEF PairingInv, Types, TypeOK, Configs, win
<1>2. CliType'
  BY DEF PairingInv, Types, TypeOK, CliType, Configs, CliPcs, NodeConfig, WriteConfig,
     At, Elsewhere, Goes, win
<1>3. HelperType'
  BY DEF PairingInv, Types, HelperType, WriteConfig, Elsewhere, win
<1>6. WorkerType'
  BY DEF PairingInv, Types, WorkerType, WriteConfig, Elsewhere, win
<1>4. MacInv'
  <2>1. /\ cli'.pc = "verify" /\ cli'.node = cli.node /\ cli'.config = cli.config
        /\ cli'.hosts = cli.hosts /\ cli'.host = cli.host /\ cli'.fp = cli.fp
    BY <1>0 DEF PairingInv, Types, CliType
  <2>2. /\ PinnedBy(cli.config, cli.hosts) /\ PinnedBy(cli.config, hosts)
        /\ \A n \in Node : cli.config[n] # None /\ cli.config[n].host = cli.host =>
             n \in excused \/ cli.config[n].fp = cli.fp
        /\ HasLine(hosts, cli.host, cli.fp)
    BY <1>0 DEF PairingInv, MacInv, Connection, Connecting
  <2>3. PinnedBy(config, hosts)'
    BY <1>0, <1>b, <2>2 DEF PinnedBy, HasLine
  <2>4. ProvenAtRest' /\ Copies'
    BY <1>0, <1>b, <2>1 DEF PairingInv, MacInv, ProvenAtRest, At, Copies
  <2>5. Connection'
    BY <1>0, <1>b, <2>1, <2>2 DEF Connection, PinnedBy, HasLine
  <2> QED BY <2>3, <2>4, <2>5 DEF MacInv
<1>5. WinInv'
  BY WinIdle DEF PairingInv, WriteConfig, Elsewhere, win
<1> QED BY <1>1, <1>2, <1>3, <1>4, <1>5, <1>6 DEF PairingInv, Types

(* A node that was reached is proven; else the undoing begins.              *)
LEMMA VerifyKeeps ==
  ASSUME PairingInv, Verify
  PROVE  PairingInv'
<1>0. /\ cli.node \in Node /\ config[cli.node] \in NodeConfig
      /\ \/ config' = config /\ cli'.pc = "unconfig"
         \/ /\ cli'.pc \in {"drop", "record"}
            /\ config' = [config EXCEPT ![cli.node] = [config[cli.node] EXCEPT !.proven = TRUE]]
  BY DEF PairingInv, Types, CliType, MacInv, Connection, Connecting, Verify, At, Goes, AfterVerify
<1>a. /\ config' \in Configs
      /\ \A n \in Node : n # cli.node => config'[n] = config[n]
      /\ config'[cli.node] \in NodeConfig /\ config'[cli.node].host = config[cli.node].host
      /\ config'[cli.node].fp = config[cli.node].fp
      /\ cli'.pc # "unconfig" => config'[cli.node].proven
  <2>1. CASE config' = config /\ cli'.pc = "unconfig"
    BY <1>0, <2>1 DEF PairingInv, Types, TypeOK, Configs
  <2>2. CASE /\ cli'.pc \in {"drop", "record"}
             /\ config' = [config EXCEPT ![cli.node] = [config[cli.node] EXCEPT !.proven = TRUE]]
    <3> DEFINE node == [config[cli.node] EXCEPT !.proven = TRUE]
    <3>1. /\ node \in NodeConfig /\ node.proven
          /\ node.host = config[cli.node].host /\ node.fp = config[cli.node].fp
      BY <1>0 DEF NodeConfig
    <3>2. config' = [config EXCEPT ![cli.node] = node]
      BY <2>2
    <3> HIDE DEF node
    <3> QED BY <1>0, <2>2, <3>1, <3>2 DEF PairingInv, Types, TypeOK, Configs
  <2> QED BY <1>0, <2>1, <2>2
<1>1. TypeOK'
  BY <1>a DEF PairingInv, Types, TypeOK, Configs, Verify, Elsewhere, win
<1>2. CliType'
  BY DEF PairingInv, Types, CliType, CliPcs, Verify, AfterVerify, At, Goes
<1>3. HelperType'
  BY DEF PairingInv, Types, HelperType, Verify, Elsewhere, win
<1>6. WorkerType'
  BY DEF PairingInv, Types, WorkerType, Verify, Elsewhere, win
<1>4. MacInv'
  <2>1. /\ UNCHANGED <<hosts, excused>> /\ cli.pc = "verify"
        /\ cli'.pc \in {"drop", "record", "unconfig"}
        /\ cli'.node = cli.node /\ cli'.config = cli.config
        /\ cli'.hosts = cli.hosts /\ cli'.host = cli.host
        /\ cli'.fp = cli.fp
    BY DEF PairingInv, Types, CliType, Verify, AfterVerify, At, Goes
  <2>2. PinnedBy(config, hosts)'
    <3> SUFFICES ASSUME NEW n \in Node, config'[n] # None
                 PROVE  n \in excused \/ HasLine(hosts, config'[n].host, config'[n].fp)
      BY <2>1 DEF PinnedBy, HasLine
    <3>1. /\ config'[n].host = config[n].host /\ config'[n].fp = config[n].fp
          /\ config[n] # None \/ n = cli.node
      BY <1>a
    <3>2. HasLine(hosts, config[cli.node].host, config[cli.node].fp)
      BY <1>0, <2>1 DEF PairingInv, MacInv, Connection, Connecting
    <3> QED BY <3>1, <3>2 DEF PairingInv, MacInv, PinnedBy
  <2>3. ProvenAtRest' /\ Copies'
    BY <1>a, <2>1 DEF PairingInv, MacInv, ProvenAtRest, At, Copies
  <2>4. Connection'
    BY <1>a, <2>1 DEF PairingInv, MacInv, Connection, Connecting, PinnedBy, HasLine
  <2> QED BY <2>2, <2>3, <2>4 DEF MacInv
<1>5. WinInv'
  BY WinIdle DEF PairingInv, Verify, Elsewhere, win
<1> QED BY <1>1, <1>2, <1>3, <1>4, <1>5, <1>6 DEF PairingInv, Types

(* The record of the pairing is beside the point.                           *)
LEMMA RecordKeeps ==
  ASSUME PairingInv, Record
  PROVE  PairingInv'
<1>1. TypeOK'
  BY DEF PairingInv, Types, TypeOK, CliType, Configs, NodeConfig, Record, At,
     Elsewhere, Goes, win
<1>2. CliType'
  BY DEF PairingInv, Types, TypeOK, CliType, Configs, CliPcs, NodeConfig, Record, At,
     Elsewhere, Goes, win
<1>3. HelperType'
  BY DEF PairingInv, Types, HelperType, Record, Elsewhere, win
<1>6. WorkerType'
  BY DEF PairingInv, Types, WorkerType, Record, Elsewhere, win
<1>4. MacInv'
  BY DEF PairingInv, Types, TypeOK, CliType, Configs, NodeConfig, MacInv, PinnedBy,
     HasLine, ProvenAtRest, Copies, Connection, Connecting, Record, At, Elsewhere,
     Goes, win, Configured
<1>5. WinInv'
  BY WinIdle DEF PairingInv, Record, Elsewhere, win
<1> QED BY <1>1, <1>2, <1>3, <1>4, <1>5, <1>6 DEF PairingInv, Types

(* At rest the node is proven.                                              *)
LEMMA UnpendKeeps ==
  ASSUME PairingInv, Unpend
  PROVE  PairingInv'
<1>1. TypeOK'
  BY DEF PairingInv, Types, TypeOK, CliType, Configs, NodeConfig, Unpend, At,
     Elsewhere, Rest, win
<1>2. CliType'
  BY DEF PairingInv, Types, TypeOK, CliType, Configs, CliPcs, NodeConfig, Unpend, At,
     Elsewhere, Rest, win
<1>3. HelperType'
  BY DEF PairingInv, Types, HelperType, Unpend, Elsewhere, win
<1>6. WorkerType'
  BY DEF PairingInv, Types, WorkerType, Unpend, Elsewhere, win
<1>4. MacInv'
  BY DEF PairingInv, Types, TypeOK, CliType, Configs, NodeConfig, MacInv, PinnedBy,
     HasLine, ProvenAtRest, Copies, Connection, Connecting, Unpend, At, Elsewhere,
     Rest, win, Configured
<1>5. WinInv'
  BY WinIdle DEF PairingInv, Unpend, Elsewhere, win
<1> QED BY <1>1, <1>2, <1>3, <1>4, <1>5, <1>6 DEF PairingInv, Types

(* The copy of the configuration is pinned by the lines there are.          *)
LEMMA RestoreConfigKeeps ==
  ASSUME PairingInv, RestoreConfig
  PROVE  PairingInv'
<1>1. TypeOK'
  BY DEF PairingInv, Types, TypeOK, CliType, Configs, NodeConfig, RestoreConfig, At,
     Elsewhere, Goes, win
<1>2. CliType'
  BY DEF PairingInv, Types, TypeOK, CliType, Configs, CliPcs, NodeConfig,
     RestoreConfig, At, Elsewhere, Goes, win
<1>3. HelperType'
  BY DEF PairingInv, Types, HelperType, RestoreConfig, Elsewhere, win
<1>6. WorkerType'
  BY DEF PairingInv, Types, WorkerType, RestoreConfig, Elsewhere, win
<1>4. MacInv'
  BY DEF PairingInv, Types, TypeOK, CliType, Configs, NodeConfig, MacInv, PinnedBy,
     HasLine, ProvenAtRest, Copies, Connection, Connecting, RestoreConfig, At,
     Elsewhere, Goes, win, Configured
<1>5. WinInv'
  BY WinIdle DEF PairingInv, RestoreConfig, Elsewhere, win
<1> QED BY <1>1, <1>2, <1>3, <1>4, <1>5, <1>6 DEF PairingInv, Types

(* The copy of the host lines pins the copy of the configuration.           *)
LEMMA RestoreHostsKeeps ==
  ASSUME PairingInv, RestoreHosts
  PROVE  PairingInv'
<1>1. TypeOK'
  BY DEF PairingInv, Types, TypeOK, CliType, Configs, NodeConfig, RestoreHosts, At,
     Elsewhere, Rest, win
<1>2. CliType'
  BY DEF PairingInv, Types, TypeOK, CliType, Configs, CliPcs, NodeConfig, RestoreHosts,
     At, Elsewhere, Rest, win
<1>3. HelperType'
  BY DEF PairingInv, Types, HelperType, RestoreHosts, Elsewhere, win
<1>6. WorkerType'
  BY DEF PairingInv, Types, WorkerType, RestoreHosts, Elsewhere, win
<1>4. MacInv'
  BY DEF PairingInv, Types, TypeOK, CliType, Configs, NodeConfig, MacInv, PinnedBy,
     HasLine, ProvenAtRest, Copies, Connection, Connecting, RestoreHosts, At,
     Elsewhere, Rest, win, Configured
<1>5. WinInv'
  BY WinIdle DEF PairingInv, RestoreHosts, Elsewhere, win
<1> QED BY <1>1, <1>2, <1>3, <1>4, <1>5, <1>6 DEF PairingInv, Types

(* Reconnect copies the configuration and the host lines.                   *)
LEMMA ReconnectKeeps ==
  ASSUME PairingInv, NEW n \in Node, NEW a \in Address, Reconnect(n, a)
  PROVE  PairingInv'
<1>0. PICK lines \in {hosts, {}} :
        /\ Reads(lines)
        /\ cli' = [Rest EXCEPT !.pc = "hosts", !.node = n, !.host = a, !.fp = config[n].fp,
                     !.config = config, !.hosts = lines]
        /\ excused' = excused \cup Losers(lines)
  BY DEF Reconnect
<1>a. /\ UNCHANGED <<mac, win, codes, net>>
      /\ config[n] \in NodeConfig /\ At("idle")
      /\ \A o \in Configured \ {n} : config[o].host = a => config[o].fp = config[n].fp
  BY DEF PairingInv, Types, TypeOK, Reconnect, Configured
<1>b. /\ cli'.pc = "hosts" /\ cli'.node = n /\ cli'.host = a /\ cli'.fp = config[n].fp
      /\ cli'.config = config /\ cli'.hosts = lines
  BY <1>0 DEF Rest
<1>1. TypeOK'
  <2>1. mishaps' \in 0 .. MaxMishaps
    BY <1>0, ReadsBounded DEF PairingInv
  <2>2. excused' \subseteq Node \cup Machine
    BY <1>0 DEF PairingInv, Types, TypeOK, Losers, Configured
  <2> QED BY <1>a, <2>1, <2>2 DEF PairingInv, Types, TypeOK, mac, win
<1>2. CliType'
  <2>1. lines \subseteq Line
    BY <1>0 DEF PairingInv, Types, TypeOK
  <2>2. config[n].fp \in Machine
    BY <1>a DEF NodeConfig
  <2> QED BY <1>0, <2>1, <2>2 DEF PairingInv, Types, TypeOK, CliType, Configs, CliPcs, Rest
<1>3. HelperType'
  BY <1>a DEF PairingInv, Types, HelperType, win
<1>6. WorkerType'
  BY <1>a DEF PairingInv, Types, WorkerType, win
<1>4. MacInv'
  <2>1. UNCHANGED <<config, hosts>> /\ excused \subseteq excused'
    BY <1>0, <1>a DEF mac
  <2>2. PinnedBy(config, hosts)' /\ PinnedBy(config, lines)'
    BY <1>0, <2>1, ReadPins DEF PairingInv, MacInv
  <2>3. ProvenAtRest'
    BY <1>b DEF ProvenAtRest, At
  <2>4. Copies'
    BY <1>a, <1>b, <2>1 DEF PairingInv, MacInv, ProvenAtRest, Configured, Copies
  <2>5. Connection'
    <3>1. \A o \in Node : config[o] # None /\ config[o].host = a =>
            config[o].fp = config[n].fp
      BY <1>a DEF Configured
    <3>2. PinnedBy(cli.config, cli.hosts)' /\ PinnedBy(cli.config, hosts)'
      BY <1>b, <2>1, <2>2 DEF PinnedBy, HasLine
    <3> QED BY <1>b, <2>1, <2>2, <3>1, <3>2 DEF Connection
  <2> QED BY <2>2, <2>3, <2>4, <2>5 DEF MacInv
<1>5. WinInv'
  BY <1>0, <1>a, WinIdle DEF PairingInv, win
<1> QED BY <1>1, <1>2, <1>3, <1>4, <1>5, <1>6 DEF PairingInv, Types

(* What is retained pins the node and all others, of the old configuration *)
(* all others.                                                              *)
LEMMA RetainedPins ==
  ASSUME PairingInv, cli.pc = "drop", hosts' = Retained, excused \subseteq excused'
  PROVE  /\ UNCHANGED config => PinnedBy(config, hosts)'
         /\ cli.node \in excused' /\ cli'.config = cli.config => PinnedBy(cli.config, hosts)'
<1> DEFINE Kept(h) == \A m : HasLine(hosts, h, m) => HasLine(hosts', h, m)
<1>1. /\ cli.node \in Node
      /\ config[cli.node].host = cli.host
      /\ \A n \in Node : n # cli.node => config[n] = cli.config[n]
  BY DEF PairingInv, Types, CliType, MacInv, Copies, Connection, Connecting, TypeOK
<1>2. Kept(cli.host)
  BY DEF Retained, HasLine, Without
<1>3. ASSUME NEW n \in Node, n # cli.node, config[n] # None PROVE Kept(config[n].host)
  BY <1>1, <1>3 DEF Retained, HasLine, Without, Configured
<1>4. ASSUME UNCHANGED config PROVE PinnedBy(config, hosts)'
  BY <1>1, <1>2, <1>3, <1>4 DEF PairingInv, MacInv, PinnedBy
<1>5. ASSUME cli.node \in excused', cli'.config = cli.config PROVE PinnedBy(cli.config, hosts)'
  BY <1>1, <1>3, <1>5 DEF PairingInv, MacInv, Connection, Connecting, PinnedBy
<1> QED BY <1>4, <1>5

(* No other node needs the old line, and the node has a new one.            *)
LEMMA DropOldKeeps ==
  ASSUME PairingInv, DropOld
  PROVE  PairingInv'
<1>1. TypeOK'
  <2>1. hosts' \subseteq Line
    BY DEF PairingInv, Types, TypeOK, DropOld, Retained, Without
  <2> QED BY <2>1 DEF PairingInv, Types, TypeOK, DropOld, Elsewhere, win
<1>2. CliType'
  BY DEF PairingInv, Types, TypeOK, CliType, Configs, CliPcs, NodeConfig, DropOld, At,
     Elsewhere, Rest, Without, win, Configured
<1>3. HelperType'
  BY DEF PairingInv, Types, HelperType, DropOld, Elsewhere, win
<1>6. WorkerType'
  BY DEF PairingInv, Types, WorkerType, DropOld, Elsewhere, win
<1>4. MacInv'
  <2>1. cli.pc = "drop" /\ cli' = Rest /\ UNCHANGED <<config, excused>> /\ hosts' = Retained
    BY DEF DropOld, At
  <2>2. PinnedBy(config, hosts)'
    BY <2>1, RetainedPins DEF PairingInv, MacInv
  <2>3. ProvenAtRest'
    BY <2>1 DEF PairingInv, MacInv, ProvenAtRest, Copies, Connection, Connecting, Configured
  <2> QED BY <2>1, <2>2, <2>3 DEF MacInv, Copies, Connection, Connecting, Rest
<1>5. WinInv'
  BY WinIdle DEF PairingInv, DropOld, Elsewhere, win
<1> QED BY <1>1, <1>2, <1>3, <1>4, <1>5, <1>6 DEF PairingInv, Types

(* Revoke copies the configuration.                                         *)
LEMMA RevokeKeeps ==
  ASSUME PairingInv, NEW n \in Node, NEW local \in BOOLEAN, Revoke(n, local)
  PROVE  PairingInv'
<1>0. config[n] \in NodeConfig
  BY DEF PairingInv, Types, TypeOK, Revoke, Configured
<1>1. TypeOK'
  BY DEF PairingInv, Types, TypeOK, CliType, Configs, NodeConfig, Revoke, At,
     Rest, mac, Configured
<1>2. CliType'
  BY <1>0 DEF PairingInv, Types, TypeOK, CliType, Configs, CliPcs, NodeConfig, Revoke,
     At, Rest
<1>3. HelperType'
  BY DEF PairingInv, Types, HelperType, Revoke
<1>6. WorkerType'
  <2>1. CASE UNCHANGED worker
    BY <2>1 DEF PairingInv, Types, WorkerType
  <2>2. CASE worker' = [worker EXCEPT ![config[n].fp] = [Resting EXCEPT !.pc = "read", !.node = n]]
    <3>1. [Resting EXCEPT !.pc = "read", !.node = n] \in WorkerRecord
      BY DEF Resting, WorkerRecord
    <3> QED BY <2>2, <3>1 DEF PairingInv, Types, WorkerType, Resting
  <2> QED BY <2>1, <2>2 DEF Revoke
<1>4. MacInv'
  BY DEF PairingInv, Types, TypeOK, CliType, Configs, NodeConfig, MacInv, PinnedBy,
     HasLine, ProvenAtRest, Copies, Connection, Connecting, Revoke, At, Elsewhere,
     Rest, mac, Configured
<1>5. WinInv'
  BY WinIdle DEF PairingInv, Revoke
<1> QED BY <1>1, <1>2, <1>3, <1>4, <1>5, <1>6 DEF PairingInv, Types

(* The Worker has read the key file.                                        *)
LEMMA WorkerReadsKeeps ==
  ASSUME PairingInv, NEW m \in Machine, WorkerReads(m)
  PROVE  PairingInv'
<1>1. TypeOK'
  BY DEF PairingInv, Types, TypeOK, WorkerReads, mac
<1>2. CliType'
  BY DEF PairingInv, Types, CliType, WorkerReads
<1>3. HelperType'
  BY DEF PairingInv, Types, HelperType, WorkerReads
<1>6. WorkerType'
  BY DEF PairingInv, Types, TypeOK, WorkerType, WorkerRecord, WorkerReads
<1>4. MacInv'
  BY MacIdle DEF PairingInv, WorkerReads, mac
<1>5. WinInv'
  BY WinIdle DEF PairingInv, WorkerReads
<1> QED BY <1>1, <1>2, <1>3, <1>4, <1>5, <1>6 DEF PairingInv, Types

(* A node that is no longer configured needs no line.                       *)
LEMMA ForgetKeeps ==
  ASSUME PairingInv, Forget
  PROVE  PairingInv'
<1>1. TypeOK'
  BY DEF PairingInv, Types, TypeOK, CliType, Configs, NodeConfig, Forget, At,
     Elsewhere, Goes, win
<1>2. CliType'
  BY DEF PairingInv, Types, TypeOK, CliType, Configs, CliPcs, NodeConfig, Forget, At,
     Elsewhere, Goes, win
<1>3. HelperType'
  BY DEF PairingInv, Types, HelperType, Forget, Elsewhere, win
<1>6. WorkerType'
  BY DEF PairingInv, Types, WorkerType, Forget, Elsewhere, win
<1>4. MacInv'
  BY DEF PairingInv, Types, TypeOK, CliType, Configs, NodeConfig, MacInv, PinnedBy,
     HasLine, ProvenAtRest, Copies, Connection, Connecting, Forget, At, Elsewhere,
     Goes, win, Configured
<1>5. WinInv'
  BY WinIdle DEF PairingInv, Forget, Elsewhere, win
<1> QED BY <1>1, <1>2, <1>3, <1>4, <1>5, <1>6 DEF PairingInv, Types

(* Who loses his line is excused.                                           *)
LEMMA ForgetHostKeeps ==
  ASSUME PairingInv, ForgetHost
  PROVE  PairingInv'
<1>0. PICK lines \in {hosts, {}} :
        /\ Reads(lines)
        /\ hosts' = Without(lines, cli.host)
        /\ excused' = excused \cup Losers(lines)
                               \cup {n \in Configured : config[n].host = cli.host}
  BY DEF ForgetHost
<1>a. /\ UNCHANGED <<config, accepted, pending, win, codes, net>>
      /\ cli.pc = "forget_host" /\ cli' = [cli EXCEPT !.pc = "forget_record"]
      /\ excused \subseteq excused'
  BY <1>0 DEF ForgetHost, At, Goes
<1>1. TypeOK'
  <2>1. mishaps' \in 0 .. MaxMishaps
    BY <1>0, ReadsBounded DEF PairingInv
  <2>2. excused' \subseteq Node \cup Machine /\ hosts' \subseteq Line
    BY <1>0 DEF PairingInv, Types, TypeOK, Losers, Configured, Without
  <2> QED BY <1>a, <2>1, <2>2 DEF PairingInv, Types, TypeOK, win
<1>2. CliType'
  BY <1>a DEF PairingInv, Types, CliType, CliPcs
<1>3. HelperType'
  BY <1>a DEF PairingInv, Types, HelperType, win
<1>6. WorkerType'
  BY <1>a DEF PairingInv, Types, WorkerType, win
<1>4. MacInv'
  <2>1. PinnedBy(config, hosts)'
    <3> SUFFICES ASSUME NEW n \in Node, config[n] # None
                 PROVE  n \in excused' \/ HasLine(hosts', config[n].host, config[n].fp)
      BY <1>a DEF PinnedBy, HasLine
    <3>1. CASE lines # hosts
      BY <1>0, <3>1 DEF Losers, Configured
    <3>2. CASE lines = hosts /\ config[n].host # cli.host
      BY <1>0, <3>2 DEF PairingInv, MacInv, PinnedBy, HasLine, Without
    <3>3. CASE config[n].host = cli.host
      BY <1>0, <3>3 DEF Configured
    <3> QED BY <3>1, <3>2, <3>3
  <2>2. ProvenAtRest' /\ Copies' /\ Connection'
    BY <1>a DEF PairingInv, Types, CliType, MacInv, ProvenAtRest, At, Copies, Connection,
       Connecting
  <2> QED BY <2>1, <2>2 DEF MacInv
<1>5. WinInv'
  BY <1>a, WinIdle DEF PairingInv, win
<1> QED BY <1>1, <1>2, <1>3, <1>4, <1>5, <1>6 DEF PairingInv, Types

(* At rest every node but the forgotten one is as it was.                   *)
LEMMA ForgetRecordKeeps ==
  ASSUME PairingInv, ForgetRecord
  PROVE  PairingInv'
<1>1. TypeOK'
  BY DEF PairingInv, Types, TypeOK, CliType, Configs, NodeConfig, ForgetRecord, At,
     Elsewhere, Rest, win
<1>2. CliType'
  BY DEF PairingInv, Types, TypeOK, CliType, Configs, CliPcs, NodeConfig, ForgetRecord,
     At, Elsewhere, Rest, win
<1>3. HelperType'
  BY DEF PairingInv, Types, HelperType, ForgetRecord, Elsewhere, win
<1>6. WorkerType'
  BY DEF PairingInv, Types, WorkerType, ForgetRecord, Elsewhere, win
<1>4. MacInv'
  BY DEF PairingInv, Types, TypeOK, CliType, Configs, NodeConfig, MacInv, PinnedBy,
     HasLine, ProvenAtRest, Copies, Connection, Connecting, ForgetRecord, At,
     Elsewhere, Rest, win, Configured
<1>5. WinInv'
  BY WinIdle DEF PairingInv, ForgetRecord, Elsewhere, win
<1> QED BY <1>1, <1>2, <1>3, <1>4, <1>5, <1>6 DEF PairingInv, Types

(* The Worker's revoke stops or runs on.                                    *)
LEMMA WorkerRuns ==
  ASSUME Types, WorkerGoesOn
  PROVE  WorkerType'
<1>1. Resting \in WorkerRecord /\ Resting.pc = "idle"
  BY DEF Resting, WorkerRecord
<1> QED BY <1>1 DEF Types, WorkerType, WorkerGoesOn

(* A command that fails goes on to its undoing, or leaves what is proven.   *)
LEMMA StepFailsKeeps ==
  ASSUME PairingInv, StepFails
  PROVE  PairingInv'
<1>1. TypeOK'
  BY BoundAssumption DEF PairingInv, Types, TypeOK, CliType, Configs, NodeConfig,
     StepFails, AfterFailure, At, Mishap, Rest, mac, win
<1>2. CliType'
  BY DEF PairingInv, Types, TypeOK, CliType, Configs, CliPcs, NodeConfig, StepFails,
     AfterFailure, At, Mishap, Rest, mac, win
<1>3. HelperType'
  BY DEF PairingInv, Types, HelperType, StepFails, win
<1>6. WorkerType'
  BY WorkerRuns DEF PairingInv, StepFails
<1>4. MacInv'
  <2>1. /\ UNCHANGED <<config, hosts>> /\ excused \subseteq excused'
        /\ cli.pc \in {"unconfig", "unhosts"} => cli.node \in excused'
        /\ cli.pc # "idle" /\ cli.node \in Node
    BY DEF PairingInv, Types, CliType, StepFails, At, mac
  <2>2. PinnedBy(config, hosts)'
    BY <2>1 DEF PairingInv, MacInv, PinnedBy, HasLine
  <2>3. CASE AfterFailure = "idle"
    <3>1. cli' = Rest /\ cli.pc \notin {"verify", "record", "unpend", "drop"}
      BY <2>3 DEF StepFails, AfterFailure
    <3>2. ASSUME NEW n \in Node,
       config[n] # None PROVE n \in excused' \/ config[n].proven
      BY <2>1, <3>1, <3>2 DEF PairingInv, Types, CliType, CliPcs, MacInv, Copies
    <3>3. ProvenAtRest'
      BY <2>1, <3>2 DEF ProvenAtRest, Configured
    <3> QED BY <2>2, <3>1, <3>3 DEF MacInv, Copies, Connection, Connecting, Rest
  <2>4. CASE AfterFailure # "idle"
    <3>1. /\ cli' = [cli EXCEPT !.pc = "unconfig"]
          /\ cli.pc \in Connecting
      BY <2>1, <2>4 DEF StepFails, AfterFailure, Connecting
    <3>2. cli'.pc = "unconfig" /\ cli'.node = cli.node /\ cli'.config = cli.config
          /\ cli'.hosts = cli.hosts
      BY <3>1 DEF PairingInv, Types, CliType
    <3>3. Copies' /\ ProvenAtRest'
      BY <2>1, <3>2 DEF PairingInv, MacInv, Copies, ProvenAtRest, At
    <3>4. Connection'
      BY <2>1, <3>1, <3>2 DEF PairingInv, MacInv, Connection, PinnedBy, HasLine
    <3> QED BY <2>2, <3>3, <3>4 DEF MacInv
  <2> QED BY <2>3, <2>4
<1>5. WinInv'
  BY WinIdle DEF PairingInv, StepFails, win
<1> QED BY <1>1, <1>2, <1>3, <1>4, <1>5, <1>6 DEF PairingInv, Types

(* The node of a command that dies is excused.                              *)
LEMMA CommandDiesKeeps ==
  ASSUME PairingInv, CommandDies
  PROVE  PairingInv'
<1>1. TypeOK'
  BY BoundAssumption DEF PairingInv, Types, TypeOK, CliType, Configs, NodeConfig,
     CommandDies, At, Mishap, Rest, mac, win
<1>2. CliType'
  BY DEF PairingInv, Types, TypeOK, CliType, Configs, CliPcs, NodeConfig, CommandDies,
     At, Mishap, Rest, mac, win
<1>3. HelperType'
  BY DEF PairingInv, Types, HelperType, CommandDies, win
<1>6. WorkerType'
  BY WorkerRuns DEF PairingInv, CommandDies
<1>4. MacInv'
  BY DEF PairingInv, Types, TypeOK, CliType, Configs, NodeConfig, MacInv, PinnedBy,
     HasLine, ProvenAtRest, Copies, Connection, Connecting, CommandDies, At, Mishap,
     Rest, mac, win, Configured
<1>5. WinInv'
  BY WinIdle DEF PairingInv, CommandDies, win
<1> QED BY <1>1, <1>2, <1>3, <1>4, <1>5, <1>6 DEF PairingInv, Types

(* A chmod that throws behind the rename excuses the node.                  *)
LEMMA ChmodFailsKeeps ==
  ASSUME PairingInv, ChmodFails
  PROVE  PairingInv'
<1>0. /\ cli.pc \in {"config", "drop"} /\ cli.node \in Node /\ cli.host \in Address
      /\ cli.fp \in Machine /\ cli.config \in Configs
      /\ excused' = excused \cup {cli.node} /\ mishaps' \in 0 .. MaxMishaps
      /\ UNCHANGED <<accepted, pending, win, codes, net>>
  BY BoundAssumption DEF PairingInv, Types, TypeOK, CliType, ChmodFails, At, Mishap
<1>3. HelperType'
  BY <1>0 DEF PairingInv, Types, HelperType, win
<1>6. WorkerType'
  BY <1>0 DEF PairingInv, Types, WorkerType, win
<1>5. WinInv'
  BY <1>0, WinIdle DEF PairingInv, win
<1>7. CASE cli.pc = "config" /\ config' = Entered /\ cli' = Rest /\ UNCHANGED hosts
  <2>1. TypeOK'
    BY <1>0, <1>7 DEF PairingInv, Types, TypeOK, Configs, NodeConfig, Entered, win
  <2>2. CliType'
    BY <1>7 DEF CliType, Rest, CliPcs
  <2>3. \A n \in Node : n # cli.node => config'[n] = config[n] /\ config[n] = cli.config[n]
    BY <1>0, <1>7 DEF PairingInv, MacInv, Copies, Entered, Configs
  <2>4. PinnedBy(config, hosts)'
    BY <1>0, <1>7, <2>3 DEF PairingInv, MacInv, PinnedBy, HasLine
  <2>5. ProvenAtRest'
    BY <1>0, <2>3 DEF PairingInv, MacInv, Copies, ProvenAtRest, Configured
  <2>6. Copies' /\ Connection'
    BY <1>7 DEF Copies, Connection, Connecting, Rest
  <2> QED BY <1>3, <1>5, <1>6, <2>1, <2>2, <2>4, <2>5, <2>6 DEF PairingInv, Types, MacInv
<1>8. CASE /\ cli.pc = "drop" /\ hosts' = Retained /\ UNCHANGED config
           /\ cli' = [cli EXCEPT !.pc = "unconfig"]
  <2>1. TypeOK'
    BY <1>0, <1>8 DEF PairingInv, Types, TypeOK, Retained, Without, win
  <2>2. CliType'
    BY <1>8 DEF PairingInv, Types, CliType, CliPcs
  <2>3. /\ cli'.pc = "unconfig" /\ cli'.node = cli.node /\ cli'.config = cli.config
        /\ cli'.hosts = cli.hosts /\ cli'.host = cli.host /\ cli'.fp = cli.fp
    BY <1>8 DEF PairingInv, Types, CliType
  <2>4. PinnedBy(config, hosts)' /\ PinnedBy(cli.config, hosts)'
    BY <1>0, <1>8, <2>3, RetainedPins
  <2>5. ProvenAtRest' /\ Copies'
    BY <1>0, <1>8, <2>3 DEF PairingInv, MacInv, ProvenAtRest, At, Copies
  <2>6. Connection'
    <3>1. PinnedBy(cli.config, cli.hosts)'
      BY <1>0, <1>8, <2>3 DEF PairingInv, MacInv, Connection, Connecting, PinnedBy
    <3>2. \A n \in Node : cli.config[n] # None /\ cli.config[n].host = cli.host =>
            n \in excused \/ cli.config[n].fp = cli.fp
      BY <1>8 DEF PairingInv, MacInv, Connection, Connecting
    <3> QED BY <1>0, <2>3, <2>4, <3>1, <3>2 DEF Connection
  <2> QED BY <1>3, <1>5, <1>6, <2>1, <2>2, <2>4, <2>5, <2>6 DEF PairingInv, Types, MacInv
<1> QED BY <1>7, <1>8 DEF ChmodFails, At, Goes

-----------------------------------------------------------------------------
(* The key files. *)

(* The Worker takes its key away, or excuses the machine.                   *)
LEMMA WorkerWritesKeeps ==
  ASSUME PairingInv, NEW m \in Machine, WorkerWrites(m)
  PROVE  PairingInv'
<1> DEFINE n == worker[m].node
           copy == worker[m].copy
<1>0. /\ copy \subseteq Node /\ n \in Node
      /\ \/ cli' = [cli EXCEPT !.pc = "forget"] /\ cli.pc = "remote"
         \/ cli' = cli
      /\ UNCHANGED <<config, hosts, accepted, pending, records, used, helper, codes, net, mishaps>>
  BY DEF PairingInv, Types, WorkerType, WorkerRecord, WorkerWrites, At, Goes, mac
<1>a. /\ keys' \in [Machine -> SUBSET Node] /\ excused' \subseteq Node \cup Machine
      /\ excused \subseteq excused'
      /\ \A k \in Machine : keys'[k] \subseteq keys[k] \/ k \in excused'
  <2>1. CASE UNCHANGED <<keys, excused>>
    BY <2>1 DEF PairingInv, Types, TypeOK
  <2>2. CASE Overwrites(m, copy, copy \ {n})
    <3>1. \A k \in Machine : k # m => keys'[k] = keys[k]
      BY <2>2 DEF PairingInv, Types, TypeOK, Overwrites
    <3>2. keys'[m] \subseteq keys[m] \/ m \in excused'
      BY <1>0, <2>2 DEF PairingInv, Types, TypeOK, Overwrites
    <3>3. /\ keys' \in [Machine -> SUBSET Node] /\ excused' \subseteq Node \cup Machine
          /\ excused \subseteq excused'
      BY <1>0, <2>2 DEF PairingInv, Types, TypeOK, Overwrites
    <3> QED BY <3>1, <3>2, <3>3
  <2> QED BY <2>1, <2>2 DEF WorkerWrites
<1>1. TypeOK'
  BY <1>0, <1>a DEF PairingInv, Types, TypeOK
<1>2. CliType'
  BY <1>0 DEF PairingInv, Types, CliType, CliPcs
<1>3. HelperType'
  BY <1>0 DEF PairingInv, Types, HelperType
<1>6. WorkerType'
  <2>1. Resting \in WorkerRecord /\ Resting.pc = "idle"
    BY DEF Resting, WorkerRecord
  <2> QED BY <2>1 DEF PairingInv, Types, WorkerType, WorkerWrites
<1>4. MacInv'
  <2>1. CASE cli' = cli
    BY <1>0, <1>a, <2>1, MacIdle DEF PairingInv, mac
  <2>2. CASE cli' = [cli EXCEPT !.pc = "forget"] /\ cli.pc = "remote"
    <3>1. PinnedBy(config, hosts)'
      BY <1>0, <1>a DEF PairingInv, MacInv, PinnedBy, HasLine
    <3>2. ProvenAtRest' /\ Copies' /\ Connection'
      BY <1>0, <1>a, <2>2 DEF PairingInv, Types, CliType, MacInv, ProvenAtRest, At, Copies,
         Connection, Connecting
    <3> QED BY <3>1, <3>2 DEF MacInv
  <2> QED BY <1>0, <2>1, <2>2
<1>5. WinInv'
  <2> SUFFICES ASSUME NEW k \in Machine PROVE KeysOf(k)' /\ HelperAt(k)'
    BY DEF WinInv
  <2>1. KeysOf(k) /\ HelperAt(k) BY DEF PairingInv, WinInv
  <2>2. KeysOf(k)' BY <1>0, <1>a, <2>1 DEF KeysOf, Listed
  <2>3. HelperAt(k)' BY <1>0, <1>a, <2>1 DEF HelperAt, Listed
  <2> QED BY <2>2, <2>3
<1> QED BY <1>1, <1>2, <1>3, <1>4, <1>5, <1>6 DEF PairingInv, Types

(* A helper that begins finds every key listed.                             *)
LEMMA PairAddKeeps ==
  ASSUME PairingInv, NEW m \in Machine, NEW c \in codes, PairAdd(m, c)
  PROVE  PairingInv'
<1>1. TypeOK'
  BY DEF PairingInv, Types, TypeOK, HelperType, HelperRecord, PairAdd, Does, Helper,
     OnMac, mac, Code
<1>2. CliType'
  BY DEF PairingInv, Types, CliType, PairAdd, OnMac, mac
<1>3. HelperType'
  <2>1. c.node \in Node /\ c.nonce \in Nonce
    BY DEF PairingInv, Types, TypeOK, Code
  <2>2. helper' = [helper EXCEPT ![m] = [Helper EXCEPT !.pc = "add", !.node = c.node,
     !.nonce = c.nonce]]
    BY DEF PairAdd
  <2> QED BY <2>1, <2>2 DEF PairingInv, Types, HelperType, HelperRecord, HelperPcs,
     Helper
<1>6. WorkerType'
  BY DEF PairingInv, Types, WorkerType, PairAdd, OnMac
<1>4. MacInv'
  BY MacIdle DEF PairingInv, PairAdd, OnMac, mac
<1>5. WinInv'
  <2> SUFFICES ASSUME NEW k \in Machine PROVE KeysOf(k)' /\ HelperAt(k)'
    BY DEF WinInv
  <2>1. KeysOf(k) /\ HelperAt(k) BY DEF PairingInv, WinInv
  <2>2. CASE k # m
    <3>1. /\ helper'[k] = helper[k] /\ keys'[k] = keys[k] /\ records'[k] = records[k]
          /\ k \in excused => k \in excused'
      BY <2>2 DEF PairingInv, Types, TypeOK, HelperType, HelperRecord, PairAdd, Does,
         Helper
    <3> QED BY <2>1, <3>1 DEF KeysOf, HelperAt, Listed
  <2>3. CASE k = m
    <3>1. KeysOf(m)'
      <4> SUFFICES ASSUME NEW j \in keys'[m]
                   PROVE  Listed(m,
                      j)' \/ (helper'[m].pc # "idle" /\ helper'[m].node = j)
        BY DEF KeysOf
      <4> QED BY <2>1, <2>3 DEF PairingInv, Types, TypeOK, HelperType, HelperRecord,
         KeysOf, HelperAt, Listed, PairAdd, Does, Helper
    <3>2. HelperAt(m)'
      BY <2>1, <2>3 DEF PairingInv, Types, TypeOK, HelperType, HelperRecord, KeysOf,
         HelperAt, Listed, PairAdd, Does, Helper
    <3> QED BY <2>3, <3>1, <3>2
  <2> QED BY <2>2, <2>3
<1> QED BY <1>1, <1>2, <1>3, <1>4, <1>5, <1>6 DEF PairingInv, Types

(* A key is revoked of a node that is listed.                               *)
LEMMA PairRevokeKeeps ==
  ASSUME PairingInv, NEW m \in Machine, NEW n \in Node, PairRevoke(m, n)
  PROVE  PairingInv'
<1>1. TypeOK'
  BY DEF PairingInv, Types, TypeOK, HelperType, HelperRecord, PairRevoke, Does, Helper,
     OnMac, mac
<1>2. CliType'
  BY DEF PairingInv, Types, CliType, PairRevoke, OnMac, mac
<1>3. HelperType'
  BY DEF PairingInv, Types, TypeOK, HelperType, HelperRecord, HelperPcs, PairRevoke,
     Does, Helper, OnMac, mac
<1>6. WorkerType'
  BY DEF PairingInv, Types, WorkerType, PairRevoke, OnMac
<1>4. MacInv'
  BY MacIdle DEF PairingInv, PairRevoke, OnMac, mac
<1>5. WinInv'
  <2> SUFFICES ASSUME NEW k \in Machine PROVE KeysOf(k)' /\ HelperAt(k)'
    BY DEF WinInv
  <2>1. KeysOf(k) /\ HelperAt(k) BY DEF PairingInv, WinInv
  <2>2. CASE k # m
    <3>1. /\ helper'[k] = helper[k] /\ keys'[k] = keys[k] /\ records'[k] = records[k]
          /\ k \in excused => k \in excused'
      BY <2>2 DEF PairingInv, Types, TypeOK, HelperType, HelperRecord, PairRevoke,
         Does, Helper
    <3> QED BY <2>1, <3>1 DEF KeysOf, HelperAt, Listed
  <2>3. CASE k = m
    <3>1. KeysOf(m)'
      <4> SUFFICES ASSUME NEW j \in keys'[m]
                   PROVE  Listed(m,
                      j)' \/ (helper'[m].pc # "idle" /\ helper'[m].node = j)
        BY DEF KeysOf
      <4> QED BY <2>1, <2>3 DEF PairingInv, Types, TypeOK, HelperType, HelperRecord,
         KeysOf, HelperAt, Listed, PairRevoke, Does, Helper
    <3>2. HelperAt(m)'
      BY <2>1, <2>3 DEF PairingInv, Types, TypeOK, HelperType, HelperRecord, KeysOf,
         HelperAt, Listed, PairRevoke, Does, Helper
    <3> QED BY <2>3, <3>1, <3>2
  <2> QED BY <2>2, <2>3
<1> QED BY <1>1, <1>2, <1>3, <1>4, <1>5, <1>6 DEF PairingInv, Types

(* The copy is the key file.                                                *)
LEMMA ReadKeeps ==
  ASSUME PairingInv, NEW m \in Machine, Read(m)
  PROVE  PairingInv'
<1>1. TypeOK'
  BY DEF PairingInv, Types, TypeOK, HelperType, HelperRecord, Read, Does, OnMac, mac
<1>2. CliType'
  BY DEF PairingInv, Types, CliType, Read, OnMac, mac
<1>3. HelperType'
  <2>1. PICK p \in {"add_write", "takeback_write", "remove_write"} :
          /\ helper' = [helper EXCEPT ![m] = [helper[m] EXCEPT !.pc = p,
             !.copy = keys[m]]]
          /\ p = "add_write" => helper[m].pc = "add"
          /\ helper[m].pc \in {"add", "takeback", "remove"}
    BY DEF Read, Does
  <2> DEFINE h == [helper[m] EXCEPT !.pc = p, !.copy = keys[m]]
  <2>2. helper[m] \in HelperRecord
    BY DEF PairingInv, Types, HelperType
  <2>3. h \in HelperRecord /\ h.pc = p /\ h.node = helper[m].node /\ h.nonce = helper[m].nonce
    BY <2>1, <2>2 DEF PairingInv, Types, TypeOK, HelperRecord, HelperPcs
  <2>4. helper' = [helper EXCEPT ![m] = h]
    BY <2>1
  <2> HIDE DEF h
  <2> QED BY <2>1, <2>3, <2>4, HelperChanges DEF PairingInv, Types, HelperType
<1>6. WorkerType'
  BY DEF PairingInv, Types, WorkerType, Read, OnMac
<1>4. MacInv'
  BY MacIdle DEF PairingInv, Read, OnMac, mac
<1>5. WinInv'
  <2> SUFFICES ASSUME NEW k \in Machine PROVE KeysOf(k)' /\ HelperAt(k)'
    BY DEF WinInv
  <2>1. KeysOf(k) /\ HelperAt(k) BY DEF PairingInv, WinInv
  <2>2. CASE k # m
    <3>1. /\ helper'[k] = helper[k] /\ keys'[k] = keys[k] /\ records'[k] = records[k]
          /\ k \in excused => k \in excused'
      BY <2>2 DEF PairingInv, Types, TypeOK, HelperType, HelperRecord, Read, Does
    <3> QED BY <2>1, <3>1 DEF KeysOf, HelperAt, Listed
  <2>3. CASE k = m
    <3>1. KeysOf(m)'
      <4> SUFFICES ASSUME NEW j \in keys'[m]
                   PROVE  Listed(m,
                      j)' \/ (helper'[m].pc # "idle" /\ helper'[m].node = j)
        BY DEF KeysOf
      <4> QED BY <2>1, <2>3 DEF PairingInv, Types, TypeOK, HelperType, HelperRecord,
         KeysOf, HelperAt, Listed, Read, Does
    <3>2. HelperAt(m)'
      BY <2>1, <2>3 DEF PairingInv, Types, TypeOK, HelperType, HelperRecord, KeysOf,
         HelperAt, Listed, Read, Does
    <3> QED BY <2>3, <3>1, <3>2
  <2> QED BY <2>2, <2>3
<1> QED BY <1>1, <1>2, <1>3, <1>4, <1>5, <1>6 DEF PairingInv, Types

(* The added key is the helper's own.                                       *)
LEMMA AddKeyKeeps ==
  ASSUME PairingInv, NEW m \in Machine, AddKey(m)
  PROVE  PairingInv'
<1>1. TypeOK'
  <2>1. keys' \in [Machine -> SUBSET Node] /\ excused' \subseteq Node \cup Machine
    <3>1. CASE UNCHANGED <<keys, excused>>
      BY <3>1 DEF PairingInv, Types, TypeOK
    <3>2. CASE Overwrites(m, helper[m].copy, helper[m].copy \cup {helper[m].node})
      <4>1. helper[m].copy \subseteq Node /\ helper[m].node \in Node
        BY DEF PairingInv, Types, HelperType, HelperRecord, AddKey, Does
      <4> QED BY <3>2, <4>1 DEF PairingInv, Types, TypeOK, Overwrites
    <3> QED BY <3>1, <3>2 DEF AddKey
  <2>2. UNCHANGED <<config, hosts, accepted, pending, records, used, codes, net, mishaps>>
    BY DEF AddKey, OnMac, mac
  <2> QED BY <2>1, <2>2 DEF PairingInv, Types, TypeOK
<1>2. CliType'
  BY DEF PairingInv, Types, CliType, AddKey, OnMac, Overwrites, mac
<1>3. HelperType'
  <2>1. PICK b \in BOOLEAN :
          /\ helper[m].pc = "add_write"
          /\ helper' = [helper EXCEPT ![m] = [helper[m] EXCEPT !.pc = "store",
             !.added = b]]
    BY DEF AddKey, Does
  <2> DEFINE h == [helper[m] EXCEPT !.pc = "store", !.added = b]
  <2>2. helper[m] \in HelperRecord
    BY DEF PairingInv, Types, HelperType
  <2>3. h \in HelperRecord /\ h.pc = "store" /\ h.node = helper[m].node /\ h.nonce = helper[m].nonce
    BY <2>1, <2>2 DEF PairingInv, Types, TypeOK, HelperRecord, HelperPcs
  <2>4. helper' = [helper EXCEPT ![m] = h]
    BY <2>1
  <2> HIDE DEF h
  <2> QED BY <2>1, <2>3, <2>4, HelperChanges DEF PairingInv, Types, HelperType
<1>6. WorkerType'
  BY DEF PairingInv, Types, WorkerType, AddKey, OnMac
<1>4. MacInv'
  BY MacIdle DEF PairingInv, AddKey, OnMac, Overwrites, mac
<1>5. WinInv'
  <2> SUFFICES ASSUME NEW k \in Machine PROVE KeysOf(k)' /\ HelperAt(k)'
    BY DEF WinInv
  <2>1. KeysOf(k) /\ HelperAt(k) BY DEF PairingInv, WinInv
  <2>2. CASE k # m
    <3>1. /\ helper'[k] = helper[k] /\ keys'[k] = keys[k] /\ records'[k] = records[k]
          /\ k \in excused => k \in excused'
      BY <2>2 DEF PairingInv, Types, TypeOK, HelperType, HelperRecord, AddKey, Does,
         Overwrites
    <3> QED BY <2>1, <3>1 DEF KeysOf, HelperAt, Listed
  <2>3. CASE k = m
    <3>1. KeysOf(m)'
      <4> SUFFICES ASSUME NEW j \in keys'[m]
                   PROVE  Listed(m,
                      j)' \/ (helper'[m].pc # "idle" /\ helper'[m].node = j)
        BY DEF KeysOf
      <4> QED BY <2>1, <2>3 DEF PairingInv, Types, TypeOK, HelperType, HelperRecord,
         KeysOf, HelperAt, Listed, AddKey, Does, Overwrites
    <3>2. HelperAt(m)'
      BY <2>1, <2>3 DEF PairingInv, Types, TypeOK, HelperType, HelperRecord, KeysOf,
         HelperAt, Listed, AddKey, Does, Overwrites
    <3> QED BY <2>3, <3>1, <3>2
  <2> QED BY <2>2, <2>3
<1> QED BY <1>1, <1>2, <1>3, <1>4, <1>5, <1>6 DEF PairingInv, Types

(* A used nonce takes the added key back.                                   *)
LEMMA StoreNonceKept ==
  ASSUME PairingInv, NEW m \in Machine, StoreNonce(m)
  PROVE  PairingInv'
<1>1. TypeOK'
  BY DEF PairingInv, Types, TypeOK, HelperType, HelperRecord, StoreNonce, AfterThrow,
     Does, OnMac, Then, mac, Helper
<1>2. CliType'
  BY DEF PairingInv, Types, CliType, StoreNonce, OnMac, mac
<1>3. HelperType'
  <2>1. CASE helper' = [helper EXCEPT ![m] = Helper]
    BY <2>1, HelperChanges DEF PairingInv, Types, Helper, HelperRecord, HelperPcs
  <2>2. ASSUME NEW p \in {"records", "takeback"}, helper[m].pc = "store",
               helper' = [helper EXCEPT ![m] = [helper[m] EXCEPT !.pc = p]]
        PROVE  HelperType'
    <3> DEFINE h == [helper[m] EXCEPT !.pc = p]
    <3>1. helper[m] \in HelperRecord
      BY DEF PairingInv, Types, HelperType
    <3>2. h \in HelperRecord /\ h.node = helper[m].node /\ h.nonce = helper[m].nonce
      BY <3>1 DEF HelperRecord, HelperPcs
    <3>3. helper' = [helper EXCEPT ![m] = h]
      BY <2>2
    <3> HIDE DEF h
    <3> QED BY <2>2, <3>2, <3>3, HelperChanges DEF PairingInv, Types, HelperType
  <2> QED BY <2>1, <2>2 DEF StoreNonce, Does, Then, AfterThrow
<1>6. WorkerType'
  BY DEF PairingInv, Types, WorkerType, StoreNonce, OnMac
<1>4. MacInv'
  BY MacIdle DEF PairingInv, StoreNonce, OnMac, mac
<1>5. WinInv'
  <2> SUFFICES ASSUME NEW k \in Machine PROVE KeysOf(k)' /\ HelperAt(k)'
    BY DEF WinInv
  <2>1. KeysOf(k) /\ HelperAt(k) BY DEF PairingInv, WinInv
  <2>2. CASE k # m
    <3>1. /\ helper'[k] = helper[k] /\ keys'[k] = keys[k] /\ records'[k] = records[k]
          /\ k \in excused => k \in excused'
      BY <2>2 DEF PairingInv, Types, TypeOK, HelperType, HelperRecord, StoreNonce,
         AfterThrow, Does, Then, Helper
    <3> QED BY <2>1, <3>1 DEF KeysOf, HelperAt, Listed
  <2>3. CASE k = m
    <3>1. KeysOf(m)'
      <4> SUFFICES ASSUME NEW j \in keys'[m]
                   PROVE  Listed(m,
                      j)' \/ (helper'[m].pc # "idle" /\ helper'[m].node = j)
        BY DEF KeysOf
      <4> QED BY <2>1, <2>3 DEF PairingInv, Types, TypeOK, HelperType, HelperRecord,
         KeysOf, HelperAt, Listed, StoreNonce, AfterThrow, Does, Then, Helper
    <3>2. HelperAt(m)'
      BY <2>1, <2>3 DEF PairingInv, Types, TypeOK, HelperType, HelperRecord, KeysOf,
         HelperAt, Listed, StoreNonce, AfterThrow, Does, Then, Helper
    <3> QED BY <2>3, <3>1, <3>2
  <2> QED BY <2>2, <2>3
<1> QED BY <1>1, <1>2, <1>3, <1>4, <1>5, <1>6 DEF PairingInv, Types

(* The key is listed.                                                       *)
LEMMA StoreRecordKeeps ==
  ASSUME PairingInv, NEW m \in Machine, StoreRecord(m)
  PROVE  PairingInv'
<1>1. TypeOK'
  BY DEF PairingInv, Types, TypeOK, HelperType, HelperRecord, StoreRecord, Does, OnMac,
     Then, mac, Helper
<1>2. CliType'
  BY DEF PairingInv, Types, CliType, StoreRecord, OnMac, mac
<1>3. HelperType'
  BY DEF PairingInv, Types, TypeOK, HelperType, HelperRecord, HelperPcs, StoreRecord,
     Does, OnMac, Then, mac, Helper
<1>6. WorkerType'
  BY DEF PairingInv, Types, WorkerType, StoreRecord, OnMac
<1>4. MacInv'
  BY MacIdle DEF PairingInv, StoreRecord, OnMac, mac
<1>5. WinInv'
  <2> SUFFICES ASSUME NEW k \in Machine PROVE KeysOf(k)' /\ HelperAt(k)'
    BY DEF WinInv
  <2>1. KeysOf(k) /\ HelperAt(k) BY DEF PairingInv, WinInv
  <2>2. CASE k # m
    <3>1. /\ helper'[k] = helper[k] /\ keys'[k] = keys[k] /\ records'[k] = records[k]
          /\ k \in excused => k \in excused'
      BY <2>2 DEF PairingInv, Types, TypeOK, HelperType, HelperRecord, StoreRecord,
         Does, Then, Helper
    <3> QED BY <2>1, <3>1 DEF KeysOf, HelperAt, Listed
  <2>3. CASE k = m
    <3>1. KeysOf(m)'
      <4> SUFFICES ASSUME NEW j \in keys'[m]
                   PROVE  Listed(m,
                      j)' \/ (helper'[m].pc # "idle" /\ helper'[m].node = j)
        BY DEF KeysOf
      <4> QED BY <2>1, <2>3 DEF PairingInv, Types, TypeOK, HelperType, HelperRecord,
         KeysOf, HelperAt, Listed, StoreRecord, Does, Then, Helper
    <3>2. HelperAt(m)'
      BY <2>1, <2>3 DEF PairingInv, Types, TypeOK, HelperType, HelperRecord, KeysOf,
         HelperAt, Listed, StoreRecord, Does, Then, Helper
    <3> QED BY <2>3, <3>1, <3>2
  <2> QED BY <2>2, <2>3
<1> QED BY <1>1, <1>2, <1>3, <1>4, <1>5, <1>6 DEF PairingInv, Types

(* A helper that has answered has listed its key.                           *)
LEMMA RespondKeeps ==
  ASSUME PairingInv, NEW m \in Machine, Respond(m)
  PROVE  PairingInv'
<1>1. TypeOK'
  BY DEF PairingInv, Types, TypeOK, HelperType, HelperRecord, Respond, Does, OnMac,
     Then, mac, Helper, Code
<1>2. CliType'
  BY DEF PairingInv, Types, CliType, Respond, OnMac, mac
<1>3. HelperType'
  BY DEF PairingInv, Types, TypeOK, HelperType, HelperRecord, HelperPcs, Respond, Does,
     OnMac, Then, mac, Helper, Code
<1>6. WorkerType'
  BY DEF PairingInv, Types, WorkerType, Respond, OnMac
<1>4. MacInv'
  BY MacIdle DEF PairingInv, Respond, OnMac, mac
<1>5. WinInv'
  <2> SUFFICES ASSUME NEW k \in Machine PROVE KeysOf(k)' /\ HelperAt(k)'
    BY DEF WinInv
  <2>1. KeysOf(k) /\ HelperAt(k) BY DEF PairingInv, WinInv
  <2>2. CASE k # m
    <3>1. /\ helper'[k] = helper[k] /\ keys'[k] = keys[k] /\ records'[k] = records[k]
          /\ k \in excused => k \in excused'
      BY <2>2 DEF PairingInv, Types, TypeOK, HelperType, HelperRecord, Respond, Does,
         Then, Helper
    <3> QED BY <2>1, <3>1 DEF KeysOf, HelperAt, Listed
  <2>3. CASE k = m
    <3>1. KeysOf(m)'
      <4> SUFFICES ASSUME NEW j \in keys'[m]
                   PROVE  Listed(m,
                      j)' \/ (helper'[m].pc # "idle" /\ helper'[m].node = j)
        BY DEF KeysOf
      <4> QED BY <2>1, <2>3 DEF PairingInv, Types, TypeOK, HelperType, HelperRecord,
         KeysOf, HelperAt, Listed, Respond, Does, Then, Helper
    <3>2. HelperAt(m)'
      BY <2>1, <2>3 DEF PairingInv, Types, TypeOK, HelperType, HelperRecord, KeysOf,
         HelperAt, Listed, Respond, Does, Then, Helper
    <3> QED BY <2>3, <3>1, <3>2
  <2> QED BY <2>2, <2>3
<1> QED BY <1>1, <1>2, <1>3, <1>4, <1>5, <1>6 DEF PairingInv, Types

(* The key is gone, or the machine is excused.                              *)
LEMMA RemoveKeyKeeps ==
  ASSUME PairingInv, NEW m \in Machine, RemoveKey(m)
  PROVE  PairingInv'
<1>1. TypeOK'
  BY DEF PairingInv, Types, TypeOK, HelperType, HelperRecord, RemoveKey, Does, OnMac,
     Overwrites, Then, mac, Helper
<1>2. CliType'
  BY DEF PairingInv, Types, CliType, RemoveKey, OnMac, Overwrites, mac
<1>3. HelperType'
  BY DEF PairingInv, Types, TypeOK, HelperType, HelperRecord, HelperPcs, RemoveKey,
     Does, OnMac, Overwrites, Then, mac, Helper
<1>6. WorkerType'
  BY DEF PairingInv, Types, WorkerType, RemoveKey, OnMac
<1>4. MacInv'
  BY MacIdle DEF PairingInv, RemoveKey, OnMac, Overwrites, mac
<1>5. WinInv'
  <2> SUFFICES ASSUME NEW k \in Machine PROVE KeysOf(k)' /\ HelperAt(k)'
    BY DEF WinInv
  <2>1. KeysOf(k) /\ HelperAt(k) BY DEF PairingInv, WinInv
  <2>2. CASE k # m
    <3>1. /\ helper'[k] = helper[k] /\ keys'[k] = keys[k] /\ records'[k] = records[k]
          /\ k \in excused => k \in excused'
      BY <2>2 DEF PairingInv, Types, TypeOK, HelperType, HelperRecord, RemoveKey, Does,
         Overwrites, Then, Helper
    <3> QED BY <2>1, <3>1 DEF KeysOf, HelperAt, Listed
  <2>3. CASE k = m
    <3>1. KeysOf(m)'
      <4> SUFFICES ASSUME NEW j \in keys'[m]
                   PROVE  Listed(m,
                      j)' \/ (helper'[m].pc # "idle" /\ helper'[m].node = j)
        BY DEF KeysOf
      <4> QED BY <2>1, <2>3 DEF PairingInv, Types, TypeOK, HelperType, HelperRecord,
         KeysOf, HelperAt, Listed, RemoveKey, Does, Overwrites, Then, Helper
    <3>2. HelperAt(m)'
      BY <2>1, <2>3 DEF PairingInv, Types, TypeOK, HelperType, HelperRecord, KeysOf,
         HelperAt, Listed, RemoveKey, Does, Overwrites, Then, Helper
    <3> QED BY <2>3, <3>1, <3>2
  <2> QED BY <2>2, <2>3
<1> QED BY <1>1, <1>2, <1>3, <1>4, <1>5, <1>6 DEF PairingInv, Types

(* The record goes after the key.                                           *)
LEMMA RemoveRecordKeeps ==
  ASSUME PairingInv, NEW m \in Machine, RemoveRecord(m)
  PROVE  PairingInv'
<1>1. TypeOK'
  BY DEF PairingInv, Types, TypeOK, HelperType, HelperRecord, RemoveRecord, Does,
     OnMac, Then, mac, Helper
<1>2. CliType'
  BY DEF PairingInv, Types, CliType, RemoveRecord, OnMac, mac
<1>3. HelperType'
  BY DEF PairingInv, Types, TypeOK, HelperType, HelperRecord, HelperPcs, RemoveRecord,
     Does, OnMac, Then, mac, Helper
<1>6. WorkerType'
  BY DEF PairingInv, Types, WorkerType, RemoveRecord, OnMac
<1>4. MacInv'
  BY MacIdle DEF PairingInv, RemoveRecord, OnMac, mac
<1>5. WinInv'
  <2> SUFFICES ASSUME NEW k \in Machine PROVE KeysOf(k)' /\ HelperAt(k)'
    BY DEF WinInv
  <2>1. KeysOf(k) /\ HelperAt(k) BY DEF PairingInv, WinInv
  <2>2. CASE k # m
    <3>1. /\ helper'[k] = helper[k] /\ keys'[k] = keys[k] /\ records'[k] = records[k]
          /\ k \in excused => k \in excused'
      BY <2>2 DEF PairingInv, Types, TypeOK, HelperType, HelperRecord, RemoveRecord,
         Does, Then, Helper
    <3> QED BY <2>1, <3>1 DEF KeysOf, HelperAt, Listed
  <2>3. CASE k = m
    <3>1. KeysOf(m)'
      <4> SUFFICES ASSUME NEW j \in keys'[m]
                   PROVE  Listed(m,
                      j)' \/ (helper'[m].pc # "idle" /\ helper'[m].node = j)
        BY DEF KeysOf
      <4> QED BY <2>1, <2>3 DEF PairingInv, Types, TypeOK, HelperType, HelperRecord,
         KeysOf, HelperAt, Listed, RemoveRecord, Does, Then, Helper
    <3>2. HelperAt(m)'
      BY <2>1, <2>3 DEF PairingInv, Types, TypeOK, HelperType, HelperRecord, KeysOf,
         HelperAt, Listed, RemoveRecord, Does, Then, Helper
    <3> QED BY <2>3, <3>1, <3>2
  <2> QED BY <2>2, <2>3
<1> QED BY <1>1, <1>2, <1>3, <1>4, <1>5, <1>6 DEF PairingInv, Types

(* A helper that fails takes its key back, or its key is listed.            *)
LEMMA HelperFailsKeeps ==
  ASSUME PairingInv, NEW m \in Machine, HelperFails(m)
  PROVE  PairingInv'
<1>1. TypeOK'
  BY BoundAssumption DEF PairingInv, Types, TypeOK, HelperType, HelperRecord,
     HelperFails, AfterThrow, Does, Mishap, Then, mac, Helper
<1>2. CliType'
  BY DEF PairingInv, Types, CliType, HelperFails, mac
<1>3. HelperType'
  BY DEF PairingInv, Types, TypeOK, HelperType, HelperRecord, HelperPcs, HelperFails,
     AfterThrow, Does, Mishap, Then, mac, Helper
<1>6. WorkerType'
  BY DEF PairingInv, Types, WorkerType, HelperFails, win
<1>4. MacInv'
  BY MacIdle DEF PairingInv, HelperFails, mac
<1>5. WinInv'
  <2> SUFFICES ASSUME NEW k \in Machine PROVE KeysOf(k)' /\ HelperAt(k)'
    BY DEF WinInv
  <2>1. KeysOf(k) /\ HelperAt(k) BY DEF PairingInv, WinInv
  <2>2. CASE k # m
    <3>1. /\ helper'[k] = helper[k] /\ keys'[k] = keys[k] /\ records'[k] = records[k]
          /\ k \in excused => k \in excused'
      BY <2>2 DEF PairingInv, Types, TypeOK, HelperType, HelperRecord, HelperFails,
         AfterThrow, Does, Then, Helper
    <3> QED BY <2>1, <3>1 DEF KeysOf, HelperAt, Listed
  <2>3. CASE k = m
    <3>1. KeysOf(m)'
      <4> SUFFICES ASSUME NEW j \in keys'[m]
                   PROVE  Listed(m,
                      j)' \/ (helper'[m].pc # "idle" /\ helper'[m].node = j)
        BY DEF KeysOf
      <4>1. keys'[m] = keys[m] /\ records'[m] = records[m] /\ excused \subseteq excused'
        BY DEF HelperFails
      <4>2. CASE helper'[m].pc # "idle" /\ helper'[m].node = helper[m].node
        BY <2>1, <2>3, <4>1, <4>2 DEF KeysOf, Listed
      <4>3. CASE /\ ~(helper[m].pc \in {"store", "records"} /\ helper[m].added)
                 /\ helper[m].pc # "idle"
        BY <2>1, <2>3, <4>1, <4>3 DEF PairingInv, Types, HelperType, HelperRecord,
           HelperPcs, KeysOf, HelperAt, Listed, HelperFails
      <4>4. CASE helper[m].pc \in {"store", "records"} /\ helper[m].added
        BY <4>2, <4>4 DEF PairingInv, Types, HelperType, HelperRecord, HelperFails,
           Then, AfterThrow
      <4> QED BY <4>3, <4>4 DEF HelperFails, Does
    <3>2. HelperAt(m)'
      BY <2>1, <2>3 DEF PairingInv, Types, TypeOK, HelperType, HelperRecord, KeysOf,
         HelperAt, Listed, HelperFails, AfterThrow, Does, Then, Helper
    <3> QED BY <2>3, <3>1, <3>2
  <2> QED BY <2>2, <2>3
<1> QED BY <1>1, <1>2, <1>3, <1>4, <1>5, <1>6 DEF PairingInv, Types

(* The machine of a helper that dies is excused.                            *)
LEMMA HelperDiesKeeps ==
  ASSUME PairingInv, NEW m \in Machine, HelperDies(m)
  PROVE  PairingInv'
<1>1. TypeOK'
  BY BoundAssumption DEF PairingInv, Types, TypeOK, HelperType, HelperRecord,
     HelperDies, Does, Mishap, Then, mac, Helper
<1>2. CliType'
  BY DEF PairingInv, Types, CliType, HelperDies, mac
<1>3. HelperType'
  BY DEF PairingInv, Types, TypeOK, HelperType, HelperRecord, HelperPcs, HelperDies,
     Does, Mishap, Then, mac, Helper
<1>6. WorkerType'
  BY DEF PairingInv, Types, WorkerType, HelperDies, win
<1>4. MacInv'
  BY MacIdle DEF PairingInv, HelperDies, mac
<1>5. WinInv'
  <2> SUFFICES ASSUME NEW k \in Machine PROVE KeysOf(k)' /\ HelperAt(k)'
    BY DEF WinInv
  <2>1. KeysOf(k) /\ HelperAt(k) BY DEF PairingInv, WinInv
  <2>2. CASE k # m
    <3>1. /\ helper'[k] = helper[k] /\ keys'[k] = keys[k] /\ records'[k] = records[k]
          /\ k \in excused => k \in excused'
      BY <2>2 DEF PairingInv, Types, TypeOK, HelperType, HelperRecord, HelperDies,
         Does, Then, Helper
    <3> QED BY <2>1, <3>1 DEF KeysOf, HelperAt, Listed
  <2>3. CASE k = m
    <3>1. KeysOf(m)'
      <4> SUFFICES ASSUME NEW j \in keys'[m]
                   PROVE  Listed(m,
                      j)' \/ (helper'[m].pc # "idle" /\ helper'[m].node = j)
        BY DEF KeysOf
      <4> QED BY <2>1, <2>3 DEF PairingInv, Types, TypeOK, HelperType, HelperRecord,
         KeysOf, HelperAt, Listed, HelperDies, Does, Then, Helper
    <3>2. HelperAt(m)'
      BY <2>1, <2>3 DEF PairingInv, Types, TypeOK, HelperType, HelperRecord, KeysOf,
         HelperAt, Listed, HelperDies, Does, Then, Helper
    <3> QED BY <2>3, <3>1, <3>2
  <2> QED BY <2>2, <2>3
<1> QED BY <1>1, <1>2, <1>3, <1>4, <1>5, <1>6 DEF PairingInv, Types

-----------------------------------------------------------------------------
(* What happens around them. *)

(* Who answers at an address changes no file.                               *)
LEMMA AddressMovesKeeps ==
  ASSUME PairingInv, NEW a \in Address, NEW m \in Machine \cup {None}, AddressMoves(a, m)
  PROVE  PairingInv'
<1>1. TypeOK'
  BY BoundAssumption DEF PairingInv, Types, TypeOK, CliType, Configs, NodeConfig,
     AddressMoves, Mishap, mac, win
<1>2. CliType'
  BY DEF PairingInv, Types, CliType, AddressMoves, mac
<1>3. HelperType'
  BY DEF PairingInv, Types, HelperType, AddressMoves, win
<1>6. WorkerType'
  BY DEF PairingInv, Types, WorkerType, AddressMoves, win
<1>4. MacInv'
  BY MacIdle DEF PairingInv, AddressMoves, mac
<1>5. WinInv'
  BY WinIdle DEF PairingInv, AddressMoves, win
<1> QED BY <1>1, <1>2, <1>3, <1>4, <1>5, <1>6 DEF PairingInv, Types

(* Codes expire without anyone's doing.                                     *)
LEMMA CodesExpireKeeps ==
  ASSUME PairingInv, NEW x \in Nonce, CodesExpire(x)
  PROVE  PairingInv'
<1>1. TypeOK'
  BY BoundAssumption DEF PairingInv, Types, TypeOK, CliType, Configs, NodeConfig,
     CodesExpire, Mishap, mac, win
<1>2. CliType'
  BY DEF PairingInv, Types, CliType, CodesExpire, mac
<1>3. HelperType'
  BY DEF PairingInv, Types, HelperType, CodesExpire, win
<1>6. WorkerType'
  BY DEF PairingInv, Types, WorkerType, CodesExpire, win
<1>4. MacInv'
  BY MacIdle DEF PairingInv, CodesExpire, mac
<1>5. WinInv'
  BY WinIdle DEF PairingInv, CodesExpire, win
<1> QED BY <1>1, <1>2, <1>3, <1>4, <1>5, <1>6 DEF PairingInv, Types

(* Nothing happens.                                                         *)
LEMMA Stutters ==
  ASSUME PairingInv, UNCHANGED vars
  PROVE  PairingInv'
<1>1. Types'
  BY DEF PairingInv, Types, TypeOK, CliType, HelperType, WorkerType, vars, mac, win
<1>2. MacInv' BY MacIdle DEF PairingInv, vars, mac
<1>3. WinInv' BY WinIdle DEF PairingInv, vars
<1> QED BY <1>1, <1>2, <1>3 DEF PairingInv

-----------------------------------------------------------------------------
(* The theorems. *)

(* Every step keeps the invariant.                                          *)
LEMMA StepHolds == PairingInv /\ [Next]_vars => PairingInv'
<1> SUFFICES ASSUME PairingInv, [Next]_vars PROVE PairingInv' OBVIOUS
<1>1. ASSUME NEW n \in Node,
             Request(n) \/ (\E a \in Address : Reconnect(n, a))
               \/ (\E local \in BOOLEAN : Revoke(n, local))
      PROVE  PairingInv'
  BY <1>1, RequestKeeps, ReconnectKeeps, RevokeKeeps
<1>2. ASSUME NEW c \in codes, NEW a \in Address, Accept(c, a) PROVE PairingInv'
  BY <1>2, AcceptKeeps
<1>3. CASE WriteHosts \/ WriteConfig \/ Verify \/ Record \/ Unpend
             \/ RestoreConfig \/ RestoreHosts \/ DropOld
  BY <1>3, WriteHostsKeeps, WriteConfigKeeps, VerifyKeeps, RecordKeeps, UnpendKeeps,
     RestoreConfigKeeps, RestoreHostsKeeps, DropOldKeeps
<1>4. CASE Forget \/ ForgetHost \/ ForgetRecord
  BY <1>4, ForgetKeeps, ForgetHostKeeps, ForgetRecordKeeps
<1>5. ASSUME NEW m \in Machine,
             \/ \E c \in codes : PairAdd(m, c)
             \/ \E n \in Node : PairRevoke(m, n)
             \/ Read(m) \/ AddKey(m) \/ StoreNonce(m) \/ StoreRecord(m) \/ Respond(m)
             \/ RemoveKey(m) \/ RemoveRecord(m) \/ HelperFails(m) \/ HelperDies(m)
             \/ WorkerReads(m) \/ WorkerWrites(m)
      PROVE  PairingInv'
  BY <1>5, PairAddKeeps, PairRevokeKeeps, ReadKeeps, AddKeyKeeps, StoreNonceKept,
     StoreRecordKeeps, RespondKeeps, RemoveKeyKeeps, RemoveRecordKeeps, HelperFailsKeeps,
     HelperDiesKeeps, WorkerReadsKeeps, WorkerWritesKeeps
<1>6. CASE StepFails \/ ChmodFails \/ CommandDies
  BY <1>6, StepFailsKeeps, ChmodFailsKeeps, CommandDiesKeeps
<1>7. ASSUME NEW a \in Address, NEW m \in Machine \cup {None}, AddressMoves(a, m)
      PROVE  PairingInv'
  BY <1>7, AddressMovesKeeps
<1>8. ASSUME NEW x \in Nonce, CodesExpire(x) PROVE PairingInv'
  BY <1>8, CodesExpireKeeps
<1>9. CASE UNCHANGED vars BY <1>9, Stutters
<1> QED BY <1>1, <1>2, <1>3, <1>4, <1>5, <1>6, <1>7, <1>8, <1>9 DEF Next

(* The invariant holds in every state.                                      *)
THEOREM InvHolds == Spec => []PairingInv
<1> QED BY InitHolds, StepHolds, PTL DEF Spec

(* Every variable keeps its type.                                           *)
THEOREM TypeCorrect == Spec => []TypeOK
<1>1. PairingInv => TypeOK BY DEF PairingInv, Types
<1> QED BY <1>1, InvHolds, PTL

(* A configured node's address has a line with the node's own fingerprint   *)
(* in known_hosts, in the midst of a command and after one that failed,     *)
(* unless it is excused (pairing-client.ts).                                *)
THEOREM StaysPinned == Spec => []Pinned
<1>1. PairingInv => Pinned BY DEF PairingInv, MacInv, PinnedBy, HasLine, Pinned, Configured
<1> QED BY <1>1, InvHolds, PTL

(* At rest a configured node has once been verified, unless it is excused:  *)
(* the catch blocks undo the rest (pairing-client.ts).                      *)
THEOREM RestsProven == Spec => []ProvenAtRest
<1>1. PairingInv => ProvenAtRest BY DEF PairingInv, MacInv
<1> QED BY <1>1, InvHolds, PTL

(* A key that may log in is listed by the app, or a helper works on it, or  *)
(* the machine is excused (Program.cs, PairingStore.cs).                    *)
THEOREM StaysListed == Spec => []KeysListed
<1>1. PairingInv => KeysListed
  BY DEF PairingInv, WinInv, KeysOf, Listed, KeysListed
<1> QED BY <1>1, InvHolds, PTL
=============================================================================
