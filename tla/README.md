# MiraBridge: a TLA+ model of its Worker, its RPC path, its pairing and its update

MiraBridge lets an MCP client on a Mac work on a Windows machine. The Mac's MCP
server starts `ssh` when it first needs a node and speaks line-delimited JSON-RPC
with a Worker process at the other end; every ssh session has a Worker process of
its own, and all Workers, all Job runners and the Windows app share one SQLite
database. This directory models the parts where those processes meet.

## The system

| Component | State it keeps | Operations | Talks to |
|---|---|---|---|
| Durable Job executor (`windows-worker/src/jobs.ts`, `persistent-runner.ts`, `process-exec.ts`) | rows of `jobs`, the runner process and the child process tree of each Job | start, run, cancel, reconcile, wait, log and terminal reads, input | state store, storage reservations, maintenance lease |
| State store (`state.ts`) | SQLite: requests and tombstones, jobs, transfers, outputs, reservations, leases, recycle scans | one method per statement or transaction | everything in the Worker |
| RPC transport (`mcp-server/src/ssh-rpc.ts`) | pool of clients, one ssh child per client, pending calls with timers | call, retry, exit and line handlers, close | Worker RPC server |
| Worker RPC server (`stdio-server.ts`) | requests in flight in this process; request ledger in SQLite | admit, join, replay, refuse, execute, store | transport, dispatch |
| Dispatch (`runtime.ts`) | configuration | one branch per operation; reserves storage around it | all of the Worker |
| Transfers (`transfers.ts` on both sides) | transfer rows with phase and owner, part files, staging, backups | begin, chunk, commit, finish, recover, clean up | storage, state |
| Storage governance (`storage.ts`) | reservations, collection lease | reserve, release, prune | state, files |
| Job input and terminal (`job-input.ts`, `terminal-snapshot.ts`, `conpty-*`) | a local socket per Job, buffered input, a promise chain of effects, a screen snapshot | send, resize, close, attach | runner and Workers |
| Files and search (`filesystem.ts`) | the user's files, hidden files beside them | read, write, edit, copy, move, delete, search | file system, other programs |
| Recycle bin (`recycle-bin.ts`) | scan receipts in SQLite | scan, empty | the shell of Windows |
| Windows app (`apps/windows`) | update recovery receipt, backup directories, maintenance lease | update, uninstall, repair, recover at startup | Worker CLI, Velopack |
| Pairing (`pairing-client.ts`, `Elevated/Program.cs`, `AuthorizedKeysManager.cs`, `PairingStore.cs`, `authorized-keys.ts`) | the Mac's configuration, `known_hosts` and records; Windows' authorized keys, records and used nonces | request, accept, reconnect, revoke; add, remove | Worker (`revoke`), ssh, the user who carries codes |
| MCP dispatch, audit, schemas, snapshots, CLIs | none that lasts | translation | |

What is hard here: several processes write the same rows with nothing but
single-statement or single-transaction atomicity; most handlers read, await a
process probe or a kill, and then write; runners, Workers and ssh processes die
at any point; a lost session is retried through a second Worker while the first
may still be executing; and launches, heartbeats, leases and reservations have
time limits that a slow host exceeds. Files of the user's, of pairing and of the
update are replaced in sequences of renames and deletions with no lock and no
transaction around them. PROJECT.json lists every such hazard at its
line, with the properties that watch it.

What makes each component correct:

* **Jobs**: one Job per idempotency key; the program of a Job starts at most once;
  a cancellation that comes before the claim wins; no more Jobs run than
  configured; none runs while the app holds the maintenance lease; a settled Job
  stays settled once its runner is past its claim; a known child is accounted for;
  every Job settles and every reservation comes back.
* **RPC**: an operation runs at most once per request id; the first payload owns
  the id; a call gets its own result, only after its operation ran; every call
  returns.
* **Transfers**: at every crash point the destination is whole, old or new, and
  recovery or clean-up never undoes a commit or a live owner's work; what is pulled is
  what the source was at one moment, and the Worker keeps nothing of a pull.
* **Storage**: admitted work fits the quota and the free space; one collector at a
  time; nothing on disk that no row names; expired contents and reservations go.
* **Input**: what was accepted reaches the child in the order of the calls, before the
  end of the input, and is not dropped while both sides live.
* **Files**: no reader sees part of a file; a replacement that fails and is undone leaves
  the old file or a newer one; nothing is destroyed that the call has not seen; no rubbish
  stays.
* **Update**: the old package outlives the receipt that names it; a rollback is tried
  once; no Job runs under an open update; every start settles what it finds.
* **Pairing**: a configured node has its own fingerprint pinned at its address and has been
  verified; no key may log in that the app does not list.

## Modules

| Module | Models |
|---|---|
| `JobOnce` | what `start_job` promises: a Job is new, accepted, started, ended |
| `JobExecutor` | the executor, shown to implement `JobOnce` |
| `JobExecutorProofs` | inductive invariant and theorems |
| `MCJobExecutor` | instances for TLC |
| `RpcPromise` | what one `SshPool.call` promises |
| `RpcSession` | pool, clients, ssh sessions, Workers and request ledger, shown to implement `RpcPromise` |
| `RpcSessionProofs` | inductive invariants and theorems |
| `MCRpcSession` | instances for TLC |
| `AtomicReplace` | what pushing to one destination promises |
| `TransferCommit` | pushes to one destination and their recovery, shown to implement `AtomicReplace` |
| `TransferPull` | pulls of files and directories to one destination on the Mac |
| `TransferProofs` | inductive invariants and theorems of both |
| `StorageGovernance` | the collector with its lease, and the admission of operations that write |
| `StorageGovernanceProofs` | inductive invariants and theorems |
| `MCStorageGovernance` | instances for TLC |
| `StdinStream` | what a Job's input promises: a first-in, first-out stream |
| `JobInput` | callers, socket, chain of effects and child, shown to implement `StdinStream` |
| `JobInputProofs` | inductive invariant and theorems |
| `WorkspaceFiles` | write, edit, copy, move, delete, and scanning and emptying the Recycle Bin |
| `WorkspaceFilesProofs` | inductive invariant and theorems |
| `MCWorkspaceFiles` | instances for TLC |
| `UpdateRecovery` | the Windows app's update, its recovery at startup, its use of the lease |
| `UpdateRecoveryProofs` | inductive invariant and theorems |
| `Pairing` | the Mac's commands and the elevated helper over the files they replace |
| `PairingProofs` | inductive invariant and theorems |
| `MCPairing` | instances for TLC |

In a module with a `Faults` constant the constant switches faults on; in the others they
are always possible, up to the bound `MaxMishaps`. A definition that stands just above
one it resembles, and that nothing uses, is a mutant of it: PROJECT.json names the
property each of them violates when it takes the other's place.

### JobExecutor

State. `rows` is the `jobs` table, cut down to the status, the idempotency key,
whether `pid` and `runner_pid` are recorded, and `cancel_requested`. `reserved`
are the Jobs with a row in `storage_reservations`; `lease` is the owner of an
unexpired execution-maintenance lease. `runner[j]` says where in `runJob` the
detached runner is and `child[j]` what became of the process tree it spawned.
`handler[h]` is one RPC handler in some Worker (or the `maintenance` command),
with what it keeps in local variables across awaits; `stale[h]` is the snapshot
`reconcileJobs` works through.

Steps. Every operation on Jobs starts with `reconcileJobs`: `Receive` is its
listing, then per stale Job a probe, perhaps a kill, and a write whose verdict
comes from the snapshot. `start_job` is `StartCheck` (queue limit, reservation),
`StartInsert` (key and lease in one transaction), `LaunchRunner`, and `LaunchDone`
or `LaunchFails`. `cancel_job` is `CancelRead`, `CancelRequest`, `CancelKill`,
`CancelWrite`. `runJob` is the `Runner...` actions in the order of the code, with
its catch and finally blocks. The claim is one transaction and, like the code,
does not look at the Job's present status. Time limits are nondeterministic: a
Job's timeout may strike whenever its child is watched.

`Faults` switches on what only a disturbed host shows: `probe` (the identity
probe yields nothing, or taskkill fails), `stall` (the heartbeat of a live runner
is older than 15 s), `slow` (a launch outlasts reconciliation's 30 s, or the CIM
call times out after creating the runner), `expiry` (a reservation runs out
before its Job ends). `Calls` chooses the operations clients use.

Simplifications: `setJobStatus`, a SELECT and an UPDATE in one turn of the event
loop, is one step; the handlers in `stale` may be reconciled in any order, which
includes the order of the listing; `wait_job` is `Look` called again; a claimed
but deleted row does not occur because rows are never deleted while active.

### RpcSession

State. `caller[c]` is one `SshPool.call`: idle, awaiting `requireNode`, waiting
for its first or second attempt, or done, and what it returned. `pool` is the
node's entry in `clients`, `child[k]` the ssh process of a client, `pending` the
calls in the pending maps. `session[s]` is an ssh process with the Worker behind
it: up, cut (dead or killed, exit event to come), gone. `lines` and `replies` are
what is in the pipes. `flight[s]` is that Worker's `inFlight` map; `tombstone`
and `stored` are the two ledger tables; `execs` counts executions.

Steps. A step is what one event loop does between two awaits. `Invoke` and
`Connect` are the two halves of `SshPool.call` around `requireNode`; `CallFails` is
the response timer or a failed write; `SessionExits`, `Garbled` and `Receive` are
the client's handlers; a rejected first attempt closes its client, empties the
pool and looks the node up again in the same step. On the Worker's side
`ReadLine` joins, replays, refuses or admits; `Execute` takes effect; `Complete`
stores and answers. `WorkerCrash` may come between any two of them, and
`ExpireResponse` is retention. Which error text ssh leaves on stderr decides
whether a failure is retryable; the model takes either.

Simplifications: a payload stands for its hash; failed operations are results
too (they are stored and replayed alike); `SshPool.close`, the `status` map and
the expiry of 90-day tombstones are left out; clients and sessions take the first
unused identity; a chunk read that is admitted again rewrites the equal tombstone, where
the code writes none.

### TransferCommit

All pushes of the model go to one destination path. A content is a model value:
`Missing`, `Old`, the upload of a transfer, a `partial` one, or a `corrupt` one
whose size is right.

State. `dest`, `part[t]`, `stage[t]` and `backup[t]` are the file system: the
destination, a transfer's part file or archive, its extraction directory, and what
its commit moved away. `rows[t]` is the row of `transfers`; of `staging_path`,
`backup_path` and the owner it keeps whether they are set. `push[t]` is where
`uploadStream` on the Mac is, `task[t]` where the Worker's handler of its present
call is, with the locals of `installPath`. `owner[t]` is the Worker that claimed
the row: none, alive or dead. `recover[r]` is one `finish` or `cleanupStale`, with
the rows it has read (`seen`), the item it is at and its two `exists` answers.

Steps. Every file operation and every statement is a step of its own, in the order
of the code: `CommitClaim`, `CommitVerify`, for directories `CommitMkdir`,
`CommitNote`, `CommitExtract`, then `installPath` as `Survey`, `Record`, `MoveAway`,
`MovedAway`, `CheckAgain`, `Place`, `Placed`, `CleanUp`, with the catch block as
`RollBack`, `Restore`, `Restored` and the blocks of `commitPush` around it as
`RemoveArchive`, `CommitDone`, `CommitDiscard`, `CommitClose`. A recovery reads rows
(`Finish`, `Sweep`), probes owners (`SkipItem`, `TakeItem`), and runs
`recoverOrRemove` one operation at a time. Between any two steps the Worker may
die (`Crash`, `RecovererCrash`), the Mac may give up (`CallFails`), and others act.

`Faults`: `io` (a file operation fails, or the destination mapping has changed);
`source` (the Mac's source changes between hashing and uploading); `late` (a Worker
reads the commit line after the Mac has given up); `ended` (a Worker ends between
the reading of its row by a recovery and the probe); `probe` (the start time of a
live process cannot be read).

Simplifications: hashing, archive preflight and manifest comparison are whether
the content is the announced one; the second check for an existing destination
that only files have (line 394) is one with `installPath`'s; Windows lets a file be
renamed over a file but not a directory (`Renamable`); 24 hours have passed for an
upload when its push is over and no handler works on it (`Aged`), and the 25 hours
of its reservation likewise; a commit is sent once per transfer, because a resent
line is answered from the request ledger (`RpcSession`).

### TransferPull

All pulls of the model read one source on the Worker and go to one destination on the Mac.

State. `source` is what lies at the source path, in parts: the chunks of a file, the files of
a directory. The value of a part counts the changes to it, so that equal readings
are equal contents; `held[p]`, a history, is what the source has been since pull `p` began.
On the Worker `opening[p]` is where `beginPull` is, with what it has read, `archive[p]` the
tar file in the data root, `listed[p]` the row of `transfers`, `booked` the reservations, and
`removal[p]` how far `recoverOrRemove` is. On the Mac `mac[p]` is where `pullPath` is, with
its locals, and `destination`, `staged[p]` and `aside[p]` are the destination, the
`.mirabridge-part` or `.mirabridge-stage` beside it, and the `.mirabridge-backup`.

Steps. The source is read twice, one part at a time, and others change it between any two
parts: a file by `hashFile` (`List`) and again by each chunk (`ReadChunk`), a directory by
`buildDirectoryManifest` (`List`) and again by tar (`Pack`), whose archive the chunks then
read. `VerifyDownload` compares with the announced size and hash, `Extract` the extracted
files with the announced manifest (`Matches`). `installFile` is `StageFile`, `InstallFile`,
`Unlink`; `installDirectory` is `Look`, `MoveAside`, `PlaceDirectory`, `Discard`, with its catch
block as `LookAgain`, `PutBack`. A removal on the Worker is asked for by `AskFinish` or found by
`SweepRow`, `SweepSlow` (a download of more than 24 hours) and `SweepOrphan`.

A setback is a crash on either side, a lost call, a failed operation, a refused reservation,
something that another program puts at the destination, or a slow download.

Simplifications: whether the source is a file or a directory is chosen with the call; both
destinations and pulled directories have entries, so that `rename` never replaces a directory
(`Replaceable`); hash and manifest are compared as what they are taken of. A part that is
changed and changed back between its two readings cannot be told from one that was not,
by the code either, and is left out. The Mac's own temporary directory is left out with its
removal.

### StorageGovernance

`JobExecutor` and `TransferCommit` take a reservation as held or not. This module
models what decides about it, `pruneStorage` and `ensureStorageCapacity`, with
operations that collect, measure, reserve, write, record and release in Workers of
their own. A `Command` is a call of `captureProcess` or `withStorageReservation`, a
`Job` a `start_job` with its runner, a `Sweeper` a Worker that collects at startup,
by its timer or on demand.

State. `bytes[i]` is what an item has on disk under the data root, an item being
the directory of an output or of a Job's logs; `wrote[o]` is what an operation has
written to a target volume besides. `rows[i]` is its row in `outputs` or `jobs`: none,
active (a queued or running Job), live, pruned (`pruned_at`, `logs_pruned_at`),
deleted. `reserved[o]` is the row in `storage_reservations`, `lease` the `gc_lease`
entry of `maintenance`, `due` whether `last_gc` is old enough. `proc[p]` holds the
locals: the measured `used` and `free`, what a loop has still to visit, the item it
is at, and whether anything was done. `late` are those that have outlasted a lease.

Steps. `AcquireLease`, then either `Look` (somebody else collects) or `Survey`, the
loops `contents`, `logrows`, and over the quota `quotaoutputs` and `quotalogs`, each of
them `RemoveContents` and `MarkRow` per item and one `End...` action, and
`MeasureAgain`; then `MeasureTarget` and `Reserve`, which is one transaction. A
removal may fail (`RemoveFails`), which aborts the collection and the operation that
asked for it, and a Worker may die between any two steps (`Crash`). Time is
`LeaseOverrun`, `DeadLeaseEnds`, `ReservationEnds`, `IntervalPasses`.

`Faults`: `io` (a process does not run, a directory is not removed); `overrun` (a
collection lasts longer than its lease); `stale` (bytes or a reservation go between
another Worker's measurement and the admission or deletion that relies on it).

Simplifications: contents have one retention for outputs and Job logs, and the two
loops over them are one, whose items come in any order, which includes the order of
the code; ages stand still, since a collection uses one `nowMs` and new items do not
age during it; measuring and removing a directory are one step; used bytes are those
of the items (SQLite, audit files and partial uploads are not counted); removal of
stored requests (`RpcSession`), tombstones, workspaces, recycle scans and audit files
and the dry run are left out; the lease's conditional deletion is one step;
identifiers of reservations are fresh; a reservation lives longer than its operation,
as all callers choose it, so it expires only when its holder is dead (`JobExecutor`
has the other case); operations write up to what they reserved, which
`captureBoundedStream` sees to for output.

### JobInput

State. `call[c]` is one `write_job_input` or `resize_job_terminal`: what it asks, how
often it has sent its message, and its result; `mail` is what is on its way through the
local socket. The runner's `listenForJobInput` keeps `attached` (`target`), `failed`
(`targetError`), `closed` (`inputClosed`), `buffered`, `resizeTo` (`pendingResize`) and
`chain`, the effects of the promise chain `delivery` that have not settled, with
`broken` once it has rejected; `queued` is the input the attach effect is writing.
`row` is the Job's row, `child` the child, `stdin` what it has been given and `screen`
the size of its terminal.

Steps. A message is refused, held (`Hold`, no child yet) or appended to the chain
(`Forward`). `Attach` appends the effect that drains the buffer, applies the last size and
closes if that was asked for: `AttachWrites`, `AttachResizes`, `AttachEnds` and its catch,
`AttachFails`. `Write`, `Close` and `Resize` settle an effect and answer its caller in one
step, because the continuation is a microtask. `EffectFails` rejects the chain and with it
everything queued. The row settles, by the runner, by `cancel_job` or by a reconciliation,
so also while the child lives (`SettleRow`); when the child is not or no longer there,
`close()` waits for the effects that were there when it was called, and the runner ends or
dies (`Gone`), which forgets its memory. A caller sends again after a second without an
answer, up to `MaxSends` times, and gives up after five.

Simplifications: data are the caller's identity; a resize carries the caller as the size;
the buffer limit counts messages; the ConPTY host is the child; a settled row that `onPid`
makes active again is in `JobExecutor`, not here; a runner that gives up while its child
lives is a runner that dies.

### WorkspaceFiles

State. `fs` is the file of each name: those of callers, and per call one hidden
temporary and one hidden backup. A file has an identity (dev and ino) and a content (the
changes in it, which is what a SHA-256 tells apart), and is `whole` or not. `bin` and
`receipts` are the Recycle Bin and `recycle_scans`. `op[o]` is a call: where it is, its
arguments, what it has `seen` (the inode it inspected, whether the destination existed,
the items of the receipt) and what it set `aside`.

Steps. Every comparison and every file operation is a step, in the order of the code:
`writeText` and `editText` are `Compare`, `Stage`, `Fill`, `Recheck`, `Commit`;
`managePath` is `Inspect`, `Identify`, then `Survey`, `Stage`, `Fill` for a copy,
`SetAside`, `Commit`, `Discard`, or `Confirm` and `Remove` for a delete; the catch
blocks are `Undo`, `Restore`, `PutBack`. `empty_recycle_bin` is `Lookup`, `Resnap`,
`Clear`, `Verify`. Other programs write and recycle at any time (`UserWrites`,
`UserRecycles`), every file operation may fail (`StepFails`, which goes to the catch block
that the code has there) and a Worker may die. `hit`, a history, marks the calls that the
properties excuse: those whose Worker died, and those with a failure that no catch block
makes good (`Untended`: writing the hidden file of a write, cleaning up, putting back). A
copy that fails, a rename that fails and a path that maps elsewhere are not excused.

Simplifications: a tree is a file; `mkdir`, links, encodings and the path policy are left
out; `exists`, which takes any error for "not there" (line 458), never errs in the model; a scan takes
all drives, and no subset of them; files and the Recycle Bin share no state, so a behaviour
is about one of them.

### UpdateRecovery

State. `installed` is the version on disk, `app` the running app with the backup
directory of its command, `receipt` `update-recovery.json`, `pkg` the package in each
backup directory, `updater` the external updater that waits for the app to exit, `lease`
the execution-maintenance lease, `job` whether a Job is active, `sick` the versions that
fail the health probe. `tried`, `lapsed` and `cut` are history for the properties.

Steps. A start is `ReadReceipt` and then, by receipt, version and health, `Probe`,
`VerifyPackage`, `MarkRollback`, `LaunchRollback`, `Complete`, `Erase`, `GiveUp`,
`Release`. An update is `BeginUpdate`, `BackupState`, `StagePackage`, `SealPackage`,
`RecordReceipt`, `Apply`, with `Undo` and `EndUpdate` as its catch blocks; uninstall and
repair take or end the lease. Any step may throw (`StepFails`) or be the app's last
(`AppDies`); the lease may expire, a package be damaged, a user start or quit the app or
install another version, the health of a version change.

Simplifications: the updater is Velopack, external: it installs a package when the app is
gone, or fails and changes nothing; a mutex and the `Busy` flag leave one app with one
command; the gate that `JobExecutor` models is `job` here.

### Pairing

State. On the Mac `config`, `hosts` (`known_hosts`), `accepted` (pairing records) and
`pending` requests, and the command `cli` with the copies it read; on each machine `keys`
(managed lines of `administrators_authorized_keys`), `records`, `used` nonces, the `helper`
and `worker`, the revoke that ssh has started there. `codes` are what the user carries,
`net` who answers at an address.

Steps. Each file is replaced as a whole, a step each: accept and reconnect are
`WriteHosts`, `WriteConfig`, `Verify`, then `Record`, `Unpend` or `DropOld`, with the
catch blocks `RestoreConfig`, `RestoreHosts`; revoke is `WorkerReads`, `WorkerWrites`
(unless `--local-only`), `Forget`, `ForgetHost`, `ForgetRecord`; the helper is `Read`,
`AddKey`, `StoreNonce`, `StoreRecord`, `Respond`, or `Read`, `RemoveKey`, `RemoveRecord`.
Each may fail or die at each step (`StepFails`, `HelperFails`, ...); a `chmod` may fail behind
its rename (`ChmodFails`); when the Mac's command gives up, the Worker's revoke goes on or
stops (`WorkerGoesOn`); an address may pass to another machine. Accept, reconnect and revoke
read `known_hosts` with `.catch(() => "")`, so that an error reads as an empty file
(`Reads`); the command goes on, and what it writes, or puts back, lacks every other node's
line.

Simplifications: a node stands for its key and a machine for its host key; a code expires
as request and response together; one command runs on the Mac at a time, and on each machine
one helper and one revoke of the Worker; legacy nodes and the removal of all
keys at uninstall are left out.

## What the runs show

All runs of `MCJobExecutor` use one slot (`MaxConcurrent = 1`) and one place in
the queue, so two Jobs already compete; two handlers suffice for any two
operations to interleave at every await, and each property relates at most two
handlers and a runner, or two runners. Crashes are bounded by `MaxCrashes`.

| Run | Instance | States | Properties |
|---|---|---|---|
| `admission` | 2 Jobs, 1 key, 2 crashes; look, start, maintain; no fault | 626,531 | `SlotBound`, `MaintenanceExclusion`, `RecordedChildIsAccounted`, `StartedOnce` |
| `faults` | 1 Job, every operation, every fault, 1 crash | 1,220,378 | `ChildHasRunner`, `CancelBeforeClaim`, `SettledForGood` |
| `live` | 2 Jobs, 1 crash, fair | 86,222 | `EveryJobSettles` |
| `rpc_promise` | 2 calls with ids of their own, 3 clients and sessions | 816,551 | `KeepsPromise` |
| `rpc_shared` | an effect and a chunk read under one id, 2 clients and sessions, fair | 68,975 | `AtMostOnce`, `FirstPayloadWins`, `EveryCallReturns` |
| `transfer` | 1 push, 2 recoveries, 2 chunks, 1 mishap, fair; `io`, `source` | 267,077 | `BackupRecorded`, `LiveOwnerUntouched`, `AtomicExchange`, `EveryTransferSettles` |
| `pull` | 1 pull of any kind, 2 parts, 2 changes of the source, 2 setbacks, fair | 135,081 | `SnapshotTaken`, `DestinationKept`, `PullsDrain` |
| `storage` | a command, a Job, a Sweeper, an old output larger than the quota, 2 volumes, 1 mishap, fair; `io`, `overrun` | 244,291 | `CollectorsExclude`, `ContentsFindable`, `GrantsFit`, `QuotaStops`, `SpaceReturns`, `QuotaRestored` |
| `job_input` | 2 callers of any kind, one of them sending twice, a buffer of 2, pipe or terminal, fair | 279,212 | `NothingLost`, `InOrder`, `InputArrives`, `StreamSpec` |
| `workspace` | 2 calls of any kind, 2 paths, a foreign write, 2 items on 2 drives, 1 receipt, 2 mishaps | 1,090,484 | `NoPartial`, `TidyUp`, `FailureRestores`, `SeesWhatItDestroys` |
| `update` | 3 versions, 2 backup directories, 2 mishaps, fair | 293,520 | `OldPackageKept`, `NoRetryLoop`, `LeaseCovers`, `RecoverySettles` |
| `pairing` | 2 nodes, 1 machine, 2 addresses, 2 codes, 1 mishap | 1,174,739 | `Pinned`, `ProvenAtRest`, `KeysListed` |

Each module's `TypeOK` is not in a run but proved (next section), and so is `UniqueKey`, which
`StartedOnce` implies.

A mishap is a crash or a failed file operation. Where a run has two of them they make
a failure and the failure of its rollback, a failure and a crash in its handling, or
a crash and one of its recovery. `transfer` has one, because with two TLC
does not finish its liveness in time; its other three properties are proved for any number.
Its two recoveries are enough for a `finish` to meet a `cleanupStale` and for one to act on what
the other has already cleared; the second chunk tells a partial upload from a whole one.

In `pull` two parts and two changes are what it takes for two readings to agree on no single
version of the source, and for a manifest and an archive that each mix two versions. A
directory that comes between the two renames and an operation that fails behind it are two
setbacks. Two pulls to one destination are covered by the theorems.

In `storage` three processes may collect, which is what it takes for one to outlast
its lease, a second to take it and a third to come in when the first gives it back.
Each operation writes at most a unit per volume, so that both, but not both beside
the old output, fit a quota of three; 90% of three is two. The old output is of any
age, so that retention, metadata retention and pressure all remove it in turn.

In `rpc_promise` three clients and sessions let two calls race for the first connection
and one of them retry, or both retry once; all four replacements together exceed what
TLC finishes, and are covered by the theorem instead. The properties of `rpc_shared` are
about a ledger that all sessions share, for which two are enough, and two of them are
proved for any number.

In `job_input` two callers are what order relates; a message sent twice meets its own
earlier copy and the other caller's in every order; a buffer of two is full when both have
sent. In `workspace` two calls and one foreign write are enough for another to come between
any two looks of a call, and between a failure and its undoing; two drives tell a clearing
that fails half way; two mishaps, a failed rename and a failure in undoing it. In `update`
three versions allow an update on an update, and a foreign installation that is neither the
old nor the new one; two directories, a stale one beside the present one; two mishaps, a
failed update and a failed rollback. In `pairing` two nodes of one machine share or exchange
its two addresses, race for its key file, and lose each other's lines when one reads
`known_hosts` in vain; with a single machine, `Reconnect`'s check that no other node claims
the address under another host key never refuses; the theorems hold for any number of them.

Not every property holds under every fault, and the runs say so by their constants.
`SlotBound` and `MaintenanceExclusion` fail once a launch is slow (below) or a Job is
cancelled, since no write to a row looks at its present status: a runner that claims after
its Job was settled makes it active again, and so does one that records its child's pid over
a settled row. What remains true under every fault and call is `SettledForGood`: past these
two steps of its own runner, or once a cancellation is recorded ahead of the claim, a
settled Job stays settled. Which of the terminal statuses it shows may still change.
`RecordedChildIsAccounted` needs punctual heartbeats: if a live runner looks stale at a
listing, records its child's pid after it and dies before the probe, reconciliation settles
the Job without terminating that child.

`BackupRecorded` and `LiveOwnerUntouched` fail under `late`, `ended` and `probe`:
each lets a recovery work on a row whose commit is running or has moved on since.
`AtomicExchange` is refuted only under `probe`, and by two pushes to one
destination. A crash between `mkdir` and its note, or between opening the part file
and inserting the row, leaves a file that no row names; archives among them are
swept, part files beside a destination are not. An interrupted commit that leaves
both the destination and the backup in a phase before `installed` is retained for a
person to decide, which is why `EveryTransferSettles` excepts `Ambiguous`.

`FailureRestores` and `TidyUp` hold whichever rename, copy or check fails; they except the
failure of the undoing itself, a hidden file that cannot be written, and a death. `Pinned`,
`ProvenAtRest` and `KeysListed` except the nodes and machines in `excused`; what brings
them there is said at each action and below.

`GrantsFit` fails under `stale` (below), `QuotaStops` under `stale` and with two
collectors at once, which both subtract what one of them removes. `ContentsFindable`
needs `ContentDays <= RowDays`: the schema of the configuration admits a
`metadata_retention_days` below `output_retention_days` (the defaults are 90 and 7), and
then the collector deletes the row of an output whose files it leaves, for good.

### Where the code departs from its documents

These were found while modelling and are not excluded by any property that is checked;
the runs assume them away as said, or the properties except them by name.

*Jobs.* A launch that outlasts 30 s is reconciled as `failed_to_start`, the app takes the
lease, and the runner then claims: a Job runs under maintenance (`slow`), although
ARCHITECTURE.md:66 says of the lease that it "closes the check-then-update race". A Job
that ends, or fails to start, between `cancel_job`'s read and its last write is recorded
as `cancelled`, and `exited` over a reported `cancelled` happens likewise, where
PROTOCOL.md:82 promises `JOB_ALREADY_FINISHED`. `cancel_job` reads the row before a pid is
recorded, terminates nothing, and records `cancelled` for a Job whose child then lives,
where PROTOCOL.md:170 says that termination is completed or requested. A runner that
dies between spawning the child and recording its pid leaves a child that
reconciliation cannot see; the Job is `lost`, the child lives.

*RPC.* A retry that reaches a second Worker while the first still executes is refused
with an unknown outcome, where PROTOCOL.md:80 speaks of the same response (its next
sentences say that replay fails closed when no response was stored).

*Transfers.* `finish` reads a row before its commit has moved the destination away; the
commit does so and its Worker ends before the probe; recovery sees no backup in what it
read and removes the row, so the destination is gone and nothing names the backup
(`ended`), where SECURITY.md:56 says that overwrite is atomic exchange with rollback. Two
pushes overwrite one destination: the rollback of one finds it missing, the other
installs and reports, and the rollback renames the old content over the upload.

*Pulls.* The Mac recovers nothing: when its process dies between the two renames of
`installDirectory`, the destination is gone and its content is under a hidden name that
nobody looks for. The same is left when the rename back fails, which the code swallows. The
rename back looks first and then renames: a file that comes in between is replaced when the
backup is a file. A file pulled without overwriting is reported as failed when only the
removal of its staged link failed, although it is installed. A lost answer to
`transfer_begin_pull`, or a failing `mkdtemp`, leaves the Worker's row and archive for
`cleanupStale`.

*Storage.* A command records what it wrote and releases its reservation between a Job's
measurement and the Job's admission, which counts those bytes neither as used nor as
reserved (`stale`), where ARCHITECTURE.md:92 says that reservations account for pending
bytes atomically.

*Input.* A message sent again after a second is applied twice if both copies arrive, and
a resent "data and close" may be answered "already closed" although it was applied, where
PROTOCOL.md:119 speaks of "one request-idempotent effect"; `InOrder` and `StdinStream` hold
in spite of it, because the copy is one more entry of the stream. Input that arrives while
attach drains the buffer can be overtaken by the close that attach performs: it is refused,
not lost silently. When two callers resize, the row may keep the earlier one's size.

*Files.* Between the last comparison and the rename there is a window; what comes into it
is replaced. `overwrite = false` looks once: a destination created after that is replaced
by the rename. A crash between setting aside and commit leaves the destination missing and
its content only under the hidden backup name, and so does a restoration that is skipped
because the name is taken. A failure while the temporary file is being opened or written
leaves it. Two calls with one receipt may both pass its check.

*Update.* A death between `CompleteAsync`'s deletion of the directory and that of the
receipt leaves a receipt whose completion fails at every later start (`cut`), where
INSTALL_WINDOWS.md:55 says that success removes both. Started ahead of the updater, the
app finds itself the old version, completes the receipt and gives the lease back
(`lapsed`). An error at startup keeps the lease until it expires, the lease may expire
while an update is open, and directories without a receipt are never removed.

*Pairing.* An error in reading `known_hosts` is swallowed (pairing-client.ts:251, 326, 404):
accept, reconnect or revoke goes on as if the file were empty, replaces it, and may succeed,
with the lines of all other configured nodes gone; ssh refuses those nodes until they are
paired or reconnected again. A revoke removes the `known_hosts` line of its address, which
another node there still needs. `accept` at an address where a node of another machine is
configured takes that node's line, where `reconnect` refuses. A command that dies between its
files leaves an unverified node, and so does `accept` when the `chmod` behind the rename of
its configuration fails, ahead of its `try`; `known_hosts` it writes there too. A key file
replaced from a stale copy loses the other's change, also by a Worker's revoke that outlives
the 30 s of the Mac's command. Each of them puts the node or the machine in `excused`. After the
Worker has removed the key, a revoke that failed later can only be finished with
`--local-only`.

The model also reaches states with two live sessions of one node, although
ARCHITECTURE.md:42 speaks of one: two first calls both find no client, await
`requireNode` and create one each. Nothing depends on it, because the ledger is
shared by all Workers; `KeepsPromise` is checked with those states included.

### Deadlock and fairness

`CHECK_DEADLOCK FALSE` but for `storage`, whose Sweeper never ends: elsewhere, when all
identifiers are used and no client calls, every call has returned, or the app is
uninstalled, the system rightly rests.

Fairness. Handlers and runners are single-threaded loops that run on (weak fairness). A
Job's timeout and a reservation's time limit are timers. Liveness of Jobs also needs
somebody to ask: reconciliation runs at the start of every Job operation and each second in
`wait_job`, and never by itself, so `live` assumes that a client keeps asking while a
handler is free (`SF_vars(ReconcileAll)`; strong because handlers are busy in between).
Crashes, exits, clients' other calls and the app have no fairness. In `rpc_shared` only the
event loop of the Mac and its timers are fair: nothing is assumed of the network or of the
Worker. In `transfer` handlers and recoveries run on, the Mac either goes on with an upload
or gives it up, a call without a handler ends by its timer, and `cleanupStale` is run again
and again: at each start of a Worker and by the maintenance timer. `finish` needs strong
fairness because recoveries are often busy. In `pull` the handlers and `pullPath` run on,
calls have timers, `cleanupStale` is run again and again and reservations expire; nothing is
assumed of users, of other programs and of crashes. In `storage` processes run on, a
Worker's timer fires again and again, and time runs out on the leases and reservations of
the dead; nothing is assumed of operations' order. In `job_input` the callers' timers fire,
and the runner runs the effects it can and closes its channel when the Job has settled;
nothing is assumed of messages, of the child, or of a Job ever being claimed. In `update`
the app goes on with what it has begun and the updater installs or fails; a user's session
ends and the next one starts the app (`RegisterStartup`), without which a half-done update
would simply wait.

## What is proved

TLAPS proves a theorem for each property of each run that is not one of liveness, and for
each module's types: for any numbers of Jobs, keys, handlers, slots and crashes, resp. any
calls, ids, clients and sessions, resp. any transfers, recoveries, chunks and mishaps, resp.
any pulls, parts, changes and setbacks, resp. any Workers, operations and volumes and
finitely many items, resp. any calls, paths, drives and receipts, resp. any versions and
directories, resp. any callers, resends and sizes of the buffer, resp. any nodes, machines,
addresses and codes. The assumptions on the constants, named in each module, only keep kinds
of values apart and type the constants. Where a property fails under some fault or call, its
theorem excludes it, and assumes no more than the run of the property does:

| Assumption | What it says | Theorems that make it |
|---|---|---|
| `Punctual` | no fault `stall` or `slow`, and nobody cancels; `probe` and `expiry` may happen | `SlotsAreBounded`, `MaintenanceExcludes` |
| `Undisturbed` | no fault, and nobody cancels; processes still crash | `RecordedChildrenAccounted` |
| `OwnIds` | distinct calls have distinct ids | `CallsKeepPromise` |
| `Trusted` | no fault `late`, `ended` or `probe`; `io` and `source` may happen | all of `TransferProofs` about pushes |
| `Single` | one push to the destination, any number of recoveries | `PushReplacesAtomically` |
| `ContentDays <= RowDays` | metadata are kept as long as contents at least | `ContentsStayFindable` |
| `Steady` | no fault `stale`; `io` and `overrun` may happen | `GrantsAlwaysFit`, `CollectorsStopAtTarget` |

All other theorems hold under every fault and every call.

`JobExecutorProofs`: `TypeCorrect`, `KeysAreUnique` (`UniqueKey`), `CancellationWins`
(`CancelBeforeClaim`), `StartsOnce` (the refinement `StartedOnce`), from `Invariance`.
`UniqueKey` is nearly inductive by itself, but that the row a handler inserts is
fresh needs the strengthening `IInv`: nothing of a Job exists before its row
(`AdmittedFirst`), a handler past its insertion works on an admitted Job
(`HandlerHasJob`), a Job about to be inserted belongs to one handler and is
reserved (`InsertOwned`), verdicts are decided before they are written
(`VerdictReady`), and a child appears only after a claim (`ChildAfterClaim`). Of some
thirty actions only three do something new to that relation: `StartCheck`,
`StartInsert` and `RunnerSpawn`. All the others are *quiet*: they admit nothing,
keep keys and cancellations, and move one Job's processes forwards at most. One
lemma (`Quiet`, `QuietPromise`) does the relation for quiet steps, and the lemma of
an action shows types and that it is quiet.

`SettledStays` (`SettledForGood`) needs no more than `IInv`, and holds for the writers that
make it hard: a cancellation, a stale verdict or a launch that is given up writes one
terminal status over another, a claim that finds a cancellation starts nothing and settles the
Job again, and the one runner that could make it active is past that (`ForGood`).

`ChildrenHaveRunners` (`ChildHasRunner`) needs `WatchInv`: a runner that has only its
finally block left has a settled Job (`ClosedSettled`). `SlotsAreBounded` (`SlotBound`) and
`MaintenanceExcludes` (`MaintenanceExclusion`) come from one invariant, `PunctualInv`. Its
`SteadyInv` says that a Job whose runner works is active, and holds its slot from the claim
on, until the runner itself writes the outcome; and that a Job which a reconciliation has
listed has no runner left. Every writer of a status is then the only one of its Job,
although none of them looks at the row: the claim alone, which counts in its transaction,
raises the number of slots, and the lease is granted only when no Job is active. A
cancellation, a launch slower than 30 s and a stalled heartbeat each give a Job a second
writer, and the theorems are false with any of them. `RecordedChildrenAccounted`
(`RecordedChildIsAccounted`) adds `AccountedInv`: an active Job keeps its reservation, and
whoever settles a Job whose pid is recorded has seen its child end or has ended it.

`RpcSessionProofs`: `TypeCorrect`, `ExecutedOnce` (`AtMostOnce`), `FirstPayloadOwnsId`
(`FirstPayloadWins`), `CallsKeepPromise` (`KeepsPromise`, assuming that distinct calls
have distinct ids, which `randomUUID` provides). `AtMostOnce` needs `LedgerInv`: a
flight runs what the tombstone admitted, a stored response means no flight is
left, and what may not be repeated has one flight, which has executed nothing
while it is executing. The Mac's steps leave the ledger alone, so only the
Worker's are looked at. The refinement adds `PromiseInv`: answers on their way
belong to executed operations of their own call, and a call that waits has not
been answered.

`TransferProofs`, of pushes: `TypeCorrect`, `BackupAlwaysRecorded` (`BackupRecorded`) and
`LiveOwnerIsUntouched` (`LiveOwnerUntouched`), from `CommitInvariant`, for several pushes to
one destination too. Neither property is inductive: a recovery acts on what it read long
ago. `CommitInv` says of a transfer that a running commit owns its row and is alive
(`Owned`) and that its row names the backup from before the move until after its removal
(`BackedUp`); and of a recovery and a transfer that either the recovery will skip it, or the
commit has ended for good and what was read still tells whether there is a backup
(`Settled`, `Passed`). Steps of a transfer leave other transfers and all recoveries alone
and never restart what has ended (`Alone`, `Stays`); steps of a recovery only take things
away (`Takes`). One lemma per kind of step then gives the whole invariant.

`DestinationIsWhole` says, for several pushes too, that destination and backups hold
something whole or nothing (`DestinationWhole`, of which no run is needed); what a commit is
about to place is the announced content because it has been verified (`ReadyInv`) and
nothing writes to it any more. `PushReplacesAtomically` shows that one push implements
`AtomicReplace` (`AtomicExchange`): with nobody else at the destination, where the push has
got to tells what lies there (`ExchangeInv`), what a recovery has looked up is still so
when it acts on it (`LookedInv`, `HoldsInv`), and the value that the destination holds or can be
restored to hold changes in `Place` only. A second push is excluded because its rollback may
put the old content back over the first one's upload.

Of pulls: `PullTypeCorrect`, `PullsTakeSnapshots` (`SnapshotTaken`) and
`PullsKeepDestination` (`DestinationKept`). The first reading of a source and the second
agree, and yet neither need have seen the source as it was at any one moment of its own
pass; what makes the agreed reading one version of the source is the moment between the
passes, as in a double collect. `Caught` says that `held` has a version which, part by part,
is no older than the first reading and no newer than the second, as far as that has come
(`Version`); as parts are only counted up, a part on which the two readings agree is then
the version's. `Snap` states it for each step of the Worker (`OpeningSnap`) and of the Mac
(`MacSnap`), where for a directory manifest and archive are the two readings and for a file
the hash and the chunks. `KeptInv` says what each step of `installDirectory` knows of its
backup (`KeepsAside`): once the destination was moved, the backup is there until another
content is, or the pull is one of those that `Gap` names. The destination empties only in
`MoveAside`, which fills a backup; and a pull that removes its backup or puts it back leaves
the destination filled, so that the backup of another need not be asked for.

`StorageGovernanceProofs`: `CollectionsExclude` (`CollectorsExclude`) and
`ContentsStayFindable` (`ContentsFindable`). The first follows from
`Leased`: whoever collects and has not been late is the lease's live owner. The second
needs `FindInv`: an operation's row comes into the collector's reach only when it
writes no more (`PastWriting`), what a loop visits has such a row, the item about to be
marked is empty, and in the loop over expired contents every expired live row is
still on the list (`Visit`), so that none of the rows that the end of the loop deletes
has contents. Most steps are quiet, changing neither disk nor rows, and share one
lemma.

`TypesHold`, `GrantsAlwaysFit` (`GrantsFit`) and `CollectorsStopAtTarget` (`QuotaStops`)
speak of sums over the disk. These are folds, whose laws are proved here first: a finite set
for which a law failed would contain a smallest one, because the cardinalities are
well-founded. That the sums exist at all needs finitely many items (`ItemsAssumption`). An
admission is then judged by its *load*: what the items hold, plus what each operation that
reserved may still write. What a collector or an admission has measured bounds the load of
all others from above, as long as the reservations it counts cover what is still being
written (`AllCovered`, `Counted`); and as long as no collector is late, a collector's
running estimate is never above what is used (`Estimated`), so that it deletes only while
the use is above its target.

`UpdateRecoveryProofs`: `TypeCorrect`, `OldPackageStays` (`OldPackageKept`), `RollbackOnce`
(`NoRetryLoop`), `LeaseHeld` (`LeaseCovers`), from `UpdateInv`. That a rollback is launched
once needs to know what the receipt's state says of `tried` at each step of a start
(`Launches`); that its package stays needs that a command which undoes its own directory
does not undo the receipt's (`Apart`), and that a step at which the code dereferences the
receipt has one (`ReceiptThere`); the lease, that it is held along the steps of an update
until its updater is there (`Leased`).

`WorkspaceFilesProofs`: `TypeCorrect`, `NeverPartial` (`NoPartial`), `LeavesTidy` (`TidyUp`)
and `RestoresOnFailure` (`FailureRestores`), from `FilesInv`. Its part for one call,
`CallInv`, says what the call's hidden files are at each of its steps: the temporary is
whole when it is about to be renamed, it is gone when the call has returned unless its
removal or a write of it failed, and what was set aside is under the backup's name until it
is put back. A failing rename or copy only moves the call to its catch block, where this
still holds; so that past the putting back there is a file at the destination, unless that
failed too. The names of different calls differ, so the step of one leaves the part of
another alone; one lemma says so, and each action's lemma looks at its own call.
`DestroysWhatItSaw` (`SeesWhatItDestroys`) adds `LookInv`, which ties the history of what a
call has met to where the call is: past its last look, whatever lies at its path is what it
looked at or has come since.

`JobInputProofs`: `TypeCorrect`, `InputIsKept` (`NothingLost`), `InputIsOrdered` (`InOrder`),
from `InputInv`. Input moves from the buffer to what attach has queued and from there, or
from the chain, to the child. That nothing on this way is overtaken needs three facts:
the runner holds input in the buffer before the child is there, and behind the attach
effect afterwards (`Held`); what heads the chain has been asked for by a call (`Effects`,
`Known`); and whatever a call found accepted is ahead of that call's own input wherever
both are (`LineUp`). A lemma for each kind of change, of calls, of messages and of the chain,
says which part of the invariant it leaves alone, and an action is looked at only for the
kinds of change it makes.

`InputIsAStream` is the refinement of `StdinStream` (`StreamSpec`). The mapping takes from what
is on its way only the entries that carry data, and that of a sequence which grows at one
end and shrinks at the other. The lemmas about it (`Kept...`, `Data...`) say what appending
an entry and taking the first one do; as this cannot be shown by induction over sequences,
they argue, like those about sums, with the smallest length at which one would fail. Of the
state nothing more is needed than that input follows the attach effect only when the child
is there (`ChildFirst`).

`PairingProofs`: `TypeCorrect`, `StaysPinned` (`Pinned`), `RestsProven` (`ProvenAtRest`),
`StaysListed` (`KeysListed`), from `PairingInv`. On the Mac nothing but the one command
changes a file, so that the copies it took at its start tell what each file holds at each
step (`Copies`), and, for accept and reconnect, that the lines written cover those of the copy
and the copy of the configuration is pinned by the copy of the lines (`Connection`), but for
the nodes that were excused when an error of reading left that copy empty: this
makes it safe to undo after any step, in the order in which the code does. On a machine the
helper's key either was listed before, is listed by the time the helper answers, or is
taken back (`HelperAt`); the Worker's revoke under its hands, which may outlive the Mac's
command, either takes a key away or leaves
the machine excused. The two sides share only `excused`, which grows (`MacIdle`,
`WinIdle`).

Only model-checked: liveness (`EveryJobSettles`, `EveryCallReturns`, `EveryTransferSettles`,
`PullsDrain`, `SpaceReturns`, `QuotaRestored`, `InputArrives`, `RecoverySettles`), for which
one would have to reason about fairness and `ENABLED`.

## Plan

In this order, the most consequential first:

1. `JobExecutor`, `JobOnce` and proofs: done.
2. `RpcSession`, `RpcPromise` and proofs: done.
3. `TransferCommit`, `AtomicReplace`, `TransferPull` and proofs: done.
4. `StorageGovernance` and proofs: done.
5. `JobInput`, `StdinStream` and proofs: done.
6. `UpdateRecovery` and proofs: done.
7. `WorkspaceFiles` and proofs: done.
8. `Pairing` and proofs: done. Left: the removal of all keys at uninstall, and a second machine.
9. Pure algorithms against reference definitions: head and tail bounds of captured
   output, keyset paging, output ranges, the recorder of terminal snapshots.
10. More about the executor: `setJobStatus` split into its two statements.

## What is not modelled

Path policy, code pages, schemas, redaction, audit, hardware and web snapshots,
the user interface, the command lines and the build have no state that several
actors share; PROJECT.json gives the reason for each component. Schema migration
runs once under a transaction. Reading, searching and paging keep no state.
What the elevated helper does to services and the firewall is one command after the
other on the machine's own state. Everything under "Plan" from 9 on is not modelled yet.
