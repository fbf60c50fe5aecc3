# A TLA+ model of tug-agent

tug-agent runs on a user's server. It keeps one websocket to the tug.sh API,
reports the state of the machine, receives commands from the dashboard and
executes them with docker, ssh and systemd. This directory models the parts
of it that are hard to test: what survives a crash, what several goroutines do
to each other, and what must happen in the end when connections and processes
come and go.

`PROJECT.json` lists components, runs, theorems, the source lines behind every
definition, and the hazards the properties are aimed at. Line numbers below are
those of `src/`.

## 1. The system

```
                     Run (runtime.go)                        command line
                        | one session at a time              (cmd/agent)
          +-------------+---------------+                        |
          v             v               v                   lock file, binary
   read loop       session workers   closeAllTerminals           |
   (session.go)    ping, heartbeat,                          updater, uninstall
     |      |      refresh, self-heal,                       (lifecycle)
     | acks | commands     flush loop
     v      v               |     ^ due envelopes
  outbox <- runCommand -----+-----+---> websocket ---> API ---> dashboard
  (queue)   one goroutine per command
              |-> inbox of receipts
              |-> docker, compose, deploy, migration, router, importer,
                  security, files, terminals
```

| Component | State | Operations | What is hard about it |
| --- | --- | --- | --- |
| Outbox `internal/outbox/queue.go` | items, positions, meta file, append log | Load, Enqueue, Acknowledge, DueItems, MarkAttempt, ResetPendingForRecovery, compaction | two files written one after the other, crashes between any two writes, failing writes, an older file format |
| Event delivery `events.go`, `transport.go` | flush loops and their batches | tick, write, MarkAttempt, acknowledgement | copies written outside the lock, loops of dead sessions, writes that are lost though they succeed |
| Command dispatch `command_dispatch.go`, `command_inbox.go` | receipts in memory and in a file | receive, check, mark, execute, record, queue | retried commands, racing copies, crashes between receipt and result, a capped inbox, saves that fail unnoticed |
| Session `runtime.go`, `session.go`, `errors.go` | connection, workers, failure streak | dial, snapshot, serve, tear down, wait | a blocking read without deadline, a docker command without a timeout, ends of many kinds, shutdown |
| Terminals `terminal.go` | map of shells, one mutex, readers | start, input, resize, stop, closeAll | external processes started under a mutex that the end of the session needs |
| Container refresh `events.go`, `handshake.go`, `commands_docker.go` | cache of reported states | delta, snapshot, refresh | several publishers, lost signals, deltas that overtake queued snapshots |
| Deploy, compose `deploy.go`, `docker/compose.go` | project directory, child process and pipes | clone, pull, resolve, build, up, stream output, remove | a directory that keeps what earlier deployments and editors left, pipes that fill up |
| Migration `docker/migration.go` | source and target container, keys, remote shell | prepare, preflight, stop, commit, transfer, remove | a failure after the source was stopped, a shell on the target that outlives its connection, a guess whom the target's sshd admits |
| Router `router/*.go` | routes.json, staged and loaded configuration, container | install, configure, delete, list | read-modify-write without a lock, a file rewritten in place, reload after write, an older file to take over |
| Lifecycle `lifecycle/updater.go`, `cmd/agent/main.go` | binary, staged binary, lock file | update, restart, single instance | two updates at once, stale process ids, id writes and kills that fail unnoticed |
| Hardening `security/ssh.go` | sshd's files and what it runs with, fail2ban | write, check, reload | a check that comes after the edits, an Include that nobody takes back, errors that are ignored |
| Pairing and init, importer, files, config, firewall, logging, metrics | files on the host | sequential handlers | partial failure of a sequence of edits |

What makes each correct, in a sentence: the outbox never loses what it
accepted; the API hears every fact, each in its place; a command runs once and
its result is heard; the session is always replaced; shells do not leak;
the dashboard converges to the machine; a migrated container is removed only
for one that runs, and never runs twice; a deployment runs what was fetched and
its log says how it went; the output of a command is complete; a route answered
with success is served and kept; sshd can be started with the files the agent
leaves; the binary on disk is one that passed its test, and a restarted service gets the lock.

## 2. The modules

| Module | Models | Checked through |
| --- | --- | --- |
| `DurableStore` | what the outbox promises: nothing accepted is removed before it is settled | refined by `Outbox` |
| `Outbox` | the queue and its two files, write by write | `MCOutbox` |
| `OutboxProofs`, `OutboxDurability` | its types, what leaves a running queue; durability, the refinement of `DurableStore`, restarts | tlapm |
| `ReliableChannel` | what outbox and flush loops promise together: a message is stored once, applied only while it is stored, forgotten only once applied | refined by `Delivery` |
| `Delivery` | `Outbox` with flush loops, connections and the API | `MCDelivery` |
| `DeliveryProofs` | types, unique numbers, nothing forgotten before it is applied, the refinement of `ReliableChannel` | tlapm |
| `OnceExecutor` | what the dashboard may rely on: a command is taken up once, executed at most once, finished for good and answered with one outcome | refined by `CommandDispatch` |
| `CommandDispatch` | runners of commands, the inbox and its file; the outbox through its promise | `MCCommandDispatch` |
| `DispatchProofs` | types, one execution, receipts before results, equal answers, the refinement of `OnceExecutor` | tlapm |
| `Session` | Run's loop, one session, its workers | `MCTerminals` |
| `Terminals` | `Session` with terminal commands, shells and readers | `MCTerminals` |
| `TerminalsProofs` | types, rests between attempts, shells within reach | tlapm |
| `ContainerRefresh` | publishers of deltas and snapshots, up to the dashboard's view | `MCContainerRefresh` |
| `RefreshProofs` | types, honest cache, bounded snapshots | tlapm |
| `Migration` | the target's preparation, the preflight, the source's steps, the remote shell | `MCWorkloads` |
| `Deploy` | git, Nixpacks and compose deployments, redeploys and removals on one directory | `MCWorkloads` |
| `StreamRunner` | the goroutines and pipes of `RunStreamingCommand` | `MCWorkloads` |
| `WorkloadCommands` | the three side by side | `MCWorkloads` |
| `WorkloadProofs` | types and safety of the three, alone and together: one copy, admitted transfers, survival; what deployments run and log; complete output | tlapm |
| `Routes` | route commands over routes.json, the staged file and the router | `MCHost` |
| `Hardening` | `apply_security_hardening` with sshd's check and reload, and fail2ban | `MCHost` |
| `Lifecycle` | updates of the binary; the lock file | `MCHost` |
| `HostCommands` | the three side by side | `MCHost` |
| `HostProofs` | types and safety of the three, alone and together | tlapm |

**How they interact.** `Delivery` adds its variables to those of `Outbox` and
`Terminals` to those of `Session`: a step of the composition is one of the inner
module with what it means outside. `CommandDispatch` and `ContainerRefresh` use
the outbox through what `DurableStore` promises. The handlers behind the
commands share no state with one another except docker and the disk, so each is
a module of its own, and `WorkloadCommands` and `HostCommands` interleave their
steps. Steps that touch different variables cannot disturb one another, so
`MCWorkloads` and `MCHost` choose one kind of command (a world) in the initial state
and take only steps of its module, instead of the product of all of them.

**State and steps.** A Go mutex that is held for a whole exported method makes
that method one action (`Outbox`, `inbox.get`), split only where something
else can come in between: a process can die between two disk writes, so every
write is an action and `pc` names the next one; a PTY write or a `docker exec`
under `termMu` can take for ever, so `termMu` is a variable. Goroutines that
hold no lock (runners, flush loops, publishers, handlers) are a step counter per
goroutine: `at`, `job`, `dstep`, `rstep`, `hstep`, `ustep`. `os.WriteFile` is two
steps, truncate and write, either of which may fail or be cut short by a crash,
wherever somebody can meet the file in between (the inbox, `routes.json`, sshd's
main file and the drop-in, the lock file).
A message, a container state, a connection, a table of routes, a file is a
model value or a small record. A call of docker, git, ssh, systemctl or sshd is
one step with every outcome the code can meet: a failure is always possible, and
may leave the effect behind where the tool does.

**Histories.** These are written and never read by a step: `accepted`, `settled`,
`issued`, `offered` (Outbox), `runs`, `told`, `saved`, `exposed` (CommandDispatch),
`rested` (Session), `told` (Terminals), `written` (ContainerRefresh), `named`,
`overlapped`, `stopFailed` (Migration), `raced`, `lastDeploy` (Deploy), `booked`,
`lastRoute`, `met` (Routes), `lastHard`, `tangled`, `torn`, `unchecked`, `unloaded`
(Hardening), `lastUpdate`, `crossed`, `contended`, `unnamed`, `survivors` (Lifecycle);
`Migration.crashed` and `sends`, `crashes` only bound the model. Those that say that
commands met, or that a write, a kill or a process came to a bad end in a certain
place, state the exceptions of a property: they are what the code leaves to luck, and
section 5 lists them. The failure itself is always a step of the model.

**Abstractions.**
- *Time.* An attempt makes an item wait; `BecomeDue` ends the wait at any time.
  Delays of the reconnect loop are a phase `sleep`; the numbers of
  `jitteredBackoff` are left to its unit tests, and the streak saturates where
  the backoff stops growing. A deadline may pass at any time (`Expire`).
- *DueItems* has its batch limit in `Delivery`, not in `Outbox`.
- *Stream ids* are numbers in the order they are drawn, so fresh ones differ;
  the code draws them at random.
- *The API* applies an envelope the first time it sees its place
  `<<stream, seq>>` and acknowledges a prefix of a stream. This is how the code
  uses `protocol.Ack` (`ack_upto_seq`); the service itself is not in this
  repository.
- *The dashboard* replaces its list on a snapshot and one entry on a delta.
- *Publishers* of `ContainerRefresh` run any sequence of jobs (snapshot, full
  refresh, report of one container), which includes the sequences the handlers
  in `commands_docker.go` run.
- *Log lines* are a set, the last good line of each seq, which is what a reader
  makes of the file. A line appended to a torn tail is unreadable with it.
- *Compose files* are told by where they come from: a commit, a Dockerfile, a
  Nixpacks build, an editor. `docker-compose.yml` is `std`, any other name `alt`.
- *The remote shell* of a migration is a chain of steps that may outlive ssh;
  the target's docker, sshd and file system are seen through them.
- *Routes* map a domain to a container (name and id). Ports and the text of the
  Caddyfile are left out. An install command stands for the container it makes.
- *Lines* of a streaming command are numbers, and each stage is how many it took.
- *Files* of an update are told by their inodes, since a rename moves one and a
  truncation changes it under whoever has it open.
- *Room on the disk.* Writes of `Deploy` succeed. A part of the staged configuration
  that a failing write leaves is left out (the command stops there), and `docker cp`
  copies the whole file or nothing.
- *sshd* of a migration's target admits any set of users (`HostRecord.admits`), whatever
  it says of root; its settings do not change while the model runs. In `Hardening` it
  is told what it takes: the main file, the other drop-ins, the agent's own.
- *terminal_resize* and the bytes of a terminal are not modelled.

Each property needs a fault that a mutated definition introduces
(`..._KeepsOld`, `..._NoLine` and so on, marked "Faulty variant"): they are
plausible slips in that piece of code, kept beside it and used by no run.

## 3. The runs

| Run | Asks | Size |
| --- | --- | --- |
| `Outbox_durable` | coalescing, signals, a crash anywhere but inside the meta rewrite, failing renames and opens: does what was accepted stay on disk, and does the queue implement `DurableStore`? | 2 facts, 1 signal, 1 key, 1 crash |
| `Outbox_anyfault` | every fault, a crash anywhere, an older meta file: types, and that a running queue lets go of a fact only for an acknowledgement or its successor | 2 facts, 1 key, 1 crash |
| `Outbox_torn_meta` | *violation*: durability when the meta file itself is torn | 2 facts, 1 crash |
| `Delivery_safe` | two overlapping sessions, a crash: do queue, loops and API implement `ReliableChannel` (a fact is forgotten only after the API applied it), is a restart lossless, are numbers never reused? | 2 facts, 2 connections, batches of 2 |
| `Delivery_live` | is every accepted fact delivered in the end? | 2 facts, 1 connection, batches of 1 |
| `Dispatch` | crashes anywhere (inside a save too), saves that fail, evictions, copies, retries, refused facts: of the commands that are not exposed, one execution, receipts before results, does the whole implement `OnceExecutor` (one outcome, heard the same by all); and does every command get an answer? | 3 commands (1 streaming, 1 sent twice), 2 runners, an inbox of 1, 1 crash |
| `Terminal` | are shells within reach, does the agent rest between attempts, is a lost session replaced, does a shutdown end (but for a snapshot whose docker command hangs), is the end of a shell told? | 2 ids (1 used again), 1 shell, 1 runner, 2 connections |
| `Terminal_stuck` | *violation*: replacement of a lost session when docker exec or a PTY write hangs | 1 id, as above |
| `Refresh` | bounded snapshots, honest cache, convergence | 1 container, 2 publishers, 1 change, 1 fault |
| `Workloads` | does a workload survive its migration and run once; is what was fetched deployed, does its log tell the outcome; is output complete; is no login refused half-way; do migrations and commands end? | see the worlds below |
| `Host` | is what was answered served and kept, does sshd stay startable, is what is installed tested, does a restarted service serve? | see the worlds below |
| `Host_stolen_domain` | *violation*: two configure commands for one domain | 2 commands |

The worlds of `Workloads`:

| World | Module | What happens in it |
| --- | --- | --- |
| `targets` | Migration | one migration to each of 12 targets, for a user that was asked for or not: sshd -T or the file right, wrong or silent; keys refused to everybody; a Match block against root or for it; no account with sudo, or one that is refused; agent not root; no docker; a container of that name there or not |
| `retries` | Migration | a move and a copy of one container, both prepared, one after, during or after the end of the other; connection lost, deadline, death of the agent, exit of the container, 1 image tag |
| `pulls` | Deploy | two git deployments that ask for different files, and one of an edited file |
| `builds` | Deploy | a git and a Nixpacks deployment |
| `redeploys` | Deploy | a git deployment, a redeploy and a removal |
| `stream` | StreamRunner | 6 lines, the fifth too long for the scanner; pipe, channel and batch of 2; a process with a deadline or without one; children that keep the pipe |

Commands of one world of deployments run in any order and two may meet; 4 layouts
of a commit (file asked for, another one, a Dockerfile, nothing), 2 pushes, 1 variable.

The worlds of `Host`:

| World | Module | What happens in it |
| --- | --- | --- |
| `rivals` | Routes | two configure commands for one domain and containers that differ, one for another domain |
| `drops` | Routes | two configure commands and a delete |
| `installs` | Routes | two configure commands and an install |
| `shows` | Routes | two configure commands and a listing, which may take over the legacy file |
| `harden` | Hardening | three commands, one with settings sshd refuses, two with fail2ban; two may meet and the third begins after both; a main file with the Include, with a mention of the directory or with neither, other drop-ins that sshd takes or not; every write failing or cut short |
| `update` | Lifecycle | an update of the dashboard and one of the command line, from a host that serves the right version, another one or a broken one |
| `lock` | Lifecycle | three agents, two of them without a terminal, any process id in the file; ids that are not written, kills that do not end the other in time |

In the worlds of routes the file is absent or whole, the router new or old with
routes in the legacy file, two commands may meet (no third one begins once
they have), docker fails at any step, every write of routes.json may fail before or after
the truncation, and the agent dies at any step, in the middle of a write too.

**Why the bounds are enough.** Durability and delivery are about the order of
one message against another and against a crash: two facts give every order of
line, meta write and acknowledgement, a key and a signal give coalescing and
recovery, and `CompactEvery = 2` makes both kinds of save happen. One crash is
enough for durability and for the receipts because the proofs show the rest. An inbox
of one receipt is at its limit with every second command. Two
goroutines give every race between two critical sections; two sessions give
the overlap of an old and a new one. A retry is a second migration; the third
deployment or route command is the one that meets what two others left behind.
Six lines pass every capacity of 2 at once. Where a theorem is listed the bounds
matter only to finding it. Deadlock checking is off where the bounds stop the
model (all messages sent, all commands done) or the process has stopped.

**Fairness.** Safety runs assume none. `Delivery_live`: systemd restarts the
agent (`deploy/tug-agent.service`: `Restart=always`), `Run` reconnects for ever,
goroutines are scheduled, `sync.Mutex` does not starve a waiter (strong
fairness for steps that wait for it), time passes, the API acknowledges, and
outages of the connection cease at some point; with an outage at exactly every
write of one envelope no retry could help. `Dispatch`: goroutines and the mutex; a
handler returns, which is assumed there and looked at in the modules of the handlers.
`Terminal`: goroutines, the mutex, and a write to a vanished peer fails in the end,
which TCP does. A snapshot is not assumed to end: `docker version` is started without
a context or a timeout (`handshake.go:131-133`), so it may hang for good
(`SnapshotHangs`), and `ShutdownEnds` says so. `docker exec` and PTY writes
return, which the code does not ensure either: dropping that gives `Terminal_stuck`. `Refresh`:
goroutines, the delivery of the outbox, and a self-heal snapshot again and
again (`session.go:265-273`); changes and faults are bounded, which is what
"once the machine is quiet" means. `Workloads`: the handlers' goroutines run and
time passes, so that deadlines expire and kill the processes that know them. Only
deploy and redeploy have one (`commands_docker.go:168`, `:200`); the process of a
`git_deploy` (`commands.go:160` to `deploy.go:106`) is not assumed to end, and
`StreamReturns` waits for it. Nothing is assumed of the target, of the network or of
what a command starts.

## 4. What is proved

Every theorem holds for any number of messages, commands, connections, shells,
containers, publishers, migrations, lines, routes and crashes.

- `OutboxProofs!TypeCorrect`: `Spec => []TypeOK`, under the named assumptions on
  the constants alone: every crash point, disk fault and older meta file
  included. `TypeOK` is not inductive: `Load` sets `nextSeq` to the greatest of a
  set of numbers, and such a number exists only if the set is bounded. The
  inductive invariant `TypeInv` is `TypeOK` with `Bounded`, a bound on all sequence
  numbers in memory and in the files; `BoundedMax` and `LoadedNextAbove` draw the
  consequence. `FactsLeave`: `Spec => FactsLeaveByAckOnly`, also for all constants; it
  needs only that the queue of a dead process is empty (`DownEmpty`).
- `OutboxDurability!AcceptedIsDurable`: `Spec => []AcceptedStaysOnDisk`, and
  `OutboxImplementsStore`: `Spec => ImplementsDurableStore`. Both assume `Sound`:
  no crash between the truncation and the writing of the meta file, no short
  append, no failing meta write, no older meta file. Each of these is needed
  (see 5). `AcceptedStaysOnDisk` is not inductive: it says nothing of the lines
  below the queue, nor of what memory and the files have in common. `DurableInv`
  adds
  - `FilesWhole`: no torn line, one line to a number, a meta file that holds no
    items and is empty only between truncation and rewriting;
  - `QueueOrdered`: pending items lie between `ackUpto` and `nextSeq`, and the
    position on disk does not exceed `ackUpto`;
  - `Logged`: every pending item has its line, save the one being enqueued;
  - `LogCovered`: a line above the position on disk is that of a pending item, or
    its message is settled, so that a restart brings nothing else back;
  - `AcceptedHeld`: an accepted, unsettled message is pending with its line, or in
    the log above the acknowledged position when the process is down.

  The refinement follows from the same invariant: a step either leaves the
  messages that a restart would load alone or is one of the store's.

- `OutboxDurability!RestartKeepsAll`: `Spec => []RestartIsLossless`, if moreover no write
  fails (`IOFaults = {}`; a failed rename or open leaves an old position on disk until
  the next operation). `SameEntries` makes the correspondence of `Logged` and
  `LogCovered` exact: entries instead of messages, and no line more than the pending
  items except before the log is rewritten. `SamePosition` is about the three numbers.
- `DeliveryProofs!DeliveryHasOutbox`: `DSpec => Spec`, so that all of the above holds in a
  delivery. `DeliveryTypes`: `DSpec => []DTypeOK`; a tick finds something to write since
  a set of items has a least number (`LeastItem`). `NumbersAreUnique` and
  `ForgottenIsDelivered` assume `Strict`: `Sound`, no crash between the rewriting of the
  log and that of the meta file, and no failing open; after either a restart could
  give a number again. An acknowledgement is only a number, applied without looking at
  its stream, so `SettledWasDelivered` turns on `SameMsg`: no number has ever borne two
  messages, among all that was visible or is on disk or in memory. `Fresh` keeps it
  across restarts (what was visible is below the next number a restart would compute),
  and `Heard` says that what the API has seen under a number was visible and is applied.
- `DeliveryProofs!DeliveryImplementsChannel`: `DSpec => ImplementsReliableChannel`, under
  `Strict`, the end-to-end safety of the queue. The channel stores what a restart would
  find (`Durable`). The line of a new message is its Store (`StoreAppend`), the return of
  its Enqueue its Accept, the API's first receipt its Deliver, and a rewritten file a
  Forget; all else stutters. Three facts are needed beyond `SettledWasDelivered`: a message
  goes by one number only, the other direction of `SameMsg`, and the number of an
  enqueue in progress is new, so that no step stores a message again (`Once`); nothing
  but an append adds to the store (`StoreShrinks`); and what a loop holds a copy of is
  applied already or still on disk, although the copy was made outside the lock and the
  item may have been acknowledged since (`Copies`). `NothingLost` is the channel's point:
  what was accepted and not yet applied is on disk.

- `DispatchProofs!DispatchTypes`: `Spec => []TypeOK`, with `Typed`: the boxes in memory
  and in the file are receipts of tracked commands, one each (`IsBox`, kept by
  `Upsert`). `OnceOnly`, `ReceiptFirst` and `OneAnswer` hold without assumptions on the
  faults: saves that fail, crashes inside them, evictions and racing copies are all
  steps of `Spec`. They are about the commands that are not `exposed`, that is, all but
  those a second copy of which came before the mark, whose receipt was evicted, or
  whose receipt in memory was not that of the file when the process died. All three
  are what the world did, never what the runners made of it. The invariant `Lives`
  follows every runner: before its command is marked the command has no receipt and
  has not run, and no two runners of it are on the same side of the mark (`Alone`);
  between mark and record the receipt is "running", and afterwards it is the outcome
  (`Followed`); a command that has run has a receipt, whatever was queued or heard is
  what the receipt says, and the file says the same once a save has ended well
  (`Remembered`). `OneAnswer` is about `AnswersAgree`, which follows from `Remembered`.
- `DispatchProofs!DispatchImplementsExecutor`: `Spec => ImplementsExecutor`, likewise
  without assumptions. A command's life in `OnceExecutor` is its status in the inbox.
  The start of the save that marks it running is TakeUp and that of the one that
  records its outcome Finish, the points where memory changes; the start of the handler
  is Execute; the queued fact and every answer to a replay are Answer. A crash and an
  eviction either leave a command's receipt as it was, and stutter, or add it to what
  the executor is no longer bound by (`waived`). That the handler has run exactly once
  when its outcome is recorded is part of `Followed`.
- `TerminalsProofs!TerminalTypes`: `Spec => []TypeOK` of `Terminals`, with `Session`'s
  types. `TypeInv` adds that a shell with a reader, an entry or a report has been
  started (`Origins`), and the shapes of the records (`Shapes`); `KillOnlyEnds` and
  `TypesAfterKill` say what killing a set of shells leaves alone, and serve a stop,
  an exit and the end of a session.
- `TerminalsProofs!ReconnectRests`: `Spec => []NoReconnectStorm`; the invariant follows
  the rest from the decision through the phases to the next dial (`RestInv`).
- `TerminalsProofs!ShellsAreHeld`: `Spec => []EveryShellIsHeld`, about the shells of ids
  that are used once. A reader removes the entry of its id without looking whose
  it is. That it never removes another shell's needs `OncePerId`: an id that was
  asked for is borne by one shell or by one runner about to start it.
- `RefreshProofs!RefreshTypes`, `Reports` and `NoPileUp`: types (`Typed`), what a publisher
  reports is of its list (`ToReport`); a state skipped was written or is about to
  be; and the pending snapshots together with the publishers that have passed the
  check do not exceed what the property allows (`Bound`), though check and enqueue
  are separate.
- `WorkloadProofs!MigrationTypes`, `OneCopy`, `TransferAdmitted`, `Survival`. One copy: who
  has a shell on the target has stopped the source before, unless docker stop
  failed, and nothing starts it again (`StoppedFirst`). Admitted: nothing is assumed of
  `sshd -T`; after a preflight that went well, or on a target that could do right by
  the migration (`WellPrepared`), the transfer's login is not refused. The key of a
  user that was answered is in that user's file and stays there (`PreparedWell`), a
  preflight's "ok" stays true, and the shared key file holds the migration's own
  key from its writing to the login, whatever former tries left (`OwnKey`). Survival
  (`Survives`): while no two migrations overlap, what the remote shell has seen running
  is still there when the source is removed (`SeenIsThere`), and once it is gone no
  migration gets as far as the target again (`GoneIsFinal`).
- `WorkloadProofs!DeployTypes`, `PulledRuns`, `LogTells`. Neither property is inductive:
  both speak of the end of a deployment. `Followed` says what the last command has
  made of the directory at each of its steps, while it has met no other command and
  no edit: after the pull the file asked for is the commit's and `.env` is empty if
  the commit tracks it; after the variables are merged `.env` fits them; after the
  resolution the file compose will read is the commit's. That nobody else is at work
  then is part of it (`FollowedOthers`). The log is followed the same way, from the
  success that is written to the answer.
- `WorkloadProofs!StreamTypes`, `ReturnsComplete`: each stage is within a capacity of
  the next, and the stages stop in the order of the flow (`StreamInv`).
- `HostProofs!HardeningTypes`, `Hardened`: who writes the main file has read all of it,
  and it is empty only while somebody writes (`MainKept`, unless a write was cut
  short); with no command between its change and its check sshd takes the files that
  are there (`Checked`, unless one ended in between or the Include brought in other
  drop-ins that sshd refuses); what a command that met no one wrote is there and
  loaded (`Undisturbed`).
- `HostProofs!LifecycleTypes`, `Installed`: while updates do not cross, the binary runs, the
  staged file of one past the test runs, and one past the version check has the
  version asked for (`Installable`). `Unrefused`: who serves is in the file, or is one whose
  id did not get there (`unnamed`); who reads it kills the one that is in the way, and
  finds the lock free at its next attempt, or held by one that outlived the kill
  (`survivors`) or by an unnamed one (`LockInOrder`).
- `HostProofs!RoutesTypes`, `Applied`: while commands do not meet, the command at work is
  the last one, and what it has written so far is its table (`InOrder`). `StillOnDisk`
  and `NotStolen` assume `NoRenames` (one container keeps its name; it may be made
  again): the file keeps every domain that was given (`OnFile`), except while it is
  being written, and so does the table in hand (`InHand`), since changing one's own
  domain keeps the others (`ChangedKeeps`); nothing was given yet when the legacy file is
  taken over (`Unbooked`). A write that fails after the truncation, or a death in it,
  takes all routes with it: from there on both theorems are about the routes that
  are given later.

- `WorkloadProofs!WorkloadsCompose` and `HostProofs!HostCompose`: the modules side by side
  behave as each does alone, so their theorems hold together; `WorkloadsTypes` and
  `HostTypes` state it for the types.

Every invariant, action property and refinement that a passing run checks is thus
proved. Only model-checked are the liveness properties, which are out of the
provers' reach with `ENABLED` and fairness. That each assumption (`Sound`, `Strict`,
`NoRenames`) admits the behaviours that matter is seen in the runs: their
constants satisfy it, and every step of the code fires.

## 5. Where the code and its comments part, and known limits

Listed findings, each with a run:

1. `Outbox_torn_meta`: `persistMetaLocked` rewrites the meta file in place. A
   process killed between truncation and write leaves an empty file; `Load`
   fails on it and returns before it reads the log, which still has every line.
   `queue.go:3-5` promises the opposite. The compaction of the log, by contrast,
   goes through a temporary file and a rename.
2. `Terminal_stuck`: a `docker exec` without timeout, or a PTY nobody reads,
   holds `termMu`, and the deferred `closeAllTerminals` waits for it: the agent
   stays off line until the process is killed. `runtime.go:97-98`,
   `commands.go:46-47`.
3. `Host_stolen_domain`: two configure commands for one domain read routes.json
   before either writes it; both are answered with success and the later write
   takes the domain. `routes.go:114-115` says that this is rejected.

Limits met with the same models, without a run of their own (the constant or the
history that shows each is named):

*Outbox*
- Two crashes reuse a number: one in the middle of an enqueue (the line is
  written, the meta file is not), one between the rename of the compacted log
  and the meta write (`CrashPoints` with `"compacted"`, `MaxCrashes = 2`,
  `SeqNotReused`).
- A short append (`IOFaults` with `"append"`): `Enqueue` returns an error but
  the item stays queued; the next line is glued to the torn one and lost to a
  restart.
- A meta file of an older agent (`LegacyMsgs`): its items are loaded but never
  written to the log, and the first save drops them from the meta file.

*Commands* (the first three put a command among the `exposed` ones, for which
`RunsAtMostOnce`, `ResultBehindReceipt` and `ImplementsExecutor` promise nothing)
- Copies that arrive back to back race between the look for a receipt and the
  mark, and both execute (`ReceiveCommand`; `config.go:34-36`).
- A save of the inbox may fail, before or after it has emptied the file, and
  the error is ignored (`command_inbox.go:115`, `:137-140`). The agent goes on with the
  receipts in memory; if it dies before a later save goes well, a retried command
  runs again although its result was queued (`FinishSave`, `saved`). A crash inside a
  save empties the file likewise and exposes every command with a receipt.
- Above the cap the oldest receipt goes, even that of a command that runs (`Upsert`).
- A crash while a command runs: its receipt stays "running", every retry is
  answered "running", and it never gets a result. A crash between the receipt
  of a result and its fact: the result is never queued (`CrashRestart`).

*Sessions and terminals*
- Every session begins with a snapshot, and that with `docker version`, without a
  context or a timeout (`session.go:48`, `handshake.go:131-133`). With a docker daemon
  that does not answer, `Run` never returns from it: no shutdown, no other session
  (`SnapshotHangs`, `ShutdownEnds`).
- An id used again (`ReusedIds`): the reader of the former shell deletes the entry of
  the new one, which runs on out of reach (`EveryShellIsHeld`).
- A late terminal_start gets `termMu` after its session has closed all
  terminals; its shell outlives the session until the next one ends
  (`DiesWithSession`, which no run checks; `terminal.go:179-182`).

*Container states*
- The cache is filled by commands only. A refresh that meets a container without
  an entry sends a snapshot and leaves the cache as it is (`events.go:168-171`), so
  on a machine with one container that no command has touched every refresh
  queues a snapshot.
- Deltas may be reordered by two publishers, and overtake a queued snapshot; the
  periodic refresh skips what is in the cache, so only the self-heal snapshot
  repairs the dashboard (`DashboardConverges` needs it).
- A docker error during `buildSnapshot` reports a machine without containers
  until the next snapshot.

*Migrations*
- After a failure the source stays stopped, in copy mode too; no step starts it
  again (`StopSource`).
- A retry that begins while the shell of the former try still works on the target
  can have its restored container removed by it after the source is gone
  (`overlapped`, `WorkloadSurvives`).
- The temporary image stays when the deadline is over, since its removal uses the
  same context (`RemoveImage`); the key stays in authorized_keys, since
  `CleanupMigrationTargetKey` has no caller.
- The target decides by `PermitRootLogin` alone, every value but `no` counting as
  yes, without the Match blocks and, where sshd -T says nothing, by the main file
  (`RootSSHAllowed`; `migration.go:110-111`). Where sshd refuses the user it chose, for
  whatever reason (`migration.go:166-167`), or the one it was asked for, the preflight
  tells before anything is stopped, but nothing makes the dashboard wait for it:
  a migration that was not checked stops its source and then fails
  (`TransferIsAdmitted`, `WellPrepared`).

*Deployments*
- The first clone removes the directory with the env.json the dashboard has
  written into it (`ClearDirectory`); a clone that is killed leaves a `.git` that later
  deployments take for a checkout (`Clone`, `Broken`); a changed address of the
  repository is not noticed by a pull.
- A `docker-compose.yml` left by a mirror stays, and is used when a later commit has
  the file under a name that was not asked for (`Resolved`).
- Commands that meet in a directory promise nothing (`raced`).

*Streaming commands*
- A line over a megabyte stops the scanner, and a child that keeps the output open
  keeps the runner, past the deadline of the command (`LongLines`, `child`).
- A `git_deploy` has no deadline at all: its context is that of the request, and a
  hanging `docker compose up` keeps it for ever (`process = "untimed"`,
  `StreamReturns`).

*Router*
- routes.json is rewritten in place: a write that fails after the truncation, with
  the agent alive (`routes.go:250`, `:146-148`), and a death in the middle of it leave
  it empty or cut off (`WriteRoutes`, `RoutesCrash`), two writers can garble it (`met`).
  The next command starts from nothing or fails; the domains of the lost routes
  are free for anybody, although the router still serves them (`booked`).
- The takeover of the legacy file is a write like the others, with its error
  ignored, and a mere listing performs it (`ListRoutes`, `CreateRoutes`, `MigrateRoutes`).
- A router installed anew serves no routes until the next route command, and
  where the old one's legacy file had not been read its routes are lost
  (`RemovePrevious`, `LoadRoutes`).

*Updates and lock*
- Two updates share `<binary>.next`: one can install what the other has not finished
  writing (`crossed`). `tug update` does not restart the service.
- The lock file is emptied by a contender while its holder serves, and two that
  start at once can both give way or kill one another (`contended`).
- Whether the holder's id got into the file is not looked at (`main.go:608-611`), nor
  whether the kill went well (`591-593`), and 300 ms must do for the other one to be
  gone. An agent that systemd starts is refused by a holder without an id
  (`unnamed`) or one that lives on (`survivors`).

*Hardening*
- The Include goes to the top of `sshd_config` before anything is checked, and a
  failed check takes back the drop-in only (`ssh.go:50-67`). Where the directory has
  other drop-ins that sshd refuses, the machine is left with files sshd cannot be
  started with, and no step of the agent repairs it (`others`, `HardeningHolds`).
- Both files are rewritten in place, and errors of the main file are ignored: a write
  that is cut short loses the administrator's text, and the check afterwards takes
  whatever is still well formed (`torn`). A command that ends before its check (a death, a failing
  write or removal of the drop-in) leaves what it has changed (`unchecked`).
- A failed check removes the drop-in and with it the settings of an earlier,
  accepted command (`RevertDropIn`); drop-ins that sort before `99-tug.conf` win
  (`earlier`); a main file that mentions the directory without including it makes the
  command a success without effect; errors of the reload are ignored (`unloaded`).

Read in the code, without a model: the uninstall script is started by the service
it stops, and may end with it; `resolvePairing` does not keep an address of the
websocket given to it.

## 6. Not modelled, and what is left

Not modelled: the importer (translation of other platforms' records), the sandbox
and file commands, pairing and init, configuration, firewall rules and
`install_fail2ban`, the uninstall script, docker's single-call primitives, cron
schedules, networks, metrics, logging and the conformance client. They parse and
format, or run one external call, and keep no state that outlives it;
`PROJECT.json` has the reason for each.

Left for later:

1. **Abstract specifications**: a registry of shells that `Terminals` implements for ids
   used once (with `OncePerId` as its invariant), a table of routes that `Routes`
   implements while commands do not meet.
2. **Terminal_resize**, and the two shells of one id as a run of their own.
