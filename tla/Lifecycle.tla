----------------------------- MODULE Lifecycle ------------------------------
(***************************************************************************)
(* The agent's own binary and process: SafeUpdateWithProgress              *)
(* (internal/lifecycle/updater.go), its callers handleSelfUpdate and       *)
(* runUpdate, and acquireSingleInstanceLock (cmd/agent/main.go).           *)
(*                                                                         *)
(* Updates, of the dashboard or of the command line, download to one path, *)
(* <binary>.next, and rename it over the binary; files are told by their   *)
(* inodes.  An agent that starts takes the lock file's flock, and may kill *)
(* the process whose id it reads in the file.                              *)
(***************************************************************************)
EXTENDS Integers

CONSTANTS
  Updates,    \* updates
  FromCLI,    \* those of `tug update`, which restart nothing
  Wanted,     \* Wanted[u]: the version asked for, or Latest
  Versions,   \* what the release host may serve
  Sound,      \* those that pass --test-mode
  Latest,     \* no version asked for
  Factory,    \* the file the agent was installed as
  Agents,     \* agent processes, by process id
  Unattended, \* those started by systemd or without a terminal
  Nobody      \* no process, no file, no update

ASSUME LifecycleAssumption ==
  /\ FromCLI \subseteq Updates /\ Sound \subseteq Versions /\ Sound # {}
  /\ Wanted \in [Updates -> Versions \union {Latest}] /\ Latest \notin Versions
  /\ Factory \notin Updates /\ Nobody \notin Updates \union {Factory} \union Agents
  /\ Unattended \subseteq Agents

VARIABLES
  inode,      \* inode[i]: what the file holds
  next,       \* the file at <binary>.next
  binary,     \* the file at the binary's path
  ustep,      \* ustep[u]: the next step of the update
  fd,         \* fd[u]: the file it writes to
  serves,     \* serves[u]: what the release host sends it
  uresult,    \* uresult[u]: what it answered
  lastUpdate, \* history: the update that began last
  crossed,    \* history: two updates were under way at once
  holder,     \* who holds the flock
  pidFile,    \* the process id in the lock file
  agent,      \* agent[p]: where the process is
  tries,      \* tries[p]: its attempts at the lock
  seen,       \* seen[p]: the process id it read in the lock file
  contended,  \* history: two agents were starting at once
  unnamed,    \* history: agents whose id did not get into the lock file
  survivors   \* history: agents that a kill did not end within its 300 ms

uvars == <<inode, next, binary, ustep, fd, serves, uresult, lastUpdate, crossed>>
lockvars == <<holder, pidFile, agent, tries, seen, contended, unnamed, survivors>>
lockHistory == <<contended, unnamed, survivors>>
lvars == <<uvars, lockvars>>

Inodes == Updates \union {Factory}
Whole(v) == [is |-> "whole", v |-> v]
Partial == [is |-> "partial", v |-> Latest]
Garbled == [is |-> "garbled", v |-> Latest]
Runs(file) == file.is = "whole" /\ file.v \in Sound

LifecycleInit ==
  /\ inode = [i \in Inodes |-> Whole(CHOOSE v \in Sound : TRUE)]
  /\ next = Nobody /\ binary = Factory
  /\ ustep = [u \in Updates |-> "idle"]
  /\ fd = [u \in Updates |-> Nobody]
  /\ serves \in [Updates -> Versions]
  /\ uresult = [u \in Updates |-> "none"]
  /\ lastUpdate = Nobody /\ crossed = FALSE
  /\ holder = Nobody /\ pidFile \in {Nobody} \union Agents
  /\ agent = [p \in Agents |-> "off"]
  /\ tries = [p \in Agents |-> 0]
  /\ seen = [p \in Agents |-> Nobody]
  /\ contended = FALSE /\ unnamed = {} /\ survivors = {}

-----------------------------------------------------------------------------
UAtWork(u) == ustep[u] \notin {"idle", "done"}
UGoto(u, to) == ustep' = [ustep EXCEPT ![u] = to]
UAnswer(u, what) == UGoto(u, "done") /\ uresult' = [uresult EXCEPT ![u] = what]
\* An error, with os.Remove of <binary>.next, whosever file it is by now.
Discard(u) == UAnswer(u, "error") /\ next' = Nobody

\* The response is there, and the file is created or truncated.
Download(u) ==
  /\ ustep[u] = "idle"
  /\ lastUpdate' = u
  /\ crossed' = (crossed \/ \E w \in Updates \ {u} : UAtWork(w))
  /\ \/ /\ UGoto(u, "copy") /\ UNCHANGED uresult
        /\ LET file == IF next = Nobody THEN u ELSE next
           IN  /\ next' = file /\ fd' = [fd EXCEPT ![u] = file]
               /\ inode' = [inode EXCEPT ![file] = Partial]
     \/ UAnswer(u, "error") /\ UNCHANGED <<next, fd, inode>>
  /\ UNCHANGED <<binary, serves, lockvars>>

Shared(u) == \E w \in Updates \ {u} : fd[w] = fd[u]

\* io.Copy, close and the size.  Two writers of one file leave anything.
CopyPayload(u) ==
  /\ ustep[u] = "copy"
  /\ \/ /\ UGoto(u, "test") /\ UNCHANGED <<uresult, next>>
        /\ inode' \in {[inode EXCEPT ![fd[u]] = f] :
                         f \in {Whole(serves[u])} \union (IF Shared(u) THEN {Garbled} ELSE {})}
     \/ Discard(u) /\ UNCHANGED inode
  /\ UNCHANGED <<binary, fd, serves, lastUpdate, crossed, lockvars>>

\* Faulty variant: the test's exit status is not looked at.
TestBinary_StartOnly(u) ==
  /\ ustep[u] = "test"
  /\ \/ next # Nobody /\ UGoto(u, "version") /\ UNCHANGED <<uresult, next>>
     \/ Discard(u)
  /\ UNCHANGED <<inode, binary, fd, serves, lastUpdate, crossed, lockvars>>

\* <binary>.next --test-mode
TestBinary(u) ==
  /\ ustep[u] = "test"
  /\ \/ next # Nobody /\ Runs(inode[next]) /\ UGoto(u, "version") /\ UNCHANGED <<uresult, next>>
     \/ Discard(u)
  /\ UNCHANGED <<inode, binary, fd, serves, lastUpdate, crossed, lockvars>>

\* <binary>.next version, when a version was asked for.
CheckVersion(u) ==
  /\ ustep[u] = "version"
  /\ \/ /\ Wanted[u] = Latest \/ (next # Nobody /\ inode[next] = Whole(Wanted[u]))
        /\ UGoto(u, "swap") /\ UNCHANGED <<uresult, next>>
     \/ Wanted[u] # Latest /\ Discard(u)
  /\ UNCHANGED <<inode, binary, fd, serves, lastUpdate, crossed, lockvars>>

\* os.Rename.  handleSelfUpdate then has the service restarted, see ServiceRestarts.
Swap(u) ==
  /\ ustep[u] = "swap"
  /\ \/ /\ next # Nobody
        /\ binary' = next /\ next' = Nobody
        /\ UAnswer(u, "success")
     \/ UAnswer(u, "error") /\ UNCHANGED <<binary, next>>
  /\ UNCHANGED <<inode, fd, serves, lastUpdate, crossed, lockvars>>

\* The service's process ends, by restartServiceAfterUpdate or by dying, and
\* the updates the dashboard asked for with it; systemd starts the binary.
ServiceRestarts ==
  /\ \E u \in Updates : UAtWork(u) /\ u \notin FromCLI
  /\ ustep' = [u \in Updates |-> IF UAtWork(u) /\ u \notin FromCLI THEN "done" ELSE ustep[u]]
  /\ UNCHANGED <<inode, next, binary, fd, serves, uresult, lastUpdate, crossed, lockvars>>

-----------------------------------------------------------------------------
\* The single instance lock.
Starting(p) == agent[p] \in {"lock", "stale", "kill", "clear", "sign"}
Alive(p) == Starting(p) \/ agent[p] = "serving"
AGoto(p, to) == agent' = [agent EXCEPT ![p] = to]
Retry(p) == tries' = [tries EXCEPT ![p] = @ + 1]

StartAgent(p) ==
  /\ agent[p] = "off"
  /\ AGoto(p, "lock")
  /\ contended' = (contended \/ \E q \in Agents \ {p} : Starting(q))
  /\ UNCHANGED <<uvars, holder, pidFile, tries, seen, unnamed, survivors>>

TakeLock(p) ==
  /\ agent[p] = "lock" /\ holder = Nobody
  /\ holder' = p /\ AGoto(p, "clear")
  /\ UNCHANGED <<uvars, pidFile, tries, seen, lockHistory>>

\* Faulty variant: attempts are not counted.
BusyLock_Unlimited(p) ==
  /\ agent[p] = "lock" /\ holder # Nobody
  /\ \/ pidFile # Nobody /\ ~Alive(pidFile) /\ AGoto(p, "stale")
     \/ pidFile # Nobody /\ Alive(pidFile) /\ AGoto(p, "kill")
     \/ pidFile = Nobody /\ AGoto(p, "refused")
  /\ seen' = [seen EXCEPT ![p] = pidFile]
  /\ UNCHANGED <<uvars, holder, pidFile, tries, lockHistory>>

\* The lock is busy: what next depends on the process id in the file, and at a
\* terminal on the answer.  The third attempt is the last.
BusyLock(p) ==
  /\ agent[p] = "lock" /\ holder # Nobody
  /\ LET known == tries[p] < 2 /\ pidFile # Nobody
     IN  \/ known /\ ~Alive(pidFile) /\ AGoto(p, "stale")
         \/ known /\ Alive(pidFile) /\ AGoto(p, "kill")
         \/ (known => p \notin Unattended /\ Alive(pidFile)) /\ AGoto(p, "refused")
  /\ seen' = [seen EXCEPT ![p] = pidFile]
  /\ UNCHANGED <<uvars, holder, pidFile, tries, lockHistory>>

\* The stale id goes, if the file can be truncated; by now it may hold another.
TruncateStale(p) ==
  /\ agent[p] = "stale"
  /\ pidFile' \in {Nobody, pidFile}
  /\ AGoto(p, "lock") /\ Retry(p)
  /\ UNCHANGED <<uvars, holder, seen, lockHistory>>

\* kill -9 of the process read, an error ignored, and 300 ms for it to be gone
\* and its lock with it.  It may take longer, see AgentEnds, or not end.
KillOther(p) ==
  /\ agent[p] = "kill" /\ Retry(p)
  /\ LET q == seen[p]
     IN  \/ /\ agent' = [agent EXCEPT ![p] = "lock", ![q] = IF Alive(q) THEN "dead" ELSE @]
            /\ holder' = IF holder = q THEN Nobody ELSE holder
            /\ UNCHANGED survivors
         \/ /\ Alive(q) /\ AGoto(p, "lock")
            /\ survivors' = survivors \union {q} /\ UNCHANGED holder
  /\ UNCHANGED <<uvars, pidFile, seen, contended, unnamed>>

\* The lock is held: Truncate, and no id is written if it fails.
ClearPid(p) ==
  /\ agent[p] = "clear"
  /\ \/ pidFile' = Nobody /\ AGoto(p, "sign") /\ UNCHANGED unnamed
     \/ AGoto(p, "serving") /\ unnamed' = unnamed \union {p} /\ UNCHANGED pidFile
  /\ UNCHANGED <<uvars, holder, tries, seen, contended, survivors>>

\* Faulty variant: the process id stays unwritten.
WritePid_Omitted(p) ==
  /\ agent[p] = "sign"
  /\ AGoto(p, "serving")
  /\ UNCHANGED <<uvars, holder, pidFile, tries, seen, lockHistory>>

\* WriteString of the id, an error ignored.
WritePid(p) ==
  /\ agent[p] = "sign" /\ AGoto(p, "serving")
  /\ \/ pidFile' = p /\ UNCHANGED unnamed
     \/ unnamed' = unnamed \union {p} /\ UNCHANGED pidFile
  /\ UNCHANGED <<uvars, holder, tries, seen, contended, survivors>>

\* An agent ends, by itself or not, and its lock with it.
AgentEnds(p) ==
  /\ Alive(p)
  /\ AGoto(p, "dead") /\ holder' = IF holder = p THEN Nobody ELSE holder
  /\ UNCHANGED <<uvars, pidFile, tries, seen, lockHistory>>

UpdateStep(u) ==
  Download(u) \/ CopyPayload(u) \/ TestBinary(u) \/ CheckVersion(u) \/ Swap(u)

LockStep(p) ==
  \/ TakeLock(p) \/ BusyLock(p) \/ TruncateStale(p) \/ KillOther(p)
  \/ ClearPid(p) \/ WritePid(p)

UpdateNext == (\E u \in Updates : UpdateStep(u)) \/ ServiceRestarts

LockNext == \E p \in Agents : StartAgent(p) \/ LockStep(p) \/ AgentEnds(p)

LifecycleNext == UpdateNext \/ LockNext

LifecycleSpec == LifecycleInit /\ [][LifecycleNext]_lvars

-----------------------------------------------------------------------------
LifecycleTypeOK ==
  /\ inode \in [Inodes -> {Whole(v) : v \in Versions} \union {Partial, Garbled}]
  /\ next \in Inodes \union {Nobody} /\ binary \in Inodes
  /\ ustep \in [Updates -> {"idle", "copy", "test", "version", "swap", "done"}]
  /\ fd \in [Updates -> Inodes \union {Nobody}]
  /\ serves \in [Updates -> Versions]
  /\ uresult \in [Updates -> {"none", "error", "success"}]
  /\ lastUpdate \in Updates \union {Nobody} /\ crossed \in BOOLEAN
  /\ holder \in Agents \union {Nobody} /\ pidFile \in Agents \union {Nobody}
  /\ agent \in [Agents -> {"off", "lock", "stale", "kill", "clear", "sign", "serving",
                           "refused", "dead"}]
  /\ tries \in [Agents -> 0 .. 2] /\ seen \in [Agents -> Agents \union {Nobody}]
  /\ contended \in BOOLEAN /\ {unnamed, survivors} \subseteq SUBSET Agents

\* updater.go:61-167: the installed binary is a whole one that passed its test,
\* and of the version the last successful update asked for, whatever failed or
\* died on the way; unless two updates were under way at once.
InstalledWasTested ==
  ~crossed =>
    /\ Runs(inode[binary])
    /\ \A u \in Updates : lastUpdate = u /\ uresult[u] = "success" =>
         Wanted[u] \in {Latest, inode[binary].v}

\* main.go:549-618: an agent that systemd starts is refused the lock only
\* while its holder is one whose id did not get into the file, or one that was
\* sent a kill and did not end in time, however the agents before it ended;
\* unless two start at once.
NewInstanceServes ==
  [][\A p \in Unattended :
       agent[p] # "refused" /\ agent'[p] = "refused" =>
         contended \/ holder \in unnamed \union survivors]_lvars
=============================================================================
