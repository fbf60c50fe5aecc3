----------------------------- MODULE HostProofs -----------------------------
(***************************************************************************)
(* Theorems about the commands that change the machine itself, for any     *)
(* number of commands, updates, versions and processes: the type           *)
(* invariants, and                                                         *)
(*                                                                         *)
(*   - what a hardening leaves behind was checked, and what it answers     *)
(*     with success is in force;                                           *)
(*   - the binary that is installed was tested;                            *)
(*   - an agent started without a terminal is not refused;                 *)
(*   - what a route command answers with success is served, kept, and goes *)
(*     to no other container.                                              *)
(***************************************************************************)
EXTENDS HostCommands, TLAPS

LEMMA HardeningTypesInitially == HardeningInit => HardeningTypeOK
<1> SUFFICES ASSUME HardeningInit PROVE HardeningTypeOK
  OBVIOUS
<1>1. {tangled, torn, unchecked, unloaded} \subseteq BOOLEAN
  BY Zenon DEF HardeningInit
<1>2. others \in BOOLEAN /\ earlier \in BOOLEAN
  BY Zenon DEF HardeningInit
<1>3. mainFile \in MainFiles /\ EmptyFile \in MainFiles
  BY DEF HardeningInit, MainFiles, EmptyFile
<1> QED  BY <1>1, <1>2, <1>3 DEF HardeningInit, HardeningTypeOK

LEMMA HardeningTypesKept ==
  HardeningTypeOK /\ [HardeningNext]_hvars => HardeningTypeOK'
<1> SUFFICES ASSUME HardeningTypeOK, [HardeningNext]_hvars PROVE HardeningTypeOK'
  OBVIOUS
<1>a. EmptyFile \in MainFiles /\ Torn \subseteq MainFiles
      /\ \A h \in Hardenings : Including(read[h]) \in MainFiles
  BY DEF HardeningTypeOK, MainFiles, EmptyFile, Torn, Including
<1> USE DEF HardeningTypeOK, HGoto, HAnswer, machine, begun
<1>1. ASSUME NEW h \in Hardenings, ReadMain(h) PROVE HardeningTypeOK'
  <2>1. tangled' \in BOOLEAN /\ torn' \in BOOLEAN
    BY <1>1, Zenon DEF ReadMain
  <2> QED  BY <1>1, <2>1 DEF ReadMain
<1>2. ASSUME NEW h \in Hardenings, TruncateMain(h) PROVE HardeningTypeOK'
  BY <1>2, <1>a DEF TruncateMain
<1>3. ASSUME NEW h \in Hardenings, WriteMain(h) PROVE HardeningTypeOK'
  BY <1>3, <1>a DEF WriteMain
<1>4. ASSUME NEW h \in Hardenings, TruncateDropIn(h) PROVE HardeningTypeOK'
  <2>1. unchecked' \in BOOLEAN
    BY <1>4, Zenon DEF TruncateDropIn
  <2> QED  BY <1>4, <2>1 DEF TruncateDropIn
<1>5. ASSUME NEW h \in Hardenings, WriteDropIn(h) PROVE HardeningTypeOK'
  BY <1>5 DEF WriteDropIn
<1>6. ASSUME NEW h \in Hardenings, TestSshd(h) \/ RevertDropIn(h) PROVE HardeningTypeOK'
  BY <1>6 DEF TestSshd, RevertDropIn
<1>7. ASSUME NEW h \in Hardenings, ReloadSshd(h) PROVE HardeningTypeOK'
  BY <1>7 DEF ReloadSshd, Accepted
<1>8. ASSUME NEW h \in Hardenings, EnableFail2ban(h) \/ DisableFail2ban(h)
      PROVE  HardeningTypeOK'
  BY <1>8 DEF EnableFail2ban, DisableFail2ban
<1>9. CASE HardeningCrash
  <2>1. torn' \in BOOLEAN /\ unchecked' \in BOOLEAN
    BY <1>9, Zenon DEF HardeningCrash
  <2>2. mainFile' \in MainFiles
    BY <1>9, <1>a DEF HardeningCrash
  <2> QED  BY <1>9, <2>1, <2>2 DEF HardeningCrash
<1>10. CASE UNCHANGED hvars
  BY <1>10 DEF hvars
<1> QED  BY <1>1, <1>2, <1>3, <1>4, <1>5, <1>6, <1>7, <1>8, <1>9, <1>10
            DEF HardeningNext, HardeningStep

(* ssh.go, firewall.go: every variable stays well typed.                   *)
THEOREM HardeningTypes == HardeningSpec => []HardeningTypeOK
  BY HardeningTypesInitially, HardeningTypesKept, PTL DEF HardeningSpec

-----------------------------------------------------------------------------
\* A command that puts an Include into the main file has read all of it, and
\* only while it writes may the file be empty.
MainKept ==
  ~torn =>
    /\ \A h \in Hardenings : hstep[h] \in {"include", "main"} => Intact(read[h])
    /\ \/ Intact(mainFile)
       \/ mainFile = EmptyFile /\ \E h \in Hardenings : hstep[h] = "main"

\* Whoever changes a file has the files checked before it is done, or dies.
Settled == \A h \in Hardenings : ~Pending(h)

Checked ==
  /\ \A h \in Hardenings : hstep[h] \in {"include", "main"} => MayHaveIncluded(h)
  /\ ~torn /\ ~unchecked /\ others /\ Settled => Accepted

\* A command that meets no other one works alone, on its own drop-in.
InForce(h) ==
  /\ dropIn = h
  /\ ~unloaded /\ mainFile.reads /\ ~earlier => sshd = h

Undisturbed ==
  /\ \A h \in Hardenings : hstep[h] # "done" => hresult[h] = "none"
  /\ ~tangled =>
       \A h \in Hardenings :
         /\ HAtWork(h) => h = lastHard
         /\ hstep[h] = "drop" => dropIn = Piece
         /\ hstep[h] \in {"test", "reload"} => dropIn = h
         /\ hstep[h] = "jail" => InForce(h)
         /\ lastHard = h /\ hresult[h] = "success" =>
              InForce(h) /\ \A g \in Hardenings : ~HAtWork(g)

HardeningInv == MainKept /\ Checked /\ Undisturbed

LEMMA MainKeptKept == HardeningTypeOK /\ MainKept /\ [HardeningNext]_hvars => MainKept'
<1> SUFFICES ASSUME HardeningTypeOK, MainKept, [HardeningNext]_hvars, ~torn' PROVE MainKept'
  BY DEF MainKept
<1> USE DEF HardeningTypeOK, MainKept, Intact, HGoto, HAnswer, machine, begun
<1>1. ASSUME NEW h \in Hardenings, ReadMain(h) PROVE MainKept'
  BY <1>1 DEF ReadMain
<1>2. ASSUME NEW h \in Hardenings, TruncateMain(h) PROVE MainKept'
  BY <1>2 DEF TruncateMain
<1>3. ASSUME NEW h \in Hardenings, WriteMain(h) PROVE MainKept'
  <2>1. Intact(Including(read[h]))
    BY <1>3 DEF WriteMain, Including, MainFiles
  <2>2. Intact(mainFile')
    BY <1>3, <2>1 DEF WriteMain
  <2> QED  BY <1>3, <2>2 DEF WriteMain
<1>4. ASSUME NEW h \in Hardenings,
             \/ TruncateDropIn(h) \/ WriteDropIn(h) \/ TestSshd(h) \/ RevertDropIn(h)
             \/ ReloadSshd(h) \/ EnableFail2ban(h) \/ DisableFail2ban(h)
      PROVE  MainKept'
  <2>1. /\ UNCHANGED <<mainFile, torn, read>> /\ hstep[h] # "main"
        /\ hstep'[h] \notin {"include", "main"}
        /\ \A g \in Hardenings \ {h} : hstep'[g] = hstep[g]
    BY <1>4 DEF TruncateDropIn, WriteDropIn, TestSshd, RevertDropIn, ReloadSshd,
       EnableFail2ban, DisableFail2ban
  <2> QED  BY <2>1
<1>5. CASE HardeningCrash
  BY <1>5 DEF HardeningCrash, HAtWork
<1>6. CASE UNCHANGED hvars
  BY <1>6 DEF hvars
<1> QED  BY <1>1, <1>2, <1>3, <1>4, <1>5, <1>6 DEF HardeningNext, HardeningStep

LEMMA CheckedKept ==
  HardeningTypeOK /\ MainKept' /\ Checked /\ [HardeningNext]_hvars => Checked'
<1> SUFFICES ASSUME HardeningTypeOK, MainKept', Checked, [HardeningNext]_hvars PROVE Checked'
  OBVIOUS
<1> USE DEF HardeningTypeOK, Checked, MayHaveIncluded, Settled, Pending,
        HGoto, HAnswer, machine, begun
<1>1. ASSUME NEW h \in Hardenings, ReadMain(h) PROVE Checked'
  BY <1>1 DEF ReadMain, Accepted
<1>2. ASSUME NEW h \in Hardenings, TruncateMain(h) \/ WriteMain(h) PROVE Checked'
  <2>1. Pending(h)'
    BY <1>2 DEF TruncateMain, WriteMain
  <2> QED  BY <1>2, <2>1 DEF TruncateMain, WriteMain
<1>3. ASSUME NEW h \in Hardenings, TruncateDropIn(h) PROVE Checked'
  BY <1>3 DEF TruncateDropIn, Accepted
<1>4. ASSUME NEW h \in Hardenings, WriteDropIn(h) PROVE Checked'
  <2>1. Pending(h)' \/ unchecked'
    BY <1>4 DEF WriteDropIn
  <2> QED  BY <1>4, <2>1 DEF WriteDropIn
<1>5. ASSUME NEW h \in Hardenings, TestSshd(h) PROVE Checked'
  <2>1. Pending(h)' \/ Accepted'
    BY <1>5 DEF TestSshd, Accepted
  <2> QED  BY <1>5, <2>1 DEF TestSshd
<1>6. ASSUME NEW h \in Hardenings, RevertDropIn(h) PROVE Checked'
  <2>1. ASSUME ~torn', ~unchecked', others', Settled' PROVE Accepted'
    <3>1. mainFile'.sound
      BY <2>1 DEF MainKept, Intact
    <3>2. dropIn' = NoDropIn
      BY <1>6, <2>1 DEF RevertDropIn
    <3> QED  BY <2>1, <3>1, <3>2, HardeningAssumption DEF HardeningAssumption, Accepted
  <2> QED  BY <1>6, <2>1 DEF RevertDropIn
<1>7. ASSUME NEW h \in Hardenings,
             ReloadSshd(h) \/ EnableFail2ban(h) \/ DisableFail2ban(h)
      PROVE  Checked'
  BY <1>7 DEF ReloadSshd, EnableFail2ban, DisableFail2ban, Accepted
<1>8. CASE HardeningCrash
  <2>1. ~unchecked' => ~unchecked /\ Settled
    BY <1>8 DEF HardeningCrash
  <2>2. Settled => mainFile' = mainFile /\ dropIn' = dropIn
    BY <1>8 DEF HardeningCrash
  <2> QED  BY <1>8, <2>1, <2>2 DEF HardeningCrash, HAtWork, Accepted
<1>9. CASE UNCHANGED hvars
  BY <1>9 DEF hvars, Accepted
<1> QED  BY <1>1, <1>2, <1>3, <1>4, <1>5, <1>6, <1>7, <1>8, <1>9
            DEF HardeningNext, HardeningStep

LEMMA UndisturbedKept ==
  HardeningTypeOK /\ Undisturbed /\ [HardeningNext]_hvars => Undisturbed'
<1> SUFFICES ASSUME HardeningTypeOK, Undisturbed, [HardeningNext]_hvars PROVE Undisturbed'
  OBVIOUS
<1> USE DEF HardeningTypeOK, Undisturbed, InForce, HAtWork, HGoto, HAnswer, machine, begun
<1>1. ASSUME NEW h \in Hardenings, ReadMain(h) PROVE Undisturbed'
  BY <1>1 DEF ReadMain
<1>2. ASSUME NEW h \in Hardenings, TruncateMain(h) \/ WriteMain(h) PROVE Undisturbed'
  BY <1>2 DEF TruncateMain, WriteMain
<1>3. ASSUME NEW h \in Hardenings, TruncateDropIn(h) \/ WriteDropIn(h) PROVE Undisturbed'
  BY <1>3 DEF TruncateDropIn, WriteDropIn
<1>4. ASSUME NEW h \in Hardenings, TestSshd(h) \/ RevertDropIn(h) PROVE Undisturbed'
  BY <1>4 DEF TestSshd, RevertDropIn
<1>5. ASSUME NEW h \in Hardenings, ReloadSshd(h) PROVE Undisturbed'
  BY <1>5 DEF ReloadSshd
<1>6. ASSUME NEW h \in Hardenings, EnableFail2ban(h) \/ DisableFail2ban(h)
      PROVE  Undisturbed'
  BY <1>6 DEF EnableFail2ban, DisableFail2ban
<1>7. CASE HardeningCrash
  <2>1. \A h \in Hardenings : hstep'[h] \in {"idle", "done"}
    BY <1>7 DEF HardeningCrash
  <2>2. \A h \in Hardenings : hstep'[h] # "done" => hstep[h] # "done"
    BY <1>7 DEF HardeningCrash
  <2>3. UNCHANGED <<machine, sshd, hresult, begun, unloaded>>
    BY <1>7 DEF HardeningCrash
  <2>4. ASSUME NEW h \in Hardenings, ~tangled, lastHard = h, hresult[h] = "success"
        PROVE  dropIn' = dropIn /\ mainFile' = mainFile
    BY <1>7, <2>4 DEF HardeningCrash
  <2> QED  BY <2>1, <2>2, <2>3, <2>4
<1>8. CASE UNCHANGED hvars
  BY <1>8 DEF hvars
<1> QED  BY <1>1, <1>2, <1>3, <1>4, <1>5, <1>6, <1>7, <1>8 DEF HardeningNext, HardeningStep

(* ssh.go:20-77, commands_security.go:10-30: the administrator's text is   *)
(* kept, sshd accepts the files left behind, and a command that met no     *)
(* other one and succeeded is in force, with the exceptions that           *)
(* HardeningHolds states.                                                  *)
THEOREM Hardened == HardeningSpec => []HardeningHolds
<1>1. HardeningInit => HardeningInv
  <2> SUFFICES ASSUME HardeningInit PROVE HardeningInv
    OBVIOUS
  <2>1. \A h \in Hardenings : hstep[h] = "idle" /\ hresult[h] = "none"
    BY DEF HardeningInit
  <2>2. Intact(mainFile) /\ dropIn = NoDropIn /\ mainFile.sound
    BY DEF HardeningInit, Intact
  <2>3. Accepted
    BY <2>2, HardeningAssumption DEF HardeningAssumption, HardeningInit, Accepted
  <2>4. MainKept /\ Checked
    BY <2>1, <2>2, <2>3 DEF MainKept, Checked
  <2>5. Undisturbed
    BY <2>1 DEF Undisturbed, HAtWork
  <2> QED  BY <2>4, <2>5 DEF HardeningInv
<1>2. HardeningInv => HardeningHolds
  BY DEF HardeningInv, MainKept, Intact, Checked, Settled, Undisturbed, InForce,
     HardeningHolds
<1>3. HardeningTypeOK /\ HardeningInv /\ [HardeningNext]_hvars => HardeningInv'
  BY MainKeptKept, CheckedKept, UndisturbedKept DEF HardeningInv
<1> QED  BY <1>1, <1>2, <1>3, HardeningTypes, PTL DEF HardeningSpec

-----------------------------------------------------------------------------
(* Updates and the lock share no variable.                                 *)
LEMMA UpdatesLeaveTheLock == UpdateNext => UNCHANGED lockvars
  BY DEF UpdateNext, UpdateStep, Download, CopyPayload, TestBinary, CheckVersion, Swap,
         ServiceRestarts, UAnswer, UGoto, Discard

LEMMA TheLockLeavesUpdates == LockNext => UNCHANGED uvars
  BY DEF LockNext, LockStep, StartAgent, TakeLock, BusyLock, TruncateStale, KillOther,
         ClearPid, WritePid, AgentEnds, lockHistory

-----------------------------------------------------------------------------
(* Types.                                                                  *)
UpdateTypes ==
  /\ inode \in [Inodes -> {Whole(v) : v \in Versions} \union {Partial, Garbled}]
  /\ next \in Inodes \union {Nobody} /\ binary \in Inodes
  /\ ustep \in [Updates -> {"idle", "copy", "test", "version", "swap", "done"}]
  /\ fd \in [Updates -> Inodes \union {Nobody}]
  /\ serves \in [Updates -> Versions]
  /\ uresult \in [Updates -> {"none", "error", "success"}]
  /\ lastUpdate \in Updates \union {Nobody} /\ crossed \in BOOLEAN

\* A process that read a live or a stale id has an attempt left.
LockTypes ==
  /\ holder \in Agents \union {Nobody} /\ pidFile \in Agents \union {Nobody}
  /\ agent \in [Agents -> {"off", "lock", "stale", "kill", "clear", "sign", "serving",
                           "refused", "dead"}]
  /\ tries \in [Agents -> 0 .. 2] /\ seen \in [Agents -> Agents \union {Nobody}]
  /\ contended \in BOOLEAN /\ unnamed \subseteq Agents /\ survivors \subseteq Agents
  /\ \A p \in Agents : agent[p] \in {"stale", "kill"} => tries[p] < 2 /\ seen[p] \in Agents

LEMMA LifecycleTypesInitially == LifecycleInit => UpdateTypes /\ LockTypes
<1> SUFFICES ASSUME LifecycleInit PROVE UpdateTypes /\ LockTypes
  OBVIOUS
<1>1. (CHOOSE v \in Sound : TRUE) \in Versions
  BY LifecycleAssumption DEF LifecycleAssumption
<1>2. crossed \in BOOLEAN /\ contended \in BOOLEAN
  BY Zenon DEF LifecycleInit
<1>3. UpdateTypes
  BY <1>1, <1>2 DEF LifecycleInit, UpdateTypes, Inodes
<1>4. LockTypes
  BY <1>2 DEF LifecycleInit, LockTypes
<1> QED  BY <1>3, <1>4

LEMMA UpdateTypesKept == UpdateTypes /\ UpdateNext => UpdateTypes'
<1> SUFFICES ASSUME UpdateTypes, UpdateNext PROVE UpdateTypes'
  OBVIOUS
<1> USE DEF UpdateTypes, UGoto, UAnswer, Discard, Inodes
<1> DEFINE Files == {Whole(v) : v \in Versions} \union {Partial, Garbled}
<1>1. ASSUME NEW u \in Updates, Download(u) PROVE UpdateTypes'
  <2>1. crossed' \in BOOLEAN
    BY <1>1, Zenon DEF Download
  <2>2. inode' \in [Inodes -> Files]
    BY <1>1 DEF Download
  <2> QED  BY <1>1, <2>1, <2>2 DEF Download
<1>2. ASSUME NEW u \in Updates, CopyPayload(u) PROVE UpdateTypes'
  <2>1. PICK f \in Files : inode' \in {inode, [inode EXCEPT ![fd[u]] = f]}
    BY <1>2 DEF CopyPayload
  <2>2. inode' \in [Inodes -> Files]
    BY <2>1
  <2> QED  BY <1>2, <2>2 DEF CopyPayload
<1>3. ASSUME NEW u \in Updates, TestBinary(u) \/ CheckVersion(u) PROVE UpdateTypes'
  BY <1>3 DEF TestBinary, CheckVersion
<1>4. ASSUME NEW u \in Updates, Swap(u) PROVE UpdateTypes'
  BY <1>4 DEF Swap
<1>5. CASE ServiceRestarts
  BY <1>5 DEF ServiceRestarts
<1> QED  BY <1>1, <1>2, <1>3, <1>4, <1>5 DEF UpdateNext, UpdateStep

LEMMA LockTypesKept == LockTypes /\ LockNext => LockTypes'
<1> SUFFICES ASSUME LockTypes, NEW p \in Agents,
                    StartAgent(p) \/ LockStep(p) \/ AgentEnds(p)
             PROVE  LockTypes'
  BY DEF LockNext
<1> USE DEF LockTypes, AGoto, Retry, lockHistory
<1>1. CASE StartAgent(p)
  <2>1. contended' \in BOOLEAN
    BY <1>1, Zenon DEF StartAgent
  <2> QED  BY <1>1, <2>1 DEF StartAgent
<1>2. CASE TakeLock(p) \/ AgentEnds(p)
  BY <1>2 DEF TakeLock, AgentEnds
<1>3. CASE BusyLock(p)
  BY <1>3 DEF BusyLock
<1>4. CASE TruncateStale(p)
  BY <1>4 DEF TruncateStale
<1>5. CASE KillOther(p)
  BY <1>5 DEF KillOther
<1>6. CASE ClearPid(p) \/ WritePid(p)
  BY <1>6 DEF ClearPid, WritePid
<1> QED  BY <1>1, <1>2, <1>3, <1>4, <1>5, <1>6 DEF LockStep

LEMMA LifecycleTyped == LifecycleSpec => [](UpdateTypes /\ LockTypes)
<1>1. UpdateTypes /\ LockTypes /\ [LifecycleNext]_lvars => (UpdateTypes /\ LockTypes)'
  <2> SUFFICES ASSUME UpdateTypes, LockTypes, [LifecycleNext]_lvars
               PROVE  UpdateTypes' /\ LockTypes'
    OBVIOUS
  <2>1. UNCHANGED uvars => UpdateTypes'
    BY DEF uvars, UpdateTypes
  <2>2. UNCHANGED lockvars => LockTypes'
    BY DEF lockvars, LockTypes
  <2> QED  BY <2>1, <2>2, UpdateTypesKept, LockTypesKept, UpdatesLeaveTheLock,
              TheLockLeavesUpdates DEF LifecycleNext, lvars
<1> QED  BY <1>1, LifecycleTypesInitially, PTL DEF LifecycleSpec

(* updater.go, main.go: every variable of the updates and of the lock      *)
(* stays well typed.                                                       *)
THEOREM LifecycleTypes == LifecycleSpec => []LifecycleTypeOK
<1>1. UpdateTypes /\ LockTypes => LifecycleTypeOK
  BY DEF UpdateTypes, LockTypes, LifecycleTypeOK
<1> QED  BY <1>1, LifecycleTyped, PTL

-----------------------------------------------------------------------------
\* Without two updates at once, the last one works alone, on a file that is
\* not the installed one, and renames it only when it has passed its tests.
Installable ==
  /\ Runs(inode[binary]) /\ next # binary
  /\ \A u \in Updates :
       /\ UAtWork(u) => u = lastUpdate /\ next # Nobody
       /\ ustep[u] = "idle" => u # next /\ u # binary
       /\ ustep[u] = "copy" => fd[u] = next
       /\ ustep[u] \in {"version", "swap"} => Runs(inode[next])
       /\ ustep[u] = "swap" => Wanted[u] \in {Latest, inode[next].v}
       /\ ustep[u] # "done" => uresult[u] = "none"
       /\ lastUpdate = u /\ uresult[u] = "success" =>
            Wanted[u] \in {Latest, inode[binary].v}

LEMMA InstallableKept ==
  ASSUME UpdateTypes, ~crossed => Installable, UpdateNext
  PROVE  ~crossed' => Installable'
<1> SUFFICES ASSUME ~crossed' PROVE Installable'
  OBVIOUS
<1>a. ~crossed /\ Installable
  BY DEF UpdateNext, UpdateStep, Download, CopyPayload, TestBinary, CheckVersion, Swap,
         ServiceRestarts, UpdateTypes
<1>b. Nobody \notin Inodes /\ \A u \in Updates : u \in Inodes
  BY LifecycleAssumption DEF LifecycleAssumption, Inodes
<1> USE DEF UpdateTypes, Installable, UAtWork, Runs, UGoto, UAnswer, Discard
<1>1. ASSUME NEW u \in Updates, Download(u) PROVE Installable'
  <2>1. \A w \in Updates \ {u} : ustep[w] \in {"idle", "done"} /\ ustep'[w] = ustep[w]
    BY <1>1 DEF Download
  <2>2. /\ lastUpdate' = u /\ binary' = binary
        /\ \A w \in Updates \ {u} : uresult'[w] = uresult[w]
    BY <1>1 DEF Download
  <2>3. CASE UAnswer(u, "error") /\ UNCHANGED <<next, fd, inode>>
    BY <1>a, <1>b, <2>1, <2>2, <2>3
  <2>4. ASSUME NEW file \in Inodes, file = IF next = Nobody THEN u ELSE next,
               UGoto(u, "copy"), UNCHANGED uresult, next' = file,
               fd' = [fd EXCEPT ![u] = file], inode' = [inode EXCEPT ![file] = Partial]
        PROVE  Installable'
    <3>1. file # binary /\ inode'[binary] = inode[binary] /\ next' # Nobody
      BY <1>a, <1>b, <1>1, <2>4 DEF Download
    <3>2. \A w \in Updates \ {u} : ustep[w] = "idle" => w # file
      BY <1>a, <1>b, <2>4
    <3>3. uresult'[u] = "none" /\ ustep'[u] = "copy" /\ fd'[u] = next'
      BY <1>a, <1>1, <2>4 DEF Download
    <3>4. \A w \in Updates \ {u} : uresult'[w] = uresult[w] /\ lastUpdate' # w
      BY <2>2
    <3> QED  BY <1>a, <2>1, <2>2, <2>4, <3>1, <3>2, <3>3, <3>4
  <2> QED  BY <1>b, <1>1, <2>3, <2>4 DEF Download
<1>2. ASSUME NEW u \in Updates, CopyPayload(u) PROVE Installable'
  BY <1>a, <1>b, <1>2 DEF CopyPayload
<1>3. ASSUME NEW u \in Updates, TestBinary(u) PROVE Installable'
  BY <1>a, <1>b, <1>3 DEF TestBinary
<1>4. ASSUME NEW u \in Updates, CheckVersion(u) PROVE Installable'
  BY <1>a, <1>b, <1>4 DEF CheckVersion, Whole
<1>5. ASSUME NEW u \in Updates, Swap(u) PROVE Installable'
  BY <1>a, <1>b, <1>5 DEF Swap
<1>6. CASE ServiceRestarts
  BY <1>a, <1>b, <1>6 DEF ServiceRestarts
<1> QED  BY <1>1, <1>2, <1>3, <1>4, <1>5, <1>6 DEF UpdateNext, UpdateStep

(* updater.go:61-167: what is installed passed its test and is of the      *)
(* version the last successful update asked for, whatever failed or died.  *)
THEOREM Installed == LifecycleSpec => []InstalledWasTested
<1>1. LifecycleInit => (~crossed => Installable)
  BY LifecycleAssumption DEF LifecycleAssumption, LifecycleInit, Installable, Inodes,
     UAtWork, Runs, Whole
<1>2. (~crossed => Installable) => InstalledWasTested
  BY DEF Installable, InstalledWasTested
<1>3. UpdateTypes /\ (~crossed => Installable) /\ [LifecycleNext]_lvars
        => (~crossed => Installable)'
  <2>1. UNCHANGED uvars => Installable' = Installable /\ crossed' = crossed
    BY DEF uvars, Installable, UAtWork, Runs
  <2> QED  BY <2>1, InstallableKept, TheLockLeavesUpdates DEF LifecycleNext, lvars
<1> QED  BY <1>1, <1>2, <1>3, LifecycleTyped, PTL DEF LifecycleSpec

-----------------------------------------------------------------------------
\* Without two agents starting at once, the file names the one that serves, if
\* its id got there; the one that starts kills it at its first attempt, and
\* finds the lock free at the next one, if the other ended in time.
LockInOrder ==
  \A p \in Agents :
    /\ Starting(p) => \A q \in Agents \ {p} : ~Starting(q)
    /\ agent[p] \in {"clear", "sign", "serving"} <=> holder = p
    /\ agent[p] = "serving" => pidFile = p \/ p \in unnamed
    /\ agent[p] = "off" => tries[p] = 0
    /\ agent[p] = "lock" => holder \in {Nobody} \union unnamed \union survivors \/ tries[p] = 0
    /\ agent[p] = "stale" => holder \in {Nobody} \union unnamed
    /\ agent[p] = "kill" => holder \in {Nobody, seen[p]} \union unnamed

LEMMA LockInOrderKept ==
  ASSUME LockTypes, ~contended => LockInOrder, LockNext
  PROVE  ~contended' => LockInOrder'
<1> SUFFICES ASSUME ~contended', NEW p \in Agents,
                    StartAgent(p) \/ LockStep(p) \/ AgentEnds(p)
             PROVE  LockInOrder'
  BY DEF LockNext
<1>a. ~contended /\ LockInOrder
  BY DEF LockStep, StartAgent, TakeLock, BusyLock, TruncateStale, KillOther, ClearPid,
         WritePid, AgentEnds, LockTypes, lockHistory
<1>b. Nobody \notin Agents
  BY LifecycleAssumption DEF LifecycleAssumption
<1> USE <1>a, <1>b DEF LockTypes, LockInOrder, Starting, Alive, AGoto, Retry, lockHistory
<1>1. CASE StartAgent(p)
  <2>1. /\ agent[p] = "off" /\ agent' = [agent EXCEPT ![p] = "lock"]
        /\ UNCHANGED <<holder, pidFile, tries, seen, unnamed, survivors>>
        /\ contended' = (contended \/ \E q \in Agents \ {p} : Starting(q))
    BY <1>1 DEF StartAgent
  <2>2. \A q \in Agents \ {p} : ~Starting(q)
    BY <2>1, Zenon
  <2>3. agent'[p] = "lock" /\ \A q \in Agents \ {p} : agent'[q] = agent[q]
    BY <2>1
  <2> QED  BY <2>1, <2>2, <2>3
<1>2. CASE TakeLock(p)
  BY <1>2 DEF TakeLock
<1>3. CASE BusyLock(p)
  <2>1. holder \in Agents /\ agent[holder] = "serving"
    BY <1>3 DEF BusyLock
  <2>2. pidFile = holder \/ holder \in unnamed
    BY <2>1
  <2> QED  BY <1>3, <2>1, <2>2 DEF BusyLock
<1>4. CASE TruncateStale(p)
  BY <1>4 DEF TruncateStale
<1>5. CASE KillOther(p)
  <2> DEFINE q == seen[p]
  <2>1. q \in Agents /\ agent[p] = "kill" /\ tries' = [tries EXCEPT ![p] = @ + 1]
        /\ UNCHANGED <<pidFile, seen, unnamed>>
    BY <1>5 DEF KillOther
  <2>2. CASE /\ Alive(q) /\ AGoto(p, "lock")
             /\ survivors' = survivors \union {q} /\ UNCHANGED holder
    BY <2>1, <2>2
  <2>3. CASE /\ agent' = [agent EXCEPT ![p] = "lock", ![q] = IF Alive(q) THEN "dead" ELSE @]
             /\ holder' = IF holder = q THEN Nobody ELSE holder
             /\ UNCHANGED survivors
    <3>1. \A r \in Agents \ {p, q} : agent'[r] = agent[r]
      BY <2>1, <2>3
    <3>2. agent'[p] \in {"lock", "dead"} /\ (q # p => agent'[q] \in {"dead", "off", "refused"})
      BY <2>1, <2>3
    <3>3. holder' \in {Nobody} \union unnamed /\ (q # p /\ agent'[q] = "off" => agent[q] = "off")
      BY <2>1, <2>3
    <3>4. holder' # q /\ holder' # p /\ (holder' # Nobody => holder' = holder)
      BY <2>1, <2>3
    <3> QED  BY <2>1, <2>3, <3>1, <3>2, <3>3, <3>4
  <2> QED  BY <1>5, <2>2, <2>3 DEF KillOther
<1>6. CASE ClearPid(p)
  BY <1>6 DEF ClearPid
<1>7. CASE WritePid(p)
  BY <1>7 DEF WritePid
<1>8. CASE AgentEnds(p)
  BY <1>8 DEF AgentEnds
<1> QED  BY <1>1, <1>2, <1>3, <1>4, <1>5, <1>6, <1>7, <1>8 DEF LockStep

(* main.go:549-618: an agent started without a terminal takes the place of *)
(* the one that runs, unless two start at once, the other one's id is not  *)
(* in the file, or it does not end when it is killed.                      *)
THEOREM Unrefused == LifecycleSpec => NewInstanceServes
<1>1. LifecycleInit => (~contended => LockInOrder)
  BY LifecycleAssumption DEF LifecycleAssumption, LifecycleInit, LockInOrder, Starting
<1>2. ASSUME LockTypes, ~contended => LockInOrder, LifecycleNext, ~contended,
             NEW p \in Unattended, agent[p] # "refused", agent'[p] = "refused"
      PROVE  holder \in unnamed \union survivors
  <2>1. p \in Agents /\ Nobody \notin Agents
    BY LifecycleAssumption DEF LifecycleAssumption
  <2>2. PICK q \in Agents : StartAgent(q) \/ LockStep(q) \/ AgentEnds(q)
    BY <1>2, UpdatesLeaveTheLock DEF LifecycleNext, LockNext, lockvars
  <2>3. BusyLock(p)
    BY <1>2, <2>1, <2>2 DEF LockStep, StartAgent, TakeLock, BusyLock, TruncateStale,
       KillOther, ClearPid, WritePid, AgentEnds, AGoto, LockTypes
  <2>4. /\ agent[p] = "lock" /\ holder \in Agents
        /\ ~(tries[p] < 2 /\ pidFile # Nobody)
    BY <1>2, <2>1, <2>3 DEF BusyLock, AGoto, LockTypes
  <2>5. agent[holder] = "serving"
    BY <1>2, <2>1, <2>4 DEF LockInOrder, Starting
  <2>6. pidFile = holder \/ holder \in unnamed
    BY <1>2, <2>4, <2>5 DEF LockInOrder
  <2> QED  BY <1>2, <2>1, <2>4, <2>6 DEF LockInOrder, LockTypes
<1>3. LockTypes /\ (~contended => LockInOrder) /\ [LifecycleNext]_lvars
        => (~contended => LockInOrder)'
  <2>1. UNCHANGED lockvars => LockInOrder' = LockInOrder /\ contended' = contended
    BY DEF lockvars, LockInOrder, Starting
  <2> QED  BY <2>1, LockInOrderKept, UpdatesLeaveTheLock DEF LifecycleNext, lvars
<1>4. LockTypes /\ (~contended => LockInOrder) /\ [LifecycleNext]_lvars =>
        [\A p \in Unattended :
           agent[p] # "refused" /\ agent'[p] = "refused" =>
             contended \/ holder \in unnamed \union survivors]_lvars
  BY <1>2
<1> QED  BY <1>1, <1>3, <1>4, LifecycleTyped, PTL DEF LifecycleSpec, NewInstanceServes

-----------------------------------------------------------------------------
(* Routes.                                                                 *)
LEMMA RoutesTypesInitially == RoutesInit => RoutesTypeOK
<1> SUFFICES ASSUME RoutesInit PROVE RoutesTypeOK
  OBVIOUS
<1>1. NoRoutes \in Tables /\ legacy \in Tables /\ OldRouter \in Boxes
  BY DEF RoutesInit, NoRoutes, Tables, Boxes
<1>2. config \in [Boxes -> Tables] /\ loaded \in [Boxes -> Tables]
  BY <1>1 DEF RoutesInit
<1>3. staged \in [Boxes -> Tables] /\ table \in [RouteCommands -> Tables] /\ booked \in Tables
  BY <1>1 DEF RoutesInit
<1>4. box \in [Boxes -> {"none", "created", "running"}]
  BY DEF RoutesInit
<1>5. routesFile \in [is : {"absent", "empty", "whole", "garbled"}, table : Tables]
  BY <1>1 DEF RoutesInit
<1>6. met \in BOOLEAN
  BY Zenon DEF RoutesInit
<1> QED  BY <1>1, <1>2, <1>3, <1>4, <1>5, <1>6 DEF RoutesInit, RoutesTypeOK

LEMMA DecideTypes ==
  ASSUME RoutesTypeOK, NEW c \in RouteCommands, NEW routes \in Tables, Decide(c, routes)
  PROVE  /\ table' \in [RouteCommands -> Tables]
         /\ \/ rstep' = [rstep EXCEPT ![c] = "truncate"] /\ UNCHANGED rresult
            \/ /\ rstep' = [rstep EXCEPT ![c] = "done"] /\ UNCHANGED table
               /\ rresult' \in {[rresult EXCEPT ![c] = "error"], [rresult EXCEPT ![c] = "success"]}
         /\ rresult'[c] = "success" => rresult[c] = "success" \/ Op[c] = "list"
<1>1. DomainOf[c] \in Domains /\ TargetOf[c] \in Targets
  BY RoutesAssumption DEF RoutesAssumption
<1>2. Changed(c, routes) \in Tables
  BY <1>1 DEF Changed, Tables
<1> QED  BY <1>2 DEF Decide, RoutesTypeOK, RGoto, RAnswer

LEMMA RoutesTypesBegin ==
  ASSUME RoutesTypeOK, NEW c \in RouteCommands,
         RemovePrevious(c) \/ LoadRoutes(c) \/ ListRoutes(c)
  PROVE  RoutesTypeOK'
<1> USE DEF RoutesTypeOK, RBegin, RGoto, RAnswer
<1>1. met' \in BOOLEAN
  BY Zenon DEF RemovePrevious, LoadRoutes, ListRoutes
<1>2. CASE RemovePrevious(c)
  BY <1>1, <1>2 DEF RemovePrevious
<1>3. CASE LoadRoutes(c)
  <2>1. booked' \in Tables
    BY <1>3, RoutesAssumption DEF LoadRoutes, Tables, RoutesAssumption
  <2>2. /\ UNCHANGED <<routesFile, legacy, box, staged, config, loaded>> /\ lastRoute' = c
    BY <1>3 DEF LoadRoutes, routerSide
  <2>3. CASE RAnswer(c, "error") /\ UNCHANGED <<table, dest>>
    BY <1>1, <2>1, <2>2, <2>3
  <2>4. ASSUME NEW b \in Found, dest' = [dest EXCEPT ![c] = b],
               \/ RGoto(c, "create") /\ UNCHANGED rresult /\ table' = [table EXCEPT ![c] = legacy]
               \/ Decide(c, routesFile.table)
        PROVE  RoutesTypeOK'
    <3>1. b \in Boxes /\ dest' \in [RouteCommands -> Boxes \union {NoRouter}]
      BY <2>4 DEF Found
    <3>2. CASE Decide(c, routesFile.table)
      BY <1>1, <2>1, <2>2, <3>1, <3>2, DecideTypes
    <3> QED  BY <1>1, <2>1, <2>2, <2>4, <3>1, <3>2
  <2> QED  BY <1>3, <2>3, <2>4 DEF LoadRoutes
<1>4. CASE ListRoutes(c)
  <2>1. OldRouter \in Boxes
    BY DEF Boxes
  <2> QED  BY <1>1, <1>4, <2>1 DEF ListRoutes, routerSide
<1> QED  BY <1>2, <1>3, <1>4

LEMMA FilesTyped ==
  ASSUME RoutesTypeOK, NEW routes \in Tables
  PROVE  {Emptied} \union Written(routes) \union CutShort
           \subseteq [is : {"absent", "empty", "whole", "garbled"}, table : Tables]
<1>1. NoRoutes \in Tables
  BY DEF NoRoutes, Tables
<1> QED  BY <1>1 DEF RoutesTypeOK, Emptied, Written, CutShort, Spoilt

LEMMA RoutesTypesStep ==
  ASSUME RoutesTypeOK, NEW c \in RouteCommands,
         \/ RunRouter(c) \/ CreateRoutes(c) \/ MigrateRoutes(c) \/ TruncateRoutes(c)
         \/ WriteRoutes(c) \/ StageConfig(c) \/ CopyConfig(c) \/ ReloadRouter(c)
  PROVE  RoutesTypeOK'
<1> USE DEF RoutesTypeOK, RGoto, RAnswer, routerSide
<1>a. NoRoutes \in Tables /\ c \in Boxes /\ table[c] \in Tables
  BY DEF NoRoutes, Tables, Boxes
<1>1. CASE RunRouter(c)
  BY <1>1 DEF RunRouter
<1>2. CASE CreateRoutes(c) \/ MigrateRoutes(c)
  <2>1. routesFile' \in [is : {"absent", "empty", "whole", "garbled"}, table : Tables]
    BY <1>2, <1>a, FilesTyped DEF CreateRoutes, MigrateRoutes
  <2>2. CASE Decide(c, table[c])
    BY <1>2, <1>a, <2>1, <2>2, DecideTypes DEF CreateRoutes, MigrateRoutes
  <2>3. CASE RGoto(c, "migrate") /\ UNCHANGED <<table, rresult>>
    BY <1>2, <2>1, <2>3 DEF CreateRoutes, MigrateRoutes
  <2> QED  BY <1>2, <2>2, <2>3 DEF CreateRoutes, MigrateRoutes
<1>3. CASE TruncateRoutes(c) \/ WriteRoutes(c)
  <2>1. routesFile' \in [is : {"absent", "empty", "whole", "garbled"}, table : Tables]
    BY <1>3, <1>a, FilesTyped DEF TruncateRoutes, WriteRoutes
  <2> QED  BY <1>3, <1>a, <2>1 DEF TruncateRoutes, WriteRoutes
<1>4. CASE StageConfig(c)
  BY <1>4 DEF StageConfig
<1>5. CASE CopyConfig(c)
  <2>1. config' \in [Boxes -> Tables]
    BY <1>5, RoutesAssumption DEF CopyConfig, RoutesAssumption
  <2> QED  BY <1>5, <2>1 DEF CopyConfig
<1>6. CASE ReloadRouter(c)
  <2>1. booked' \in Tables
    <3>1. booked' \in {booked, [booked EXCEPT ![DomainOf[c]] = TargetOf[c]]}
      BY <1>6 DEF ReloadRouter
    <3>2. DomainOf[c] \in Domains /\ TargetOf[c] \in Targets
      BY RoutesAssumption DEF RoutesAssumption
    <3> QED  BY <3>1, <3>2 DEF Tables
  <2>2. loaded' \in [Boxes -> Tables]
    BY <1>6 DEF ReloadRouter
  <2> QED  BY <1>6, <2>1, <2>2 DEF ReloadRouter
<1> QED  BY <1>1, <1>2, <1>3, <1>4, <1>5, <1>6

LEMMA RoutesTypesKept == RoutesTypeOK /\ [RoutesNext]_rvars => RoutesTypeOK'
<1> SUFFICES ASSUME RoutesTypeOK, [RoutesNext]_rvars PROVE RoutesTypeOK'
  OBVIOUS
<1>1. CASE RouterRestarts
  BY <1>1 DEF RouterRestarts, RoutesTypeOK
<1>2. CASE RoutesCrash
  <2>1. NoRoutes \in Tables
    BY DEF NoRoutes, Tables
  <2>2. routesFile' \in [is : {"absent", "empty", "whole", "garbled"}, table : Tables]
    BY <1>2, <2>1, FilesTyped DEF RoutesCrash, RoutesTypeOK
  <2>3. booked' \in Tables
    BY <1>2, <2>1 DEF RoutesCrash, RoutesTypeOK
  <2> QED  BY <1>2, <2>2, <2>3 DEF RoutesCrash, RoutesTypeOK, routerSide
<1>3. CASE UNCHANGED rvars
  BY <1>3 DEF rvars, RoutesTypeOK
<1> QED  BY <1>1, <1>2, <1>3, RoutesTypesBegin, RoutesTypesStep DEF RoutesNext, RouteStep

(* routes.go, router.go: every variable of the router stays well typed.    *)
THEOREM RoutesTypes == RoutesSpec => []RoutesTypeOK
  BY RoutesTypesInitially, RoutesTypesKept, PTL DEF RoutesSpec

\* While no two commands meet: how far a command is, and what it has left where.
Applying(c) == rstep[c] \in {"truncate", "write", "stage", "copy", "reload"}
RWanted(c) == IF Op[c] = "delete" THEN NoTarget ELSE TargetOf[c]

Served(c) ==
  /\ routesFile.is = "whole" /\ routesFile.table[DomainOf[c]] = RWanted(c)
  /\ box[dest[c]] = "running" /\ loaded[dest[c]] = routesFile.table
  /\ config[dest[c]] = routesFile.table

InOrder(c) ==
  /\ RAtWork(c) => c = lastRoute
  /\ rstep[c] = "run" => Op[c] = "install"
  /\ rstep[c] \in {"create", "migrate"} => dest[c] \in Boxes
  /\ Applying(c) => Routing(c) /\ dest[c] \in Boxes /\ table[c][DomainOf[c]] = RWanted(c)
  /\ rstep[c] = "write" => routesFile.is = "empty"
  /\ rstep[c] \in {"stage", "copy", "reload"} =>
       routesFile.is = "whole" /\ routesFile.table = table[c]
  /\ rstep[c] = "copy" => staged[dest[c]] = table[c]
  /\ rstep[c] = "reload" => config[dest[c]] = table[c]
  /\ lastRoute = c /\ rresult[c] = "success" /\ Routing(c) =>
       Served(c) /\ \A e \in RouteCommands : ~RAtWork(e)

\* A command has no answer before it is done.
Unanswered == \A c \in RouteCommands : rstep[c] # "done" => rresult[c] = "none"

RoutesInv == Unanswered /\ (~met => \A c \in RouteCommands : InOrder(c))

LEMMA DecideInOrder ==
  ASSUME RoutesTypeOK, NEW c \in RouteCommands, NEW routes \in Tables, Decide(c, routes),
         rstep'[c] = "truncate"
  PROVE  Routing(c) /\ table'[c][DomainOf[c]] = RWanted(c)
<1>1. DomainOf[c] \in Domains
  BY RoutesAssumption DEF RoutesAssumption
<1>2. Routing(c) /\ table'[c] = Changed(c, routes)
  BY DEF Decide, RAnswer, RGoto, RoutesTypeOK
<1>3. Changed(c, routes)[DomainOf[c]] = RWanted(c)
  BY <1>1 DEF Changed, RWanted, Tables
<1> QED  BY <1>2, <1>3

\* A command that begins alone, or takes over the legacy file, is in order.
LEMMA RoutesInvBegin ==
  ASSUME RoutesTypeOK, RoutesInv, NEW c \in RouteCommands,
         \/ RemovePrevious(c) \/ LoadRoutes(c) \/ ListRoutes(c)
         \/ CreateRoutes(c) \/ MigrateRoutes(c)
  PROVE  RoutesInv'
<1> USE DEF RGoto, RAnswer
<1>a. table[c] \in Tables /\ routesFile.table \in Tables
  BY DEF RoutesTypeOK
<1>1. /\ rresult[c] = "none" /\ (~met' => ~met)
      /\ \A e \in RouteCommands \ {c} : rstep'[e] = rstep[e] /\ rresult'[e] = rresult[e]
  <2>1. rstep[c] # "done" /\ (~met' => ~met)
    <3>1. CASE RemovePrevious(c) \/ LoadRoutes(c) \/ ListRoutes(c)
      <4>1. rstep[c] = "idle" /\ met' = (met \/ \E e \in RouteCommands \ {c} : RAtWork(e))
        BY <3>1 DEF RemovePrevious, LoadRoutes, ListRoutes, RBegin
      <4> QED  BY <4>1
    <3>2. CASE CreateRoutes(c) \/ MigrateRoutes(c)
      BY <3>2 DEF CreateRoutes, MigrateRoutes
    <3> QED  BY <3>1, <3>2
  <2>2. \A e \in RouteCommands \ {c} : rstep'[e] = rstep[e] /\ rresult'[e] = rresult[e]
    BY <1>a DEF RemovePrevious, LoadRoutes, ListRoutes, RBegin, CreateRoutes, MigrateRoutes,
       RoutesTypeOK, Decide
  <2> QED  BY <2>1, <2>2 DEF RoutesInv, Unanswered
<1>2. /\ rstep'[c] = "done" \/ rresult' = rresult
      /\ rstep'[c] \in {"run", "create", "migrate", "truncate", "done"}
      /\ rresult'[c] = "success" => ~Routing(c)
  BY <1>1, <1>a DEF RemovePrevious, LoadRoutes, ListRoutes, CreateRoutes, MigrateRoutes,
     Decide, Routing, RoutesTypeOK
<1>3. rstep'[c] = "run" => Op[c] = "install"
  BY <1>a DEF RemovePrevious, LoadRoutes, ListRoutes, CreateRoutes, MigrateRoutes,
     Decide, RoutesTypeOK
<1>4. Unanswered'
  BY <1>1, <1>2 DEF RoutesInv, Unanswered
<1> SUFFICES ASSUME ~met' PROVE \A e \in RouteCommands : InOrder(e)'
  BY <1>4 DEF RoutesInv
<1>5. lastRoute' = c /\ \A e \in RouteCommands \ {c} : ~RAtWork(e)
  <2>1. CASE RemovePrevious(c) \/ LoadRoutes(c) \/ ListRoutes(c)
    BY <2>1 DEF RemovePrevious, LoadRoutes, ListRoutes, RBegin
  <2>2. CASE CreateRoutes(c) \/ MigrateRoutes(c)
    BY <1>1, <2>2 DEF CreateRoutes, MigrateRoutes, RoutesInv, InOrder, RAtWork
  <2> QED  BY <2>1, <2>2
<1>6. ASSUME NEW e \in RouteCommands \ {c} PROVE InOrder(e)'
  BY <1>1, <1>5, <1>6 DEF InOrder, Applying, RAtWork
<1>7. rstep'[c] \in {"create", "migrate", "truncate"} => dest'[c] \in Boxes
  <2>1. CASE RemovePrevious(c) \/ ListRoutes(c)
    BY <2>1 DEF RemovePrevious, ListRoutes, RoutesTypeOK, Boxes
  <2>2. CASE LoadRoutes(c)
    BY <2>2 DEF LoadRoutes, Found, RoutesTypeOK
  <2>3. CASE CreateRoutes(c) \/ MigrateRoutes(c)
    BY <1>1, <2>3 DEF CreateRoutes, MigrateRoutes, RoutesInv, InOrder
  <2> QED  BY <2>1, <2>2, <2>3
<1>8. rstep'[c] = "truncate" => Routing(c) /\ table'[c][DomainOf[c]] = RWanted(c)
  <2>1. CASE RemovePrevious(c) \/ ListRoutes(c)
    BY <2>1 DEF RemovePrevious, ListRoutes, RoutesTypeOK
  <2>2. CASE LoadRoutes(c)
    BY <1>a, <2>2, DecideInOrder DEF LoadRoutes, RoutesTypeOK
  <2>3. CASE CreateRoutes(c) \/ MigrateRoutes(c)
    BY <1>a, <2>3, DecideInOrder DEF CreateRoutes, MigrateRoutes, RoutesTypeOK
  <2> QED  BY <2>1, <2>2, <2>3
<1>9. InOrder(c)'
  BY <1>1, <1>2, <1>3, <1>5, <1>7, <1>8 DEF InOrder, Applying, RAtWork, RWanted, Routing
<1> QED  BY <1>6, <1>9

LEMMA RoutesInvStep ==
  ASSUME RoutesTypeOK, RoutesInv, NEW c \in RouteCommands,
         \/ RunRouter(c) \/ TruncateRoutes(c) \/ WriteRoutes(c) \/ StageConfig(c)
         \/ CopyConfig(c) \/ ReloadRouter(c)
  PROVE  RoutesInv'
<1> USE DEF RGoto, RAnswer, routerSide
<1>1. /\ UNCHANGED <<lastRoute, met, table, dest>> /\ RAtWork(c) /\ rresult[c] = "none"
      /\ \A e \in RouteCommands \ {c} : rstep'[e] = rstep[e] /\ rresult'[e] = rresult[e]
      /\ rstep'[c] = "done" \/ rresult' = rresult
  BY DEF RunRouter, TruncateRoutes, WriteRoutes, StageConfig, CopyConfig, ReloadRouter,
         RoutesTypeOK, RAtWork, RoutesInv, Unanswered
<1>2. Unanswered'
  BY <1>1 DEF RoutesInv, Unanswered
<1> SUFFICES ASSUME ~met PROVE \A e \in RouteCommands : InOrder(e)'
  BY <1>1, <1>2 DEF RoutesInv
<1>3. \A e \in RouteCommands : InOrder(e)
  BY DEF RoutesInv
<1>4. c = lastRoute /\ \A e \in RouteCommands \ {c} : ~RAtWork(e) /\ e # lastRoute
  BY <1>1, <1>3 DEF InOrder
<1>5. ASSUME NEW e \in RouteCommands \ {c} PROVE InOrder(e)'
  BY <1>1, <1>4 DEF InOrder, Applying, RAtWork
<1>6. rstep'[c] = "done" /\ (rresult'[c] # "success" \/ ~Routing(c)) => InOrder(c)'
  BY <1>1 DEF InOrder, Applying, RAtWork
<1>7. CASE RunRouter(c)
  <2>1. ~Routing(c) /\ rstep'[c] = "done"
    BY <1>3, <1>7 DEF RunRouter, RoutesTypeOK, InOrder, Routing
  <2> QED  BY <1>5, <1>6, <2>1
<1>8. CASE TruncateRoutes(c)
  BY <1>1, <1>3, <1>4, <1>5, <1>6, <1>8
     DEF TruncateRoutes, Emptied, InOrder, Applying, RAtWork, RoutesTypeOK, RWanted, Routing
<1>9. CASE WriteRoutes(c)
  <2>1. CASE rstep'[c] = "done"
    BY <1>5, <1>6, <1>9, <2>1 DEF WriteRoutes, RoutesTypeOK
  <2>2. CASE rstep'[c] # "done"
    <3>1. routesFile' = [is |-> "whole", table |-> table[c]] /\ rstep'[c] = "stage"
      BY <1>3, <1>9, <2>2 DEF WriteRoutes, Written, InOrder, RoutesTypeOK
    <3> QED  BY <1>1, <1>3, <1>4, <1>5, <1>9, <2>2, <3>1
                DEF WriteRoutes, InOrder, Applying, RAtWork, RWanted
  <2> QED  BY <2>1, <2>2
<1>10. CASE StageConfig(c)
  BY <1>1, <1>3, <1>4, <1>5, <1>6, <1>10
     DEF StageConfig, InOrder, Applying, RAtWork, RoutesTypeOK, RWanted, Routing
<1>11. CASE CopyConfig(c)
  BY <1>1, <1>3, <1>4, <1>5, <1>6, <1>11
     DEF CopyConfig, InOrder, Applying, RAtWork, RoutesTypeOK, RWanted, Routing
<1>12. CASE ReloadRouter(c)
  <2>1. /\ routesFile' = routesFile /\ config' = config /\ box' = box /\ rstep'[c] = "done"
        /\ rresult'[c] = "success" =>
             box[dest[c]] = "running" /\ loaded' = [loaded EXCEPT ![dest[c]] = config[dest[c]]]
    BY <1>12 DEF ReloadRouter, RoutesTypeOK
  <2>2. /\ dest[c] \in Boxes /\ table[c][DomainOf[c]] = RWanted(c) /\ config[dest[c]] = table[c]
        /\ routesFile.is = "whole" /\ routesFile.table = table[c]
    BY <1>3, <1>12 DEF ReloadRouter, InOrder, Applying
  <2>3. rresult'[c] = "success" => Served(c)'
    BY <1>1, <2>1, <2>2 DEF Served, RoutesTypeOK, RWanted, Routing
  <2>4. \A e \in RouteCommands : ~RAtWork(e)'
    BY <1>1, <1>4, <2>1 DEF RAtWork
  <2> QED  BY <1>1, <1>4, <1>5, <2>1, <2>3, <2>4 DEF InOrder, Applying, RAtWork
<1> QED  BY <1>7, <1>8, <1>9, <1>10, <1>11, <1>12

LEMMA RoutesInvKept == RoutesTypeOK /\ RoutesInv /\ [RoutesNext]_rvars => RoutesInv'
<1> SUFFICES ASSUME RoutesTypeOK, RoutesInv, [RoutesNext]_rvars PROVE RoutesInv'
  OBVIOUS
<1> USE DEF RoutesInv, Unanswered, InOrder, Applying, Served, RAtWork, RWanted, Routing
<1>1. CASE RouterRestarts
  BY <1>1 DEF RouterRestarts, RoutesTypeOK
<1>2. CASE RoutesCrash
  <2>1. \A c \in RouteCommands : rstep'[c] \in {"idle", "done"}
    BY <1>2 DEF RoutesCrash
  <2>2. UNCHANGED <<rresult, lastRoute, met, table, dest, box, loaded, config>>
    BY <1>2 DEF RoutesCrash, routerSide
  <2>3. \A c \in RouteCommands : rstep'[c] # "done" => rstep'[c] = rstep[c]
    BY <1>2 DEF RoutesCrash
  <2>4. (\A c \in RouteCommands : ~RAtWork(c)) => routesFile' = routesFile
    BY <1>2 DEF RoutesCrash
  <2> QED  BY <2>1, <2>2, <2>3, <2>4
<1>3. CASE UNCHANGED rvars
  BY <1>3 DEF rvars
<1> QED  BY <1>1, <1>2, <1>3, RoutesInvBegin, RoutesInvStep DEF RoutesNext, RouteStep

LEMMA RoutesInOrder == RoutesSpec => [](RoutesTypeOK /\ RoutesInv)
<1>1. RoutesInit => RoutesInv
  BY RoutesAssumption DEF RoutesAssumption, RoutesInit, RoutesInv, Unanswered, InOrder,
     Applying, RAtWork
<1> QED  BY <1>1, RoutesInvKept, RoutesTypes, PTL DEF RoutesSpec

(* routes.go:140-171: what a route command is answered with success is on  *)
(* disk and what the router serves, unless commands met.                   *)
THEOREM Applied == RoutesSpec => []AppliedIsServed
<1>1. RoutesInv => AppliedIsServed
  BY DEF RoutesInv, InOrder, Served, RWanted, Routing, AppliedIsServed
<1> QED  BY <1>1, RoutesInOrder, PTL

-----------------------------------------------------------------------------
\* No container is renamed, so that being the same one is transitive.
NoRenames == \A t, u \in Targets : t.id = u.id => t.name = u.name

\* A table that keeps every domain for the container it was given to.
Keeps(routes, given) ==
  \A d \in Domains : given[d] # NoTarget => routes[d] # NoTarget /\ Same(routes[d], given[d])

OnFile == (\A c \in RouteCommands : rstep[c] # "write") /\ booked # NoRoutes =>
            routesFile.is = "whole" /\ Keeps(routesFile.table, booked)

InHand == \A c \in RouteCommands : Applying(c) => Keeps(table[c], booked)

\* The legacy file is taken over where no route is on file.
Unbooked == \A c \in RouteCommands : rstep[c] \in {"create", "migrate"} => booked = NoRoutes

Kept == ~met => OnFile /\ InHand /\ Unbooked

\* Changing one's own domain, or one that is free, keeps the others.
LEMMA ChangedKeeps ==
  ASSUME NoRenames, NEW c \in RouteCommands, Routing(c),
         NEW routes \in Tables, NEW given \in Tables, NEW given2 \in Tables,
         Keeps(routes, given), ~Conflicts(c, routes),
         given2 = IF Op[c] = "delete" THEN [given EXCEPT ![DomainOf[c]] = NoTarget] ELSE given
  PROVE  Keeps(Changed(c, routes), given2)
<1>1. DomainOf[c] \in Domains /\ TargetOf[c] \in Targets /\ NoTarget \notin Targets
      /\ Op[c] \in {"configure", "delete"}
  BY RoutesAssumption DEF RoutesAssumption, Routing
<1>2. SUFFICES ASSUME NEW d \in Domains, given2[d] # NoTarget
               PROVE  Changed(c, routes)[d] # NoTarget /\ Same(Changed(c, routes)[d], given2[d])
  BY DEF Keeps
<1>3. d = DomainOf[c] => Op[c] = "configure"
  BY <1>1, <1>2 DEF Tables
<1>4. given2[d] = given[d] /\ given[d] \in Targets
  BY <1>1, <1>2, <1>3 DEF Tables
<1>5. routes[d] # NoTarget /\ Same(routes[d], given[d]) /\ routes[d] \in Targets
  BY <1>2, <1>4 DEF Keeps, Tables
<1>6. CASE d # DomainOf[c]
  BY <1>4, <1>5, <1>6 DEF Changed, Tables
<1>7. CASE d = DomainOf[c]
  <2>1. Changed(c, routes)[d] = TargetOf[c] /\ Same(routes[d], TargetOf[c])
    BY <1>1, <1>3, <1>5, <1>7 DEF Changed, Tables, Conflicts
  <2>2. Same(TargetOf[c], given[d])
    BY <1>1, <1>4, <1>5, <2>1 DEF NoRenames, Same
  <2> QED  BY <1>1, <1>4, <2>1, <2>2
<1> QED  BY <1>6, <1>7

LEMMA KeptBegin ==
  ASSUME NoRenames, RoutesTypeOK, RoutesInv, Kept, NEW c \in RouteCommands,
         RemovePrevious(c) \/ LoadRoutes(c) \/ ListRoutes(c)
  PROVE  Kept'
<1> SUFFICES ASSUME ~met' PROVE OnFile' /\ InHand' /\ Unbooked'
  BY DEF Kept
<1> USE DEF RGoto, RAnswer
<1>1. ~met /\ (\A e \in RouteCommands \ {c} : ~RAtWork(e)) /\ rstep[c] = "idle"
  BY DEF RemovePrevious, LoadRoutes, ListRoutes, RBegin, RoutesTypeOK
<1>2. \A e \in RouteCommands : rstep[e] \in {"idle", "done"} /\ rstep[e] # "write" /\ ~Applying(e)
  BY <1>1 DEF RAtWork, Applying
<1>3. booked # NoRoutes => routesFile.is = "whole" /\ Keeps(routesFile.table, booked)
  BY <1>1, <1>2 DEF Kept, OnFile
<1>4. routesFile' = routesFile /\ \A e \in RouteCommands \ {c} : rstep'[e] = rstep[e]
  BY DEF RemovePrevious, LoadRoutes, ListRoutes, RoutesTypeOK, Decide
<1>5. CASE RemovePrevious(c)
  <2>1. booked' = booked /\ \A e \in RouteCommands : rstep'[e] \in {"idle", "done", "run"}
    BY <1>2, <1>5 DEF RemovePrevious, RoutesTypeOK
  <2> QED  BY <1>3, <1>4, <2>1 DEF OnFile, InHand, Unbooked, Applying
<1>6. CASE ListRoutes(c)
  <2>1. booked' = booked /\ \A e \in RouteCommands : rstep'[e] \in {"idle", "done", "create"}
    BY <1>2, <1>6 DEF ListRoutes, RoutesTypeOK
  <2>2. booked = NoRoutes
    BY <1>3, <1>6 DEF ListRoutes, Inherits
  <2> QED  BY <2>1, <2>2 DEF OnFile, InHand, Unbooked, Applying
<1>7. CASE LoadRoutes(c)
  <2>1. booked' \in Tables /\ booked' = IF Op[c] = "delete"
          THEN [booked EXCEPT ![DomainOf[c]] = NoTarget] ELSE booked
    BY <1>7, RoutesAssumption DEF LoadRoutes, RoutesTypeOK, Tables, RoutesAssumption
  <2>2. booked' # NoRoutes => booked # NoRoutes
    BY <2>1 DEF NoRoutes, RoutesTypeOK, Tables
  <2>3. Keeps(routesFile.table, booked) => Keeps(routesFile.table, booked')
    BY <2>1, RoutesAssumption DEF Keeps, RoutesTypeOK, Tables, RoutesAssumption
  <2>4. OnFile'
    BY <1>3, <1>4, <2>2, <2>3 DEF OnFile
  <2>5. rstep'[c] \notin {"migrate", "write"} /\ (rstep'[c] = "create" => routesFile.is = "absent")
    BY <1>7 DEF LoadRoutes, RoutesTypeOK, Inherits, Decide
  <2>6. Unbooked'
    BY <1>2, <1>3, <1>4, <2>2, <2>5 DEF Unbooked
  <2>7. \A e \in RouteCommands : Applying(e)' => e = c
    BY <1>2, <1>4 DEF Applying
  <2>8. ASSUME Applying(c)' PROVE Keeps(table'[c], booked')
    <3>1. /\ table'[c] = Changed(c, routesFile.table) /\ Routing(c)
          /\ ~Conflicts(c, routesFile.table)
      BY <1>7, <2>8 DEF LoadRoutes, RoutesTypeOK, Applying, Decide
    <3>2. CASE booked' = NoRoutes
      BY <3>2 DEF Keeps, NoRoutes
    <3>3. CASE booked' # NoRoutes
      <4>1. routesFile.table \in Tables /\ Keeps(routesFile.table, booked) /\ booked \in Tables
        BY <1>3, <2>2, <3>3 DEF RoutesTypeOK
      <4> QED  BY <2>1, <3>1, <4>1, ChangedKeeps
    <3> QED  BY <3>2, <3>3
  <2> QED  BY <2>4, <2>6, <2>7, <2>8 DEF InHand
<1> QED  BY <1>5, <1>6, <1>7

\* Without a route on file any table keeps them all.
LEMMA NothingToKeep == booked' = NoRoutes => OnFile' /\ InHand' /\ Unbooked'
  BY DEF OnFile, InHand, Unbooked, Keeps, NoRoutes

LEMMA KeptStep ==
  ASSUME RoutesTypeOK, RoutesInv, Kept, NEW c \in RouteCommands,
         \/ RunRouter(c) \/ TruncateRoutes(c) \/ WriteRoutes(c) \/ StageConfig(c)
         \/ CopyConfig(c) \/ ReloadRouter(c)
  PROVE  Kept'
<1> SUFFICES ASSUME ~met' PROVE OnFile' /\ InHand' /\ Unbooked'
  BY DEF Kept
<1> USE DEF RGoto, RAnswer, routerSide
<1>1. /\ UNCHANGED <<met, table>> /\ RAtWork(c)
      /\ \A e \in RouteCommands \ {c} : rstep'[e] = rstep[e]
      /\ rstep'[c] \in {"write", "stage", "copy", "reload"} => Applying(c)
      /\ rstep'[c] \notin {"create", "migrate"}
  BY DEF RunRouter, TruncateRoutes, WriteRoutes, StageConfig, CopyConfig, ReloadRouter,
         RoutesTypeOK, RAtWork, Applying
<1>2. OnFile /\ InHand /\ Unbooked /\ \A e \in RouteCommands : InOrder(e)
  BY <1>1 DEF Kept, RoutesInv
<1>3. \A e \in RouteCommands \ {c} : ~RAtWork(e) /\ ~(RAtWork(e)')
  BY <1>1, <1>2 DEF InOrder, RAtWork
<1>4. rstep[c] # "write" => \A e \in RouteCommands : rstep[e] # "write"
  BY <1>3 DEF RAtWork
<1>5. (booked' = booked) => InHand'
  <2>1. \A e \in RouteCommands : Applying(e)' => Applying(e)
    BY <1>1, <1>3 DEF Applying, RAtWork, RunRouter, TruncateRoutes, WriteRoutes,
       StageConfig, CopyConfig, ReloadRouter, RoutesTypeOK
  <2> QED  BY <1>1, <1>2, <2>1 DEF InHand
<1>a. Unbooked'
  BY <1>1, <1>3 DEF Unbooked, RAtWork
<1>6. CASE RunRouter(c) \/ StageConfig(c) \/ CopyConfig(c)
  <2>1. UNCHANGED <<booked, routesFile>> /\ rstep[c] # "write"
    BY <1>6 DEF RunRouter, StageConfig, CopyConfig
  <2> QED  BY <1>2, <1>4, <1>5, <1>a, <2>1 DEF OnFile
<1>7. CASE TruncateRoutes(c)
  <2>1. booked' = booked /\ rstep[c] = "truncate"
        /\ (rstep'[c] = "write" \/ routesFile' = routesFile)
    BY <1>7 DEF TruncateRoutes, RoutesTypeOK
  <2> QED  BY <1>2, <1>4, <1>5, <1>a, <2>1 DEF OnFile
<1>8. CASE WriteRoutes(c)
  <2>1. CASE booked' = NoRoutes
    BY <2>1, NothingToKeep
  <2>2. CASE routesFile' \in Written(table[c]) /\ booked' = booked
    <3>1. routesFile' = [is |-> "whole", table |-> table[c]] /\ Applying(c)
      BY <1>2, <1>8, <2>2 DEF WriteRoutes, Written, InOrder, Applying
    <3> QED  BY <1>2, <1>5, <1>a, <2>2, <3>1 DEF OnFile, InHand
  <2> QED  BY <1>8, <2>1, <2>2 DEF WriteRoutes
<1>9. CASE ReloadRouter(c)
  <2>1. /\ routesFile' = routesFile /\ rstep'[c] = "done" /\ Applying(c) /\ rstep[c] = "reload"
        /\ \/ booked' = booked
           \/ Op[c] # "delete" /\ booked' = [booked EXCEPT ![DomainOf[c]] = TargetOf[c]]
    BY <1>9 DEF ReloadRouter, Applying, RoutesTypeOK
  <2>2. \A e \in RouteCommands : ~(Applying(e)')
    BY <1>3, <2>1 DEF Applying, RAtWork
  <2>3. /\ routesFile.is = "whole" /\ routesFile.table = table[c] /\ table[c] \in Tables
        /\ Op[c] # "delete" => table[c][DomainOf[c]] = TargetOf[c]
        /\ Keeps(table[c], booked)
    BY <1>2, <2>1 DEF InOrder, RWanted, InHand, Applying, RoutesTypeOK
  <2>4. Keeps(table[c], booked')
    <3>1. DomainOf[c] \in Domains /\ TargetOf[c] \in Targets /\ NoTarget \notin Targets
      BY RoutesAssumption DEF RoutesAssumption
    <3>2. CASE booked' = booked
      BY <2>3, <3>2 DEF Keeps
    <3>3. CASE Op[c] # "delete" /\ booked' = [booked EXCEPT ![DomainOf[c]] = TargetOf[c]]
      <4>1. /\ booked'[DomainOf[c]] = TargetOf[c]
            /\ \A d \in Domains \ {DomainOf[c]} : booked'[d] = booked[d]
        BY <3>1, <3>3 DEF RoutesTypeOK, Tables
      <4>2. table[c][DomainOf[c]] = TargetOf[c] /\ TargetOf[c] # NoTarget
        BY <2>3, <3>1, <3>3
      <4> QED  BY <2>3, <4>1, <4>2 DEF Keeps, Same
    <3> QED  BY <2>1, <3>2, <3>3
  <2> QED  BY <1>a, <2>1, <2>2, <2>3, <2>4 DEF OnFile, InHand
<1> QED  BY <1>6, <1>7, <1>8, <1>9

\* The takeover of the legacy file.
LEMMA KeptMigrate ==
  ASSUME RoutesTypeOK, RoutesInv, Kept, NEW c \in RouteCommands,
         CreateRoutes(c) \/ MigrateRoutes(c)
  PROVE  Kept'
<1>1. UNCHANGED <<met, booked>> /\ rstep[c] \in {"create", "migrate"}
  BY DEF CreateRoutes, MigrateRoutes
<1>2. ~met => booked' = NoRoutes
  BY <1>1 DEF Kept, Unbooked
<1> QED  BY <1>1, <1>2, NothingToKeep DEF Kept

LEMMA KeptAlways ==
  ASSUME NoRenames, RoutesTypeOK, RoutesInv, Kept, [RoutesNext]_rvars PROVE Kept'
<1>1. CASE RouterRestarts
  BY <1>1 DEF RouterRestarts, Kept, OnFile, InHand, Unbooked, Applying
<1>2. CASE RoutesCrash
  <2>1. /\ UNCHANGED <<table, met>> /\ booked' \in {booked, NoRoutes}
        /\ \A c \in RouteCommands : ~(Applying(c)') /\ rstep'[c] \notin {"create", "migrate", "write"}
    BY <1>2 DEF RoutesCrash, routerSide, Applying, RAtWork, RoutesTypeOK
  <2>2. CASE booked' = NoRoutes
    BY <2>1, <2>2, NothingToKeep DEF Kept
  <2>3. CASE booked' # NoRoutes /\ ~met
    <3>1. booked' = booked /\ \A c \in RouteCommands : rstep[c] \notin {"write", "create", "migrate"}
      BY <1>2, <2>1, <2>3 DEF RoutesCrash, Kept, Unbooked
    <3>2. routesFile' = routesFile
      BY <1>2, <3>1 DEF RoutesCrash
    <3> QED  BY <2>1, <2>3, <3>1, <3>2 DEF Kept, OnFile, InHand, Unbooked
  <2> QED  BY <2>1, <2>2, <2>3 DEF Kept
<1>3. CASE UNCHANGED rvars
  BY <1>3 DEF rvars, Kept, OnFile, InHand, Unbooked, Applying
<1> QED  BY <1>1, <1>2, <1>3, KeptBegin, KeptStep, KeptMigrate DEF RoutesNext, RouteStep

LEMMA RoutesKept == ASSUME NoRenames PROVE RoutesSpec => [](RoutesTypeOK /\ RoutesInv /\ Kept)
<1>1. RoutesInit => Kept
  BY DEF RoutesInit, Kept, OnFile, InHand, Unbooked, Applying
<1>2. Kept /\ RoutesTypeOK /\ RoutesInv /\ [RoutesNext]_rvars => Kept'
  BY KeptAlways
<1> QED  BY <1>1, <1>2, RoutesInOrder, PTL DEF RoutesSpec

(* routes.go:203-251: a route answered with success is still on disk after *)
(* whatever later commands, reinstallations and deaths of the agent, where *)
(* no command met another and no later write of the file was cut short.    *)
THEOREM StillOnDisk == ASSUME NoRenames PROVE RoutesSpec => []BookedIsKept
<1>1. RoutesTypeOK /\ Kept => BookedIsKept
  BY DEF Kept, OnFile, Keeps, BookedIsKept, NoRoutes, RoutesTypeOK, Tables
<1> QED  BY <1>1, RoutesKept, PTL

(* routes.go:113-138: a domain given to a container goes to no other one   *)
(* before it is deleted, where commands do not meet and no write of the    *)
(* file is cut short in between.                                           *)
THEOREM NotStolen == ASSUME NoRenames PROVE RoutesSpec => DomainNotStolen
<1>1. ASSUME RoutesTypeOK, RoutesInv, Kept, [RoutesNext]_rvars,
             NEW d \in Domains, booked[d] # NoTarget, booked'[d] \notin {booked[d], NoTarget}
      PROVE  met \/ Same(booked[d], booked'[d])
  <2> SUFFICES ASSUME ~met PROVE Same(booked[d], booked'[d])
    OBVIOUS
  <2>1. PICK c \in RouteCommands : LoadRoutes(c) \/ ReloadRouter(c)
    <3>1. booked' # NoRoutes /\ booked' # booked
      BY <1>1 DEF NoRoutes
    <3> QED  BY <1>1, <3>1 DEF RoutesNext, RouteStep, RouterRestarts, RoutesCrash, rvars,
                RemovePrevious, RunRouter, ListRoutes, CreateRoutes, MigrateRoutes,
                TruncateRoutes, WriteRoutes, StageConfig, CopyConfig
  <2>2. rstep[c] = "reload" /\ Op[c] # "delete" /\ d = DomainOf[c] /\ booked'[d] = TargetOf[c]
    BY <1>1, <2>1, RoutesAssumption DEF LoadRoutes, ReloadRouter, RoutesTypeOK, Tables, RoutesAssumption
  <2>3. table[c][d] = TargetOf[c] /\ Keeps(table[c], booked)
    BY <1>1, <2>2 DEF Kept, InHand, RoutesInv, InOrder, Applying, RWanted
  <2> QED  BY <1>1, <2>2, <2>3 DEF Keeps, Same
<1>2. RoutesTypeOK /\ RoutesInv /\ Kept /\ [RoutesNext]_rvars =>
        [\A d \in Domains :
           booked[d] # NoTarget /\ booked'[d] \notin {booked[d], NoTarget} =>
             met \/ Same(booked[d], booked'[d])]_rvars
  BY <1>1
<1> QED  BY <1>2, RoutesKept, PTL DEF RoutesSpec, DomainNotStolen

-----------------------------------------------------------------------------
(* session.go:163: side by side the commands do what each does alone, so   *)
(* that every theorem above holds of them.                                 *)
THEOREM HostCompose == HostSpec => RoutesSpec /\ HardeningSpec /\ LifecycleSpec
<1>1. HostInit => RoutesInit /\ HardeningInit /\ LifecycleInit
  BY DEF HostInit
<1>2. [HostNext]_<<rvars, hvars, lvars>> =>
        [RoutesNext]_rvars /\ [HardeningNext]_hvars /\ [LifecycleNext]_lvars
  BY DEF HostNext
<1> QED  BY <1>1, <1>2, PTL DEF HostSpec, RoutesSpec, HardeningSpec, LifecycleSpec

(* Every variable stays well typed, whichever commands run together.       *)
THEOREM HostTypes == HostSpec => []HostTypeOK
<1>1. RoutesTypeOK /\ HardeningTypeOK /\ LifecycleTypeOK => HostTypeOK
  BY DEF HostTypeOK
<1> QED  BY <1>1, HostCompose, RoutesTypes, HardeningTypes, LifecycleTypes, PTL
=============================================================================
