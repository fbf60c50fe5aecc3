--------------------------- MODULE WorkloadProofs ---------------------------
(***************************************************************************)
(* Theorems about the commands that move, deploy and start workloads, for  *)
(* any number of migrations, deployments and lines: the types of the three *)
(* modules, and                                                            *)
(*                                                                         *)
(*   - a migrated container runs once, and its source is removed only for  *)
(*     one that runs;                                                      *)
(*   - a deployment runs what it fetched, and its log tells how it went;   *)
(*   - a command that returns has reported all of its output.              *)
(***************************************************************************)
EXTENDS WorkloadCommands, TLAPS

-----------------------------------------------------------------------------
(* Migrations.                                                             *)
USE DEF Users, NoUser, RemoteAtWork

LEMMA TypesInitially == MigInit => MigrationTypeOK
<1> SUFFICES ASSUME MigInit PROVE MigrationTypeOK
  OBVIOUS
<1> DEFINE Containers == [by : Migrations \union {NoOne, Other}, up : BOOLEAN]
<1>a. Absent \in Containers /\ [by |-> Other, up |-> TRUE] \in Containers
  BY DEF Absent
<1>1. target \in Containers
  BY <1>a, Zenon DEF MigInit
<1>2. overlapped \in BOOLEAN /\ stopFailed \in BOOLEAN /\ crashed \in BOOLEAN
  BY Zenon DEF MigInit
<1> QED  BY <1>1, <1>2 DEF MigInit, MigrationTypeOK

(* What the target's agent and the preflight do.                           *)
LEMMA TypesTarget ==
  ASSUME MigrationTypeOK, NEW m \in Migrations, PrepareTarget(m) \/ Preflight(m)
  PROVE  MigrationTypeOK'
<1>1. \A asked \in Users \union {NoUser} : TargetUser(asked) \in Users
  BY DEF TargetUser
<1>2. CASE PrepareTarget(m)
  <2>1. PICK asked \in Users \union {NoUser} :
          /\ authorized' = authorized \union {<<TargetUser(asked), m>>}
          /\ login' = [login EXCEPT ![m] = TargetUser(asked)]
          /\ named' = IF asked = NoUser THEN named ELSE named \union {m}
    BY <1>2 DEF PrepareTarget
  <2>2. TargetUser(asked) \in Users
    BY <1>1
  <2> HIDE DEF Users, NoUser
  <2> QED  BY <1>2, <2>1, <2>2 DEF MigrationTypeOK, PrepareTarget, histories
<1>3. CASE Preflight(m)
  <2>1. verdict' \in {[verdict EXCEPT ![m] = a] :
                        a \in {"ok", "refused", "nodocker", "unreachable"}}
    BY <1>3 DEF Preflight
  <2>2. verdict' \in [Migrations -> {"none", "ok", "refused", "nodocker", "unreachable"}]
    BY <2>1 DEF MigrationTypeOK
  <2> QED  BY <1>3, <2>2 DEF MigrationTypeOK, Preflight, histories
<1> QED  BY <1>2, <1>3

LEMMA TypesSource ==
  ASSUME MigrationTypeOK, NEW m \in Migrations, Begin(m) \/ MigrationStep(m)
  PROVE  MigrationTypeOK'
<1> USE DEF MigrationTypeOK, Goto, Fail, targetSide, histories
<1>1. CASE Begin(m)
  BY <1>1 DEF Begin, AtWork
<1>2. CASE Inspect(m)
  BY <1>2 DEF Inspect
<1>7. CASE StopSource(m)
  BY <1>7 DEF StopSource
<1>3. CASE Commit(m)
  BY <1>3 DEF Commit
<1>4. CASE WriteKey(m) \/ StartTransfer(m)
  BY <1>4 DEF WriteKey, StartTransfer
<1>5. CASE TransferEnds(m) \/ ReportRestored(m)
  BY <1>5 DEF TransferEnds, ReportRestored
<1>6. CASE RemoveKey(m) \/ RemoveImage(m)
  BY <1>6 DEF RemoveKey, RemoveImage
<1> QED  BY <1>1, <1>2, <1>3, <1>4, <1>5, <1>6, <1>7 DEF MigrationStep

LEMMA TypesRemote ==
  ASSUME MigrationTypeOK, NEW m \in Migrations, RemoteStep(m)
  PROVE  MigrationTypeOK'
<1> USE DEF MigrationTypeOK, RemoteGoto, SourceSide, targetSide, histories
<1> DEFINE Containers == [by : Migrations \union {NoOne, Other}, up : BOOLEAN]
<1>a. Absent \in Containers /\ \A b \in BOOLEAN : [by |-> m, up |-> b] \in Containers
  BY DEF Absent
<1>1. CASE RemoteLogin(m) \/ RemoteLoad(m) \/ RemoteCheck(m) \/ RemoteFails(m)
  BY <1>1 DEF RemoteLogin, RemoteLoad, RemoteCheck, RemoteFails
<1>2. CASE RemoteReplace(m)
  <2>1. target' \in Containers
    BY <1>a, <1>2 DEF RemoteReplace
  <2> QED  BY <1>2, <2>1 DEF RemoteReplace
<1>3. CASE RemoteRun(m)
  <2>1. target' \in {target, [by |-> m, up |-> TRUE], [by |-> m, up |-> FALSE]}
    BY <1>3 DEF RemoteRun
  <2>2. target' \in Containers
    BY <1>a, <2>1
  <2> QED  BY <1>3, <2>2 DEF RemoteRun
<1> QED  BY <1>1, <1>2, <1>3 DEF RemoteStep

LEMMA TypesKept == MigrationTypeOK /\ [MigNext]_mvars => MigrationTypeOK'
<1> SUFFICES ASSUME MigrationTypeOK, [MigNext]_mvars PROVE MigrationTypeOK'
  OBVIOUS
<1>1. ASSUME NEW m \in Migrations, ConnectionLost(m) \/ Expire(m) PROVE MigrationTypeOK'
  BY <1>1 DEF MigrationTypeOK, ConnectionLost, Expire, Goto, Fail, targetSide, histories
<1>2. CASE AgentDies
  <2>1. crashed' \in BOOLEAN
    BY <1>2, Zenon DEF AgentDies
  <2>2. at' \in [Migrations -> {"idle", "inspect", "stop", "commit", "key", "start",
                                "wait", "restored", "unkey", "untag", "done"}]
    BY <1>2 DEF AgentDies, MigrationTypeOK
  <2> QED  BY <1>2, <2>1, <2>2 DEF MigrationTypeOK, AgentDies, targetSide
<1>3. CASE ContainerExits
  BY <1>3 DEF MigrationTypeOK, ContainerExits, targetSide, SourceSide, histories
<1>4. CASE UNCHANGED mvars
  BY <1>4 DEF MigrationTypeOK, mvars
<1> QED  BY <1>1, <1>2, <1>3, <1>4, TypesTarget, TypesSource, TypesRemote DEF MigNext

(* migration.go, commands_docker.go:288-359: every variable of a migration *)
(* stays well typed.                                                       *)
THEOREM MigrationTypes == MigSpec => []MigrationTypeOK
  BY TypesInitially, TypesKept, PTL DEF MigSpec

-----------------------------------------------------------------------------
(* Without a docker stop that failed, nothing of a migration is on the     *)
(* target before the source is stopped, and it is not started again.       *)
StoppedFirst ==
  source = "running" /\ ~stopFailed =>
    /\ target.by \notin Migrations
    /\ \A m \in Migrations :
         remote[m] = "none" /\ at[m] \in {"idle", "inspect", "stop", "done"}

LEMMA StoppedFirstKept ==
  MigrationTypeOK /\ StoppedFirst /\ [MigNext]_mvars => StoppedFirst'
<1> SUFFICES ASSUME MigrationTypeOK, StoppedFirst, [MigNext]_mvars PROVE StoppedFirst'
  OBVIOUS
<1> USE DEF MigrationTypeOK, StoppedFirst, Goto, Fail, targetSide, histories
<1>1. ASSUME NEW m \in Migrations, PrepareTarget(m) \/ Preflight(m) \/ Expire(m)
      PROVE  StoppedFirst'
  BY <1>1 DEF PrepareTarget, Preflight, Expire
<1>2. ASSUME NEW m \in Migrations, Begin(m) \/ Inspect(m) PROVE StoppedFirst'
  BY <1>2 DEF Begin, Inspect
<1>3. ASSUME NEW m \in Migrations, StopSource(m) PROVE StoppedFirst'
  BY <1>3 DEF StopSource
<1>4. ASSUME NEW m \in Migrations, Commit(m) \/ WriteKey(m) \/ StartTransfer(m)
      PROVE  StoppedFirst'
  BY <1>4 DEF Commit, WriteKey, StartTransfer
<1>5. ASSUME NEW m \in Migrations, TransferEnds(m) \/ ConnectionLost(m) \/ ReportRestored(m)
      PROVE  StoppedFirst'
  BY <1>5 DEF TransferEnds, ConnectionLost, ReportRestored
<1>6. ASSUME NEW m \in Migrations, RemoveKey(m) \/ RemoveImage(m) PROVE StoppedFirst'
  BY <1>6 DEF RemoveKey, RemoveImage
<1>7. ASSUME NEW m \in Migrations, RemoteStep(m) PROVE StoppedFirst'
  BY <1>7 DEF RemoteStep, RemoteLogin, RemoteLoad, RemoteReplace, RemoteRun,
              RemoteCheck, RemoteFails, RemoteGoto, SourceSide
<1>8. CASE AgentDies
  BY <1>8 DEF AgentDies
<1>9. CASE ContainerExits
  BY <1>9 DEF ContainerExits, SourceSide
<1>10. CASE UNCHANGED mvars
  BY <1>10 DEF mvars
<1> QED  BY <1>1, <1>2, <1>3, <1>4, <1>5, <1>6, <1>7, <1>8, <1>9, <1>10
         DEF MigNext, MigrationStep

(* migration.go:414-416: the container does not run on both machines.      *)
THEOREM OneCopy == MigSpec => []OneCopyRuns
<1>1. MigInit => StoppedFirst
  BY MigrationAssumption DEF MigrationAssumption, MigInit, StoppedFirst, Absent
<1>2. StoppedFirst => OneCopyRuns
  BY DEF StoppedFirst, OneCopyRuns
<1> QED  BY <1>1, <1>2, StoppedFirstKept, MigrationTypes, PTL DEF MigSpec

-----------------------------------------------------------------------------
(* What a migration leaves on the target while no two are at work at once. *)

\* The remote shell starts with the transfer, and a migration that reports a
\* restored container has heard so from it.
InStep ==
  \A m \in Migrations :
    /\ at[m] \in {"idle", "inspect", "stop", "commit", "key", "start"} => remote[m] = "none"
    /\ at[m] = "restored" => remote[m] = "ok"

\* One at a time.
Alone == \A m, n \in Migrations : (AtWork(m) /\ AtWork(n)) => m = n

\* What was seen running and is not reported yet is still there.
SeenIsThere ==
  \A m \in Migrations :
    (remote[m] = "ok" /\ at[m] \in {"wait", "restored"}) => target.by = m

\* Once the source is gone no migration gets as far as the target.
GoneIsFinal ==
  source = "gone" =>
    /\ target.by \in Migrations
    /\ \A m \in Migrations : /\ remote[m] \notin RemoteAtWork
                             /\ at[m] \in {"idle", "inspect", "unkey", "untag", "done"}

Survives == InStep /\ (~overlapped => (Alone /\ SeenIsThere /\ GoneIsFinal))

LEMMA SurvivesSource ==
  ASSUME MigrationTypeOK, Survives, NEW m \in Migrations,
         MigrationStep(m) \/ ConnectionLost(m) \/ Expire(m)
  PROVE  Survives'
<1> USE DEF MigrationTypeOK, Survives, InStep, Alone, SeenIsThere, GoneIsFinal, AtWork,
            Goto, Fail, targetSide, histories
<1>1. CASE Inspect(m) \/ StopSource(m)
  BY <1>1 DEF Inspect, StopSource
<1>2. CASE Commit(m) \/ WriteKey(m)
  BY <1>2 DEF Commit, WriteKey
<1>3. CASE StartTransfer(m)
  BY <1>3 DEF StartTransfer
<1>4. CASE TransferEnds(m) \/ ConnectionLost(m)
  BY <1>4 DEF TransferEnds, ConnectionLost
<1>5. CASE ReportRestored(m)
  BY <1>5 DEF ReportRestored
<1>6. CASE RemoveKey(m) \/ RemoveImage(m)
  BY <1>6 DEF RemoveKey, RemoveImage
<1>7. CASE Expire(m)
  BY <1>7 DEF Expire
<1> QED  BY <1>1, <1>2, <1>3, <1>4, <1>5, <1>6, <1>7 DEF MigrationStep

LEMMA SurvivesRemote ==
  ASSUME MigrationTypeOK, Survives, NEW m \in Migrations, RemoteStep(m)
  PROVE  Survives'
<1> USE DEF MigrationTypeOK, Survives, InStep, Alone, SeenIsThere, GoneIsFinal, AtWork,
            RemoteGoto, SourceSide, targetSide, histories
<1>1. CASE RemoteLogin(m) \/ RemoteLoad(m)
  BY <1>1 DEF RemoteLogin, RemoteLoad
<1>2. CASE RemoteReplace(m)
  BY <1>2 DEF RemoteReplace
<1>3. CASE RemoteRun(m)
  BY <1>3 DEF RemoteRun
<1>4. CASE RemoteCheck(m) \/ RemoteFails(m)
  BY <1>4 DEF RemoteCheck, RemoteFails
<1> QED  BY <1>1, <1>2, <1>3, <1>4 DEF RemoteStep

LEMMA SurvivesKept == MigrationTypeOK /\ Survives /\ [MigNext]_mvars => Survives'
<1> SUFFICES ASSUME MigrationTypeOK, Survives, [MigNext]_mvars PROVE Survives'
  OBVIOUS
<1> USE DEF MigrationTypeOK, Survives, InStep, Alone, SeenIsThere, GoneIsFinal, AtWork,
            targetSide, histories
<1>1. ASSUME NEW m \in Migrations, Begin(m) PROVE Survives'
  <2>1. at' = [at EXCEPT ![m] = "inspect"] /\ UNCHANGED <<remote, target, source>>
    BY <1>1 DEF Begin, Goto
  <2>2. InStep'
    BY <1>1, <2>1 DEF Begin
  <2>3. SUFFICES ASSUME ~overlapped' PROVE Alone' /\ SeenIsThere' /\ GoneIsFinal'
    BY <2>2
  <2>4. ~overlapped /\ \A n \in Migrations \ {m} : ~AtWork(n)
    BY <1>1, <2>3 DEF Begin
  <2>5. \A n \in Migrations \ {m} : ~(AtWork(n)')
    BY <2>1, <2>4
  <2>6. Alone'
    BY <2>5
  <2>7. SeenIsThere' /\ GoneIsFinal'
    BY <2>1, <2>4
  <2> QED  BY <2>6, <2>7
<1>2. ASSUME NEW m \in Migrations, PrepareTarget(m) \/ Preflight(m) PROVE Survives'
  BY <1>2 DEF PrepareTarget, Preflight
<1>3. CASE AgentDies
  BY <1>3 DEF AgentDies
<1>4. CASE ContainerExits
  BY <1>4 DEF ContainerExits, SourceSide
<1>5. CASE UNCHANGED mvars
  BY <1>5 DEF mvars
<1> QED  BY <1>1, <1>2, <1>3, <1>4, <1>5, SurvivesSource, SurvivesRemote DEF MigNext

(* migration.go:321-566: the source's container is removed only for one    *)
(* that was seen running on the target and is still there, through crashes *)
(* and retries that wait for the former try.                               *)
THEOREM Survival == MigSpec => []WorkloadSurvives
<1>1. MigInit => Survives
  BY DEF MigInit, Survives, InStep, Alone, SeenIsThere, GoneIsFinal, AtWork
<1>2. Survives => WorkloadSurvives
  BY DEF Survives, GoneIsFinal, WorkloadSurvives
<1> QED  BY <1>1, <1>2, SurvivesKept, MigrationTypes, PTL DEF MigSpec

-----------------------------------------------------------------------------
(* Who has a key was prepared for it, and without a name asked for, as the *)
(* user migrationTargetUser chooses; a preflight that went well was        *)
(* admitted as the user the transfer logs in as.                           *)
PreparedWell ==
  \A m \in Migrations :
    /\ login[m] # NoUser => <<login[m], m>> \in authorized
    /\ login[m] # NoUser /\ m \notin named => login[m] = TargetUser(NoUser)
    /\ \A u \in Users : <<u, m>> \in authorized => login[m] = u
    /\ verdict[m] = "ok" => Admits(LoginOf(m), m)

(* A migration that no other one overlaps finds its own key in the file.   *)
OwnKey ==
  ~overlapped => \A m \in Migrations : at[m] \in {"start", "wait"} => keyFile = m

LEMMA TargetKept ==
  ASSUME MigrationTypeOK, PreparedWell, UNCHANGED targetSide
  PROVE  PreparedWell'
<1>1. TargetUser(NoUser)' = TargetUser(NoUser)
  BY DEF targetSide, TargetUser, RootSSHAllowed
<1>2. \A m \in Migrations : Admits(LoginOf(m), m) => Admits(LoginOf(m), m)'
  BY DEF targetSide, Admits, LoginOf
<1> HIDE DEF Users, NoUser
<1> QED  BY <1>1, <1>2 DEF PreparedWell, targetSide

LEMMA PreparedWellPrepare ==
  ASSUME MigrationTypeOK, PreparedWell, NEW m \in Migrations, PrepareTarget(m)
  PROVE  PreparedWell'
<1>1. PICK asked \in Users \union {NoUser} :
        /\ authorized' = authorized \union {<<TargetUser(asked), m>>}
        /\ login' = [login EXCEPT ![m] = TargetUser(asked)]
        /\ named' = IF asked = NoUser THEN named ELSE named \union {m}
  BY DEF PrepareTarget
<1>2. login[m] = NoUser /\ host' = host /\ verdict' = verdict
  BY DEF PrepareTarget
<1>3. TargetUser(asked) \in Users /\ TargetUser(NoUser)' = TargetUser(NoUser)
  BY <1>2 DEF TargetUser, RootSSHAllowed
<1>4. NoUser \notin Users /\ login \in [Migrations -> Users \union {NoUser}]
  BY DEF MigrationTypeOK
<1>5. verdict[m] # "ok"
  <2>1. LoginOf(m) \in Users
    BY <1>2 DEF LoginOf
  <2>2. ~Admits(LoginOf(m), m)
    BY <1>2, <1>4, <2>1, Zenon DEF PreparedWell, Admits
  <2> QED  BY <2>2 DEF PreparedWell
<1>6. \A n \in Migrations \ {m} : Admits(LoginOf(n), n) => Admits(LoginOf(n), n)'
  <2> SUFFICES ASSUME NEW n \in Migrations \ {m}, Admits(LoginOf(n), n)
               PROVE  Admits(LoginOf(n), n)'
    OBVIOUS
  <2>1. LoginOf(n)' = LoginOf(n)
    BY <1>1, <1>4 DEF LoginOf
  <2> QED  BY <1>1, <1>2, <2>1 DEF Admits
<1> HIDE DEF Users, NoUser
<1>7. ASSUME NEW n \in Migrations, n # m
      PROVE  /\ login'[n] = login[n] /\ (n \in named' <=> n \in named)
             /\ \A u : <<u, n>> \in authorized' <=> <<u, n>> \in authorized
  BY <1>1, <1>4, <1>7
<1>8. login'[m] = TargetUser(asked) /\ \A u \in Users : <<u, m>> \notin authorized
  BY <1>1, <1>2, <1>4 DEF PreparedWell
<1>9. m \notin named' => asked = NoUser
  BY <1>1
<1> QED  BY <1>1, <1>2, <1>3, <1>5, <1>6, <1>7, <1>8, <1>9 DEF PreparedWell

LEMMA PreparedWellPreflight ==
  ASSUME MigrationTypeOK, PreparedWell, NEW m \in Migrations, Preflight(m)
  PROVE  PreparedWell'
<1>1. UNCHANGED <<host, authorized, login, named>>
  BY DEF Preflight
<1>2. TargetUser(NoUser)' = TargetUser(NoUser)
      /\ \A n \in Migrations : Admits(LoginOf(n), n)' <=> Admits(LoginOf(n), n)
  BY <1>1 DEF TargetUser, RootSSHAllowed, Admits, LoginOf
<1>3. verdict'[m] = "ok" => Admits(LoginOf(m), m)
  BY DEF Preflight, MigrationTypeOK
<1>4. \A n \in Migrations \ {m} : verdict'[n] = verdict[n]
  BY DEF Preflight, MigrationTypeOK
<1> HIDE DEF Users, NoUser
<1> QED  BY <1>1, <1>2, <1>3, <1>4 DEF PreparedWell

LEMMA OwnKeyKept ==
  MigrationTypeOK /\ Survives /\ OwnKey /\ [MigNext]_mvars => OwnKey'
<1> SUFFICES ASSUME MigrationTypeOK, Survives, OwnKey, [MigNext]_mvars PROVE OwnKey'
  OBVIOUS
<1> USE DEF MigrationTypeOK, Survives, Alone, AtWork, OwnKey, Goto, Fail, targetSide,
            histories
<1>1. ASSUME NEW m \in Migrations, PrepareTarget(m) \/ Preflight(m) \/ Begin(m)
      PROVE  OwnKey'
  BY <1>1 DEF PrepareTarget, Preflight, Begin
<1>2. ASSUME NEW m \in Migrations, Inspect(m) \/ StopSource(m) \/ Commit(m)
      PROVE  OwnKey'
  BY <1>2 DEF Inspect, StopSource, Commit
<1>3. ASSUME NEW m \in Migrations, WriteKey(m) \/ RemoveKey(m) PROVE OwnKey'
  BY <1>3 DEF WriteKey, RemoveKey
<1>4. ASSUME NEW m \in Migrations,
             StartTransfer(m) \/ TransferEnds(m) \/ ConnectionLost(m)
      PROVE  OwnKey'
  BY <1>4 DEF StartTransfer, TransferEnds, ConnectionLost
<1>5. ASSUME NEW m \in Migrations, ReportRestored(m) \/ RemoveImage(m) \/ Expire(m)
      PROVE  OwnKey'
  BY <1>5 DEF ReportRestored, RemoveImage, Expire
<1>6. ASSUME NEW m \in Migrations, RemoteStep(m) PROVE OwnKey'
  BY <1>6 DEF RemoteStep, RemoteLogin, RemoteLoad, RemoteReplace, RemoteRun,
              RemoteCheck, RemoteFails, SourceSide
<1>7. CASE AgentDies
  BY <1>7 DEF AgentDies
<1>8. CASE ContainerExits
  BY <1>8 DEF ContainerExits, SourceSide
<1>9. CASE UNCHANGED mvars
  BY <1>9 DEF mvars
<1> QED  BY <1>1, <1>2, <1>3, <1>4, <1>5, <1>6, <1>7, <1>8, <1>9 DEF MigNext, MigrationStep

LEMMA PreparedWellKept ==
  MigrationTypeOK /\ PreparedWell /\ [MigNext]_mvars => PreparedWell'
<1> SUFFICES ASSUME MigrationTypeOK, PreparedWell, [MigNext]_mvars PROVE PreparedWell'
  OBVIOUS
<1>1. ASSUME NEW m \in Migrations,
             Begin(m) \/ MigrationStep(m) \/ ConnectionLost(m) \/ Expire(m)
      PROVE  UNCHANGED targetSide
  BY <1>1 DEF Begin, MigrationStep, Inspect, StopSource, Commit, WriteKey, StartTransfer,
              TransferEnds, ReportRestored, RemoveKey, RemoveImage, ConnectionLost, Expire
<1>2. ASSUME NEW m \in Migrations, RemoteStep(m) PROVE UNCHANGED targetSide
  BY <1>2 DEF RemoteStep, RemoteLogin, RemoteLoad, RemoteReplace, RemoteRun,
              RemoteCheck, RemoteFails
<1>3. AgentDies \/ ContainerExits \/ UNCHANGED mvars => UNCHANGED targetSide
  BY DEF AgentDies, ContainerExits, mvars, targetSide
<1> QED  BY <1>1, <1>2, <1>3, TargetKept, PreparedWellPrepare, PreparedWellPreflight DEF MigNext

(* Of a target that could do right by a migration the agent chooses an     *)
(* account that is admitted.                                               *)
LEMMA ChosenIsAdmitted ==
  ASSUME PreparedWell, NEW m \in Migrations, WellPrepared(m)
  PROVE  Admits(LoginOf(m), m)
<1>1. LoginOf(m) = TargetUser(NoUser) /\ <<LoginOf(m), m>> \in authorized
  BY DEF PreparedWell, WellPrepared, LoginOf
<1>2. TargetUser(NoUser) \in host.admits
  BY DEF WellPrepared, TargetUser
<1> QED  BY <1>1, <1>2 DEF Admits

(* migration.go:42-74, 159-161, 466-474: the transfer's login is not       *)
(* refused half-way.                                                       *)
THEOREM TransferAdmitted == MigSpec => []TransferIsAdmitted
<1>1. MigInit => PreparedWell /\ OwnKey
  BY DEF MigInit, PreparedWell, OwnKey
<1>2. PreparedWell /\ OwnKey => TransferIsAdmitted
  <2> SUFFICES ASSUME PreparedWell, OwnKey, NEW m \in Migrations,
                      at[m] = "wait", ~overlapped, verdict[m] = "ok" \/ WellPrepared(m)
               PROVE  keyFile = m /\ Admits(LoginOf(m), keyFile)
    BY DEF TransferIsAdmitted
  <2>1. keyFile = m
    BY DEF OwnKey
  <2>2. Admits(LoginOf(m), m)
    BY ChosenIsAdmitted DEF PreparedWell
  <2> QED  BY <2>1, <2>2
<1>3. MigInit => Survives
  BY DEF MigInit, Survives, InStep, Alone, SeenIsThere, GoneIsFinal, AtWork
<1> QED  BY <1>1, <1>2, <1>3, SurvivesKept, OwnKeyKept, PreparedWellKept, MigrationTypes, PTL DEF MigSpec

-----------------------------------------------------------------------------
(* Deployments of a project.                                               *)
DiskType ==
  [dir : BOOLEAN, git : Commits \union {NoGit, Broken}, std : Contents, alt : Contents,
   env : SUBSET Vars, json : SUBSET Vars, log : {NoLog} \union (Deploys \X {"success", "failed"})]

DiskOK == disk \in DiskType /\ (disk.dir \/ disk = NoDir)
HandlersOK ==
  /\ origin \in Commits
  /\ up \in [file : Contents, env : SUBSET Vars]
  /\ dstep \in [Deploys -> {"idle", "fetch", "clone", "env", "resolve", "install",
                  "build", "up", "logsuccess", "logfailure", "sync", "rm", "rmdir", "done"}]
  /\ chosen \in [Deploys -> {"none", "std", "alt"}]
  /\ dresult \in [Deploys -> {"none", "error", "success"}]
  /\ lastDeploy \in Deploys \union {NoDeploy} /\ raced \in BOOLEAN

LEMMA DeployTypesSplit == DeployTypeOK <=> DiskOK /\ HandlersOK
  BY DEF DeployTypeOK, DiskOK, DiskType, HandlersOK

LEMMA CommitFields ==
  ASSUME NEW c \in Commits
  PROVE  /\ c.v \in 1 .. MaxPushes /\ c.env \in BOOLEAN
         /\ c = [v |-> c.v, has |-> c.has, env |-> c.env]
<1>1. PICK v \in 1 .. MaxPushes, l \in Layouts : c = [v |-> v, has |-> l.has, env |-> l.env]
  BY DEF Commits
<1>2. l.env \in BOOLEAN
  BY DeployAssumption DEF DeployAssumption, Layout
<1> QED  BY <1>1, <1>2

LEMMA ContentsHold ==
  /\ \A v \in 1 .. MaxPushes : FromCommit(v) \in Contents /\ FromCommit(v) # NoFile
  /\ \A d \in Deploys : FromEditor(d) \in Contents
  /\ {NoFile, Generated, Built} \subseteq Contents
BY DEF Contents, FromCommit, FromEditor, NoFile

LEMMA CheckoutTyped == DeployTypeOK => Checkout \in DiskType /\ Checkout.dir
<1> SUFFICES ASSUME DeployTypeOK PROVE Checkout \in DiskType /\ Checkout.dir
  OBVIOUS
<1>1. disk \in DiskType /\ origin \in Commits /\ origin.v \in 1 .. MaxPushes
  BY CommitFields DEF DeployTypeOK, DiskType
<1>2. Tracked("std", disk.std) \in Contents /\ Tracked("alt", disk.alt) \in Contents
  BY <1>1, ContentsHold DEF Tracked, DiskType
<1> QED  BY <1>1, <1>2 DEF Checkout, DiskType

LEMMA CheckoutFits ==
  ASSUME DeployTypeOK
  PROVE  /\ Checkout.git = origin /\ origin \in Commits
         /\ "std" \in origin.has => Checkout.std = FromCommit(origin.v)
         /\ "alt" \in origin.has => Checkout.alt = FromCommit(origin.v)
         /\ origin.env => Checkout.env = {}
BY DEF DeployTypeOK, Checkout, Tracked

LEMMA DeployTypesInitially == DeployInit => DeployTypeOK
<1> SUFFICES ASSUME DeployInit PROVE DeployTypeOK
  OBVIOUS
<1>1. DiskOK
  BY ContentsHold DEF DeployInit, DiskOK, DiskType, NoDir, EmptyDir
<1>2. HandlersOK
  BY ContentsHold DEF DeployInit, HandlersOK, NothingUp
<1> QED  BY <1>1, <1>2, DeployTypesSplit

LEMMA DeployTypesStep ==
  ASSUME DeployTypeOK, NEW d \in Deploys, DeployStep(d) PROVE DeployTypeOK'
<1> USE DEF Step, Answer
<1>1. DiskOK /\ HandlersOK /\ NoDir \in DiskType
  BY DeployTypesSplit, ContentsHold DEF DiskType, NoDir, EmptyDir
<1> SUFFICES DiskOK' /\ HandlersOK'
  BY DeployTypesSplit DEF DeployTypeOK, DiskOK, DiskType, HandlersOK
<1>3. CASE BeginGit(d) \/ BeginRemove(d)
  <2>1. raced' \in BOOLEAN /\ lastDeploy' = d
    BY <1>3, Zenon DEF BeginGit, BeginRemove, Starts
  <2>2. DiskOK'
    BY <1>1, <1>3 DEF BeginGit, BeginRemove, DiskOK, DiskType
  <2>3. CASE BeginGit(d)
    BY <1>1, <2>1, <2>2, <2>3 DEF BeginGit, Starts, HandlersOK
  <2>4. CASE BeginRemove(d)
    BY <1>1, <2>1, <2>2, <2>4 DEF BeginRemove, Starts, HandlersOK
  <2> QED  BY <1>3, <2>3, <2>4
<1>4. CASE BeginCompose(d) \/ BeginRedeploy(d)
  <2>1. raced' \in BOOLEAN /\ lastDeploy' = d
    BY <1>4, Zenon DEF BeginCompose, BeginRedeploy
  <2>2. DiskOK'
    BY <1>1, <1>4, ContentsHold DEF BeginCompose, BeginRedeploy, DiskOK, DiskType
  <2>3. CASE BeginCompose(d)
    BY <1>1, <2>1, <2>2, <2>3, SMTT(30) DEF BeginCompose, HandlersOK
  <2>4. CASE BeginRedeploy(d)
    BY <1>1, <2>1, <2>2, <2>4 DEF BeginRedeploy, HandlersOK
  <2> QED  BY <1>4, <2>3, <2>4
<1>5. CASE ClearDirectory(d) \/ RemoveDirectory(d)
  BY <1>1, <1>5 DEF ClearDirectory, RemoveDirectory, HandlersOK, DiskOK
<1>6. CASE Clone(d) \/ Pull(d)
  <2>1. DiskOK'
    BY <1>1, <1>6, CheckoutTyped DEF Clone, Pull, DiskOK, DiskType
  <2> QED  BY <1>1, <1>6, <2>1 DEF Clone, Pull, HandlersOK
<1>7. CASE SyncEnv(d)
  <2>1. disk.dir \/ [disk EXCEPT !.env = MergedEnv] = NoDir
    BY <1>1 DEF MergedEnv, NoDir, EmptyDir, DiskOK
  <2>2. DiskOK'
    BY <1>1, <1>7, <2>1 DEF SyncEnv, MergedEnv, DiskOK, DiskType
  <2> QED  BY <1>1, <1>7, <2>2 DEF SyncEnv, HandlersOK
<1>8. CASE Resolve(d)
  <2>1. Resolved(d) \in {"std", "alt", "none"}
    BY DeployAssumption DEF Resolved, DeployAssumption
  <2>2. Resolved(d) = "alt" => disk.dir
    <3>1. ~disk.dir => disk.alt = NoFile
      BY <1>1 DEF NoDir, EmptyDir, DiskOK
    <3> QED  BY <3>1, DeployAssumption DEF Resolved, IsThere, DeployAssumption
  <2>3. DiskOK'
    <3>1. \/ disk' = disk
          \/ disk.dir /\ disk' = [disk EXCEPT !.std = disk.alt]
          \/ disk' = [disk EXCEPT !.dir = TRUE, !.std = Generated]
      BY <1>8, <2>2 DEF Resolve
    <3> QED  BY <1>1, <3>1, ContentsHold DEF DiskOK, DiskType
  <2>4. HandlersOK'
    <3>1. /\ \/ dstep' = [dstep EXCEPT ![d] = "up"] /\ UNCHANGED dresult
             \/ /\ dstep' = [dstep EXCEPT ![d] = "done"]
                /\ dresult' = [dresult EXCEPT ![d] = "error"]
          /\ \/ UNCHANGED chosen
             \/ \E f \in {"std", "alt"} : chosen' = [chosen EXCEPT ![d] = f]
          /\ UNCHANGED <<origin, up, lastDeploy, raced>>
      BY <1>8, <2>1 DEF Resolve
    <3>2. chosen' \in [Deploys -> {"none", "std", "alt"}]
      BY <1>1, <3>1 DEF HandlersOK
    <3> QED  BY <1>1, <3>1, <3>2 DEF HandlersOK
  <2> QED  BY <2>3, <2>4
<1>9. CASE Install(d) \/ Build(d)
  <2>1. DiskOK'
    BY <1>1, <1>9, ContentsHold DEF Install, Build, DiskOK, DiskType
  <2> QED  BY <1>1, <1>9, <2>1 DEF Install, Build, HandlersOK
<1>10. CASE Up(d)
  BY <1>1, <1>10 DEF Up, DiskOK, DiskType, HandlersOK
<1>11. CASE WriteLog(d) \/ SyncDashboard(d)
  <2>1. DiskOK'
    <3>1. \E what \in {"success", "failed"} :
            disk' \in {disk, [disk EXCEPT !.dir = TRUE, !.log = <<d, what>>]}
      BY <1>11 DEF WriteLog, SyncDashboard
    <3>2. PICK what \in {"success", "failed"} :
            disk' \in {disk, [disk EXCEPT !.dir = TRUE, !.log = <<d, what>>]}
      BY <3>1
    <3>3. <<d, what>> \in {NoLog} \union (Deploys \X {"success", "failed"})
      OBVIOUS
    <3> HIDE DEF NoLog
    <3> QED  BY <1>1, <3>2, <3>3 DEF DiskOK, DiskType
  <2> QED  BY <1>1, <1>11, <2>1 DEF WriteLog, SyncDashboard, HandlersOK
<1>12. CASE RemoveContainer(d)
  <2>1. DiskOK'
    BY <1>1, <1>12 DEF RemoveContainer, DiskOK
  <2>2. NothingUp \in [file : Contents, env : SUBSET Vars]
    BY ContentsHold DEF NothingUp
  <2>3. HandlersOK'
    BY <1>1, <1>12, <2>2 DEF RemoveContainer, HandlersOK
  <2> QED  BY <2>1, <2>3
<1> QED  BY <1>3, <1>4, <1>5, <1>6, <1>7, <1>8, <1>9, <1>10, <1>11, <1>12 DEF DeployStep

LEMMA DeployTypesKept == DeployTypeOK /\ [DeployNext]_dvars => DeployTypeOK'
<1> SUFFICES ASSUME DeployTypeOK, [DeployNext]_dvars PROVE DeployTypeOK'
  OBVIOUS
<1>1. CASE Push
  BY <1>1 DEF Push, DeployTypeOK
<1>2. CASE EditVars
  <2>1. raced' \in BOOLEAN
    BY <1>2, Zenon DEF EditVars
  <2>2. DiskOK'
    <3>1. PICK vs \in SUBSET Vars : disk' = [disk EXCEPT !.dir = TRUE, !.json = vs]
      BY <1>2 DEF EditVars
    <3> QED  BY <3>1, DeployTypesSplit DEF DiskOK, DiskType
  <2>3. HandlersOK'
    BY <1>2, <2>1, DeployTypesSplit DEF EditVars, HandlersOK
  <2> QED  BY <2>2, <2>3 DEF DeployTypeOK, DiskOK, DiskType, HandlersOK
<1>3. CASE UNCHANGED dvars
  BY <1>3 DEF dvars, DeployTypeOK
<1> QED  BY <1>1, <1>2, <1>3, DeployTypesStep DEF DeployNext

(* deploy.go, commands_docker.go: the directory, what compose was told to  *)
(* run and the handlers stay well typed.                                   *)
THEOREM DeployTypes == DeploySpec => []DeployTypeOK
  BY DeployTypesInitially, DeployTypesKept, PTL DEF DeploySpec

-----------------------------------------------------------------------------
\* While the last command has met no other one and no edit: it is alone, and
\* what it has made of the directory so far is what it will run.
FileOf(name) == IF name = "std" THEN disk.std ELSE disk.alt
Wants(d) == Kind[d] = "git" /\ Asked[d] \in disk.git.has
EnvFits(env) == IF disk.git.env THEN env = disk.json ELSE disk.json \subseteq env

Followed(d) ==
  /\ dstep[d] = "done" <=> dresult[d] # "none"
  /\ dstep[d] \in {"rm", "rmdir"} => Kind[d] = "remove"
  /\ ~raced =>
       /\ DAtWork(d) => d = lastDeploy
       /\ FromRepo(d) =>
            /\ dstep[d] \in {"env", "resolve"} =>
                 (Wants(d) => FileOf(Asked[d]) = FromCommit(disk.git.v) /\ disk.git \in Commits)
            /\ dstep[d] = "env" => (disk.git.env => disk.env = {})
            /\ dstep[d] \in {"resolve", "install", "build", "up"} => EnvFits(disk.env)
            /\ dstep[d] \in {"install", "build"} => Kind[d] = "nixpacks"
            /\ dstep[d] = "up" => (Wants(d) => FileOf(chosen[d]) = FromCommit(disk.git.v))
            /\ dstep[d] \in {"logsuccess", "sync"} =>
                 (Wants(d) => up.file = FromCommit(disk.git.v)) /\ EnvFits(up.env)
       /\ Kind[d] \notin {"redeploy", "remove"} =>
            /\ dstep[d] = "sync" => disk.log = <<d, "success">>
            /\ lastDeploy = d /\ dresult[d] = "success" => disk.log = <<d, "success">>

DeployInv == \A d \in Deploys : Followed(d)

LEMMA FollowedInitially == DeployInit => DeployInv
  BY DEF DeployInit, DeployInv, Followed, DAtWork

\* A command at work alone: what it does not touch stays.
LEMMA FollowedOthers ==
  ASSUME DeployTypeOK, DeployInv, NEW d \in Deploys, DeployStep(d),
         NEW e \in Deploys, e # d
  PROVE  Followed(e)'
<1>1. dstep'[e] = dstep[e] /\ dresult'[e] = dresult[e]
  <2>0. HandlersOK
    BY DeployTypesSplit
  <2>1. CASE BeginGit(d) \/ BeginRemove(d)
    BY <2>0, <2>1 DEF HandlersOK, BeginGit, BeginRemove, Starts, Step, Answer
  <2>2. CASE BeginCompose(d) \/ BeginRedeploy(d)
    BY <2>0, <2>2 DEF HandlersOK, BeginCompose, BeginRedeploy, Step, Answer
  <2>3. CASE ClearDirectory(d) \/ RemoveDirectory(d) \/ RemoveContainer(d)
    BY <2>0, <2>3 DEF HandlersOK, ClearDirectory, RemoveDirectory, RemoveContainer, Step, Answer
  <2>4. CASE Clone(d) \/ Pull(d) \/ SyncEnv(d)
    BY <2>0, <2>4 DEF HandlersOK, Clone, Pull, SyncEnv, Step, Answer
  <2>5. CASE Resolve(d)
    BY <2>0, <2>5 DEF HandlersOK, Resolve, Step, Answer
  <2>6. CASE Install(d) \/ Build(d) \/ Up(d)
    BY <2>0, <2>6 DEF HandlersOK, Install, Build, Up, Step, Answer
  <2>7. CASE WriteLog(d) \/ SyncDashboard(d)
    BY <2>0, <2>7 DEF HandlersOK, WriteLog, SyncDashboard, Step, Answer
  <2> QED  BY <2>1, <2>2, <2>3, <2>4, <2>5, <2>6, <2>7 DEF DeployStep
<1>2. \/ lastDeploy' = d /\ dstep[d] = "idle" /\ (~raced' => ~DAtWork(e))
      \/ lastDeploy' = lastDeploy /\ raced' = raced /\ DAtWork(d)
  <2>0. HandlersOK
    BY DeployTypesSplit
  <2>1. CASE BeginGit(d) \/ BeginRemove(d)
    BY <2>0, <2>1 DEF HandlersOK, BeginGit, BeginRemove, Starts, Step, Answer, DAtWork
  <2>2. CASE BeginCompose(d) \/ BeginRedeploy(d)
    BY <2>0, <2>2 DEF HandlersOK, BeginCompose, BeginRedeploy, Step, Answer, DAtWork
  <2>3. CASE ClearDirectory(d) \/ RemoveDirectory(d) \/ RemoveContainer(d)
    BY <2>0, <2>3 DEF HandlersOK, ClearDirectory, RemoveDirectory, RemoveContainer, Step, Answer, DAtWork
  <2>4. CASE Clone(d) \/ Pull(d) \/ SyncEnv(d)
    BY <2>0, <2>4 DEF HandlersOK, Clone, Pull, SyncEnv, Step, Answer, DAtWork
  <2>5. CASE Resolve(d)
    BY <2>0, <2>5 DEF HandlersOK, Resolve, Step, Answer, DAtWork
  <2>6. CASE Install(d) \/ Build(d) \/ Up(d)
    BY <2>0, <2>6 DEF HandlersOK, Install, Build, Up, Step, Answer, DAtWork
  <2>7. CASE WriteLog(d) \/ SyncDashboard(d)
    BY <2>0, <2>7 DEF HandlersOK, WriteLog, SyncDashboard, Step, Answer, DAtWork
  <2> QED  BY <2>1, <2>2, <2>3, <2>4, <2>5, <2>6, <2>7 DEF DeployStep
<1>3. ~raced' => ~DAtWork(e) /\ lastDeploy' # e
  BY <1>2 DEF DeployInv, Followed
<1> QED  BY <1>1, <1>3 DEF DeployInv, Followed, DAtWork

\* What single steps leave of the directory, and where they lead.
LEMMA ResolveKeeps ==
  ASSUME DiskOK, HandlersOK, NEW d \in Deploys, Resolve(d)
  PROVE  /\ UNCHANGED <<lastDeploy, raced>> /\ dstep[d] = "resolve"
         /\ dstep'[d] \in {"up", "done"} /\ (dstep'[d] = "done" => dresult'[d] = "error")
         /\ (dstep'[d] = "up" => dresult'[d] = dresult[d])
         /\ disk'.git = disk.git /\ disk'.env = disk.env /\ disk'.json = disk.json
<1>1. /\ UNCHANGED <<lastDeploy, raced>> /\ dstep[d] = "resolve"
      /\ \/ dstep' = [dstep EXCEPT ![d] = "up"] /\ UNCHANGED dresult
         \/ /\ dstep' = [dstep EXCEPT ![d] = "done"]
            /\ dresult' = [dresult EXCEPT ![d] = "error"]
  BY DEF Resolve, Step, Answer
<1>2. \/ disk' = disk
      \/ disk' = [disk EXCEPT !.std = disk.alt]
      \/ disk' = [disk EXCEPT !.dir = TRUE, !.std = Generated]
  BY DEF Resolve
<1>3. disk'.git = disk.git /\ disk'.env = disk.env /\ disk'.json = disk.json
  BY <1>2 DEF DiskOK, DiskType
<1>4. d \in DOMAIN dstep /\ d \in DOMAIN dresult
  BY DEF HandlersOK
<1> QED  BY <1>1, <1>3, <1>4

LEMMA BuildKeeps ==
  ASSUME DiskOK, NEW d \in Deploys, Install(d) \/ Build(d)
  PROVE  disk'.git = disk.git /\ disk'.env = disk.env /\ disk'.json = disk.json
<1>1. disk' = disk \/ disk' = [disk EXCEPT !.dir = TRUE, !.std = Built]
  BY DEF Install, Build
<1> QED  BY <1>1 DEF DiskOK, DiskType

LEMMA LogKeeps ==
  ASSUME DiskOK, NEW d \in Deploys, WriteLog(d)
  PROVE  /\ UNCHANGED <<up, lastDeploy, raced>> /\ disk'.git = disk.git /\ disk'.json = disk.json
         /\ \/ /\ dstep[d] = "logsuccess" /\ dstep' = [dstep EXCEPT ![d] = "sync"]
               /\ dresult' = dresult /\ disk'.log = <<d, "success">>
            \/ /\ dstep[d] = "logfailure" /\ dstep' = [dstep EXCEPT ![d] = "done"]
               /\ dresult' = [dresult EXCEPT ![d] = "error"]
<1>1. /\ UNCHANGED <<up, lastDeploy, raced>>
      /\ \/ /\ dstep[d] = "logsuccess" /\ dstep' = [dstep EXCEPT ![d] = "sync"]
            /\ dresult' = dresult /\ disk' = [disk EXCEPT !.dir = TRUE, !.log = <<d, "success">>]
         \/ /\ dstep[d] = "logfailure" /\ dstep' = [dstep EXCEPT ![d] = "done"]
            /\ dresult' = [dresult EXCEPT ![d] = "error"]
      /\ disk' = disk \/ \E what : disk' = [disk EXCEPT !.dir = TRUE, !.log = <<d, what>>]
  BY DEF WriteLog, Step, Answer
<1> QED  BY <1>1 DEF DiskOK, DiskType

LEMMA FollowedSelf ==
  ASSUME DeployTypeOK, DeployInv, NEW d \in Deploys, DeployStep(d)
  PROVE  Followed(d)'
<1> USE DEF Step, Answer
<1>1. DiskOK /\ HandlersOK /\ Followed(d) /\ Kind[d] \in {"git", "nixpacks", "compose", "redeploy", "remove"}
      /\ Asked[d] \in {"std", "alt"}
  BY DeployTypesSplit, DeployAssumption DEF DeployInv, DeployAssumption
<1> USE <1>1 DEF HandlersOK, Followed, DAtWork, FromRepo
<1>2. DAtWork(d) /\ ~raced => d = lastDeploy
  OBVIOUS
<1>3. CASE BeginGit(d) \/ BeginRemove(d)
  <2>1. CASE BeginGit(d)
    BY <2>1 DEF BeginGit, Starts
  <2>2. CASE BeginRemove(d)
    BY <2>2 DEF BeginRemove, Starts
  <2> QED  BY <1>3, <2>1, <2>2
<1>4. CASE BeginCompose(d) \/ BeginRedeploy(d)
  <2>1. CASE BeginCompose(d)
    BY <2>1 DEF BeginCompose
  <2>2. CASE BeginRedeploy(d)
    BY <2>2 DEF BeginRedeploy
  <2> QED  BY <1>4, <2>1, <2>2
<1>5. CASE ClearDirectory(d) \/ RemoveDirectory(d) \/ RemoveContainer(d)
  <2>1. CASE ClearDirectory(d)
    BY <2>1 DEF ClearDirectory
  <2>2. CASE RemoveDirectory(d)
    BY <2>2 DEF RemoveDirectory
  <2>3. CASE RemoveContainer(d)
    BY <2>3 DEF RemoveContainer
  <2> QED  BY <1>5, <2>1, <2>2, <2>3
<1>6. CASE Clone(d) \/ Pull(d)
  <2>1. dstep'[d] = "env" =>
          /\ Kind[d] = "git" /\ Asked[d] \in disk'.git.has =>
               FileOf(Asked[d])' = FromCommit(disk'.git.v) /\ disk'.git \in Commits
          /\ disk'.git.env => disk'.env = {}
    <3>1. dstep'[d] = "env" => disk' = Checkout
      BY <1>6 DEF Clone, Pull
    <3> QED  BY <3>1, CheckoutFits DEF FileOf
  <2> QED  BY <1>6, <2>1 DEF Clone, Pull, Wants
<1>7. CASE SyncEnv(d)
  <2>1. /\ disk' = [disk EXCEPT !.env = disk.env \union disk.json]
        /\ disk'.git = disk.git /\ disk'.std = disk.std /\ disk'.alt = disk.alt
        /\ disk'.json = disk.json /\ disk'.env = disk.env \union disk.json
    BY <1>7 DEF SyncEnv, MergedEnv, DiskOK, DiskType
  <2> QED  BY <1>7, <2>1 DEF SyncEnv, Wants, FileOf, EnvFits
<1>8. CASE Resolve(d)
  <2>1. UNCHANGED <<lastDeploy, raced>> /\ dstep[d] = "resolve"
        /\ dstep'[d] \in {"up", "done"} /\ (dstep'[d] = "done" => dresult'[d] = "error")
        /\ (dstep'[d] = "up" => dresult'[d] = dresult[d])
        /\ disk'.git = disk.git /\ disk'.env = disk.env /\ disk'.json = disk.json
    BY <1>8, ResolveKeeps
  <2>2. dstep'[d] = "up" /\ ~raced /\ Wants(d) /\ FromRepo(d) =>
          FileOf(chosen[d])' = FromCommit(disk.git.v)
    <3> SUFFICES ASSUME dstep'[d] = "up", ~raced, Wants(d), FromRepo(d)
                 PROVE  FileOf(chosen[d])' = FromCommit(disk.git.v)
      OBVIOUS
    <3>1. FileOf(Asked[d]) = FromCommit(disk.git.v) /\ FromCommit(disk.git.v) # NoFile
      BY <2>1, ContentsHold, CommitFields
    <3>2. Resolved(d) = Asked[d]
      BY <3>1 DEF Resolved, IsThere, FileOf
    <3>3. chosen'[d] = Asked[d] /\ disk' = IF Asked[d] = "alt" THEN [disk EXCEPT !.std = disk.alt] ELSE disk
      BY <1>8, <3>2 DEF Resolve
    <3> QED  BY <3>1, <3>3 DEF FileOf, DiskOK, DiskType
  <2> QED  BY <2>1, <2>2 DEF Wants, EnvFits
<1>9. CASE Install(d) \/ Build(d)
  <2>1. disk'.git = disk.git /\ disk'.env = disk.env /\ disk'.json = disk.json
    BY <1>9, BuildKeeps
  <2> QED  BY <1>9, <2>1 DEF Install, Build, Wants, EnvFits
<1>10. CASE Up(d)
  BY <1>10 DEF Up, FileOf, Wants, EnvFits
<1>11. CASE WriteLog(d)
  <2>1. UNCHANGED <<up, lastDeploy, raced>> /\ disk'.git = disk.git /\ disk'.json = disk.json
    BY <1>11, LogKeeps
  <2>2. \/ /\ dstep[d] = "logsuccess" /\ dstep'[d] = "sync" /\ dresult' = dresult
           /\ disk'.log = <<d, "success">>
        \/ dstep[d] = "logfailure" /\ dstep'[d] = "done" /\ dresult'[d] = "error"
    BY <1>11, LogKeeps
  <2> QED  BY <2>1, <2>2 DEF Wants, EnvFits
<1>12. CASE SyncDashboard(d)
  BY <1>12 DEF SyncDashboard
<1> QED  BY <1>3, <1>4, <1>5, <1>6, <1>7, <1>8, <1>9, <1>10, <1>11, <1>12 DEF DeployStep

LEMMA DeployInvKept == DeployTypeOK /\ DeployInv /\ [DeployNext]_dvars => DeployInv'
<1> SUFFICES ASSUME DeployTypeOK, DeployInv, [DeployNext]_dvars PROVE DeployInv'
  OBVIOUS
<1>1. CASE Push
  BY <1>1 DEF Push, DeployInv, Followed, DAtWork, Wants, FileOf, EnvFits
<1>2. CASE EditVars
  <2>1. /\ UNCHANGED <<up, dstep, chosen, dresult, lastDeploy>> /\ disk'.log = disk.log
        /\ ~raced' => ~raced /\ \A e \in Deploys : ~DAtWork(e)
    BY <1>2, DeployTypesSplit DEF EditVars, DiskOK, DiskType
  <2> QED  BY <2>1 DEF DeployInv, Followed, DAtWork
<1>3. CASE UNCHANGED dvars
  BY <1>3 DEF dvars, DeployInv, Followed, DAtWork, Wants, FileOf, EnvFits
<1>4. ASSUME NEW d \in Deploys, DeployStep(d) PROVE DeployInv'
  BY <1>4, FollowedSelf, FollowedOthers DEF DeployInv
<1> QED  BY <1>1, <1>2, <1>3, <1>4 DEF DeployNext

LEMMA DeploymentsFollowed == DeploySpec => [](DeployTypeOK /\ DeployInv)
  BY DeployTypes, FollowedInitially, DeployInvKept, PTL DEF DeploySpec

(* deploy.go:267-392: a deployment from the repository that met no other   *)
(* command and no edit runs the file of the commit it fetched, with the    *)
(* dashboard's variables, whatever the directory held before.              *)
THEOREM PulledRuns == DeploySpec => []PulledIsDeployed
<1>1. DeployInv => PulledIsDeployed
  BY DEF DeployInv, Followed, DAtWork, PulledIsDeployed, Deployed, FromRepo, Wants, EnvFits
<1> QED  BY <1>1, DeploymentsFollowed, PTL

(* deploy.go:106-117, commands_docker.go:179-188: the deployment log tells *)
(* what the last deployment answered.                                      *)
THEOREM LogTells == DeploySpec => []LogTellsOutcome
<1>1. DeployTypeOK /\ DeployInv => LogTellsOutcome
  BY DEF DeployInv, Followed, LogTellsOutcome, DeployTypeOK
<1> QED  BY <1>1, DeploymentsFollowed, PTL

-----------------------------------------------------------------------------
(* Streaming commands.                                                     *)

(* What has ended stays complete: the pipes behind a finished cmd.Run, the *)
(* channel behind a stopped scanner, the transcript behind the reporter.   *)
Ended ==
  /\ runner # "run" => (process = "exited" /\ ~child /\ copied = written)
  /\ scanner = "stopped" => queued = copied
  /\ reporter = "off" => (scanner = "stopped" /\ noted = queued /\ reported = noted)
  /\ runner = "returned" => reporter = "off"

StreamInv == StreamTypeOK /\ Ended

LEMMA StreamInitially == StreamInit => StreamInv
<1> SUFFICES ASSUME StreamInit PROVE StreamInv
  OBVIOUS
<1> USE StreamAssumption DEF StreamAssumption, StreamInit
<1>1. /\ 0 \in 0 .. MaxLines /\ 0 <= 0
      /\ 0 <= 0 + PipeCap /\ 0 <= 0 + ChanCap /\ 0 < 0 + Batch
  OBVIOUS
<1>2. {written, copied, queued, noted, reported} \subseteq 0 .. MaxLines
  BY <1>1, Zenon
<1>3. StreamTypeOK
  BY <1>1, <1>2, Zenon DEF StreamTypeOK
<1>4. Ended
  BY DEF Ended
<1> QED  BY <1>3, <1>4 DEF StreamInv

LEMMA StreamKept == StreamInv /\ [StreamNext]_svars => StreamInv'
<1> SUFFICES ASSUME StreamInv, [StreamNext]_svars PROVE StreamInv'
  OBVIOUS
<1> USE StreamAssumption DEF StreamAssumption, StreamInv, StreamTypeOK, Ended
<1>1. CASE WriteLine
  BY <1>1 DEF WriteLine
<1>2. CASE ProcessEnds \/ ChildEnds
  BY <1>2 DEF ProcessEnds, ChildEnds
<1>3. CASE Copy
  BY <1>3 DEF Copy
<1>4. CASE Enqueue
  BY <1>4 DEF Enqueue
<1>5. CASE StopScanning
  BY <1>5 DEF StopScanning
<1>6. CASE Note
  <2>1. CASE noted' - reported >= Batch
    BY <1>6, <2>1 DEF Note
  <2>2. CASE ~(noted' - reported >= Batch)
    BY <1>6, <2>2 DEF Note
  <2> QED  BY <2>1, <2>2
<1>7. CASE Tick
  BY <1>7 DEF Tick
<1>8. CASE EndReports
  BY <1>8 DEF EndReports
<1>9. CASE RunEnds \/ Return
  BY <1>9 DEF RunEnds, Return
<1>10. CASE UNCHANGED svars
  BY <1>10 DEF svars
<1> QED  BY <1>1, <1>2, <1>3, <1>4, <1>5, <1>6, <1>7, <1>8, <1>9, <1>10 DEF StreamNext

(* compose.go:130-191: the stages of a streaming command stay in order and *)
(* within their capacities.                                                *)
THEOREM StreamTypes == StreamSpec => []StreamTypeOK
<1>1. StreamInv => StreamTypeOK
  BY DEF StreamInv
<1> QED  BY <1>1, StreamInitially, StreamKept, PTL DEF StreamSpec

(* compose.go:186-190: a command that returns has noted and reported every *)
(* line that was written.                                                  *)
THEOREM ReturnsComplete == StreamSpec => []ReturnedIsComplete
<1>1. StreamInv => ReturnedIsComplete
  BY DEF StreamInv, Ended, ReturnedIsComplete
<1> QED  BY <1>1, StreamInitially, StreamKept, PTL DEF StreamSpec

-----------------------------------------------------------------------------
(* session.go:163: side by side the commands do what each does alone, so   *)
(* that every theorem above holds of them.                                 *)
THEOREM WorkloadsCompose == WorkloadsSpec => MigSpec /\ DeploySpec /\ StreamSpec
<1>1. WorkloadsInit => MigInit /\ DeployInit /\ StreamInit
  BY DEF WorkloadsInit
<1>2. [WorkloadsNext]_<<mvars, dvars, svars>> =>
        [MigNext]_mvars /\ [DeployNext]_dvars /\ [StreamNext]_svars
  BY DEF WorkloadsNext
<1> QED  BY <1>1, <1>2, PTL DEF WorkloadsSpec, MigSpec, DeploySpec, StreamSpec

(* Every variable stays well typed, whichever commands run together.       *)
THEOREM WorkloadsTypes == WorkloadsSpec => []WorkloadsTypeOK
<1>1. MigrationTypeOK /\ DeployTypeOK /\ StreamTypeOK => WorkloadsTypeOK
  BY DEF WorkloadsTypeOK
<1> QED  BY <1>1, WorkloadsCompose, MigrationTypes, DeployTypes, StreamTypes, PTL
=============================================================================
