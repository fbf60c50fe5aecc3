----------------------------- MODULE Migration -----------------------------
(***************************************************************************)
(* Moving or copying a container to another machine over ssh:              *)
(* internal/docker/migration.go and its handlers in commands_docker.go.    *)
(*                                                                         *)
(* One container, and any number of commands that migrate it to one        *)
(* target.  The target's agent installs a key for a user, the source's     *)
(* agent stops and commits the container, writes the private key to a file *)
(* named for the container, and pipes docker save into ssh.  The remote    *)
(* shell loads the image, removes what bears the container's name, runs    *)
(* the image and looks at it two seconds later; it lives on when the       *)
(* source loses the connection.  Nothing serialises two migrations.        *)
(***************************************************************************)
EXTENDS Integers

CONSTANTS
  Migrations,  \* commands that migrate the container, each with its own key
  Moves,       \* those in move mode; the others copy
  Tags,        \* bound: the seconds that name a temporary image
  Hosts,       \* targets considered, see HostRecord
  NoOne,       \* no migration
  Other        \* a container of the same name that is the target's own

Users == {"root", "agent", "sudo"}
NoUser == "none"

\* What decides about logins on a target: what sshd -T and the first
\* PermitRootLogin of sshd_config say ("yes" is every value but no), whose keys
\* sshd really takes, whether the agent runs as root, whether an account is
\* found that may use sudo, and whether there is docker.  Whom sshd admits has
\* no fixed relation to what it says of root: PubkeyAuthentication, a Match
\* block, forced-commands-only, a locked account or the permissions of a
\* directory decide too.
HostRecord ==
  [sshdT : {"yes", "no", "unknown"}, file : {"yes", "no", "unknown"},
   admits : SUBSET Users, agentIsRoot : BOOLEAN, sudoUser : BOOLEAN,
   docker : BOOLEAN]

ASSUME MigrationAssumption ==
  /\ Moves \subseteq Migrations
  /\ NoOne \notin Migrations /\ Other \notin Migrations /\ NoOne # Other
  /\ Hosts \subseteq HostRecord

VARIABLES
  host,       \* the target's settings, the same throughout
  authorized, \* pairs <<user, migration>>: keys in authorized_keys
  login,      \* login[m]: the user prepare_migration_target answered with
  named,      \* migrations whose preparation was asked for a certain user
  verdict,    \* verdict[m]: what migration_preflight answered
  source,     \* the container on the source: "running", "stopped", "gone"
  images,     \* temporary images on the source, by tag
  keyFile,    \* whose private key /tmp/tug_mig_key_<container> holds
  at,         \* at[m]: the next step of MigrateContainerToTarget
  tag,        \* tag[m]: the tag of its image
  expired,    \* migrations whose five minutes are over
  remote,     \* remote[m]: the next step of the shell on the target
  target,     \* the container of that name on the target
  result,     \* result[m]: what the handler returned
  overlapped, \* history: a migration began while another was at work
  stopFailed, \* history: docker stop failed once
  crashed     \* history: the source's agent died once

mvars == <<host, authorized, login, named, verdict, source, images, keyFile, at,
           tag, expired, remote, target, result, overlapped, stopFailed, crashed>>
targetSide == <<host, authorized, login, named, verdict>>
histories == <<overlapped, stopFailed, crashed>>

Absent == [by |-> NoOne, up |-> FALSE]
RemoteAtWork == {"login", "load", "replace", "run", "check"}
AtWork(m) == at[m] \notin {"idle", "done"} \/ remote[m] \in RemoteAtWork

MigInit ==
  /\ host \in Hosts
  /\ authorized = {}
  /\ login = [m \in Migrations |-> NoUser] /\ named = {}
  /\ verdict = [m \in Migrations |-> "none"]
  /\ source = "running" /\ images = {} /\ keyFile = NoOne
  /\ at = [m \in Migrations |-> "idle"]
  /\ tag = [m \in Migrations |-> 0]
  /\ expired = {}
  /\ remote = [m \in Migrations |-> "none"]
  /\ target \in {Absent, [by |-> Other, up |-> TRUE]}
  /\ result = [m \in Migrations |-> "none"]
  /\ overlapped = FALSE /\ stopFailed = FALSE /\ crashed = FALSE

-----------------------------------------------------------------------------
\* The target's agent, and the preflight.

\* isRootSSHAllowed: sshd -T, else the main configuration file, else yes; and
\* every value but no counts as yes.
RootSSHAllowed ==
  IF host.sshdT # "unknown" THEN host.sshdT = "yes" ELSE host.file # "no"

\* Faulty variant: the key always goes to the agent's own user.
TargetUser_Own(asked) == IF host.agentIsRoot THEN "root" ELSE "agent"

\* migrationTargetUser: the user asked for, the agent's own, or root; but
\* findStandardSudoUser's when root may not log in.
TargetUser(asked) ==
  CASE asked # NoUser -> asked
    [] asked = NoUser /\ ~host.agentIsRoot -> "agent"
    [] asked = NoUser /\ host.agentIsRoot ->
         IF ~RootSSHAllowed /\ host.sudoUser THEN "sudo" ELSE "root"

\* prepare_migration_target: a key is appended unless it is there.  Nothing
\* removes it later: CleanupMigrationTargetKey has no caller.  A preparation
\* that fails (the directory, the file, the write) leaves no key and no answer,
\* and the dashboard may try again or go on without.
PrepareTarget(m) ==
  /\ at[m] = "idle" /\ login[m] = NoUser
  /\ \E asked \in Users \union {NoUser} :
       /\ authorized' = authorized \union {<<TargetUser(asked), m>>}
       /\ login' = [login EXCEPT ![m] = TargetUser(asked)]
       /\ named' = IF asked = NoUser THEN named ELSE named \union {m}
  /\ UNCHANGED <<host, verdict, source, images, keyFile, at, tag, expired,
                 remote, target, result, histories>>

\* sshd admits m's key for a user.
Admits(user, m) == <<user, m>> \in authorized /\ user \in host.admits

\* An empty ssh_user means root.
LoginOf(m) == IF login[m] = NoUser THEN "root" ELSE login[m]

\* migration_preflight: dial, log in with a probe key of its own file, look for
\* docker.  The dial may fail whatever the settings.
Preflight(m) ==
  /\ at[m] = "idle" /\ verdict[m] = "none"
  /\ LET answer == CASE ~Admits(LoginOf(m), m) -> "refused"
                     [] Admits(LoginOf(m), m) /\ ~host.docker -> "nodocker"
                     [] OTHER -> "ok"
     IN  verdict' \in {[verdict EXCEPT ![m] = a] : a \in {answer, "unreachable"}}
  /\ UNCHANGED <<host, authorized, login, named, source, images, keyFile, at, tag,
                 expired, remote, target, result, histories>>

-----------------------------------------------------------------------------
\* MigrateContainerToTarget.  A docker call may always fail, and does after
\* the deadline.
Docker(m) == m \notin expired
Goto(m, step) == at' = [at EXCEPT ![m] = step]
Fail(m, step) == Goto(m, step) /\ result' = [result EXCEPT ![m] = "error"]

\* handleMigrateContainerSource; the dashboard may migrate without preparing.
Begin(m) ==
  /\ at[m] = "idle"
  /\ Goto(m, "inspect")
  /\ overlapped' = (overlapped \/ \E n \in Migrations \ {m} : AtWork(n))
  /\ UNCHANGED <<targetSide, source, images, keyFile, tag, expired, remote,
                 target, result, stopFailed, crashed>>

Inspect(m) ==
  /\ at[m] = "inspect"
  /\ \/ Docker(m) /\ source # "gone" /\ Goto(m, "stop") /\ UNCHANGED result
     \/ Fail(m, "done")
  /\ UNCHANGED <<targetSide, source, images, keyFile, tag, expired, remote,
                 target, histories>>

\* Faulty variant: only a move stops the container.
StopSource_MovesOnly(m) ==
  /\ at[m] = "stop"
  /\ source' = IF m \in Moves /\ source = "running" THEN "stopped" ELSE source
  /\ Goto(m, "commit")
  /\ UNCHANGED <<targetSide, images, keyFile, tag, expired, remote, target,
                 result, histories>>

\* The error of docker stop is ignored.  No later step starts the container.
StopSource(m) ==
  /\ at[m] = "stop"
  /\ \/ /\ Docker(m) /\ source' = IF source = "running" THEN "stopped" ELSE source
        /\ UNCHANGED stopFailed
     \/ stopFailed' = TRUE /\ UNCHANGED source
  /\ Goto(m, "commit")
  /\ UNCHANGED <<targetSide, images, keyFile, tag, expired, remote, target,
                 result, overlapped, crashed>>

\* The removal of the image is deferred once there is one.
Commit(m) ==
  /\ at[m] = "commit"
  /\ \/ /\ Docker(m) /\ source # "gone"
        /\ \E t \in Tags : /\ images' = images \union {t}
                           /\ tag' = [tag EXCEPT ![m] = t]
        /\ Goto(m, "key") /\ UNCHANGED result
     \/ Fail(m, "done") /\ UNCHANGED <<images, tag>>
  /\ UNCHANGED <<targetSide, source, keyFile, expired, remote, target, histories>>

\* Faulty variant: a file that is there is not written again.
WriteKey_Once(m) ==
  /\ at[m] = "key"
  /\ \/ /\ keyFile' = IF keyFile = NoOne THEN m ELSE keyFile
        /\ Goto(m, "start") /\ UNCHANGED result
     \/ Fail(m, "untag") /\ keyFile' \in {keyFile, NoOne}
  /\ UNCHANGED <<targetSide, source, images, tag, expired, remote, target, histories>>

\* Two migrations of the container share the file.  A write that fails may have
\* truncated it, and leaves it there.
WriteKey(m) ==
  /\ at[m] = "key"
  /\ \/ keyFile' = m /\ Goto(m, "start") /\ UNCHANGED result
     \/ Fail(m, "untag") /\ keyFile' \in {keyFile, NoOne}
  /\ UNCHANGED <<targetSide, source, images, tag, expired, remote, target, histories>>

\* The pipe, docker save and ssh.
StartTransfer(m) ==
  /\ at[m] = "start"
  /\ \/ /\ Docker(m) /\ Goto(m, "wait")
        /\ remote' = [remote EXCEPT ![m] = "login"] /\ UNCHANGED result
     \/ Fail(m, "unkey") /\ UNCHANGED remote
  /\ UNCHANGED <<targetSide, source, images, keyFile, tag, expired, target, histories>>

\* Faulty variant: any end of ssh counts as a restored container.
TransferEnds_AnyStatus(m) ==
  /\ at[m] = "wait"
  /\ \/ remote[m] \in {"ok", "failed"} /\ Goto(m, "restored") /\ UNCHANGED result
     \/ m \in expired /\ Fail(m, "unkey")
  /\ UNCHANGED <<targetSide, source, images, keyFile, tag, expired, remote,
                 target, histories>>

\* Faulty variant: processes that do not know the deadline.
TransferEnds_NoDeadline(m) ==
  /\ at[m] = "wait"
  /\ \/ remote[m] = "ok" /\ Goto(m, "restored") /\ UNCHANGED result
     \/ remote[m] \in {"ok", "failed"} /\ Fail(m, "unkey")
  /\ UNCHANGED <<targetSide, source, images, keyFile, tag, expired, remote,
                 target, histories>>

\* Both processes end: with the remote shell's status, with an error of docker
\* save in spite of it, or killed at the deadline.
TransferEnds(m) ==
  /\ at[m] = "wait"
  /\ \/ remote[m] = "ok" /\ Goto(m, "restored") /\ UNCHANGED result
     \/ remote[m] \in {"ok", "failed"} /\ Fail(m, "unkey")
     \/ m \in expired /\ Fail(m, "unkey")
  /\ UNCHANGED <<targetSide, source, images, keyFile, tag, expired, remote,
                 target, histories>>

\* ssh gives up on its connection; the remote shell may not notice.
ConnectionLost(m) ==
  /\ at[m] = "wait" /\ remote[m] \in RemoteAtWork
  /\ Fail(m, "unkey")
  /\ UNCHANGED <<targetSide, source, images, keyFile, tag, expired, remote,
                 target, histories>>

\* A move removes the source; the error of docker rm is ignored.
ReportRestored(m) ==
  /\ at[m] = "restored"
  /\ source' \in IF m \in Moves /\ Docker(m) THEN {source, "gone"} ELSE {source}
  /\ result' = [result EXCEPT ![m] = "success"]
  /\ Goto(m, "unkey")
  /\ UNCHANGED <<targetSide, images, keyFile, tag, expired, remote, target, histories>>

\* The deferred calls: os.Remove, whosever key the file holds by now, and
\* docker rmi, which needs the deadline not to be over.
RemoveKey(m) ==
  /\ at[m] = "unkey"
  /\ keyFile' = NoOne
  /\ Goto(m, "untag")
  /\ UNCHANGED <<targetSide, source, images, tag, expired, remote, target,
                 result, histories>>

RemoveImage(m) ==
  /\ at[m] = "untag"
  /\ images' \in IF Docker(m) THEN {images, images \ {tag[m]}} ELSE {images}
  /\ Goto(m, "done")
  /\ UNCHANGED <<targetSide, source, keyFile, tag, expired, remote, target,
                 result, histories>>

\* withTimeout(5 * time.Minute)
Expire(m) ==
  /\ at[m] \notin {"idle", "done"} /\ m \notin expired
  /\ expired' = expired \union {m}
  /\ UNCHANGED <<targetSide, source, images, keyFile, at, tag, remote, target,
                 result, histories>>

\* The source's agent dies; its receipts keep the command from running again.
AgentDies ==
  /\ ~crashed
  /\ crashed' = TRUE
  /\ at' = [m \in Migrations |-> IF at[m] = "idle" THEN "idle" ELSE "done"]
  /\ UNCHANGED <<targetSide, source, images, keyFile, tag, expired, remote,
                 target, result, overlapped, stopFailed>>

-----------------------------------------------------------------------------
\* remoteRunCmd, a chain of && on the target.
RemoteGoto(m, step) == remote' = [remote EXCEPT ![m] = step]
SourceSide == <<source, images, keyFile, at, tag, expired, result>>

\* ssh reads the key file, whosever key it holds.
RemoteLogin(m) ==
  /\ remote[m] = "login" /\ at[m] = "wait"
  /\ keyFile \in Migrations /\ Admits(LoginOf(m), keyFile)
  /\ RemoteGoto(m, "load")
  /\ UNCHANGED <<targetSide, SourceSide, target, histories>>

\* docker load succeeds when docker save has written the whole image.
RemoteLoad(m) ==
  /\ remote[m] = "load" /\ at[m] = "wait" /\ tag[m] \in images /\ host.docker
  /\ RemoteGoto(m, "replace")
  /\ UNCHANGED <<targetSide, SourceSide, target, histories>>

\* docker rm -f of the name, an error ignored.
RemoteReplace(m) ==
  /\ remote[m] = "replace"
  /\ target' \in {target, Absent}
  /\ RemoteGoto(m, "run")
  /\ UNCHANGED <<targetSide, SourceSide, histories>>

\* docker run needs the name; a failed start may leave a created container.
RemoteRun(m) ==
  /\ remote[m] = "run"
  /\ \/ /\ target = Absent
        /\ target' = [by |-> m, up |-> TRUE] /\ RemoteGoto(m, "check")
     \/ /\ target' \in {target} \union
             (IF target = Absent THEN {[by |-> m, up |-> FALSE]} ELSE {})
        /\ RemoteGoto(m, "failed")
  /\ UNCHANGED <<targetSide, SourceSide, histories>>

\* Two seconds later its status must be "running".
RemoteCheck(m) ==
  /\ remote[m] = "check" /\ target.by = m /\ target.up
  /\ RemoteGoto(m, "ok")
  /\ UNCHANGED <<targetSide, SourceSide, target, histories>>

\* A link of the chain fails, at the latest when its connection is gone.
RemoteFails(m) ==
  /\ remote[m] \in RemoteAtWork
  /\ RemoteGoto(m, "failed")
  /\ UNCHANGED <<targetSide, SourceSide, target, histories>>

\* What runs in the container ends.
ContainerExits ==
  /\ target.up
  /\ target' = [target EXCEPT !.up = FALSE]
  /\ UNCHANGED <<targetSide, SourceSide, remote, histories>>

MigrationStep(m) ==
  \/ Inspect(m) \/ StopSource(m) \/ Commit(m) \/ WriteKey(m)
  \/ StartTransfer(m) \/ TransferEnds(m) \/ ReportRestored(m)
  \/ RemoveKey(m) \/ RemoveImage(m)

RemoteStep(m) ==
  \/ RemoteLogin(m) \/ RemoteLoad(m) \/ RemoteReplace(m) \/ RemoteRun(m)
  \/ RemoteCheck(m) \/ RemoteFails(m)

MigNext ==
  \/ \E m \in Migrations :
       \/ PrepareTarget(m) \/ Preflight(m) \/ Begin(m) \/ MigrationStep(m)
       \/ ConnectionLost(m) \/ Expire(m) \/ RemoteStep(m)
  \/ AgentDies \/ ContainerExits

MigSpec == MigInit /\ [][MigNext]_mvars

\* The handlers' goroutines run and time passes.  Nothing is assumed of the
\* target or of the network.
MigFairness == WF_mvars(\E m \in Migrations : MigrationStep(m) \/ Expire(m))

-----------------------------------------------------------------------------
MigrationTypeOK ==
  /\ host \in Hosts /\ authorized \subseteq Users \X Migrations
  /\ login \in [Migrations -> Users \union {NoUser}] /\ named \subseteq Migrations
  /\ verdict \in [Migrations -> {"none", "ok", "refused", "nodocker", "unreachable"}]
  /\ source \in {"running", "stopped", "gone"}
  /\ images \subseteq Tags /\ keyFile \in Migrations \union {NoOne}
  /\ at \in [Migrations -> {"idle", "inspect", "stop", "commit", "key", "start",
                            "wait", "restored", "unkey", "untag", "done"}]
  /\ tag \in [Migrations -> Tags \union {0}]
  /\ expired \subseteq Migrations
  /\ remote \in [Migrations -> RemoteAtWork \union {"none", "ok", "failed"}]
  /\ target \in [by : Migrations \union {NoOne, Other}, up : BOOLEAN]
  /\ result \in [Migrations -> {"none", "error", "success"}]
  /\ overlapped \in BOOLEAN /\ stopFailed \in BOOLEAN /\ crashed \in BOOLEAN

\* migration.go:321-566: the source's container is removed only for one that
\* was seen running on the target and is still there, whatever was lost on the
\* way and however often the migration is tried again; unless a try begins
\* while the source or the target is still at work on another one.
WorkloadSurvives ==
  source = "gone" /\ ~overlapped => target.by \in Migrations

\* migration.go:414-416: the container does not run on both machines, unless
\* docker stop failed.
OneCopyRuns ==
  source = "running" /\ ~stopFailed => ~(target.by \in Migrations /\ target.up)

\* The target could do right by m: nobody named a user, what its agent takes
\* sshd to do with root is what sshd does, and an account it considers for the
\* key is admitted.
WellPrepared(m) ==
  /\ login[m] # NoUser /\ m \notin named
  /\ IF host.agentIsRoot
     THEN /\ RootSSHAllowed <=> "root" \in host.admits
          /\ "root" \in host.admits \/ (host.sudoUser /\ "sudo" \in host.admits)
     ELSE "agent" \in host.admits

\* migration.go:42-74, 159-161, 466-474: the transfer's login is not refused
\* half-way: after a preflight that went well, or when the target could do right
\* by the migration, the file ssh reads holds the migration's own key and the
\* target's sshd takes it for the user it logs in as, whatever former tries
\* left; unless tries were at work at once.
TransferIsAdmitted ==
  \A m \in Migrations :
    /\ at[m] = "wait" /\ remote[m] = "login" /\ ~overlapped
    /\ verdict[m] = "ok" \/ WellPrepared(m)
    => keyFile = m /\ Admits(LoginOf(m), keyFile)

\* commands_docker.go:325-326: a migration ends, whatever the target does.
MigrationEnds == \A m \in Migrations : at[m] # "idle" ~> at[m] = "done"
=============================================================================
