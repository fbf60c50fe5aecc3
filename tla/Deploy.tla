------------------------------- MODULE Deploy -------------------------------
(***************************************************************************)
(* Deployments of one project: internal/agent/deploy.go, the deploy,       *)
(* redeploy and container handlers of commands_docker.go, and the callers  *)
(* of compose in internal/docker/compose.go.                               *)
(*                                                                         *)
(* All of them work on the project's directory in the sandbox, where the   *)
(* dashboard's file commands also write, and nothing serialises them.  The *)
(* disk has room: writes to the directory succeed.                         *)
(***************************************************************************)
EXTENDS Integers

CONSTANTS
  Deploys,    \* commands
  Kind,       \* Kind[d]: "git", "nixpacks", "compose", "redeploy" or "remove"
  Asked,      \* Asked[d]: the compose file it names
  Layouts,    \* what a commit may hold, see Layout
  Vars,       \* environment variables of the dashboard
  MaxPushes,  \* bound: commits in the repository
  NoDeploy    \* no command

\* docker-compose.yml, another compose file's name, a Dockerfile; and whether
\* .env is tracked.
Layout == [has : SUBSET {"std", "alt", "dockerfile"}, env : BOOLEAN]

ASSUME DeployAssumption ==
  /\ Kind \in [Deploys -> {"git", "nixpacks", "compose", "redeploy", "remove"}]
  /\ Asked \in [Deploys -> {"std", "alt"}]
  /\ Layouts \subseteq Layout /\ NoDeploy \notin Deploys
  /\ MaxPushes \in Nat

VARIABLES
  origin,    \* the repository's branch: its last commit
  disk,      \* the project's directory
  up,        \* what compose was last told to run: a file and an environment
  dstep,     \* dstep[d]: the next step of its handler
  chosen,    \* chosen[d]: the compose file it resolved to
  dresult,   \* dresult[d]: what it answered
  lastDeploy,\* history: the command that began last
  raced      \* history: another command or an edit met the last command at work

dvars == <<origin, disk, up, dstep, chosen, dresult, lastDeploy, raced>>

\* A compose file is told by where it comes from.
NoFile == <<"none", 0>>
FromCommit(v) == <<"commit", v>>
Generated == <<"dockerfile", 0>>
Built == <<"nixpacks", 0>>
FromEditor(d) == <<"editor", d>>
Contents == {NoFile, Generated, Built} \union {FromCommit(v) : v \in 1 .. MaxPushes}
              \union {FromEditor(d) : d \in Deploys}
Commits == {[v |-> v, has |-> l.has, env |-> l.env] : v \in 1 .. MaxPushes, l \in Layouts}

\* No checkout, and one that a killed clone left behind.
NoGit == [v |-> 0, has |-> {}, env |-> FALSE]
Broken == [v |-> -1, has |-> {}, env |-> FALSE]

NoLog == <<NoDeploy, "none">>
EmptyDir == [dir |-> TRUE, git |-> NoGit, std |-> NoFile, alt |-> NoFile,
             env |-> {}, json |-> {}, log |-> NoLog]
NoDir == [EmptyDir EXCEPT !.dir = FALSE]
NothingUp == [file |-> NoFile, env |-> {}]

DeployInit ==
  /\ origin \in {c \in Commits : c.v = 1}
  /\ disk = NoDir /\ up = NothingUp
  /\ dstep = [d \in Deploys |-> "idle"]
  /\ chosen = [d \in Deploys |-> "none"]
  /\ dresult = [d \in Deploys |-> "none"]
  /\ lastDeploy = NoDeploy /\ raced = FALSE

DAtWork(d) == dstep[d] \notin {"idle", "done"}
Step(d, from, to) == dstep[d] = from /\ dstep' = [dstep EXCEPT ![d] = to]
Answer(d, from, what) == Step(d, from, "done") /\ dresult' = [dresult EXCEPT ![d] = what]

\* The repository moves on.
Push ==
  /\ origin.v < MaxPushes
  /\ origin' \in {c \in Commits : c.v = origin.v + 1}
  /\ UNCHANGED <<disk, up, dstep, chosen, dresult, lastDeploy, raced>>

\* file_write of env.json.
EditVars ==
  /\ \E vs \in SUBSET Vars : disk' = [disk EXCEPT !.dir = TRUE, !.json = vs]
  /\ raced' = (raced \/ \E d \in Deploys : DAtWork(d))
  /\ UNCHANGED <<origin, up, dstep, chosen, dresult, lastDeploy>>

\* A handler begins; nothing looks for another one at work.
Starts(d, first) ==
  /\ Step(d, "idle", first)
  /\ lastDeploy' = d
  /\ raced' = \E e \in Deploys \ {d} : DAtWork(e)
  /\ UNCHANGED <<origin, up, chosen, dresult>>

FromRepo(d) == Kind[d] \in {"git", "nixpacks"}

-----------------------------------------------------------------------------
\* git_deploy.  Errors up to the choice of a file leave no deployment log.
BeginGit(d) ==
  /\ FromRepo(d)
  /\ Starts(d, "fetch")
  /\ disk' = [disk EXCEPT !.dir = TRUE]

\* fetchRepository finds no .git, and cloneRepository drops the directory.
ClearDirectory(d) ==
  /\ Step(d, "fetch", "clone")
  /\ disk.git = NoGit
  /\ disk' = NoDir
  /\ UNCHANGED <<origin, up, chosen, dresult, lastDeploy, raced>>

\* What git leaves of the directory when the checkout becomes the last commit:
\* tracked files are the commit's, those it no longer has are gone, and
\* untracked ones stay.
Tracked(name, old) ==
  IF name \in origin.has THEN FromCommit(origin.v)
  ELSE IF name \in disk.git.has THEN NoFile ELSE old

Checkout ==
  [disk EXCEPT !.dir = TRUE, !.git = origin,
               !.std = Tracked("std", disk.std), !.alt = Tracked("alt", disk.alt),
               !.env = IF origin.env \/ disk.git.env THEN {} ELSE disk.env]

\* git clone removes what it made when it fails, unless it is killed.
Clone(d) ==
  /\ \/ Step(d, "clone", "env") /\ disk' = Checkout /\ UNCHANGED dresult
     \/ /\ Answer(d, "clone", "error")
        /\ disk' \in {disk, [disk EXCEPT !.dir = TRUE, !.git = Broken]}
  /\ UNCHANGED <<origin, up, chosen, lastDeploy, raced>>

\* fetch, and reset --hard.
Pull(d) ==
  /\ disk.git # NoGit
  /\ \/ Step(d, "fetch", "env") /\ disk' = Checkout /\ UNCHANGED dresult
     \/ Answer(d, "fetch", "error") /\ UNCHANGED disk
  /\ UNCHANGED <<origin, up, chosen, lastDeploy, raced>>

\* Faulty variant: the dashboard's variables replace only ones that are there.
MergedEnv_Existing == disk.env \intersect disk.json

\* syncProjectEnvFile: what .env holds, overridden by env.json.
MergedEnv == disk.env \union disk.json

SyncEnv(d) ==
  /\ Step(d, "env", IF Kind[d] = "git" THEN "resolve" ELSE "install")
  /\ disk' = [disk EXCEPT !.env = MergedEnv]
  /\ UNCHANGED <<origin, up, chosen, dresult, lastDeploy, raced>>

\* resolveComposeFile: the file asked for, else another name, else one made for
\* a Dockerfile.
IsThere(name) == (IF name = "std" THEN disk.std ELSE disk.alt) # NoFile

\* Faulty variant: docker-compose.yml before the file asked for.
Resolved_StandardFirst(d) ==
  CASE IsThere("std") -> "std"
    [] ~IsThere("std") /\ IsThere("alt") -> "alt"
    [] OTHER -> "none"

Resolved(d) ==
  CASE IsThere(Asked[d]) -> Asked[d]
    [] ~IsThere(Asked[d]) /\ IsThere("alt") -> "alt"
    [] OTHER -> "none"

\* The file that is deployed is copied to docker-compose.yml for the editor.
Resolve(d) ==
  /\ \/ /\ Resolved(d) # "none" /\ Step(d, "resolve", "up")
        /\ chosen' = [chosen EXCEPT ![d] = Resolved(d)]
        /\ disk' = IF Resolved(d) = "alt" THEN [disk EXCEPT !.std = disk.alt] ELSE disk
        /\ UNCHANGED dresult
     \/ /\ Resolved(d) = "none" /\ "dockerfile" \in disk.git.has
        /\ Step(d, "resolve", "up")
        /\ chosen' = [chosen EXCEPT ![d] = "std"]
        /\ disk' = [disk EXCEPT !.dir = TRUE, !.std = Generated]
        /\ UNCHANGED dresult
     \/ /\ Resolved(d) = "none" /\ "dockerfile" \notin disk.git.has
        /\ Answer(d, "resolve", "error") /\ UNCHANGED <<disk, chosen>>
  /\ UNCHANGED <<origin, up, lastDeploy, raced>>

\* deployNixpacks: the tool is installed if need be, the image built, and a
\* compose file written over docker-compose.yml.
Install(d) ==
  /\ Step(d, "install", "build") \/ Step(d, "install", "logfailure")
  /\ UNCHANGED <<origin, disk, up, chosen, dresult, lastDeploy, raced>>

Build(d) ==
  /\ \/ /\ Step(d, "build", "up") /\ chosen' = [chosen EXCEPT ![d] = "std"]
        /\ disk' = [disk EXCEPT !.dir = TRUE, !.std = Built]
     \/ Step(d, "build", "logfailure") /\ UNCHANGED <<disk, chosen>>
  /\ UNCHANGED <<origin, up, dresult, lastDeploy, raced>>

-----------------------------------------------------------------------------
\* deploy: the dashboard's content, if it sends one, is written first.
BeginCompose(d) ==
  /\ Kind[d] = "compose"
  /\ Step(d, "idle", "up") /\ lastDeploy' = d
  /\ raced' = \E e \in Deploys \ {d} : DAtWork(e)
  /\ chosen' = [chosen EXCEPT ![d] = "std"]
  /\ disk' \in {disk, [disk EXCEPT !.dir = TRUE, !.std = FromEditor(d)]}
  /\ UNCHANGED <<origin, up, dresult>>

\* container_redeploy reads the labels of a running container.
BeginRedeploy(d) ==
  /\ Kind[d] = "redeploy" /\ up # NothingUp
  /\ Step(d, "idle", "up") /\ lastDeploy' = d
  /\ raced' = \E e \in Deploys \ {d} : DAtWork(e)
  /\ chosen' \in {[chosen EXCEPT ![d] = name] : name \in {"std", "alt"}}
  /\ UNCHANGED <<origin, disk, up, dresult>>

\* compose up reads the chosen file and .env as they are by then; one that
\* fails may have started some of it.  A redeploy has no deployment log.
Up(d) ==
  LET file == IF chosen[d] = "std" THEN disk.std ELSE disk.alt
      started == [file |-> file, env |-> disk.env]
  IN  /\ \/ /\ file # NoFile
            /\ Step(d, "up", IF Kind[d] = "redeploy" THEN "sync" ELSE "logsuccess")
            /\ up' = started /\ UNCHANGED dresult
         \/ /\ Kind[d] # "redeploy" /\ Step(d, "up", "logfailure")
            /\ up' \in {up} \union (IF file = NoFile THEN {} ELSE {started})
            /\ UNCHANGED dresult
         \/ Kind[d] = "redeploy" /\ Answer(d, "up", "error") /\ UNCHANGED up
      /\ UNCHANGED <<origin, disk, chosen, lastDeploy, raced>>

\* Faulty variant: after a failure, too, the snapshot's result is the answer.
WriteLog_SnapshotAnswers(d) ==
  /\ \/ Step(d, "logsuccess", "sync") /\ disk' = [disk EXCEPT !.dir = TRUE, !.log = <<d, "success">>]
     \/ Step(d, "logfailure", "sync") /\ disk' = [disk EXCEPT !.dir = TRUE, !.log = <<d, "failed">>]
  /\ UNCHANGED <<origin, up, chosen, dresult, lastDeploy, raced>>

\* writeDeploymentLog, over latest-deploy.log.  After a failure git_deploy
\* still sends the snapshot, to no effect on its answer.
WriteLog(d) ==
  /\ \/ /\ Step(d, "logsuccess", "sync") /\ UNCHANGED dresult
        /\ disk' = [disk EXCEPT !.dir = TRUE, !.log = <<d, "success">>]
     \/ /\ Answer(d, "logfailure", "error")
        /\ disk' = [disk EXCEPT !.dir = TRUE, !.log = <<d, "failed">>]
  /\ UNCHANGED <<origin, up, chosen, lastDeploy, raced>>

\* sendSnapshot; its error is the command's.
SyncDashboard(d) ==
  /\ Answer(d, "sync", "success") \/ Answer(d, "sync", "error")
  /\ UNCHANGED <<origin, disk, up, chosen, lastDeploy, raced>>

-----------------------------------------------------------------------------
\* container_action remove: labels, docker rm, and then every directory of the
\* project the container belonged to.
BeginRemove(d) ==
  /\ Kind[d] = "remove"
  /\ Starts(d, "rm")
  /\ UNCHANGED disk

RemoveContainer(d) ==
  /\ \/ /\ up # NothingUp /\ Step(d, "rm", "rmdir") /\ up' = NothingUp
        /\ UNCHANGED dresult
     \/ Answer(d, "rm", "error") /\ UNCHANGED up
  /\ UNCHANGED <<origin, disk, chosen, lastDeploy, raced>>

RemoveDirectory(d) ==
  /\ Step(d, "rmdir", "sync")
  /\ disk' = NoDir
  /\ UNCHANGED <<origin, up, chosen, dresult, lastDeploy, raced>>

DeployStep(d) ==
  \/ BeginGit(d) \/ ClearDirectory(d) \/ Clone(d) \/ Pull(d) \/ SyncEnv(d)
  \/ Resolve(d) \/ Install(d) \/ Build(d)
  \/ BeginCompose(d) \/ BeginRedeploy(d) \/ Up(d) \/ WriteLog(d) \/ SyncDashboard(d)
  \/ BeginRemove(d) \/ RemoveContainer(d) \/ RemoveDirectory(d)

DeployNext == Push \/ EditVars \/ \E d \in Deploys : DeployStep(d)

DeploySpec == DeployInit /\ [][DeployNext]_dvars

-----------------------------------------------------------------------------
DeployTypeOK ==
  /\ origin \in Commits
  /\ disk \in [dir : BOOLEAN, git : Commits \union {NoGit, Broken},
               std : Contents, alt : Contents, env : SUBSET Vars, json : SUBSET Vars,
               log : {NoLog} \union (Deploys \X {"success", "failed"})]
  /\ disk.dir \/ disk = NoDir
  /\ up \in [file : Contents, env : SUBSET Vars]
  /\ dstep \in [Deploys -> {"idle", "fetch", "clone", "env", "resolve", "install",
                  "build", "up", "logsuccess", "logfailure", "sync", "rm", "rmdir", "done"}]
  /\ chosen \in [Deploys -> {"none", "std", "alt"}]
  /\ dresult \in [Deploys -> {"none", "error", "success"}]
  /\ lastDeploy \in Deploys \union {NoDeploy} /\ raced \in BOOLEAN

\* The command that began last has told compose to run something, alone.
Deployed(d) == ~raced /\ lastDeploy = d /\ dstep[d] \in {"logsuccess", "sync"}

\* deploy.go:267-392: a deployment from the repository runs the compose file of
\* the commit it fetched, if the commit has the file asked for, and the
\* dashboard's variables, and no other ones if the commit tracks .env; whatever
\* earlier deployments, mirrors, editors and failures left in the directory.
PulledIsDeployed ==
  \A d \in Deploys : Deployed(d) /\ FromRepo(d) =>
    /\ Kind[d] = "git" /\ Asked[d] \in disk.git.has => up.file = FromCommit(disk.git.v)
    /\ IF disk.git.env THEN up.env = disk.json ELSE disk.json \subseteq up.env

\* deploy.go:106-117, commands_docker.go:179-188: the log the dashboard shows
\* as the latest agrees with the answer of the last deployment it was written
\* for; a success may still be answered with the error of the snapshot.
LogTellsOutcome ==
  \A d \in Deploys :
    ~raced /\ lastDeploy = d /\ dstep[d] = "done" /\ Kind[d] \notin {"redeploy", "remove"} =>
      /\ dresult[d] = "success" => disk.log = <<d, "success">>
      /\ disk.log = <<d, "failed">> => dresult[d] = "error"
=============================================================================
