---------------------------- MODULE MCWorkloads -----------------------------
(* The commands that move, deploy and start workloads, one kind at a time:  *)
(* they share no state, so that each world takes the steps of one module,   *)
(* every one of them a step of WorkloadCommands.                            *)
EXTENDS WorkloadCommands, TLC

CONSTANTS
  m1, m2,                          \* a moving and a copying migration
  git, gitAlt, nix, dash, redo, rm \* deploy commands of each kind

VARIABLE world  \* constant

Target(T, file, admits, root, sudo) ==
  [sshdT |-> T, file |-> file, admits |-> admits, agentIsRoot |-> root,
   sudoUser |-> sudo, docker |-> TRUE]

\* A target that admits everyone, and without docker; ones that refuse root and
\* admit the account with sudo, which are asked, and which do not say; one whose
\* sshd says no and means it for everybody, one that says yes and has a Match
\* block against root, and one that says no and has one for root; one without
\* another account; two whose agent is not root.
Plain == Target("yes", "no", Users, TRUE, TRUE)
SomeHosts ==
  {Plain, [Plain EXCEPT !.docker = FALSE],
   Target("no", "yes", {"sudo"}, TRUE, TRUE), Target("unknown", "no", {"sudo"}, TRUE, TRUE),
   Target("unknown", "yes", {"sudo"}, TRUE, TRUE), Target("unknown", "unknown", {"root"}, TRUE, TRUE),
   Target("no", "no", {}, TRUE, TRUE), Target("yes", "yes", {"sudo"}, TRUE, TRUE),
   Target("no", "no", {"root"}, TRUE, TRUE), Target("no", "no", {}, TRUE, FALSE),
   Target("no", "no", {"agent"}, FALSE, FALSE), Target("yes", "yes", {"root"}, FALSE, FALSE)}

Kinds == git :> "git" @@ gitAlt :> "git" @@ nix :> "nixpacks" @@ dash :> "compose"
           @@ redo :> "redeploy" @@ rm :> "remove"
AskedFiles == [d \in Deploys |-> IF d = gitAlt THEN "alt" ELSE "std"]
SomeLayouts ==
  {[has |-> {"std"}, env |-> TRUE], [has |-> {"alt"}, env |-> FALSE],
   [has |-> {"dockerfile"}, env |-> FALSE], [has |-> {}, env |-> TRUE]}

\* Which commands a world of deployments has.
Cast == [pulls |-> {git, gitAlt, dash}, builds |-> {git, nix}, redeploys |-> {git, redo, rm}]
Worlds == {"targets", "retries", "stream"} \union DOMAIN Cast

WInit ==
  /\ WorkloadsInit
  /\ world \in Worlds
  /\ world # "targets" => host = Plain /\ target = Absent
  /\ world # "stream" => process = "timed"
  /\ world \notin DOMAIN Cast =>
       origin = [v |-> 1, has |-> {"std"}, env |-> TRUE]

\* Every target, and one migration of it.
Targets ==
  /\ MigNext
  /\ at'[m2] = "idle" /\ login'[m2] = NoUser /\ verdict'[m2] = "none"

\* Two migrations, both prepared before one of them begins.
Retries ==
  /\ MigNext /\ verdict' = verdict /\ named' = {}
  /\ at' # at => \A m \in Migrations : login[m] # NoUser

\* A command that meets another one may race with it; a third one begins after
\* both.
Deployments ==
  /\ DeployNext
  /\ \A d \in Deploys \ Cast[world] : dstep'[d] = "idle"
  /\ lastDeploy' # lastDeploy => ~(raced /\ raced')

WNext ==
  /\ UNCHANGED world
  /\ \/ world = "targets" /\ Targets /\ UNCHANGED <<dvars, svars>>
     \/ world = "retries" /\ Retries /\ UNCHANGED <<dvars, svars>>
     \/ world \in DOMAIN Cast /\ Deployments /\ UNCHANGED <<mvars, svars>>
     \/ world = "stream" /\ StreamNext /\ UNCHANGED <<mvars, dvars>>

\* MigFairness asks nothing of the other worlds, where no migration begins.
WSpec ==
  /\ WInit /\ [][WNext]_<<world, mvars, dvars, svars>>
  /\ MigFairness /\ WF_svars(world = "stream" /\ StreamProgress)

\* A command returns, see StreamReturns for when.
CommandReturns == world = "stream" => StreamReturns
=============================================================================
