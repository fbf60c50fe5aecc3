------------------------------- MODULE MCHost --------------------------------
(* The commands that change the machine around the workloads: its routes,   *)
(* its ssh settings, the agent's binary and process.  They share no state,  *)
(* so that each world takes the steps of one module, every one of them a    *)
(* step of HostCommands.                                                    *)
EXTENDS HostCommands, TLC

CONSTANTS
  web, rival, mail, drop, inst, show,  \* route commands
  shop, blog,                    \* domains
  hardA, hardB, hardC,           \* hardening commands
  byApi, byCli,                  \* updates
  new, old, bad,                 \* versions
  p1, p2, p3,                    \* processes
  Worlds                         \* those to be checked

VARIABLE world  \* constant

Container(n, i) == [name |-> n, id |-> i]
SomeTargets == {Container(1, 1), Container(1, 2), Container(2, 3)}

\* web and rival ask for one domain, mail for the other one.
Ops == [c \in RouteCommands |->
          CASE c = inst -> "install" [] c = drop -> "delete"
            [] c = show -> "list" [] OTHER -> "configure"]
DomainsAsked == [c \in RouteCommands |-> IF c = mail THEN blog ELSE shop]
TargetsAsked == [c \in RouteCommands |->
                   IF c = web THEN Container(1, 1)
                   ELSE IF c = mail THEN Container(1, 2) ELSE Container(2, 3)]

VersionsAsked == byApi :> new @@ byCli :> Latest

\* A world of routes has three commands.
Cast == [rivals |-> {web, rival, mail}, drops |-> {web, rival, drop}, installs |-> {web, inst, mail},
         shows |-> {web, show, mail}, steals |-> {web, rival}]

\* sshd_config as it comes, without a drop-in directory.
Fresh == [text |-> TRUE, names |-> FALSE, reads |-> FALSE, sound |-> TRUE]

HInit ==
  /\ HostInit
  /\ world \in Worlds
  /\ world \notin DOMAIN Cast => legacy = NoRoutes /\ box[OldRouter] = "running" /\ routesFile.is = "absent"
  /\ jail = "absent" /\ (world # "harden" => mainFile = Fresh /\ others /\ ~earlier)
  /\ world # "update" => serves = [u \in Updates |-> new]
  /\ world # "lock" => pidFile = Nobody

\* A command that meets another one may race with it, but no third one begins.
SomeRoutes ==
  /\ RoutesNext
  /\ \A c \in RouteCommands \ Cast[world] : rstep'[c] = "idle"
  /\ met => lastRoute' = lastRoute

\* Two hardenings may meet, the third begins when they are done.  hardA and
\* hardC are alike, so that either may be the first.
SomeHardenings ==
  /\ HardeningNext
  /\ lastHard' # lastHard =>
       /\ tangled => \A h \in Hardenings : ~HAtWork(h)
       /\ lastHard' = hardC => hstep[hardA] # "idle"

HNext ==
  /\ UNCHANGED world
  /\ \/ world \in DOMAIN Cast /\ SomeRoutes /\ UNCHANGED <<hvars, lvars>>
     \/ world = "harden" /\ SomeHardenings /\ UNCHANGED <<rvars, lvars>>
     \/ world = "update" /\ UpdateNext /\ UNCHANGED <<rvars, hvars>>
     \/ world = "lock" /\ LockNext /\ UNCHANGED <<rvars, hvars>>

HSpec == HInit /\ [][HNext]_<<world, rvars, hvars, lvars>>
=============================================================================
