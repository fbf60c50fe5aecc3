-------------------------- MODULE WorkloadCommands --------------------------
(***************************************************************************)
(* The commands that move, deploy and start workloads side by side, as the *)
(* agent runs them: one goroutine per command (agent/session.go:163) and   *)
(* no state in common.  A step of the agent is one of a migration, of a    *)
(* deployment or of a streaming command; a death of the agent, which ends  *)
(* them all, is a step of each.                                            *)
(***************************************************************************)
EXTENDS Migration, Deploy, StreamRunner

WorkloadsInit == MigInit /\ DeployInit /\ StreamInit

WorkloadsNext ==
  \/ MigNext /\ UNCHANGED <<dvars, svars>>
  \/ DeployNext /\ UNCHANGED <<mvars, svars>>
  \/ StreamNext /\ UNCHANGED <<mvars, dvars>>

WorkloadsSpec == WorkloadsInit /\ [][WorkloadsNext]_<<mvars, dvars, svars>>

\* Every variable of the three modules is well typed.
WorkloadsTypeOK == MigrationTypeOK /\ DeployTypeOK /\ StreamTypeOK
=============================================================================
