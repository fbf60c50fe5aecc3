---------------------------- MODULE HostCommands ----------------------------
(***************************************************************************)
(* The commands that change the machine around the workloads side by side: *)
(* its routes, its ssh settings, the agent's binary and process.  They run *)
(* in one goroutine each (agent/session.go:163) and have no state in       *)
(* common; a death of the agent, which ends them all, is a step of each.   *)
(***************************************************************************)
EXTENDS Routes, Hardening, Lifecycle

HostInit == RoutesInit /\ HardeningInit /\ LifecycleInit

HostNext ==
  \/ RoutesNext /\ UNCHANGED <<hvars, lvars>>
  \/ HardeningNext /\ UNCHANGED <<rvars, lvars>>
  \/ LifecycleNext /\ UNCHANGED <<rvars, hvars>>

HostSpec == HostInit /\ [][HostNext]_<<rvars, hvars, lvars>>

\* Every variable of the three modules is well typed.
HostTypeOK == RoutesTypeOK /\ HardeningTypeOK /\ LifecycleTypeOK
=============================================================================
