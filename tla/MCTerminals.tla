---------------------------- MODULE MCTerminals ----------------------------
(* Model values and bounds for checking Terminals: the two runs, with and   *)
(* without steps that hang, differ in their constants only.                 *)
EXTENDS Terminals, TLC
=============================================================================
