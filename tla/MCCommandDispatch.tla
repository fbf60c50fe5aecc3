-------------------------- MODULE MCCommandDispatch --------------------------
(* Model values and bounds for checking CommandDispatch. *)
EXTENDS CommandDispatch, TLC

CONSTANT Resent  \* commands the API sends twice, the others once
Sends == [c \in Commands |-> IF c \in Resent THEN 2 ELSE 1]
=============================================================================
