------------------------------ MODULE MCOutbox ------------------------------
(* Model values and bounds for checking Outbox. *)
EXTENDS Outbox, TLC

MessageSymmetry == Permutations(Facts) \union Permutations(Signals)

\* Every point of every operation except the one between the truncation of
\* the meta file and its rewriting.
SafePoints == Points \ {"write"}
\* ... and except the one between the rename of the log and the meta write.
StrictPoints == SafePoints \ {"compacted"}
\* A process may be killed anywhere.
AllPoints == Points
=============================================================================
