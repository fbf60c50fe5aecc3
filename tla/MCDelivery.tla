----------------------------- MODULE MCDelivery -----------------------------
(* Model values and bounds for checking Delivery. *)
EXTENDS Delivery, TLC

FactSymmetry == Permutations(Facts)

\* The crash points at which the queue keeps every promise, see MCOutbox.
StrictPoints == Points \ {"write", "compacted"}
=============================================================================
