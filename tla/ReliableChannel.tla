-------------------------- MODULE ReliableChannel --------------------------
(***************************************************************************)
(* What the outbox and its flush loops promise together                    *)
(* (internal/outbox/queue.go:3-5, internal/agent/events.go:29-78), with no *)
(* connections, sequence numbers, acknowledgements, retries, files or      *)
(* crashes: a message is stored once, applied by the API only while it is  *)
(* stored, and forgotten only after the API has applied it.  An Enqueue    *)
(* says "accepted" only of a message that is stored.                       *)
(***************************************************************************)
CONSTANT Message

VARIABLES
  stored,     \* messages a restarted agent would send
  accepted,   \* messages whose Enqueue returned without error
  delivered   \* messages the API has applied

vars == <<stored, accepted, delivered>>

Init == stored = {} /\ accepted = {} /\ delivered = {}

Store(m) ==
  /\ m \notin stored \union delivered
  /\ stored' = stored \union {m}
  /\ UNCHANGED <<accepted, delivered>>

Accept(m) ==
  /\ m \in stored
  /\ accepted' = accepted \union {m}
  /\ UNCHANGED <<stored, delivered>>

Deliver(m) ==
  /\ m \in stored
  /\ delivered' = delivered \union {m}
  /\ UNCHANGED <<stored, accepted>>

Forget ==
  /\ stored' \subseteq stored
  /\ stored \ stored' \subseteq delivered
  /\ UNCHANGED <<accepted, delivered>>

Next == \/ \E m \in Message : Store(m) \/ Accept(m) \/ Deliver(m)
        \/ Forget

Spec == Init /\ [][Next]_vars

\* The point of the channel: what was accepted and not yet applied is stored.
NothingLost == accepted \ delivered \subseteq stored
=============================================================================
