---------------------------- MODULE DurableStore ----------------------------
(***************************************************************************)
(* What the outbox promises its callers (internal/outbox/queue.go:1-6),    *)
(* with no process, no files and no crash: a store from which a message    *)
(* may be removed only after it has been settled, that is acknowledged by  *)
(* the API, dropped as a signal or replaced by a newer message with its    *)
(* key.                                                                    *)
(***************************************************************************)
CONSTANT Message

VARIABLES
  stored,     \* messages a restarted agent would send
  accepted,   \* messages whose Enqueue returned without error
  settled     \* messages the queue owes nobody any more

vars == <<stored, accepted, settled>>

Init ==
  /\ stored \subseteq Message
  /\ accepted = stored
  /\ settled = {}

\* The files change: any new message may come in, only settled ones go out.
Write ==
  /\ stored' \subseteq Message
  /\ stored \ stored' \subseteq settled
  /\ UNCHANGED <<accepted, settled>>

\* An Enqueue returns: its message is in the store by then.
Accept ==
  /\ \E m \in stored : accepted' = accepted \union {m}
  /\ UNCHANGED <<stored, settled>>

Settle ==
  /\ settled' \subseteq Message
  /\ settled \subseteq settled'
  /\ UNCHANGED <<stored, accepted>>

Next == Write \/ Accept \/ Settle

Spec == Init /\ [][Next]_vars

\* The point of the promise: nothing accepted is lost before it is settled.
NothingLost == accepted \ settled \subseteq stored
=============================================================================
