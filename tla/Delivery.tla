------------------------------ MODULE Delivery ------------------------------
(***************************************************************************)
(* The outbox at work: the flush loop of each session (agent/events.go),   *)
(* the connection it writes to (agent/session.go) and the API at the other *)
(* end, which acknowledges what it has received.                           *)
(*                                                                         *)
(* The loop copies the due envelopes under queue.mu and writes the copies  *)
(* after releasing it, so acknowledgements, retries and other enqueues     *)
(* happen between the copy, the write and the MarkAttempt that records it. *)
(* A session's loop outlives the session: it may still hold a batch, and   *)
(* runEvery may grant it one more tick, after the connection is closed.    *)
(***************************************************************************)
EXTENDS Outbox, FiniteSets

CONSTANTS
  Conns,      \* connections; a connection is reused once its loop has ended
  NoConn,
  BatchSize   \* eventFlushBatchSize

ASSUME DeliveryAssumption ==
  /\ NoConn \notin Conns
  /\ BatchSize \in Nat \ {0}

VARIABLES
  conn,       \* the connection of the current session, or NoConn
  flusher,    \* flusher[c]: what the flush loop of connection c does
  batch,      \* batch[c]: copies still to be written by that loop
  seen,       \* API: the places <<stream, seq>> it has received
  delivered   \* API: the messages it has applied

net == <<conn, flusher, batch>>
api == <<seen, delivered>>
dvars == <<vars, net, api>>

DInit ==
  /\ Init
  /\ conn = NoConn
  /\ flusher = [c \in Conns |-> "off"]
  /\ batch = [c \in Conns |-> {}]
  /\ seen = {} /\ delivered = {}

-----------------------------------------------------------------------------
\* Sessions.

\* dialAPI succeeds and startSessionWorkers starts the flush loop.
Connect(c) ==
  /\ up /\ conn = NoConn /\ flusher[c] = "off"
  /\ conn' = c
  /\ flusher' = [flusher EXCEPT ![c] = "idle"]
  /\ UNCHANGED <<vars, batch, api>>

\* The connection is lost or closed; the loop finds out on its own.
Disconnect ==
  /\ conn # NoConn
  /\ conn' = NoConn
  /\ UNCHANGED <<vars, flusher, batch, api>>

\* runEvery sees that its session's context is done.
FlusherStops(c) ==
  /\ flusher[c] = "idle" /\ conn # c
  /\ flusher' = [flusher EXCEPT ![c] = "off"]
  /\ UNCHANGED <<vars, conn, batch, api>>

-----------------------------------------------------------------------------
\* The flush loop.

\* The first BatchSize items of a set, by sequence number.
FirstBySeq(S) ==
  {i \in S : Cardinality({j \in S : j.seq < i.seq}) < BatchSize}

\* The copy that the loop writes next, or has just written.
Copy(c) == CHOOSE i \in batch[c] : \A j \in batch[c] : i.seq <= j.seq

\* A tick: DueItems copies at most BatchSize due envelopes.  select may pick
\* the tick although the context is done, so a dead session's loop ticks too.
FlushTick(c) ==
  /\ flusher[c] = "idle" /\ Idle
  /\ DueItems # {}
  /\ batch' = [batch EXCEPT ![c] = FirstBySeq(DueItems)]
  /\ flusher' = [flusher EXCEPT ![c] = "writing"]
  /\ UNCHANGED <<vars, conn, api>>

\* The write succeeds and the API receives the envelope.  It applies an
\* envelope the first time it sees its place in the stream.
WriteReceived(c) ==
  /\ flusher[c] = "writing" /\ conn = c
  /\ LET i == Copy(c)
         place == <<i.stream, i.seq>>
     IN  /\ seen' = seen \union {place}
         /\ delivered' = IF place \in seen THEN delivered
                         ELSE delivered \union {i.msg}
  /\ flusher' = [flusher EXCEPT ![c] = "wrote"]
  /\ UNCHANGED <<vars, conn, batch>>

\* The write succeeds into a socket buffer that never reaches the API.
WriteLost(c) ==
  /\ flusher[c] = "writing" /\ conn = c
  /\ flusher' = [flusher EXCEPT ![c] = "wrote"]
  /\ UNCHANGED <<vars, conn, batch, api>>

\* The write fails: always on a closed connection, sometimes on an open one.
WriteFails(c) ==
  /\ flusher[c] = "writing"
  /\ flusher' = [flusher EXCEPT ![c] = "failed"]
  /\ UNCHANGED <<vars, conn, batch, api>>

InQueue(seq) == \E i \in itemsBySeq : i.seq = seq

\* MarkAttempt(seq, nil), a no-op for an item acknowledged in the meantime.
MarkSent(c) ==
  /\ flusher[c] = "wrote" /\ Idle
  /\ LET seq == Copy(c).seq
     IN  IF InQueue(seq) THEN MarkAttemptSent(seq) ELSE UNCHANGED vars
  /\ batch' = [batch EXCEPT ![c] = @ \ {Copy(c)}]
  /\ flusher' = [flusher EXCEPT ![c] =
                   IF batch'[c] = {} THEN "idle" ELSE "writing"]
  /\ UNCHANGED <<conn, api>>

\* Faulty variant: the failed batch is left behind.
MarkFailed_KeepsBatch(c) ==
  /\ flusher[c] = "failed" /\ Idle
  /\ LET seq == Copy(c).seq
     IN  IF InQueue(seq) THEN MarkAttemptFailed(seq) ELSE UNCHANGED vars
  /\ flusher' = [flusher EXCEPT ![c] = "off"]
  /\ conn' = IF conn = c THEN NoConn ELSE conn
  /\ UNCHANGED <<batch, api>>

\* MarkAttempt(seq, err); endSession closes the connection, the loop ends.
MarkFailed(c) ==
  /\ flusher[c] = "failed" /\ Idle
  /\ LET seq == Copy(c).seq
     IN  IF InQueue(seq) THEN MarkAttemptFailed(seq) ELSE UNCHANGED vars
  /\ batch' = [batch EXCEPT ![c] = {}]
  /\ flusher' = [flusher EXCEPT ![c] = "off"]
  /\ conn' = IF conn = c THEN NoConn ELSE conn
  /\ UNCHANGED api

-----------------------------------------------------------------------------
\* The API (tug.sh/pkg/protocol and the service behind it, not in this
\* repository): ack_upto_seq = n says that it has every envelope up to n.
ApiHasUpTo(s, n) == \A k \in 1..n : <<s, k>> \in seen

\* consumeAck: an acknowledgement, possibly an old one, reaches the agent,
\* which applies it without looking at its stream.
AckArrives(n) ==
  /\ conn # NoConn
  /\ \E s \in 1..streams : ApiHasUpTo(s, n)
  /\ Acknowledge(n)
  /\ UNCHANGED <<net, api>>

\* A crash takes every loop and the connection with it.
AgentCrash ==
  /\ Crash
  /\ conn' = NoConn
  /\ flusher' = [c \in Conns |-> "off"]
  /\ batch' = [c \in Conns |-> {}]
  /\ UNCHANGED api

QueueStep ==
  /\ \/ Load \/ DiskStep
     \/ \E i \in itemsBySeq : BecomeDue(i)
     \/ \E m \in Message : EnqueueNew(m, NoKey)
  /\ UNCHANGED <<net, api>>

FlushStep(c) ==
  FlushTick(c) \/ WriteReceived(c) \/ WriteLost(c) \/ WriteFails(c)
    \/ MarkSent(c) \/ MarkFailed(c) \/ FlusherStops(c)

DNext ==
  \/ QueueStep
  \/ AgentCrash
  \/ Disconnect
  \/ \E c \in Conns : Connect(c) \/ FlushStep(c)
  \/ \E n \in 1..(nextSeq - 1) : AckArrives(n)

DSpec == DInit /\ [][DNext]_dvars

\* An outage of the connection: it breaks, or a write on it goes wrong.
Outage ==
  \/ Disconnect
  \/ \E c \in Conns : WriteLost(c) \/ (conn = c /\ WriteFails(c))

\* systemd restarts the agent, Run reconnects for ever, time passes and the
\* loops and the mutex are scheduled (strong fairness where a step waits for
\* queue.mu, which others take in between).  The API acknowledges, and at some
\* point outages cease: with one exactly at every write of one envelope, no
\* retry could help.
Fairness ==
  /\ WF_dvars(Load /\ UNCHANGED <<net, api>>)
  /\ WF_dvars(DiskStep /\ UNCHANGED <<net, api>>)
  /\ \A m \in Facts :
       WF_dvars(/\ \E i \in itemsBySeq : i.msg = m /\ BecomeDue(i)
                /\ UNCHANGED <<net, api>>)
  /\ SF_dvars(\E c \in Conns : Connect(c))
  /\ \A c \in Conns :
       /\ SF_dvars(FlushTick(c))
       /\ WF_dvars(WriteReceived(c))
       /\ WF_dvars(WriteFails(c))
       /\ SF_dvars(MarkSent(c))
       /\ SF_dvars(MarkFailed(c))
       /\ WF_dvars(FlusherStops(c))
  /\ SF_dvars(\E n \in 1..(nextSeq - 1) : AckArrives(n))
  /\ <>[][~Outage]_dvars

FairSpec == DSpec /\ Fairness

-----------------------------------------------------------------------------
\* The loops' states, and copies to write exactly while a loop is at work.
DTypeOK ==
  /\ conn \in Conns \union {NoConn}
  /\ flusher \in [Conns -> {"off", "idle", "writing", "wrote", "failed"}]
  /\ batch \in [Conns -> SUBSET Item]
  /\ \A c \in Conns : batch[c] = {} <=> flusher[c] \in {"off", "idle"}

\* Queue, loops, connection and API together, see ReliableChannel: what a
\* restart would find is what the channel stores.
Channel == INSTANCE ReliableChannel WITH stored <- Msgs(Durable)

\* queue.go:3-5 and events.go:29-78, end to end: whatever happens in between to
\* the agent, its files and the connection, a message is on disk before its
\* Enqueue returns and before the API sees it, and leaves the disk only when
\* the API has applied it.
ImplementsReliableChannel == Channel!Spec

\* queue.go:3-5 and transport.go:18-19: a fact whose Enqueue succeeded is
\* delivered in the end, whatever connections and processes die on the way.
AcceptedIsDelivered ==
  \A m \in Facts : m \in accepted ~> m \in delivered
=============================================================================
