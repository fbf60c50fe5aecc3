------------------------------- MODULE Outbox -------------------------------
(***************************************************************************)
(* The agent's durable send queue, internal/outbox/queue.go.               *)
(*                                                                         *)
(* A Queue lives in memory and in two files: the meta file (stream         *)
(* position) and the append log (one line per queued envelope).  Every     *)
(* exported method runs under queue.mu, so operations do not interleave    *)
(* with each other; what does interleave with an operation is the death of *)
(* the process.  An operation is therefore one action that updates memory, *)
(* followed by one action per disk write it makes, in the code's order:    *)
(*                                                                         *)
(*   Enqueue              append -> truncate -> write                      *)
(*   Acknowledge          truncate -> write, or rename -> truncated ...    *)
(*   MarkAttempt (error)  truncate -> write                                *)
(*   ResetPending...      rename -> compacted -> write                     *)
(*                                                                         *)
(* pc says which write is next; "idle" means queue.mu is free.  Crash may  *)
(* happen at the points in CrashPoints, a write may fail as IOFaults says. *)
(***************************************************************************)
EXTENDS Integers

CONSTANTS
  Facts,          \* messages of class fact
  Signals,        \* messages of class signal (only tests enqueue them)
  Keys,           \* non-empty coalesce keys
  NoKey,          \* the empty coalesce key
  NoItem,         \* no enqueue in progress
  CompactEvery,   \* queueCompactEvery
  LegacyMsgs,     \* messages an older agent may have left in its meta file
  CrashPoints,    \* values of pc at which the process may die
  IOFaults,       \* disk writes that may fail: "append", "rename", "open", "meta"
  MaxCrashes      \* bound: number of crashes

Message == Facts \union Signals

\* Points of an operation, named for the disk write that comes next.
\* "append" and "reappend" are EnqueueCoalesced's new and coalesced lines;
\* "compacted" is the meta write that follows a rename of the log.
Points == {"idle", "append", "reappend", "rename",
           "truncate", "compacted", "write"}

ASSUME OutboxAssumption ==
  /\ Facts \intersect Signals = {}
  /\ NoKey \notin Keys
  /\ LegacyMsgs \subseteq Facts
  /\ CompactEvery \in Nat \ {0}
  /\ MaxCrashes \in Nat
  /\ CrashPoints \subseteq Points
  /\ IOFaults \subseteq {"append", "rename", "open", "meta"}

VARIABLES
  up,          \* the process runs and has loaded its queue
  streamID, nextSeq, ackUpto, acksSince,   \* the fields of Queue
  itemsBySeq,  \* the pending envelopes, a set of items with distinct seq
  pc,          \* next disk write of the operation that holds queue.mu
  cur,         \* the item EnqueueCoalesced is about to return, or NoItem
  meta,        \* the meta file
  log,         \* what the log yields to a reader: the last good line per seq
  torn,        \* the log ends in an unterminated partial line
  crashes, streams,                        \* crashes, stream ids drawn so far
  offered,     \* history: messages handed to Enqueue
  accepted,    \* history: messages for which Enqueue returned no error
  settled,     \* history: messages acknowledged, dropped or superseded
  issued       \* history: entries other goroutines have been able to see

memory  == <<streamID, nextSeq, ackUpto, acksSince, itemsBySeq>>
disk    == <<meta, log, torn>>
history == <<offered, accepted, settled, issued>>
vars    == <<up, memory, pc, cur, disk, crashes, streams, history>>

-----------------------------------------------------------------------------
\* A QueuedEnvelope.  att abstracts LastAttempt and NextAttempt: "new" has
\* LastAttempt = 0, "wait" has NextAttempt in the future, "due" was attempted
\* and its NextAttempt has passed.
Item == [seq : Nat \ {0}, stream : Nat, msg : Message,
         key : Keys \union {NoKey}, att : {"new", "wait", "due"}]

ASSUME NoItemAssumption == NoItem \notin Item

\* The identity of an envelope: its place in a stream and its content.
Entry(i) == [seq |-> i.seq, stream |-> i.stream, msg |-> i.msg]
Entries(S) == {Entry(i) : i \in S}
Msgs(S) == {i.msg : i \in S}

\* Faulty variant: a queue that numbers its envelopes from 0.
AbsentMeta_SeqFromZero ==
  [state |-> "absent", stream |-> 0, next |-> 0, ack |-> 0, items |-> {}]

AbsentMeta == [state |-> "absent", stream |-> 0, next |-> 1, ack |-> 0,
               items |-> {}]
EmptyMeta == [AbsentMeta EXCEPT !.state = "empty"]

\* The format of older agents, which kept the pending items in the meta file.
LegacyMeta(m) ==
  [state |-> "ok", stream |-> 1, next |-> 2, ack |-> 0,
   items |-> {[seq |-> 1, stream |-> 1, msg |-> m, key |-> NoKey,
               att |-> "new"]}]

-----------------------------------------------------------------------------
\* Load: what a fresh process reads back.  An unreadable meta file makes Load
\* return before it opens the log; a missing one does not.

\* Faulty variant: the line of the last acknowledged envelope is loaded again.
LoadedItems_AckedToo(m, lines) ==
  IF m.state = "empty" THEN {}
  ELSE m.items \union {j \in lines : j.seq >= m.ack}

\* loadMetaLocked keeps the items above ack_upto; loadLogLocked overlays them
\* with the lines above ack_upto, a later line for a seq replacing the former.
LoadedItems(m, lines) ==
  IF m.state = "empty" THEN {}
  ELSE LET good == {j \in lines : j.seq > m.ack}
       IN  good \union {i \in m.items : /\ i.seq > m.ack
                                         /\ \A j \in good : j.seq # i.seq}

\* next_seq, raised above every loaded item.
NextCandidates(m, lines) ==
  {m.next} \union {i.seq + 1 : i \in LoadedItems(m, lines)}

\* Faulty variant: next_seq taken from the loaded items alone.
LoadedNext_ItemsOnly(m, lines) ==
  LET candidates == NextCandidates([m EXCEPT !.next = 1], lines)
  IN  CHOOSE n \in candidates : \A c \in candidates : c <= n

LoadedNext(m, lines) ==
  CHOOSE n \in NextCandidates(m, lines) :
    \A c \in NextCandidates(m, lines) : c <= n

\* What a restart would find if the process died now.
Recoverable == LoadedItems(meta, log)

Idle == up /\ pc = "idle"

Init ==
  /\ up = FALSE
  /\ streamID = 0 /\ nextSeq = 1 /\ ackUpto = 0 /\ acksSince = 0
  /\ itemsBySeq = {}
  /\ pc = "idle" /\ cur = NoItem
  /\ meta \in {AbsentMeta} \union {LegacyMeta(m) : m \in LegacyMsgs}
  /\ log = {} /\ torn = FALSE
  /\ crashes = 0
  /\ streams = meta.stream
  /\ offered = Msgs(meta.items) /\ accepted = Msgs(meta.items)
  /\ settled = {}
  /\ issued = Entries(meta.items)

\* NewQueue draws a random stream id; Load replaces it by the one on disk.
Load ==
  /\ ~up
  /\ up' = TRUE
  /\ IF meta.state = "ok"
     THEN streamID' = meta.stream /\ streams' = streams
     ELSE streamID' = streams + 1 /\ streams' = streams + 1
  /\ nextSeq' = LoadedNext(meta, log)
  /\ ackUpto' = meta.ack
  /\ acksSince' = 0
  /\ itemsBySeq' = Recoverable
  /\ issued' = issued \union Entries(Recoverable)
  /\ UNCHANGED <<pc, cur, disk, crashes, offered, accepted, settled>>

-----------------------------------------------------------------------------
\* Operations: the part under queue.mu that changes memory.

\* An item that EnqueueCoalesced may overwrite: same key, never attempted.
Coalescible(k) == {i \in itemsBySeq : k # NoKey /\ i.key = k /\ i.att = "new"}

\* Faulty variant: only the meta file is written.
EnqueueNew_NoLine(m, k) ==
  /\ Idle /\ m \notin offered
  /\ LET item == [seq |-> nextSeq, stream |-> streamID, msg |-> m,
                  key |-> k, att |-> "new"]
     IN  itemsBySeq' = itemsBySeq \union {item} /\ cur' = item
  /\ nextSeq' = nextSeq + 1
  /\ pc' = "truncate"
  /\ offered' = offered \union {m}
  /\ UNCHANGED <<up, streamID, ackUpto, acksSince, disk, crashes, streams,
                 accepted, settled, issued>>

EnqueueNew(m, k) ==
  /\ Idle /\ m \notin offered
  /\ Coalescible(k) = {}
  /\ LET item == [seq |-> nextSeq, stream |-> streamID, msg |-> m,
                  key |-> k, att |-> "new"]
     IN  /\ itemsBySeq' = itemsBySeq \union {item}
         /\ cur' = item
  /\ nextSeq' = nextSeq + 1
  /\ pc' = "append"
  /\ offered' = offered \union {m}
  /\ UNCHANGED <<up, streamID, ackUpto, acksSince, disk, crashes, streams,
                 accepted, settled, issued>>

EnqueueCoalesced(m, k) ==
  /\ Idle /\ m \notin offered
  /\ \E existing \in Coalescible(k) :
       LET item == [existing EXCEPT !.msg = m]
       IN  /\ itemsBySeq' = (itemsBySeq \ {existing}) \union {item}
           /\ cur' = item
           /\ settled' = settled \union {existing.msg}
  /\ pc' = "reappend"
  /\ offered' = offered \union {m}
  /\ UNCHANGED <<up, streamID, nextSeq, ackUpto, acksSince, disk, crashes,
                 streams, accepted, issued>>

\* Faulty variant: deletes one envelope too many.
Acknowledge_OneMore(n) ==
  /\ Idle /\ n > ackUpto
  /\ ackUpto' = n
  /\ itemsBySeq' = {i \in itemsBySeq : i.seq > n + 1}
  /\ acksSince' = acksSince + 1
  /\ pc' = IF itemsBySeq' = {} \/ acksSince' >= CompactEvery
           THEN "rename" ELSE "truncate"
  /\ settled' = settled \union Msgs(itemsBySeq \ itemsBySeq')
  /\ UNCHANGED <<up, streamID, nextSeq, cur, disk, crashes, streams,
                 offered, accepted, issued>>

Acknowledge(n) ==
  /\ Idle
  /\ n > ackUpto
  /\ ackUpto' = n
  /\ itemsBySeq' = {i \in itemsBySeq : i.seq > n}
  /\ acksSince' = acksSince + 1
  /\ pc' = IF itemsBySeq' = {} \/ acksSince' >= CompactEvery
           THEN "rename" ELSE "truncate"
  /\ settled' = settled \union Msgs(itemsBySeq \ itemsBySeq')
  /\ UNCHANGED <<up, streamID, nextSeq, cur, disk, crashes, streams,
                 offered, accepted, issued>>

\* DueItems without its limit: pending envelopes whose NextAttempt has passed.
DueItems == {i \in itemsBySeq : i.seq > ackUpto /\ i.att # "wait"}

\* After a write on the socket: rescheduled in 90 s, memory only.
MarkAttemptSent(seq) ==
  /\ Idle
  /\ \E i \in itemsBySeq :
       /\ i.seq = seq
       /\ itemsBySeq' = (itemsBySeq \ {i}) \union {[i EXCEPT !.att = "wait"]}
  /\ UNCHANGED <<up, streamID, nextSeq, ackUpto, acksSince, pc, cur, disk,
                 crashes, streams, history>>

\* Faulty variant: an envelope is given up after a failed write.
MarkAttemptFailed_GivesUp(seq) ==
  /\ Idle
  /\ itemsBySeq' = {i \in itemsBySeq : i.seq # seq}
  /\ pc' = "truncate"
  /\ UNCHANGED <<up, streamID, nextSeq, ackUpto, acksSince, cur, disk,
                 crashes, streams, history>>

\* After a failed write: rescheduled with backoff, and the meta file saved.
MarkAttemptFailed(seq) ==
  /\ Idle
  /\ \E i \in itemsBySeq :
       /\ i.seq = seq
       /\ itemsBySeq' = (itemsBySeq \ {i}) \union {[i EXCEPT !.att = "wait"]}
  /\ pc' = "truncate"
  /\ UNCHANGED <<up, streamID, nextSeq, ackUpto, acksSince, cur, disk,
                 crashes, streams, history>>

\* The clock reaches an item's NextAttempt.
BecomeDue(i) ==
  /\ up
  /\ i.att = "wait"
  /\ itemsBySeq' = (itemsBySeq \ {i}) \union {[i EXCEPT !.att = "due"]}
  /\ UNCHANGED <<up, streamID, nextSeq, ackUpto, acksSince, pc, cur, disk,
                 crashes, streams, history>>

\* Faulty variant: recovery empties the queue, facts included.
ResetPendingForRecovery_DropsAll ==
  /\ Idle /\ itemsBySeq # {}
  /\ itemsBySeq' = {}
  /\ pc' = "rename"
  /\ settled' = settled \union Msgs(itemsBySeq)
  /\ UNCHANGED <<up, streamID, nextSeq, ackUpto, acksSince, cur, disk,
                 crashes, streams, offered, accepted, issued>>

ResetPendingForRecovery ==
  /\ Idle
  /\ \E i \in itemsBySeq : i.msg \in Signals
  /\ itemsBySeq' = {i \in itemsBySeq : i.msg \notin Signals}
  /\ pc' = "rename"
  /\ settled' = settled \union Msgs(itemsBySeq \ itemsBySeq')
  /\ UNCHANGED <<up, streamID, nextSeq, ackUpto, acksSince, cur, disk,
                 crashes, streams, offered, accepted, issued>>

-----------------------------------------------------------------------------
\* The disk writes of the operation in progress.

\* The operation returns; an enqueued item becomes visible to the flush loop.
Return(ok) ==
  /\ pc' = "idle"
  /\ cur' = NoItem
  /\ issued' = IF cur = NoItem THEN issued ELSE issued \union {Entry(cur)}
  /\ accepted' = IF ok /\ cur # NoItem THEN accepted \union {cur.msg}
                 ELSE accepted

\* appendLogLocked.  A line appended after a torn tail is glued to it, and the
\* two together are one line that no reader can parse.
AppendLine ==
  /\ up /\ pc \in {"append", "reappend"}
  /\ log' = IF torn THEN log
            ELSE {j \in log : j.seq # cur.seq} \union {cur}
  /\ torn' = FALSE
  /\ pc' = "truncate"
  /\ UNCHANGED <<up, memory, cur, meta, crashes, streams, history>>

\* A failed or short write.  A new item's Enqueue returns the error and leaves
\* the item in memory; a coalesced one ignores it and goes on.
AppendFails ==
  /\ up /\ pc \in {"append", "reappend"} /\ "append" \in IOFaults
  /\ torn' \in {torn, TRUE}
  /\ IF pc = "append" THEN Return(FALSE)
     ELSE pc' = "truncate" /\ UNCHANGED <<cur, issued, accepted>>
  /\ UNCHANGED <<up, memory, meta, log, crashes, streams, offered, settled>>

\* Faulty variant: the log is emptied rather than rewritten.
CompactLog_DropsAll ==
  /\ up /\ pc = "rename"
  /\ log' = {} /\ torn' = FALSE
  /\ acksSince' = 0
  /\ pc' = "compacted"
  /\ UNCHANGED <<up, streamID, nextSeq, ackUpto, itemsBySeq, cur, meta,
                 crashes, streams, history>>

\* compactLocked up to its rename: the temporary file replaces the log.
CompactLog ==
  /\ up /\ pc = "rename"
  /\ log' = {i \in itemsBySeq : i.seq > ackUpto}
  /\ torn' = FALSE
  /\ acksSince' = 0
  /\ pc' = "compacted"
  /\ UNCHANGED <<up, streamID, nextSeq, ackUpto, itemsBySeq, cur, meta,
                 crashes, streams, history>>

CompactFails ==
  /\ up /\ pc = "rename" /\ "rename" \in IOFaults
  /\ Return(FALSE)
  /\ UNCHANGED <<up, memory, disk, crashes, streams, offered, settled>>

\* persistMetaLocked is os.WriteFile: it truncates the file, then writes it.
TruncateMeta ==
  /\ up /\ pc \in {"truncate", "compacted"}
  /\ meta' = EmptyMeta
  /\ pc' = "write"
  /\ UNCHANGED <<up, memory, cur, log, torn, crashes, streams, history>>

WriteMeta ==
  /\ up /\ pc = "write"
  /\ meta' = [state |-> "ok", stream |-> streamID, next |-> nextSeq,
              ack |-> ackUpto, items |-> {}]
  /\ Return(TRUE)
  /\ UNCHANGED <<up, memory, log, torn, crashes, streams, offered, settled>>

\* The open fails and leaves the file alone, or the write does and leaves it
\* empty: either way meta stays as the previous step left it.
PersistMetaFails ==
  /\ up
  /\ \/ pc \in {"truncate", "compacted"} /\ "open" \in IOFaults
     \/ pc = "write" /\ "meta" \in IOFaults
  /\ Return(FALSE)
  /\ UNCHANGED <<up, memory, disk, crashes, streams, offered, settled>>

-----------------------------------------------------------------------------
\* The process dies (kill, panic, os.Exit after an update or a disconnect);
\* the files stay as the last write left them.
Crash ==
  /\ up /\ pc \in CrashPoints
  /\ crashes < MaxCrashes
  /\ crashes' = crashes + 1
  /\ up' = FALSE
  /\ streamID' = 0 /\ nextSeq' = 1 /\ ackUpto' = 0 /\ acksSince' = 0
  /\ itemsBySeq' = {}
  /\ pc' = "idle" /\ cur' = NoItem
  /\ UNCHANGED <<disk, streams, history>>

DiskStep == \/ AppendLine \/ AppendFails \/ CompactLog \/ CompactFails
            \/ TruncateMeta \/ WriteMeta \/ PersistMetaFails

Operation ==
  \/ \E m \in Message, k \in Keys \union {NoKey} :
       EnqueueNew(m, k) \/ EnqueueCoalesced(m, k)
  \/ \E n \in 1..(nextSeq - 1) : Acknowledge(n)
  \/ \E i \in itemsBySeq : MarkAttemptSent(i.seq) \/ MarkAttemptFailed(i.seq)
  \/ ResetPendingForRecovery

Next == \/ Load \/ Operation \/ DiskStep \/ Crash
        \/ \E i \in itemsBySeq : BecomeDue(i)

Spec == Init /\ [][Next]_vars

-----------------------------------------------------------------------------
Meta == [state : {"absent", "empty", "ok"}, stream : Nat, next : Nat \ {0},
         ack : Nat, items : SUBSET Item]

EntryType == [seq : Nat \ {0}, stream : Nat, msg : Message]

\* The parts of the type invariant: memory, the operation in progress, files
\* and history.  An enqueue that has not written its line carries its item;
\* the queue, its files and the outcomes it reports hold only messages that
\* were handed to Enqueue.
MemoryTypes ==
  /\ up \in BOOLEAN
  /\ streamID \in Nat /\ nextSeq \in Nat \ {0} /\ ackUpto \in Nat
  /\ acksSince \in Nat
  /\ itemsBySeq \subseteq Item
  /\ crashes \in Nat /\ streams \in Nat

OperationTypes ==
  /\ pc \in Points
  /\ cur \in Item \union {NoItem}
  /\ pc \in {"append", "reappend"} => cur \in Item

FileTypes == meta \in Meta /\ log \subseteq Item /\ torn \in BOOLEAN

HistoryTypes ==
  /\ offered \subseteq Message /\ accepted \subseteq offered
  /\ settled \subseteq offered
  /\ issued \subseteq EntryType
  /\ \A i \in itemsBySeq \union log \union meta.items : i.msg \in offered
  /\ cur # NoItem => cur.msg \in offered

\* Types, see the parts above.
TypeOK == MemoryTypes /\ OperationTypes /\ FileTypes /\ HistoryTypes

\* queue.go:3-5 and the reload test: whenever no operation is in progress, a
\* process that died and loaded the files again would hold exactly the pending
\* envelopes, the next sequence number, the acknowledgement position and (once
\* it has ever been saved) the stream it holds now.
RestartIsLossless ==
  Idle => /\ Entries(itemsBySeq) = Entries(Recoverable)
          /\ LoadedNext(meta, log) = nextSeq
          /\ meta.ack = ackUpto
          /\ meta.state = "ok" => meta.stream = streamID

\* What the files hold, reading the meta file as already written while it is
\* being replaced.
Durable ==
  IF pc = "write"
  THEN LoadedItems([state |-> "ok", stream |-> streamID, next |-> nextSeq,
                    ack |-> ackUpto, items |-> {}], log)
  ELSE Recoverable

\* queue.go:3-5: a message whose Enqueue succeeded stays on disk, at every
\* point of every operation and while the process is down, until it has been
\* acknowledged (or, for a signal, dropped, or superseded by its key).
AcceptedStaysOnDisk == accepted \ settled \subseteq Msgs(Durable)

\* queue_test.go:81: a sequence number of a stream never stands for two
\* different messages, restarts included.
SeqNotReused ==
  \A e, f \in issued : e.stream = f.stream /\ e.seq = f.seq => e.msg = f.msg

\* events.go:80-83: whatever the order of acknowledgements, attempts, retries
\* and recoveries, a running queue lets go of a fact only when an
\* acknowledgement covers it or a message with its key replaces it.
FactsLeaveByAckOnly ==
  [][\A i \in itemsBySeq :
       up' /\ i.msg \in Facts /\ ackUpto' < i.seq =>
         \E j \in itemsBySeq' : j.seq = i.seq /\ (j.msg = i.msg \/ j = cur')]_vars

\* The promise of the package, see DurableStore: crashes and restarts stutter.
Promise == INSTANCE DurableStore WITH stored <- Msgs(Durable)
ImplementsDurableStore == Promise!Spec
=============================================================================
