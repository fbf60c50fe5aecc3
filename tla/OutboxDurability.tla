-------------------------- MODULE OutboxDurability --------------------------
(***************************************************************************)
(* The promise of the outbox, proved for every number of messages,         *)
(* crashes and coalesce keys: what was accepted stays on disk until it is  *)
(* settled, and the queue with its files implements DurableStore.          *)
(*                                                                         *)
(* The promise does not hold unconditionally (see the runs that violate    *)
(* it).  The theorems assume Sound: a process is not killed between the    *)
(* truncation of the meta file and its rewriting, a write to the log or    *)
(* into the opened meta file does not fail halfway, and the meta file is   *)
(* not one of an older agent.  The last part adds that no write fails, and *)
(* shows that a restart between two operations loses nothing at all.       *)
(***************************************************************************)
EXTENDS OutboxProofs

Sound ==
  /\ "write" \notin CrashPoints
  /\ IOFaults \subseteq {"rename", "open"}
  /\ LegacyMsgs = {}

-----------------------------------------------------------------------------
\* The acknowledgement position on disk, or about to be there.
DiskAck == IF pc = "write" THEN ackUpto ELSE meta.ack

\* The item whose line is still to be appended, if any.
Unwritten == IF pc \in {"append", "reappend"} THEN {cur} ELSE {}

\* A sequence number names one item of S.
OnePerSeq(S) == \A i, j \in S : i.seq = j.seq => i = j

\* The files: no items in the meta file, which is empty only between its
\* truncation and its rewriting, no torn line, no operation without a process.
FilesWhole ==
  /\ meta.items = {} /\ ~torn
  /\ meta.state = "empty" <=> pc = "write"
  /\ ~up => pc = "idle" /\ cur = NoItem
  /\ OnePerSeq(log)
  /\ meta.ack < meta.next

\* Memory: pending items lie between the acknowledgement position, which the
\* one on disk does not exceed, and the next sequence number; an enqueue in
\* progress carries one that has never been attempted.
QueueOrdered ==
  /\ pc = "idle" => cur = NoItem
  /\ up =>
       /\ OnePerSeq(itemsBySeq)
       /\ \A i \in itemsBySeq : ackUpto < i.seq /\ i.seq < nextSeq
       /\ meta.ack <= ackUpto /\ ackUpto < nextSeq
       /\ cur # NoItem => cur \in itemsBySeq /\ cur.att = "new"

\* Each pending item has its line, except the one about to get it.
Logged ==
  up => \A i \in itemsBySeq \ Unwritten :
          \E j \in log : j.seq = i.seq /\ j.msg = i.msg

\* Each line above the acknowledgement position is that of a pending item, or
\* its message is settled.  Lines lie below the next sequence number.
LogCovered ==
  up => \A j \in log :
          /\ j.seq < nextSeq
          /\ pc = "append" => j.seq < cur.seq
          /\ DiskAck < j.seq =>
               \/ \E i \in itemsBySeq : i.seq = j.seq /\ i.msg = j.msg
               \/ j.msg \in settled

\* Each accepted message is settled, or pending with its line written, or (in
\* a dead process) in the log.
AcceptedHeld ==
  \A m \in accepted \ settled :
    IF up THEN \E i \in itemsBySeq \ Unwritten : i.msg = m
          ELSE \E j \in log : j.msg = m /\ meta.ack < j.seq

DurableInv ==
  FilesWhole /\ QueueOrdered /\ Logged /\ LogCovered /\ AcceptedHeld

-----------------------------------------------------------------------------
(* The invariant holds initially: there is nothing on disk.                *)
LEMMA DurableInit == ASSUME Sound PROVE Init => DurableInv
<1> SUFFICES ASSUME Init PROVE DurableInv
  OBVIOUS
<1>1. meta = AbsentMeta
  BY DEF Init, Sound
<1>2. FilesWhole
  BY <1>1 DEF Init, FilesWhole, AbsentMeta, OnePerSeq
<1>3. QueueOrdered /\ Logged /\ LogCovered /\ AcceptedHeld
  <2>1. meta.items = {}
    BY <1>1 DEF AbsentMeta
  <2>2. accepted = {}
    BY <2>1 DEF Init, Msgs
  <2> QED  BY <2>2 DEF Init, QueueOrdered, Logged, LogCovered, AcceptedHeld
<1> QED  BY <1>2, <1>3 DEF DurableInv

(* A dead process loads the lines above the acknowledgement position.      *)
LEMMA DurableLoad == TypeInv /\ DurableInv /\ Load => DurableInv'
<1> SUFFICES ASSUME TypeInv, DurableInv, Load PROVE DurableInv'
  OBVIOUS
<1> USE DEF DurableInv, disk
<1>1. /\ ~up /\ up' = TRUE /\ pc = "idle" /\ pc' = "idle" /\ cur' = NoItem
      /\ meta' = meta /\ log' = log /\ torn' = torn
      /\ accepted' = accepted /\ settled' = settled
      /\ ackUpto' = meta.ack /\ nextSeq' = LoadedNext(meta, log)
  BY DEF Load, FilesWhole
<1>2. itemsBySeq' = {j \in log : meta.ack < j.seq}
  <2>1. meta.items = {} /\ meta.state # "empty"
    BY <1>1 DEF FilesWhole
  <2>2. log \subseteq Item /\ meta.ack \in Nat
    BY DEF TypeInv, TypeOK, FileTypes, Meta
  <2>3. itemsBySeq' = {j \in log : j.seq > meta.ack}
    BY <2>1 DEF Load, Recoverable, LoadedItems
  <2> QED  BY <2>2, <2>3 DEF Item
<1>3. /\ LoadedNext(meta, log) \in Nat /\ meta.next <= LoadedNext(meta, log)
      /\ \A j \in log : meta.ack < j.seq => j.seq < LoadedNext(meta, log)
  <2>1. PICK N \in Nat : AtMost(itemsBySeq \union log \union meta.items, N)
    BY DEF TypeInv, Bounded
  <2>2. meta \in Meta /\ log \in SUBSET Item /\ AtMost(log \union meta.items, N)
    BY <2>1 DEF TypeInv, TypeOK, FileTypes, AtMost
  <2>3. LoadedItems(meta, log) = itemsBySeq'
    BY DEF Load, Recoverable
  <2> QED  BY <1>2, <2>2, <2>3, LoadedNextAbove
<1>4. /\ meta.ack \in Nat /\ meta.next \in Nat /\ meta.ack < meta.next
      /\ \A j \in log : j.seq \in Nat
  BY DEF TypeInv, TypeOK, FileTypes, Meta, Item, FilesWhole
<1>5. FilesWhole'
  BY <1>1 DEF FilesWhole
<1>6. QueueOrdered'
  BY <1>1, <1>2, <1>3, <1>4 DEF QueueOrdered, FilesWhole, OnePerSeq
<1>7. Logged' /\ AcceptedHeld'
  BY <1>1, <1>2 DEF Logged, AcceptedHeld, Unwritten
<1>8. LogCovered'
  BY <1>1, <1>2, <1>3, <1>4 DEF LogCovered, DiskAck
<1> QED  BY <1>5, <1>6, <1>7, <1>8

(* What the parts say when no operation is in progress.                    *)
LEMMA IdleFacts ==
  ASSUME TypeInv, DurableInv, Idle
  PROVE  /\ up /\ pc = "idle" /\ cur = NoItem /\ DiskAck = meta.ack
         /\ ~torn /\ meta.items = {} /\ meta.state # "empty"
         /\ OnePerSeq(log) /\ OnePerSeq(itemsBySeq)
         /\ meta.ack \in Nat /\ ackUpto \in Nat /\ nextSeq \in Nat
         /\ meta.ack <= ackUpto /\ ackUpto < nextSeq /\ meta.ack < meta.next
         /\ \A i \in itemsBySeq : /\ i \in Item /\ i.seq \in Nat
                                  /\ ackUpto < i.seq /\ i.seq < nextSeq
         /\ \A i \in itemsBySeq : \E j \in log : j.seq = i.seq /\ j.msg = i.msg
         /\ \A j \in log :
              /\ j.seq \in Nat /\ j.seq < nextSeq
              /\ meta.ack < j.seq =>
                   \/ \E i \in itemsBySeq : i.seq = j.seq /\ i.msg = j.msg
                   \/ j.msg \in settled
         /\ \A m \in accepted \ settled : \E i \in itemsBySeq : i.msg = m
<1> USE DEF TypeInv, TypeOK, DurableInv, Idle
<1>1. /\ up /\ pc = "idle" /\ cur = NoItem /\ DiskAck = meta.ack
      /\ ~torn /\ meta.items = {} /\ meta.state # "empty"
      /\ OnePerSeq(log) /\ OnePerSeq(itemsBySeq) /\ Unwritten = {}
  BY DEF FilesWhole, QueueOrdered, DiskAck, Unwritten
<1>2. /\ meta.ack \in Nat /\ ackUpto \in Nat /\ nextSeq \in Nat
      /\ itemsBySeq \subseteq Item /\ log \subseteq Item
      /\ \A i \in itemsBySeq \union log : i.seq \in Nat
  BY DEF FileTypes, MemoryTypes, Meta, Item
<1>3. /\ meta.ack <= ackUpto /\ ackUpto < nextSeq /\ meta.ack < meta.next
      /\ \A i \in itemsBySeq : ackUpto < i.seq /\ i.seq < nextSeq
  BY <1>1 DEF QueueOrdered, FilesWhole
<1>4. \A i \in itemsBySeq : \E j \in log : j.seq = i.seq /\ j.msg = i.msg
  BY <1>1 DEF Logged
<1>5. \A j \in log :
        /\ j.seq < nextSeq
        /\ meta.ack < j.seq =>
             \/ \E i \in itemsBySeq : i.seq = j.seq /\ i.msg = j.msg
             \/ j.msg \in settled
  BY <1>1 DEF LogCovered
<1>6. \A m \in accepted \ settled : \E i \in itemsBySeq : i.msg = m
  BY <1>1 DEF AcceptedHeld
<1> QED  BY <1>1, <1>2, <1>3, <1>4, <1>5, <1>6

(* A new item lies above all lines and is in no line yet.                  *)
LEMMA DurableEnqueueNew ==
  ASSUME TypeInv, DurableInv, NEW m \in Message, NEW k, EnqueueNew(m, k)
  PROVE  DurableInv'
<1> DEFINE item == [seq |-> nextSeq, stream |-> streamID, msg |-> m,
                    key |-> k, att |-> "new"]
<1>1. /\ item.seq = nextSeq /\ item.msg = m /\ item.att = "new"
      /\ itemsBySeq' = itemsBySeq \union {item} /\ cur' = item
  BY DEF EnqueueNew
<1> HIDE DEF item
<1>2. /\ Idle /\ m \notin offered /\ up' = up /\ pc' = "append"
      /\ nextSeq' = nextSeq + 1 /\ ackUpto' = ackUpto
      /\ meta' = meta /\ log' = log /\ torn' = torn
      /\ accepted' = accepted /\ settled' = settled
  BY DEF EnqueueNew, disk
<1>3. accepted \subseteq offered
  BY DEF TypeInv, TypeOK, HistoryTypes
<1>4. FilesWhole' /\ QueueOrdered'
  BY <1>1, <1>2, IdleFacts DEF FilesWhole, QueueOrdered, OnePerSeq
<1>5. Unwritten' = {item} /\ DiskAck' = meta.ack
  BY <1>1, <1>2 DEF Unwritten, DiskAck
<1>6. item \notin itemsBySeq
  BY <1>1, <1>2, IdleFacts
<1>7. Logged' /\ AcceptedHeld'
  BY <1>1, <1>2, <1>5, <1>6, IdleFacts DEF Logged, AcceptedHeld
<1>8. LogCovered'
  BY <1>1, <1>2, <1>5, IdleFacts DEF LogCovered
<1> QED  BY <1>4, <1>7, <1>8 DEF DurableInv

(* A coalesced item takes the place of one whose message is thereby        *)
(* settled.                                                                *)
LEMMA DurableEnqueueCoalesced ==
  ASSUME TypeInv, DurableInv, NEW m \in Message, NEW k, EnqueueCoalesced(m, k)
  PROVE  DurableInv'
<1>1. PICK x \in itemsBySeq :
        /\ x.att = "new"
        /\ itemsBySeq' = (itemsBySeq \ {x}) \union {[x EXCEPT !.msg = m]}
        /\ cur' = [x EXCEPT !.msg = m]
        /\ settled' = settled \union {x.msg}
  BY DEF EnqueueCoalesced, Coalescible
<1>2. /\ Idle /\ up' = up /\ pc' = "reappend"
      /\ nextSeq' = nextSeq /\ ackUpto' = ackUpto
      /\ meta' = meta /\ log' = log /\ torn' = torn /\ accepted' = accepted
  BY DEF EnqueueCoalesced, disk
<1> DEFINE item == [x EXCEPT !.msg = m]
<1>3. item.seq = x.seq /\ item.msg = m /\ item.att = "new"
  BY <1>1, <1>2, IdleFacts DEF Item
<1>4. itemsBySeq' = (itemsBySeq \ {x}) \union {item} /\ cur' = item
  BY <1>1
<1> HIDE DEF item
<1>5. FilesWhole' /\ QueueOrdered'
  BY <1>2, <1>3, <1>4, IdleFacts DEF FilesWhole, QueueOrdered, OnePerSeq
<1>6. Unwritten' = {item} /\ DiskAck' = meta.ack
  BY <1>2, <1>4 DEF Unwritten, DiskAck
<1>7. \A i \in itemsBySeq \ {x} : i # item
  BY <1>2, <1>3, IdleFacts DEF OnePerSeq
<1>8. Logged'
  BY <1>2, <1>4, <1>6, IdleFacts DEF Logged
<1>9. AcceptedHeld'
  BY <1>1, <1>2, <1>4, <1>6, <1>7, IdleFacts DEF AcceptedHeld
<1>10. LogCovered'
  BY <1>1, <1>2, <1>4, <1>6, IdleFacts DEF LogCovered
<1> QED  BY <1>5, <1>8, <1>9, <1>10 DEF DurableInv

(* What leaves the queue through an acknowledgement or a recovery is       *)
(* settled.                                                                *)
LEMMA DurableRemove ==
  ASSUME TypeInv, DurableInv, Idle,
         UNCHANGED <<up, nextSeq, cur, disk, accepted>>,
         itemsBySeq' \subseteq itemsBySeq,
         settled' = settled \union Msgs(itemsBySeq \ itemsBySeq'),
         ackUpto' \in Nat, ackUpto <= ackUpto', ackUpto' < nextSeq,
         \A i \in itemsBySeq' : ackUpto' < i.seq,
         pc' \in {"rename", "truncate"}
  PROVE  DurableInv'
<1> USE DEF disk
<1>1. FilesWhole'
  BY IdleFacts DEF FilesWhole
<1>2. QueueOrdered'
  BY IdleFacts DEF QueueOrdered, OnePerSeq
<1>3. Unwritten' = {} /\ DiskAck' = meta.ack
  BY DEF Unwritten, DiskAck
<1>4. Logged'
  BY <1>3, IdleFacts DEF Logged
<1>5. \A i \in itemsBySeq : i \in itemsBySeq' \/ i.msg \in settled'
  BY DEF Msgs
<1>6. AcceptedHeld'
  <2>1. up' /\ accepted' = accepted /\ settled \subseteq settled'
    BY IdleFacts
  <2>2. ASSUME NEW m \in accepted \ settled' PROVE \E i \in itemsBySeq' : i.msg = m
    <3>1. PICK i \in itemsBySeq : i.msg = m
      BY <2>1, <2>2, IdleFacts
    <3> QED  BY <1>5, <2>2, <3>1
  <2> QED  BY <1>3, <2>1, <2>2 DEF AcceptedHeld
<1>7. LogCovered'
  BY <1>3, <1>5, IdleFacts DEF LogCovered
<1> QED  BY <1>1, <1>2, <1>4, <1>6, <1>7 DEF DurableInv

(* Rescheduling an item changes neither its place nor its message.         *)
LEMMA DurableReschedule ==
  ASSUME TypeInv, DurableInv, up,
         NEW i \in itemsBySeq, NEW a \in {"wait", "due"}, i # cur,
         itemsBySeq' = (itemsBySeq \ {i}) \union {[i EXCEPT !.att = a]},
         UNCHANGED <<up, nextSeq, ackUpto, cur, disk, accepted, settled>>,
         pc' = pc \/ (pc = "idle" /\ pc' = "truncate")
  PROVE  DurableInv'
<1> DEFINE item == [i EXCEPT !.att = a]
<1> USE DEF disk
<1>1. /\ item.seq = i.seq /\ item.msg = i.msg /\ item.att # "new"
      /\ itemsBySeq \subseteq Item
  BY DEF TypeInv, TypeOK, MemoryTypes, Item
<1>2. itemsBySeq' = (itemsBySeq \ {i}) \union {item}
  OBVIOUS
<1> HIDE DEF item
<1>3. /\ Unwritten' = Unwritten /\ DiskAck' = DiskAck
      /\ pc' = "write" <=> pc = "write"
      /\ pc' = "append" <=> pc = "append"
  BY DEF Unwritten, DiskAck
<1>4. i \notin Unwritten
  BY DEF Unwritten
<1>5. item \notin Unwritten
  BY <1>1, NoItemAssumption
  DEF Unwritten, DurableInv, QueueOrdered, TypeInv, TypeOK, OperationTypes
<1>6. FilesWhole' /\ LogCovered'
  BY <1>1, <1>2, <1>3 DEF DurableInv, FilesWhole, LogCovered
<1>7. QueueOrdered'
  BY <1>1, <1>2, <1>3 DEF DurableInv, QueueOrdered, OnePerSeq
<1>8. Logged'
  BY <1>1, <1>2, <1>3, <1>4 DEF DurableInv, Logged
<1>9. AcceptedHeld'
  BY <1>1, <1>2, <1>3, <1>5 DEF DurableInv, AcceptedHeld
<1> QED  BY <1>6, <1>7, <1>8, <1>9 DEF DurableInv

LEMMA DurableOperation == TypeInv /\ DurableInv /\ Operation => DurableInv'
<1> SUFFICES ASSUME TypeInv, DurableInv, Operation PROVE DurableInv'
  OBVIOUS
<1>1. ASSUME NEW n \in 1..(nextSeq - 1), Acknowledge(n) PROVE DurableInv'
  <2>1. Idle /\ n > ackUpto /\ ackUpto' = n
    BY <1>1 DEF Acknowledge
  <2>2. n \in Nat /\ n < nextSeq /\ ackUpto <= n
    BY <2>1, IdleFacts
  <2>3. /\ UNCHANGED <<up, nextSeq, cur, disk, accepted>>
        /\ itemsBySeq' = {i \in itemsBySeq : i.seq > n}
        /\ settled' = settled \union Msgs(itemsBySeq \ itemsBySeq')
        /\ pc' \in {"rename", "truncate"}
    BY <1>1 DEF Acknowledge
  <2>4. itemsBySeq' \subseteq itemsBySeq /\ \A i \in itemsBySeq' : n < i.seq
    BY <2>1, <2>2, <2>3, IdleFacts
  <2> QED  BY <2>1, <2>2, <2>3, <2>4, DurableRemove
<1>2. CASE ResetPendingForRecovery
  <2>1. /\ Idle /\ ackUpto' = ackUpto
        /\ UNCHANGED <<up, nextSeq, cur, disk, accepted>>
        /\ itemsBySeq' \subseteq itemsBySeq
        /\ settled' = settled \union Msgs(itemsBySeq \ itemsBySeq')
        /\ pc' = "rename"
    BY <1>2 DEF ResetPendingForRecovery
  <2>2. /\ ackUpto \in Nat /\ ackUpto < nextSeq /\ ackUpto <= ackUpto
        /\ \A i \in itemsBySeq' : ackUpto < i.seq
    BY <2>1, IdleFacts
  <2> QED  BY <2>1, <2>2, DurableRemove
<1>3. ASSUME NEW s, MarkAttemptSent(s) \/ MarkAttemptFailed(s)
      PROVE  DurableInv'
  <2>1. /\ Idle
        /\ UNCHANGED <<up, nextSeq, ackUpto, cur, disk, accepted, settled>>
        /\ pc' = pc \/ (pc = "idle" /\ pc' = "truncate")
    BY <1>3 DEF MarkAttemptSent, MarkAttemptFailed, history, Idle
  <2>2. PICK i \in itemsBySeq :
          itemsBySeq' = (itemsBySeq \ {i}) \union {[i EXCEPT !.att = "wait"]}
    BY <1>3 DEF MarkAttemptSent, MarkAttemptFailed
  <2>3. up /\ i # cur
    BY <2>1, IdleFacts, NoItemAssumption
  <2> QED  BY <2>1, <2>2, <2>3, DurableReschedule
<1> QED
  BY <1>1, <1>2, <1>3, DurableEnqueueNew, DurableEnqueueCoalesced DEF Operation

(* A disk step that ends the operation: cur is pending, with its line.     *)
LEMMA DurableReturn ==
  ASSUME TypeInv, DurableInv, up, pc \notin {"append", "reappend"},
         NEW ok, Return(ok),
         UNCHANGED <<up, itemsBySeq, nextSeq, ackUpto, log, torn, settled>>,
         meta'.items = {}, meta'.state # "empty", meta'.ack < meta'.next,
         meta'.ack <= ackUpto, DiskAck <= meta'.ack,
         meta'.ack \in Nat, DiskAck \in Nat
  PROVE  DurableInv'
<1>1. /\ pc' = "idle" /\ cur' = NoItem
      /\ Unwritten = {} /\ Unwritten' = {} /\ DiskAck' = meta'.ack
  BY DEF Return, Unwritten, DiskAck
<1>2. FilesWhole'
  BY <1>1 DEF FilesWhole, DurableInv
<1>3. QueueOrdered'
  BY <1>1 DEF QueueOrdered, DurableInv
<1>4. Logged'
  BY <1>1 DEF Logged, DurableInv
<1>5. AcceptedHeld'
  <2>1. cur # NoItem => cur \in itemsBySeq
    BY DEF DurableInv, QueueOrdered
  <2>2. accepted' \subseteq accepted \union {i.msg : i \in {cur} \ {NoItem}}
    BY DEF Return
  <2> QED  BY <1>1, <2>1, <2>2 DEF AcceptedHeld, DurableInv
<1>6. LogCovered'
  <2>1. \A j \in log : j.seq \in Nat
    BY DEF TypeInv, TypeOK, FileTypes, Item
  <2> QED  BY <1>1, <2>1 DEF LogCovered, DurableInv
<1> QED  BY <1>2, <1>3, <1>4, <1>5, <1>6 DEF DurableInv

LEMMA DurableAppend ==
  ASSUME TypeInv, DurableInv, AppendLine PROVE DurableInv'
<1> USE DEF DurableInv
<1>1. /\ up /\ up' = up /\ pc \in {"append", "reappend"} /\ pc' = "truncate"
      /\ itemsBySeq' = itemsBySeq /\ cur' = cur /\ meta' = meta
      /\ nextSeq' = nextSeq /\ ackUpto' = ackUpto
      /\ accepted' = accepted /\ settled' = settled /\ torn' = FALSE
      /\ log' = {j \in log : j.seq # cur.seq} \union {cur}
  BY DEF AppendLine, memory, history, FilesWhole
<1>2. cur \in itemsBySeq /\ cur.att = "new"
  BY <1>1, NoItemAssumption
  DEF QueueOrdered, TypeInv, TypeOK, OperationTypes
<1>3. Unwritten = {cur} /\ Unwritten' = {} /\ DiskAck' = DiskAck
  BY <1>1 DEF Unwritten, DiskAck
<1>4. FilesWhole'
  BY <1>1 DEF FilesWhole, OnePerSeq
<1>5. QueueOrdered'
  BY <1>1, <1>2 DEF QueueOrdered
<1>6. Logged'
  <2>1. ASSUME NEW i \in itemsBySeq
        PROVE  \E j \in log' : j.seq = i.seq /\ j.msg = i.msg
    <3>1. CASE i = cur
      BY <1>1, <3>1
    <3>2. CASE i # cur
      <4>1. i.seq # cur.seq
        BY <1>1, <1>2, <3>2 DEF QueueOrdered, OnePerSeq
      <4>2. PICK j \in log : j.seq = i.seq /\ j.msg = i.msg
        BY <1>1, <1>3, <3>2 DEF Logged
      <4> QED  BY <1>1, <4>1, <4>2
    <3> QED  BY <3>1, <3>2
  <2> QED  BY <1>1, <1>3, <2>1 DEF Logged
<1>7. AcceptedHeld'
  BY <1>1, <1>3 DEF AcceptedHeld
<1>8. LogCovered'
  BY <1>1, <1>2, <1>3 DEF LogCovered, QueueOrdered
<1> QED  BY <1>4, <1>5, <1>6, <1>7, <1>8

LEMMA DurableCompact ==
  ASSUME TypeInv, DurableInv, CompactLog PROVE DurableInv'
<1> USE DEF DurableInv
<1>1. /\ up /\ up' = up /\ pc = "rename" /\ pc' = "compacted"
      /\ itemsBySeq' = itemsBySeq /\ cur' = cur /\ meta' = meta
      /\ nextSeq' = nextSeq /\ ackUpto' = ackUpto
      /\ accepted' = accepted /\ settled' = settled /\ torn' = FALSE
      /\ log' = {i \in itemsBySeq : i.seq > ackUpto}
  BY DEF CompactLog, history
<1>2. log' = itemsBySeq
  <2>1. \A i \in itemsBySeq : i.seq \in Nat /\ ackUpto \in Nat
    BY DEF TypeInv, TypeOK, MemoryTypes, Item
  <2> QED  BY <1>1, <2>1 DEF QueueOrdered
<1>3. Unwritten = {} /\ Unwritten' = {} /\ DiskAck' = DiskAck
  BY <1>1 DEF Unwritten, DiskAck
<1>4. FilesWhole' /\ QueueOrdered'
  BY <1>1, <1>2 DEF FilesWhole, QueueOrdered
<1>5. Logged' /\ AcceptedHeld'
  BY <1>1, <1>2, <1>3 DEF Logged, AcceptedHeld
<1>6. LogCovered'
  BY <1>1, <1>2, <1>3 DEF LogCovered, QueueOrdered
<1> QED  BY <1>4, <1>5, <1>6

LEMMA DurableTruncate ==
  ASSUME TypeInv, DurableInv, TruncateMeta PROVE DurableInv'
<1> USE DEF DurableInv
<1>1. /\ up /\ up' = up /\ pc \in {"truncate", "compacted"} /\ pc' = "write"
      /\ itemsBySeq' = itemsBySeq /\ cur' = cur /\ meta' = EmptyMeta
      /\ nextSeq' = nextSeq /\ ackUpto' = ackUpto /\ log' = log /\ torn' = torn
      /\ accepted' = accepted /\ settled' = settled
  BY DEF TruncateMeta, memory, history
<1>2. /\ EmptyMeta.items = {} /\ EmptyMeta.state = "empty"
      /\ EmptyMeta.ack = 0 /\ EmptyMeta.next = 1
  BY DEF EmptyMeta, AbsentMeta
<1>3. /\ ackUpto \in Nat /\ meta.ack \in Nat /\ meta.ack <= ackUpto
      /\ \A j \in log : j.seq \in Nat
  BY <1>1 DEF TypeInv, TypeOK, MemoryTypes, FileTypes, Meta, Item, QueueOrdered
<1>4. /\ Unwritten = {} /\ Unwritten' = {}
      /\ DiskAck = meta.ack /\ DiskAck' = ackUpto
  BY <1>1 DEF Unwritten, DiskAck
<1>5. FilesWhole'
  BY <1>1, <1>2 DEF FilesWhole
<1>6. QueueOrdered'
  BY <1>1, <1>2, <1>3 DEF QueueOrdered
<1>7. Logged' /\ AcceptedHeld'
  BY <1>1, <1>4 DEF Logged, AcceptedHeld
<1>8. LogCovered'
  BY <1>1, <1>3, <1>4 DEF LogCovered
<1> QED  BY <1>5, <1>6, <1>7, <1>8

LEMMA DurableDiskStep ==
  ASSUME Sound PROVE TypeInv /\ DurableInv /\ DiskStep => DurableInv'
<1> SUFFICES ASSUME TypeInv, DurableInv, DiskStep PROVE DurableInv'
  OBVIOUS
<1> USE DEF memory, disk
<1>1. /\ meta.ack \in Nat /\ ackUpto \in Nat /\ nextSeq \in Nat
      /\ meta.items = {} /\ meta.ack < meta.next
      /\ meta.state = "empty" <=> pc = "write"
      /\ up => meta.ack <= ackUpto /\ ackUpto < nextSeq
  BY DEF TypeInv, TypeOK, MemoryTypes, FileTypes, Meta, DurableInv, FilesWhole,
         QueueOrdered
<1>2. ~AppendFails
  BY DEF Sound, AppendFails
<1>3. CASE CompactFails
  <2>1. /\ up /\ pc = "rename" /\ Return(FALSE)
        /\ UNCHANGED <<up, itemsBySeq, nextSeq, ackUpto, log, torn, settled, meta>>
    BY <1>3 DEF CompactFails
  <2>2. /\ pc \notin {"append", "reappend"} /\ pc # "write"
        /\ DiskAck = meta.ack
    BY <2>1 DEF DiskAck
  <2>3. /\ meta'.items = {} /\ meta'.state # "empty"
        /\ meta'.ack < meta'.next /\ meta'.ack <= ackUpto
        /\ DiskAck <= meta'.ack /\ meta'.ack \in Nat /\ DiskAck \in Nat
    BY <1>1, <2>1, <2>2
  <2> QED  BY <2>1, <2>2, <2>3, DurableReturn
<1>4. CASE WriteMeta
  <2>1. /\ up /\ pc = "write" /\ Return(TRUE)
        /\ UNCHANGED <<up, itemsBySeq, nextSeq, ackUpto, log, torn, settled>>
        /\ meta'.items = {} /\ meta'.state # "empty"
        /\ meta'.ack = ackUpto /\ meta'.next = nextSeq
    BY <1>4 DEF WriteMeta
  <2>2. /\ pc \notin {"append", "reappend"}
        /\ DiskAck = ackUpto
    BY <2>1 DEF DiskAck
  <2>3. /\ meta'.ack < meta'.next /\ meta'.ack <= ackUpto
        /\ DiskAck <= meta'.ack /\ meta'.ack \in Nat /\ DiskAck \in Nat
    BY <1>1, <2>1, <2>2
  <2> QED  BY <2>1, <2>2, <2>3, DurableReturn
<1>5. CASE PersistMetaFails
  <2>1. /\ up /\ pc \in {"truncate", "compacted"} /\ Return(FALSE)
        /\ UNCHANGED <<up, itemsBySeq, nextSeq, ackUpto, log, torn, settled, meta>>
    BY <1>5 DEF PersistMetaFails, Sound
  <2>2. /\ pc \notin {"append", "reappend"} /\ pc # "write"
        /\ DiskAck = meta.ack
    BY <2>1 DEF DiskAck
  <2>3. /\ meta'.items = {} /\ meta'.state # "empty"
        /\ meta'.ack < meta'.next /\ meta'.ack <= ackUpto
        /\ DiskAck <= meta'.ack /\ meta'.ack \in Nat /\ DiskAck \in Nat
    BY <1>1, <2>1, <2>2
  <2> QED  BY <2>1, <2>2, <2>3, DurableReturn
<1> QED
  BY <1>2, <1>3, <1>4, <1>5, DurableAppend, DurableCompact, DurableTruncate
  DEF DiskStep

LEMMA DurableNext ==
  ASSUME Sound PROVE TypeInv /\ DurableInv /\ [Next]_vars => DurableInv'
<1> SUFFICES ASSUME TypeInv, DurableInv, [Next]_vars PROVE DurableInv'
  OBVIOUS
<1>1. CASE Crash
  <2>1. /\ up /\ up' = FALSE /\ pc # "write" /\ pc' = "idle" /\ cur' = NoItem
        /\ meta' = meta /\ log' = log /\ torn' = torn
        /\ accepted' = accepted /\ settled' = settled
    BY <1>1 DEF Crash, Sound, disk, history
  <2>2. FilesWhole' /\ QueueOrdered' /\ Logged' /\ LogCovered'
    BY <2>1 DEF DurableInv, FilesWhole, QueueOrdered, Logged, LogCovered
  <2>3. AcceptedHeld'
    <3>1. /\ meta.ack \in Nat /\ ackUpto \in Nat /\ meta.ack <= ackUpto
          /\ \A i \in itemsBySeq : i.seq \in Nat /\ ackUpto < i.seq
      BY <2>1 DEF TypeInv, TypeOK, MemoryTypes, FileTypes, Meta, Item,
                  DurableInv, QueueOrdered
    <3>2. ASSUME NEW i \in itemsBySeq \ Unwritten
          PROVE  \E j \in log : j.msg = i.msg /\ meta.ack < j.seq
      BY <2>1, <3>1 DEF DurableInv, Logged
    <3> QED  BY <2>1, <3>2 DEF DurableInv, AcceptedHeld
  <2> QED  BY <2>2, <2>3 DEF DurableInv
<1>2. ASSUME NEW i \in itemsBySeq, BecomeDue(i) PROVE DurableInv'
  <2>1. /\ up /\ i.att = "wait" /\ pc' = pc
        /\ itemsBySeq' = (itemsBySeq \ {i}) \union {[i EXCEPT !.att = "due"]}
        /\ UNCHANGED <<up, nextSeq, ackUpto, cur, disk, accepted, settled>>
    BY <1>2 DEF BecomeDue, history
  <2>2. i # cur
    <3>1. i \in Item
      BY DEF TypeInv, TypeOK, MemoryTypes
    <3> QED  BY <2>1, <3>1, NoItemAssumption DEF DurableInv, QueueOrdered
  <2> QED  BY <2>1, <2>2, DurableReschedule
<1>3. CASE UNCHANGED vars
  BY <1>3 DEF vars, memory, disk, history, DurableInv, FilesWhole, QueueOrdered,
              Logged, LogCovered, AcceptedHeld, Unwritten, DiskAck, OnePerSeq
<1> QED
  BY <1>1, <1>2, <1>3, DurableLoad, DurableOperation, DurableDiskStep DEF Next

-----------------------------------------------------------------------------
(* Under the invariant, what a restart would find is the lines above the   *)
(* acknowledgement position.                                               *)
LEMMA DurableLines ==
  TypeInv /\ DurableInv => Durable = {j \in log : DiskAck < j.seq}
<1> SUFFICES ASSUME TypeInv, DurableInv
             PROVE  Durable = {j \in log : DiskAck < j.seq}
  OBVIOUS
<1>1. /\ meta.items = {} /\ (meta.state = "empty" <=> pc = "write")
      /\ meta.ack \in Nat /\ ackUpto \in Nat /\ \A j \in log : j.seq \in Nat
  BY DEF TypeInv, TypeOK, MemoryTypes, FileTypes, Meta, Item, DurableInv,
         FilesWhole
<1>2. CASE pc = "write"
  <2>1. Durable = {j \in log : j.seq > ackUpto}
    BY <1>2 DEF Durable, LoadedItems
  <2> QED  BY <1>1, <1>2, <2>1 DEF DiskAck
<1>3. CASE pc # "write"
  <2>1. Durable = {j \in log : j.seq > meta.ack}
    BY <1>1, <1>3 DEF Durable, Recoverable, LoadedItems
  <2> QED  BY <1>1, <1>3, <2>1 DEF DiskAck
<1> QED  BY <1>2, <1>3

LEMMA DurableLinesNext ==
  TypeInv' /\ DurableInv' => Durable' = {j \in log' : DiskAck' < j.seq}
<1>1. (TypeInv /\ DurableInv => Durable = {j \in log : DiskAck < j.seq})'
  BY DurableLines, PTL
<1> QED  BY <1>1

LEMMA Held == TypeInv /\ DurableInv => AcceptedStaysOnDisk
<1> SUFFICES ASSUME TypeInv, DurableInv, NEW m \in accepted \ settled
             PROVE  m \in Msgs(Durable)
  BY DEF AcceptedStaysOnDisk
<1>1. \E j \in log : j.msg = m /\ DiskAck < j.seq
  <2>1. CASE up
    <3>1. PICK i \in itemsBySeq \ Unwritten : i.msg = m
      BY <2>1 DEF DurableInv, AcceptedHeld
    <3>2. PICK j \in log : j.seq = i.seq /\ j.msg = i.msg
      BY <2>1, <3>1 DEF DurableInv, Logged
    <3>3. /\ ackUpto < i.seq /\ meta.ack <= ackUpto
          /\ i.seq \in Nat /\ ackUpto \in Nat /\ meta.ack \in Nat
      BY <2>1 DEF DurableInv, QueueOrdered, TypeInv, TypeOK, MemoryTypes,
                  FileTypes, Meta, Item
    <3> QED  BY <3>1, <3>2, <3>3 DEF DiskAck
  <2>2. CASE ~up
    BY <2>2 DEF DurableInv, AcceptedHeld, FilesWhole, DiskAck
  <2> QED  BY <2>1, <2>2
<1> QED  BY <1>1, DurableLines DEF Msgs

(* queue.go:3-5.  A message whose Enqueue succeeded is on disk at every    *)
(* point of every operation, of every later process too, until it is       *)
(* settled.                                                                *)
THEOREM AcceptedIsDurable == ASSUME Sound PROVE Spec => []AcceptedStaysOnDisk
<1>1. Init => TypeInv /\ DurableInv
  BY TypeInit, DurableInit
<1>2. TypeInv /\ DurableInv /\ [Next]_vars => (TypeInv /\ DurableInv)'
  BY TypeNext, DurableNext
<1> QED  BY <1>1, <1>2, Held, PTL DEF Spec

-----------------------------------------------------------------------------
(* Initially the store is what was accepted: nothing.                      *)
LEMMA PromiseInit == ASSUME Sound PROVE Init => Promise!Init
<1> SUFFICES ASSUME Init PROVE Promise!Init
  OBVIOUS
<1>1. meta = AbsentMeta /\ log = {} /\ pc = "idle" /\ settled = {}
  BY DEF Init, Sound
<1>2. Durable = {}
  BY <1>1 DEF Durable, Recoverable, LoadedItems, AbsentMeta
<1>3. accepted = {}
  BY <1>1 DEF Init, Msgs, AbsentMeta
<1> QED  BY <1>1, <1>2, <1>3 DEF Promise!Init, Msgs

(* While memory alone changes, the store does not.                         *)
LEMMA SameStore ==
  ASSUME TypeInv, DurableInv, TypeInv', DurableInv',
         log' = log, DiskAck' = DiskAck
  PROVE  Msgs(Durable)' = Msgs(Durable)
<1>1. Durable = {j \in log : DiskAck < j.seq}
  BY DurableLines
<1>2. Durable' = {j \in log' : DiskAck' < j.seq}
  BY DurableLinesNext
<1> QED  BY <1>1, <1>2 DEF Msgs

(* The lines a write removes are those of settled messages.                *)
LEMMA OnlySettledLeave ==
  ASSUME TypeInv, DurableInv, DiskStep, Sound, TypeInv', DurableInv',
         NEW j \in log, DiskAck < j.seq, j.msg \notin settled
  PROVE  \E k \in log' : k.msg = j.msg /\ DiskAck' < k.seq
<1> USE DEF disk, memory, history
<1>1. /\ up /\ meta.ack \in Nat /\ ackUpto \in Nat
      /\ meta.ack <= ackUpto /\ j.seq \in Nat
      /\ \A i \in itemsBySeq : i.seq \in Nat /\ ackUpto < i.seq
  <2>1. up
    BY DEF DiskStep, AppendLine, AppendFails, CompactLog, CompactFails,
           TruncateMeta, WriteMeta, PersistMetaFails
  <2> QED  BY <2>1 DEF TypeInv, TypeOK, MemoryTypes, FileTypes, Meta, Item,
                       DurableInv, QueueOrdered
<1>2. PICK i \in itemsBySeq : i.seq = j.seq /\ i.msg = j.msg
  BY <1>1 DEF DurableInv, LogCovered
<1>3. CASE AppendLine
  <2>1. /\ pc \in {"append", "reappend"} /\ pc' = "truncate" /\ meta' = meta
        /\ log' = {k \in log : k.seq # cur.seq} \union {cur}
    BY <1>3 DEF AppendLine, DurableInv, FilesWhole
  <2>2. DiskAck' = DiskAck
    BY <2>1 DEF DiskAck
  <2>3. CASE j.seq # cur.seq
    BY <2>1, <2>2, <2>3
  <2>4. CASE j.seq = cur.seq
    <3>1. cur \in itemsBySeq
      BY <1>1, <2>1, NoItemAssumption
      DEF DurableInv, QueueOrdered, TypeInv, TypeOK, OperationTypes
    <3>2. i = cur
      BY <1>1, <1>2, <2>4, <3>1 DEF DurableInv, QueueOrdered, OnePerSeq
    <3> QED  BY <1>2, <2>1, <2>2, <3>2
  <2> QED  BY <2>3, <2>4
<1>4. CASE CompactLog
  <2>1. /\ pc = "rename" /\ pc' = "compacted" /\ meta' = meta
        /\ log' = {k \in itemsBySeq : k.seq > ackUpto}
    BY <1>4 DEF CompactLog
  <2>2. DiskAck' = meta.ack
    BY <2>1 DEF DiskAck
  <2> QED  BY <1>1, <1>2, <2>1, <2>2
<1>5. CASE TruncateMeta \/ WriteMeta
  <2>1. log' = log /\ DiskAck' = ackUpto
    BY <1>5 DEF TruncateMeta, WriteMeta, DiskAck, Return
  <2> QED  BY <1>1, <1>2, <2>1
<1>6. CASE CompactFails \/ PersistMetaFails
  <2>1. log' = log /\ meta' = meta /\ pc # "write" /\ pc' = "idle"
    BY <1>6 DEF CompactFails, PersistMetaFails, Return, Sound
  <2> QED  BY <2>1 DEF DiskAck
<1>7. ~AppendFails
  BY DEF Sound, AppendFails
<1> QED  BY <1>3, <1>4, <1>5, <1>6, <1>7 DEF DiskStep

LEMMA PromiseNext ==
  ASSUME Sound
  PROVE  TypeInv /\ DurableInv /\ TypeInv' /\ DurableInv' /\ [Next]_vars
           => [Promise!Next]_Promise!vars
<1> SUFFICES ASSUME TypeInv, DurableInv, TypeInv', DurableInv', [Next]_vars
             PROVE  [Promise!Next]_Promise!vars
  OBVIOUS
<1> USE DEF disk, memory, history
<1>1. settled' \subseteq Message
  BY DEF TypeInv, TypeOK, HistoryTypes
<1>2. CASE Operation
  <2>1. /\ log' = log /\ meta' = meta /\ accepted' = accepted
        /\ settled \subseteq settled' /\ pc = "idle" /\ pc' # "write"
    BY <1>2 DEF Operation, EnqueueNew, EnqueueCoalesced, Acknowledge,
                MarkAttemptSent, MarkAttemptFailed, ResetPendingForRecovery, Idle
  <2>2. Msgs(Durable)' = Msgs(Durable)
    BY <2>1, SameStore DEF DiskAck
  <2>3. Promise!Settle
    BY <1>1, <2>1, <2>2 DEF Promise!Settle
  <2> QED  BY <2>3 DEF Promise!Next
<1>3. CASE Load \/ Crash \/ (\E i \in itemsBySeq : BecomeDue(i)) \/ UNCHANGED vars
  <2>1. /\ log' = log /\ DiskAck' = DiskAck
        /\ accepted' = accepted /\ settled' = settled
    BY <1>3 DEF Load, Crash, BecomeDue, vars, DiskAck, Sound, DurableInv, FilesWhole
  <2>2. Msgs(Durable)' = Msgs(Durable)
    BY <2>1, SameStore
  <2> QED  BY <2>1, <2>2 DEF Promise!vars
<1>4. CASE DiskStep /\ accepted' = accepted
  <2>1. settled' = settled
    BY <1>4 DEF DiskStep, AppendLine, AppendFails, CompactLog, CompactFails,
                TruncateMeta, WriteMeta, PersistMetaFails
  <2>2. Msgs(Durable)' \subseteq Message
    <3>1. Durable' \subseteq log'
      BY DurableLinesNext
    <3> QED  BY <3>1 DEF Msgs, TypeInv, TypeOK, FileTypes, Item
  <2>3. Msgs(Durable) \ Msgs(Durable)' \subseteq settled
    <3>1. Durable = {j \in log : DiskAck < j.seq}
      BY DurableLines
    <3>2. Durable' = {j \in log' : DiskAck' < j.seq}
      BY DurableLinesNext
    <3> QED  BY <1>4, <3>1, <3>2, OnlySettledLeave DEF Msgs
  <2>4. Promise!Write
    BY <1>4, <2>1, <2>2, <2>3 DEF Promise!Write
  <2> QED  BY <2>4 DEF Promise!Next
<1>5. CASE DiskStep /\ accepted' # accepted
  <2>1. /\ WriteMeta /\ cur # NoItem
        /\ accepted' = accepted \union {cur.msg} /\ settled' = settled
    BY <1>5 DEF DiskStep, AppendLine, AppendFails, CompactLog, CompactFails,
                TruncateMeta, WriteMeta, PersistMetaFails, Return
  <2>2. /\ up /\ pc = "write" /\ pc' = "idle" /\ log' = log /\ meta'.ack = ackUpto
    BY <2>1 DEF WriteMeta, Return
  <2>3. Msgs(Durable)' = Msgs(Durable)
    BY <2>2, SameStore DEF DiskAck
  <2>4. cur \in itemsBySeq
    BY <2>1, <2>2 DEF DurableInv, QueueOrdered
  <2>5. PICK j \in log : j.seq = cur.seq /\ j.msg = cur.msg
    BY <2>2, <2>4 DEF DurableInv, Logged, Unwritten
  <2>6. DiskAck < j.seq
    BY <2>2, <2>4, <2>5 DEF DiskAck, DurableInv, QueueOrdered
  <2>7. cur.msg \in Msgs(Durable)
    BY <2>5, <2>6, DurableLines DEF Msgs
  <2>8. Promise!Accept
    BY <2>1, <2>3, <2>7 DEF Promise!Accept
  <2> QED  BY <2>8 DEF Promise!Next
<1> QED  BY <1>2, <1>3, <1>4, <1>5 DEF Next

(* The outbox implements the store it promises: operations settle, disk    *)
(* writes change the store within what is settled, a return accepts, and   *)
(* crashes, restarts and retries leave it alone.                           *)
THEOREM OutboxImplementsStore == ASSUME Sound PROVE Spec => ImplementsDurableStore
<1>1. Init => TypeInv /\ DurableInv
  BY TypeInit, DurableInit
<1>2. TypeInv /\ DurableInv /\ [Next]_vars => (TypeInv /\ DurableInv)'
  BY TypeNext, DurableNext
<1> QED
  BY <1>1, <1>2, PromiseInit, PromiseNext, PTL
  DEF Spec, ImplementsDurableStore, Promise!Spec

-----------------------------------------------------------------------------
\* While no write fails: pending items and the lines above the acknowledged
\* position are the same entries, save the item whose line is to be written
\* and, before a rewriting of the log, the lines that it removes.
SameEntries ==
  up => /\ \A i \in itemsBySeq \ Unwritten : \E j \in log : Entry(j) = Entry(i)
        /\ pc # "rename" =>
             \A j \in log : ackUpto < j.seq =>
               \/ \E i \in itemsBySeq : Entry(i) = Entry(j)
               \/ \E u \in Unwritten : u.seq = j.seq

\* Between operations the meta file and the log give back the three numbers.
SamePosition ==
  Idle => /\ LoadedNext(meta, log) = nextSeq
          /\ meta.ack = ackUpto
          /\ meta.state = "ok" => meta.stream = streamID

Mirrored == SameEntries /\ SamePosition

(* A written meta file gives back the next number: no line is above it.    *)
LEMMA WrittenNext ==
  ASSUME TypeInv, DurableInv, up, NEW m, m.items = {}, m.state = "ok", m.next = nextSeq
  PROVE  LoadedNext(m, log) = nextSeq
<1> DEFINE T == NextCandidates(m, log)
<1>1. nextSeq \in Nat /\ \A j \in log : j.seq \in Nat /\ j.seq < nextSeq
  BY DEF TypeInv, TypeOK, MemoryTypes, FileTypes, Item, DurableInv, LogCovered
<1>2. LoadedItems(m, log) \subseteq log
  BY LoadedFromFiles
<1>3. nextSeq \in T /\ \A t \in T : t \in Nat /\ t <= nextSeq
  BY <1>1, <1>2 DEF NextCandidates
<1>4. LoadedNext(m, log) = CHOOSE n \in T : \A t \in T : t <= n
  BY DEF LoadedNext
<1> HIDE DEF T
<1>5. LoadedNext(m, log) \in T /\ \A t \in T : t <= LoadedNext(m, log)
  BY <1>3, <1>4
<1>6. LoadedNext(m, log) \in Nat /\ LoadedNext(m, log) <= nextSeq
  BY <1>3, <1>5
<1>7. nextSeq <= LoadedNext(m, log)
  BY <1>3, <1>5
<1> QED  BY <1>1, <1>6, <1>7

LEMMA MirrorLoad ==
  ASSUME TypeInv, DurableInv, Load PROVE Mirrored'
<1>1. /\ ~up /\ pc = "idle" /\ pc' = "idle" /\ UNCHANGED <<meta, log>>
      /\ itemsBySeq' = Recoverable /\ ackUpto' = meta.ack
      /\ nextSeq' = LoadedNext(meta, log)
      /\ meta.state = "ok" => streamID' = meta.stream
  BY DEF Load, disk, DurableInv, FilesWhole
<1>2. Recoverable = {j \in log : j.seq > meta.ack}
  BY <1>1 DEF Recoverable, LoadedItems, DurableInv, FilesWhole
<1>3. \A j \in log : meta.ack \in Nat /\ j.seq \in Nat
  BY DEF TypeInv, TypeOK, FileTypes, Meta, Item
<1> QED  BY <1>1, <1>2, <1>3 DEF Mirrored, SameEntries, SamePosition, Unwritten

LEMMA MirrorOperation ==
  ASSUME TypeInv, DurableInv, Mirrored, Operation PROVE Mirrored'
<1>1. /\ Idle /\ up' /\ UNCHANGED <<meta, log>> /\ Unwritten = {} /\ pc # "rename"
      /\ itemsBySeq \subseteq Item /\ ackUpto \in Nat
      /\ \A j \in log : j.seq \in Nat
  BY DEF Operation, EnqueueNew, EnqueueCoalesced, Acknowledge, MarkAttemptSent,
     MarkAttemptFailed, ResetPendingForRecovery, Idle, disk, Unwritten,
     TypeInv, TypeOK, MemoryTypes, FileTypes, Item
<1>2. /\ \A i \in itemsBySeq : \E j \in log : Entry(j) = Entry(i)
      /\ \A j \in log : ackUpto < j.seq => \E i \in itemsBySeq : Entry(i) = Entry(j)
  BY <1>1 DEF Mirrored, SameEntries, Idle
<1>3. ASSUME NEW m, NEW k, EnqueueNew(m, k) PROVE Mirrored'
  <2>1. /\ itemsBySeq' = itemsBySeq \union {cur'} /\ pc' = "append" /\ ackUpto' = ackUpto
    BY <1>3 DEF EnqueueNew
  <2> QED  BY <1>1, <1>2, <2>1 DEF Mirrored, SameEntries, SamePosition, Unwritten, Idle
<1>4. ASSUME NEW m, NEW k, EnqueueCoalesced(m, k) PROVE Mirrored'
  <2>1. PICK x \in itemsBySeq :
          /\ itemsBySeq' = (itemsBySeq \ {x}) \union {cur'} /\ cur' = [x EXCEPT !.msg = m]
          /\ pc' = "reappend" /\ ackUpto' = ackUpto
    BY <1>4 DEF EnqueueCoalesced, Coalescible
  <2>2. cur'.seq = x.seq
    BY <1>1, <2>1 DEF Item
  <2>3. Unwritten' = {cur'}
    BY <2>1 DEF Unwritten
  <2>4. SameEntries'
    BY <1>1, <1>2, <2>1, <2>2, <2>3 DEF SameEntries, Entry
  <2> QED  BY <2>1, <2>4 DEF Mirrored, SamePosition, Idle
<1>5. ASSUME NEW n \in 1..(nextSeq - 1), Acknowledge(n) PROVE Mirrored'
  <2>1. /\ itemsBySeq' = {i \in itemsBySeq : i.seq > n} /\ pc' \in {"rename", "truncate"}
        /\ ackUpto' = n /\ n > ackUpto
    BY <1>5 DEF Acknowledge
  <2>2. n \in Nat /\ \A i \in itemsBySeq : i.seq \in Nat
    BY <1>1 DEF TypeInv, TypeOK, MemoryTypes, Item
  <2>3. ASSUME NEW j \in log, n < j.seq PROVE \E i \in itemsBySeq' : Entry(i) = Entry(j)
    <3>1. ackUpto < j.seq
      BY <1>1, <2>1, <2>2, <2>3
    <3>2. PICK i \in itemsBySeq : Entry(i) = Entry(j)
      BY <1>2, <3>1
    <3>3. i.seq = j.seq
      BY <3>2 DEF Entry
    <3> QED  BY <2>1, <2>3, <3>2, <3>3, <2>2
  <2> QED  BY <1>1, <1>2, <2>1, <2>3 DEF Mirrored, SameEntries, SamePosition, Unwritten, Idle
<1>6. ASSUME NEW s, MarkAttemptSent(s) \/ MarkAttemptFailed(s) PROVE Mirrored'
  <2>1. PICK i \in itemsBySeq :
          itemsBySeq' = (itemsBySeq \ {i}) \union {[i EXCEPT !.att = "wait"]}
    BY <1>6 DEF MarkAttemptSent, MarkAttemptFailed
  <2>2. Entry([i EXCEPT !.att = "wait"]) = Entry(i)
    BY <1>1 DEF Entry, Item
  <2>3. UNCHANGED <<ackUpto, nextSeq, streamID>> /\ pc' \in {"idle", "truncate"}
    BY <1>1, <1>6 DEF MarkAttemptSent, MarkAttemptFailed, Idle
  <2>4. SameEntries'
    BY <1>1, <1>2, <2>1, <2>2, <2>3 DEF SameEntries, Unwritten
  <2> QED  BY <1>1, <2>3, <2>4 DEF Mirrored, SamePosition, Idle
<1>7. CASE ResetPendingForRecovery
  BY <1>1, <1>2, <1>7
  DEF ResetPendingForRecovery, Mirrored, SameEntries, SamePosition, Unwritten, Idle
<1> QED  BY <1>3, <1>4, <1>5, <1>6, <1>7 DEF Operation

LEMMA MirrorDiskStep ==
  ASSUME Sound, IOFaults = {}, TypeInv, DurableInv, Mirrored, DiskStep
  PROVE  Mirrored'
<1> USE DEF memory, disk, history
<1>1. up
  BY DEF DiskStep, AppendLine, AppendFails, CompactLog, CompactFails, TruncateMeta,
     WriteMeta, PersistMetaFails
<1>2. OnePerSeq(itemsBySeq) /\ \A i \in itemsBySeq : ackUpto < i.seq /\ i.seq \in Nat
      /\ ackUpto \in Nat
  BY <1>1 DEF DurableInv, QueueOrdered, TypeInv, TypeOK, MemoryTypes, Item
<1>3. CASE AppendLine
  <2>1. /\ pc \in {"append", "reappend"} /\ pc' = "truncate"
        /\ log' = {j \in log : j.seq # cur.seq} \union {cur}
        /\ UNCHANGED <<up, itemsBySeq, ackUpto, cur>>
        /\ Unwritten = {cur} /\ Unwritten' = {}
    BY <1>3 DEF AppendLine, DurableInv, FilesWhole, Unwritten
  <2>2. cur \in itemsBySeq
    BY <1>1, <2>1, NoItemAssumption
    DEF DurableInv, QueueOrdered, TypeInv, TypeOK, OperationTypes
  <2>3. \A i \in itemsBySeq : \E j \in log' : Entry(j) = Entry(i)
    <3> SUFFICES ASSUME NEW i \in itemsBySeq, i # cur
                 PROVE  \E j \in log' : Entry(j) = Entry(i)
      BY <2>1
    <3>1. PICK j \in log : Entry(j) = Entry(i)
      BY <1>1, <2>1 DEF Mirrored, SameEntries
    <3>2. j.seq = i.seq /\ i.seq # cur.seq
      BY <1>2, <2>2, <3>1 DEF Entry, OnePerSeq
    <3> QED  BY <2>1, <3>1, <3>2
  <2>4. \A j \in log' : ackUpto < j.seq => \E i \in itemsBySeq : Entry(i) = Entry(j)
    BY <1>1, <2>1, <2>2 DEF Mirrored, SameEntries
  <2> QED  BY <2>1, <2>3, <2>4 DEF Mirrored, SameEntries, SamePosition, Idle
<1>4. CASE CompactLog
  <2>1. /\ pc' = "compacted" /\ log' = itemsBySeq /\ UNCHANGED <<up, itemsBySeq, ackUpto>>
    BY <1>2, <1>4 DEF CompactLog
  <2> QED  BY <2>1 DEF Mirrored, SameEntries, SamePosition, Idle
<1>5. CASE TruncateMeta
  <2>1. /\ pc \in {"truncate", "compacted"} /\ pc' = "write"
        /\ UNCHANGED <<up, itemsBySeq, ackUpto, log>>
    BY <1>5 DEF TruncateMeta
  <2> QED  BY <1>1, <2>1 DEF Mirrored, SameEntries, SamePosition, Idle, Unwritten
<1>6. CASE WriteMeta
  <2>1. /\ pc = "write" /\ pc' = "idle"
        /\ UNCHANGED <<up, itemsBySeq, ackUpto, nextSeq, streamID, log>>
        /\ meta' = [state |-> "ok", stream |-> streamID, next |-> nextSeq,
                    ack |-> ackUpto, items |-> {}]
    BY <1>6 DEF WriteMeta, Return
  <2>2. LoadedNext(meta', log) = nextSeq
    BY <1>1, <2>1, WrittenNext
  <2>3. SamePosition'
    BY <2>1, <2>2 DEF SamePosition
  <2> QED  BY <1>1, <2>1, <2>3 DEF Mirrored, SameEntries, Unwritten
<1> QED
  BY <1>3, <1>4, <1>5, <1>6 DEF DiskStep, AppendFails, CompactFails, PersistMetaFails

LEMMA MirrorNext ==
  ASSUME Sound, IOFaults = {}
  PROVE  TypeInv /\ DurableInv /\ Mirrored /\ [Next]_vars => Mirrored'
<1> SUFFICES ASSUME TypeInv, DurableInv, Mirrored, [Next]_vars PROVE Mirrored'
  OBVIOUS
<1>1. CASE Crash
  BY <1>1 DEF Crash, Mirrored, SameEntries, SamePosition, Idle
<1>2. ASSUME NEW i \in itemsBySeq, BecomeDue(i) PROVE Mirrored'
  <2>1. /\ up /\ i.att = "wait"
        /\ itemsBySeq' = (itemsBySeq \ {i}) \union {[i EXCEPT !.att = "due"]}
        /\ UNCHANGED <<up, pc, cur, ackUpto, nextSeq, streamID, meta, log>>
    BY <1>2 DEF BecomeDue, disk
  <2>2. i \in Item /\ i \notin Unwritten
    BY <2>1, NoItemAssumption DEF Unwritten, DurableInv, QueueOrdered, TypeInv, TypeOK,
       MemoryTypes, OperationTypes
  <2>3. Entry([i EXCEPT !.att = "due"]) = Entry(i)
    BY <2>2 DEF Entry, Item
  <2>4. SameEntries'
    BY <2>1, <2>2, <2>3 DEF Mirrored, SameEntries, Unwritten
  <2> QED  BY <2>1, <2>4 DEF Mirrored, SamePosition, Idle
<1>3. CASE UNCHANGED vars
  BY <1>3 DEF vars, memory, disk, Mirrored, SameEntries, SamePosition, Idle, Unwritten
<1> QED  BY <1>1, <1>2, <1>3, MirrorLoad, MirrorOperation, MirrorDiskStep DEF Next

(* queue.go:3-5.  While no write fails, a process that dies between two    *)
(* operations and loads the files holds the entries, the next number, the  *)
(* position and (once saved) the stream it held before.                    *)
THEOREM RestartKeepsAll ==
  ASSUME Sound, IOFaults = {} PROVE Spec => []RestartIsLossless
<1>1. Init => Mirrored
  BY DEF Init, Mirrored, SameEntries, SamePosition, Idle
<1>2. TypeInv /\ DurableInv /\ Mirrored => RestartIsLossless
  <2> SUFFICES ASSUME TypeInv, DurableInv, Mirrored, Idle
               PROVE  Entries(itemsBySeq) = Entries(Recoverable)
    BY DEF RestartIsLossless, Mirrored, SamePosition
  <2>1. Recoverable = {j \in log : ackUpto < j.seq}
    <3>1. Recoverable = {j \in log : j.seq > meta.ack} /\ meta.ack = ackUpto
      BY DEF Recoverable, LoadedItems, DurableInv, FilesWhole, Idle, Mirrored, SamePosition
    <3> QED  BY <3>1 DEF TypeInv, TypeOK, FileTypes, Meta, Item
  <2>2. /\ \A i \in itemsBySeq : \E j \in log : Entry(j) = Entry(i)
        /\ \A j \in log : ackUpto < j.seq => \E i \in itemsBySeq : Entry(i) = Entry(j)
        /\ \A i \in itemsBySeq : ackUpto < i.seq
    BY DEF Mirrored, SameEntries, Idle, Unwritten, DurableInv, QueueOrdered
  <2>3. \A i \in itemsBySeq, j \in log : Entry(j) = Entry(i) => j.seq = i.seq
    BY DEF Entry
  <2> QED  BY <2>1, <2>2, <2>3 DEF Entries
<1> QED
  BY <1>1, <1>2, TypeInit, TypeNext, DurableInit, DurableNext, MirrorNext, PTL DEF Spec
=============================================================================
