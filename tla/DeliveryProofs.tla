--------------------------- MODULE DeliveryProofs ---------------------------
(***************************************************************************)
(* The outbox at work, for every number of messages, connections, crashes  *)
(* and batch sizes: what the loops hold is well typed, and the queue       *)
(* forgets a fact only when the API has applied it.                        *)
(*                                                                         *)
(* An acknowledgement is a number.  It covers the messages of the queue    *)
(* that the API has seen under that number, so the proof turns on one      *)
(* fact: a sequence number never stands for two messages, among all that   *)
(* is in memory, on disk or has ever been visible (SameMsg).  It needs     *)
(* more than durability: Strict adds that no process dies between the      *)
(* rewriting of the log and that of the meta file.                         *)
(***************************************************************************)
EXTENDS Delivery, OutboxDurability, FiniteSetTheorems

Strict ==
  /\ Sound
  /\ "compacted" \notin CrashPoints
  /\ "open" \notin IOFaults

-----------------------------------------------------------------------------
\* The steps of the queue in a delivery: all but coalescing and recovery.
Delivering ==
  \/ Load \/ DiskStep \/ Crash
  \/ \E m \in Message : EnqueueNew(m, NoKey)
  \/ \E n \in 1..(nextSeq - 1) : Acknowledge(n)
  \/ \E i \in itemsBySeq :
       BecomeDue(i) \/ MarkAttemptSent(i.seq) \/ MarkAttemptFailed(i.seq)

(* A step of a delivery is one of the queue, or leaves the queue alone.    *)
LEMMA QueueSteps == [DNext]_dvars => [Delivering]_vars
<1> SUFFICES ASSUME [DNext]_dvars PROVE [Delivering]_vars
  OBVIOUS
<1>1. CASE QueueStep
  BY <1>1 DEF QueueStep, Delivering
<1>2. CASE AgentCrash
  BY <1>2 DEF AgentCrash, Delivering
<1>3. CASE Disconnect
  BY <1>3 DEF Disconnect
<1>4. ASSUME NEW c \in Conns, Connect(c) \/ FlushStep(c) PROVE [Delivering]_vars
  <2>1. CASE MarkSent(c)
    BY <2>1 DEF MarkSent, InQueue, Delivering
  <2>2. CASE MarkFailed(c)
    BY <2>2 DEF MarkFailed, InQueue, Delivering
  <2> QED  BY <1>4, <2>1, <2>2 DEF Connect, FlushStep, FlushTick, WriteReceived, WriteLost,
              WriteFails, FlusherStops
<1>5. ASSUME NEW n \in 1..(nextSeq - 1), AckArrives(n) PROVE [Delivering]_vars
  BY <1>5 DEF AckArrives, Delivering
<1>6. CASE UNCHANGED dvars
  BY <1>6 DEF dvars
<1> QED  BY <1>1, <1>2, <1>3, <1>4, <1>5, <1>6 DEF DNext

LEMMA DeliveringIsNext == [Delivering]_vars => [Next]_vars
  BY DEF Delivering, Next, Operation

(* In a delivery the queue behaves as the outbox that the other theorems   *)
(* are about.                                                              *)
THEOREM DeliveryHasOutbox == DSpec => Spec
<1>1. DInit => Init
  BY DEF DInit
<1>2. [DNext]_dvars => [Next]_vars
  BY QueueSteps, DeliveringIsNext
<1> QED  BY <1>1, <1>2, PTL DEF DSpec, Spec

-----------------------------------------------------------------------------
(* A non-empty set of items has one with the least sequence number.        *)
LEMMA LeastItem ==
  ASSUME NEW S \in SUBSET Item, S # {}
  PROVE  \E i \in S : \A j \in S : i.seq <= j.seq
<1> DEFINE Less == {ss \in Nat \X Nat : ss[1] < ss[2]}
           Seqs == {i.seq : i \in S}
<1>1. IsWellFoundedOn(Less, Nat)
  BY NatLessThanWellFounded DEF OpToRel
<1>2. Seqs \subseteq Nat /\ Seqs # {}
  BY DEF Item
<1>3. \E x \in Seqs : \A y \in Seqs : ~(<<y, x>> \in Less)
  <2> HIDE DEF Less, Seqs
  <2> QED  BY <1>1, <1>2, WFMin, Zenon
<1>4. PICK x \in Seqs : \A y \in Seqs : ~(<<y, x>> \in Less)
  BY <1>3
<1>5. PICK i \in S : x = i.seq
  BY <1>4
<1>6. ASSUME NEW j \in S PROVE i.seq <= j.seq
  <2>1. j.seq \in Seqs /\ i.seq \in Nat /\ j.seq \in Nat
    BY <1>2
  <2>2. ~(j.seq < i.seq)
    BY <2>1, <1>4, <1>5
  <2> QED  BY <2>1, <2>2
<1> QED  BY <1>6

(* A tick finds something to write.                                        *)
LEMMA FirstOfSome ==
  ASSUME NEW S \in SUBSET Item, S # {}
  PROVE  FirstBySeq(S) \subseteq S /\ FirstBySeq(S) # {}
<1>1. PICK i \in S : \A j \in S : i.seq <= j.seq
  BY LeastItem
<1>2. {j \in S : j.seq < i.seq} = {}
  BY <1>1 DEF Item
<1>3. i \in FirstBySeq(S)
  BY <1>1, <1>2, FS_EmptySet, DeliveryAssumption DEF FirstBySeq
<1> QED  BY <1>3 DEF FirstBySeq

(* A loop at work has a copy to write.                                     *)
LEMMA CopyOfBatch ==
  ASSUME DTypeOK, NEW c \in Conns, flusher[c] \notin {"off", "idle"}
  PROVE  Copy(c) \in batch[c] /\ Copy(c) \in Item
<1>1. batch[c] \in SUBSET Item /\ batch[c] # {}
  BY DEF DTypeOK
<1>2. \E i \in batch[c] : \A j \in batch[c] : i.seq <= j.seq
  BY <1>1, LeastItem
<1> QED  BY <1>1, <1>2 DEF Copy

LEMMA DTypesKept == TypeInv /\ DTypeOK /\ [DNext]_dvars => DTypeOK'
<1> SUFFICES ASSUME TypeInv, DTypeOK, [DNext]_dvars PROVE DTypeOK'
  OBVIOUS
<1> USE DEF DTypeOK, net
<1>1. CASE QueueStep \/ (\E n \in 1..(nextSeq - 1) : AckArrives(n)) \/ UNCHANGED dvars
  BY <1>1 DEF QueueStep, AckArrives, dvars
<1>2. CASE AgentCrash \/ Disconnect
  BY <1>2 DEF AgentCrash, Disconnect
<1>3. ASSUME NEW c \in Conns, Connect(c) \/ FlushStep(c) PROVE DTypeOK'
  <2>1. CASE Connect(c) \/ FlusherStops(c)
    BY <2>1 DEF Connect, FlusherStops
  <2>2. CASE FlushTick(c)
    <3>1. DueItems \in SUBSET Item /\ DueItems # {}
      BY <2>2 DEF FlushTick, DueItems, TypeInv, TypeOK, MemoryTypes
    <3>2. FirstBySeq(DueItems) \in SUBSET Item /\ FirstBySeq(DueItems) # {}
      BY <3>1, FirstOfSome
    <3> QED  BY <2>2, <3>2 DEF FlushTick
  <2>3. CASE WriteReceived(c) \/ WriteLost(c) \/ WriteFails(c)
    BY <2>3 DEF WriteReceived, WriteLost, WriteFails
  <2>4. CASE MarkSent(c)
    BY <2>4 DEF MarkSent
  <2>5. CASE MarkFailed(c)
    BY <2>5 DEF MarkFailed
  <2> QED  BY <1>3, <2>1, <2>2, <2>3, <2>4, <2>5 DEF FlushStep
<1> QED  BY <1>1, <1>2, <1>3 DEF DNext

(* events.go:56-78, session.go:230-253: each flush loop is in one of its   *)
(* states and holds copies exactly while it is at work.                    *)
THEOREM DeliveryTypes == DSpec => []DTypeOK
<1>1. DInit => DTypeOK
  BY DEF DInit, DTypeOK
<1> QED  BY <1>1, DTypesKept, DeliveryHasOutbox, TypeInvariant, PTL DEF DSpec

-----------------------------------------------------------------------------
\* All that has ever borne a sequence number: what was visible, and what is
\* on disk or in memory.
Numbered == issued \union Entries(log) \union Entries(itemsBySeq)

SameMsg == \A e, f \in Numbered : e.seq = f.seq => e.msg = f.msg

\* What was visible lies below the next number, also below the one a restart
\* would compute, unless the meta file is being rewritten.
Fresh ==
  /\ up => \A e \in issued : e.seq < nextSeq
  /\ pc \notin {"write", "compacted"} =>
       \A e \in issued : e.seq < meta.next \/ \E j \in log : e.seq <= j.seq
  /\ pc \in {"rename", "compacted"} => cur = NoItem

\* What is pending is visible, except the item being enqueued.
Shown == up => \A i \in itemsBySeq : i = cur \/ Entry(i) \in issued

NumberInv == SameMsg /\ Fresh /\ Shown

(* The next number is above all that bears one.                            *)
LEMMA NumberedBelow ==
  ASSUME TypeInv, DurableInv, NumberInv, up
  PROVE  \A e \in Numbered : e.seq < nextSeq
BY DEF DurableInv, QueueOrdered, LogCovered, NumberInv, Fresh, Numbered, Entries, Entry

LEMMA NumbersInitially == ASSUME Strict PROVE Init => NumberInv
<1> SUFFICES ASSUME Init PROVE NumberInv
  OBVIOUS
<1>1. meta.items = {}
  BY DEF Init, Strict, Sound, AbsentMeta
<1>2. issued = {} /\ log = {} /\ itemsBySeq = {} /\ ~up /\ pc = "idle"
  BY <1>1 DEF Init, Entries
<1> QED  BY <1>2 DEF NumberInv, SameMsg, Fresh, Shown, Numbered, Entries

LEMMA NumbersLoad ==
  ASSUME TypeInv, DurableInv, NumberInv, Load PROVE NumberInv'
<1>1. /\ ~up /\ up' = TRUE /\ pc = "idle" /\ pc' = "idle" /\ cur' = cur
      /\ meta' = meta /\ log' = log /\ nextSeq' = LoadedNext(meta, log)
      /\ itemsBySeq' = Recoverable /\ issued' = issued \union Entries(Recoverable)
  BY DEF Load, disk, DurableInv, FilesWhole
<1>2. meta.items = {} /\ meta.state # "empty" /\ meta.ack < meta.next
  BY <1>1 DEF DurableInv, FilesWhole
<1>3. Recoverable = {j \in log : j.seq > meta.ack}
  BY <1>2 DEF Recoverable, LoadedItems
<1>4. /\ meta \in Meta /\ log \in SUBSET Item /\ issued \subseteq EntryType
      /\ meta.ack \in Nat /\ meta.next \in Nat
      /\ \A j \in log : j.seq \in Nat
      /\ \A e \in issued : e.seq \in Nat
  BY DEF TypeInv, TypeOK, FileTypes, HistoryTypes, Meta, Item, EntryType
<1>5. /\ LoadedNext(meta, log) \in Nat /\ meta.next <= LoadedNext(meta, log)
      /\ \A j \in Recoverable : j.seq < LoadedNext(meta, log)
  <2>1. PICK N \in Nat : AtMost(itemsBySeq \union log \union meta.items, N)
    BY DEF TypeInv, Bounded
  <2>2. AtMost(log \union meta.items, N)
    BY <2>1 DEF AtMost
  <2> QED  BY <1>4, <2>2, LoadedNextAbove DEF Recoverable
<1>6. Numbered' = issued \union Entries(log)
  BY <1>1, <1>3 DEF Numbered, Entries
<1>7. SameMsg'
  BY <1>6 DEF NumberInv, SameMsg, Numbered
<1>8. \A e \in issued' : e.seq < meta.next \/ \E j \in log : e.seq <= j.seq
  <2>1. \A e \in issued : e.seq < meta.next \/ \E j \in log : e.seq <= j.seq
    BY <1>1 DEF NumberInv, Fresh
  <2>2. \A e \in Entries(Recoverable) : \E j \in log : e.seq <= j.seq
    BY <1>3, <1>4 DEF Entries, Entry
  <2> QED  BY <1>1, <2>1, <2>2
<1>9. \A e \in issued' : e.seq < nextSeq'
  <2>1. \A e \in Entries(Recoverable) : e.seq < LoadedNext(meta, log)
    BY <1>5 DEF Entries, Entry
  <2>2. ASSUME NEW e \in issued PROVE e.seq < LoadedNext(meta, log)
    <3>1. CASE e.seq < meta.next
      BY <1>4, <1>5, <3>1
    <3>2. ASSUME NEW j \in log, e.seq <= j.seq PROVE e.seq < LoadedNext(meta, log)
      <4>1. CASE j.seq <= meta.ack
        BY <1>2, <1>4, <1>5, <3>2, <4>1
      <4>2. CASE ~(j.seq <= meta.ack)
        <5>1. j \in Recoverable
          BY <1>3, <1>4, <4>2
        <5> QED  BY <1>4, <1>5, <3>2, <5>1
      <4> QED  BY <4>1, <4>2
    <3> QED  BY <1>1, <3>1, <3>2 DEF NumberInv, Fresh
  <2> QED  BY <1>1, <2>1, <2>2
<1>10. Shown'
  BY <1>1 DEF Shown, Entries
<1> QED  BY <1>1, <1>7, <1>8, <1>9, <1>10 DEF NumberInv, Fresh

LEMMA NumbersEnqueue ==
  ASSUME TypeInv, DurableInv, NumberInv, NEW m \in Message, EnqueueNew(m, NoKey)
  PROVE  NumberInv'
<1> DEFINE item == [seq |-> nextSeq, stream |-> streamID, msg |-> m,
                    key |-> NoKey, att |-> "new"]
<1>1. /\ itemsBySeq' = itemsBySeq \union {item} /\ cur' = item
      /\ up /\ up' = up /\ pc' = "append" /\ nextSeq' = nextSeq + 1
      /\ pc = "idle" /\ cur = NoItem
      /\ meta' = meta /\ log' = log /\ issued' = issued
  BY IdleFacts DEF EnqueueNew, disk, Idle
<1>2. Numbered' = Numbered \union {Entry(item)} /\ Entry(item).seq = nextSeq
  BY <1>1 DEF Numbered, Entries, Entry
<1> HIDE DEF item
<1>3. nextSeq \in Nat /\ \A e \in Numbered : e.seq < nextSeq
  BY <1>1, NumberedBelow DEF TypeInv, TypeOK, MemoryTypes
<1>4. \A e \in Numbered : e.seq # nextSeq
  BY <1>3
<1>5. SameMsg'
  BY <1>2, <1>4 DEF NumberInv, SameMsg
<1>6. \A e \in issued : e.seq \in Nat
  BY DEF TypeInv, TypeOK, HistoryTypes, EntryType
<1>7. Fresh'
  BY <1>1, <1>3, <1>6 DEF NumberInv, Fresh
<1>8. Shown'
  <2>1. NoItem \notin itemsBySeq
    BY NoItemAssumption DEF TypeInv, TypeOK, MemoryTypes
  <2> QED  BY <1>1, <2>1 DEF NumberInv, Shown
<1> QED  BY <1>5, <1>7, <1>8 DEF NumberInv

(* Steps after which no more bears a number than before.                   *)
LEMMA NumbersFewer ==
  ASSUME TypeInv, DurableInv, NumberInv,
         Numbered' \subseteq Numbered, UNCHANGED <<up, nextSeq, cur, meta, log, issued>>,
         pc' = pc \/ (pc = "idle" /\ pc' \in {"truncate", "rename"}),
         \A i \in itemsBySeq' : \E j \in itemsBySeq : Entry(i) = Entry(j) /\ (j = cur => i = cur)
  PROVE  NumberInv'
<1>1. SameMsg'
  BY DEF NumberInv, SameMsg
<1>2. Fresh'
  BY DEF NumberInv, Fresh, DurableInv, QueueOrdered
<1>3. Shown'
  BY DEF NumberInv, Shown
<1> QED  BY <1>1, <1>2, <1>3 DEF NumberInv

LEMMA NumbersAcknowledge ==
  ASSUME TypeInv, DurableInv, NumberInv, NEW n, Acknowledge(n) PROVE NumberInv'
<1>1. /\ itemsBySeq' \subseteq itemsBySeq
      /\ UNCHANGED <<up, nextSeq, cur, meta, log, issued>>
      /\ pc = "idle" /\ pc' \in {"truncate", "rename"}
  BY DEF Acknowledge, Idle, disk
<1>2. Numbered' \subseteq Numbered
  BY <1>1 DEF Numbered, Entries
<1> QED  BY <1>1, <1>2, NumbersFewer

LEMMA NumbersReschedule ==
  ASSUME TypeInv, DurableInv, NumberInv, NEW i \in itemsBySeq,
         BecomeDue(i) \/ MarkAttemptSent(i.seq) \/ MarkAttemptFailed(i.seq)
  PROVE  NumberInv'
<1>1. PICK j \in itemsBySeq, a \in {"wait", "due"} :
        /\ itemsBySeq' = (itemsBySeq \ {j}) \union {[j EXCEPT !.att = a]}
        /\ BecomeDue(i) => j.att = "wait"
        /\ ~BecomeDue(i) => Idle
  BY DEF BecomeDue, MarkAttemptSent, MarkAttemptFailed
<1>2. /\ UNCHANGED <<up, nextSeq, cur, meta, log, issued>> /\ up
      /\ pc' = pc \/ (pc = "idle" /\ pc' \in {"truncate", "rename"})
  BY DEF BecomeDue, MarkAttemptSent, MarkAttemptFailed, Idle, disk, history
<1>3. j \in Item /\ j # NoItem
  BY NoItemAssumption DEF TypeInv, TypeOK, MemoryTypes
<1>4. j # cur
  BY <1>1, <1>2, <1>3, IdleFacts DEF DurableInv, QueueOrdered
<1>5. Entry([j EXCEPT !.att = a]) = Entry(j)
  BY <1>3 DEF Entry, Item
<1>6. \A k \in itemsBySeq' : \E l \in itemsBySeq : Entry(k) = Entry(l) /\ (l = cur => k = cur)
  BY <1>1, <1>4, <1>5
<1>7. Numbered' \subseteq Numbered
  BY <1>2, <1>6 DEF Numbered, Entries
<1> QED  BY <1>2, <1>6, <1>7, NumbersFewer

(* A line or a return makes visible what was in memory, and nothing else.  *)
LEMMA NumbersDiskStep ==
  ASSUME Strict, TypeInv, DurableInv, NumberInv, DiskStep PROVE NumberInv'
<1> USE DEF memory, disk, history
<1>1. up /\ cur # NoItem => cur \in itemsBySeq
  BY DEF DurableInv, QueueOrdered
<1>2. \A e \in issued : e.seq \in Nat
  BY DEF TypeInv, TypeOK, HistoryTypes, EntryType
<1>3. nextSeq \in Nat /\ \A j \in log \union itemsBySeq : j.seq \in Nat
  BY DEF TypeInv, TypeOK, MemoryTypes, FileTypes, Item
<1>4. CASE AppendLine
  <2>1. /\ up /\ pc \in {"append", "reappend"} /\ pc' = "truncate"
        /\ log' = {j \in log : j.seq # cur.seq} \union {cur}
        /\ UNCHANGED <<up, itemsBySeq, nextSeq, cur, meta, issued>>
    BY <1>4 DEF AppendLine, DurableInv, FilesWhole
  <2>2. cur \in itemsBySeq
    BY <1>1, <2>1, NoItemAssumption DEF TypeInv, TypeOK, OperationTypes
  <2>3. Numbered' \subseteq Numbered
    BY <2>1, <2>2 DEF Numbered, Entries
  <2>4. \A j \in log : \E k \in log' : j.seq = k.seq
    BY <2>1
  <2>5. Fresh'
    BY <1>2, <1>3, <2>1, <2>4 DEF NumberInv, Fresh
  <2> QED  BY <2>1, <2>3, <2>5 DEF NumberInv, SameMsg, Shown
<1>5. CASE CompactLog
  <2>1. /\ up /\ pc = "rename" /\ pc' = "compacted" /\ log' \subseteq itemsBySeq
        /\ UNCHANGED <<up, itemsBySeq, nextSeq, cur, meta, issued>>
    BY <1>5 DEF CompactLog
  <2>2. Numbered' \subseteq Numbered
    BY <2>1 DEF Numbered, Entries
  <2> QED  BY <2>1, <2>2 DEF NumberInv, SameMsg, Fresh, Shown
<1>6. CASE CompactFails
  <2>1. /\ pc = "rename" /\ pc' = "idle" /\ cur' = NoItem
        /\ UNCHANGED <<up, itemsBySeq, nextSeq, meta, log>>
        /\ issued' = IF cur = NoItem THEN issued ELSE issued \union {Entry(cur)}
    BY <1>6 DEF CompactFails, Return
  <2>2. cur = NoItem
    BY <2>1 DEF NumberInv, Fresh
  <2> QED  BY <2>1, <2>2 DEF NumberInv, SameMsg, Fresh, Shown, Numbered
<1>7. CASE TruncateMeta
  <2>1. /\ pc' = "write"
        /\ UNCHANGED <<up, itemsBySeq, nextSeq, cur, log, issued>>
    BY <1>7 DEF TruncateMeta
  <2> QED  BY <2>1 DEF NumberInv, SameMsg, Fresh, Shown, Numbered
<1>8. CASE WriteMeta
  <2>1. /\ up /\ pc = "write" /\ pc' = "idle" /\ cur' = NoItem
        /\ meta'.next = nextSeq
        /\ UNCHANGED <<up, itemsBySeq, nextSeq, log>>
        /\ issued' = IF cur = NoItem THEN issued ELSE issued \union {Entry(cur)}
    BY <1>8 DEF WriteMeta, Return
  <2>2. Numbered' = Numbered /\ issued' \subseteq Numbered
    BY <1>1, <2>1 DEF Numbered, Entries
  <2>3. \A e \in issued' : e.seq < nextSeq
    BY <2>1, <2>2, NumberedBelow
  <2>4. Fresh'
    BY <2>1, <2>3 DEF Fresh
  <2>5. Shown'
    BY <1>1, <2>1, NoItemAssumption
    DEF NumberInv, Shown, TypeInv, TypeOK, MemoryTypes
  <2> QED  BY <2>2, <2>4, <2>5 DEF NumberInv, SameMsg
<1> QED
  BY <1>4, <1>5, <1>6, <1>7, <1>8
  DEF DiskStep, Strict, Sound, AppendFails, PersistMetaFails

LEMMA NumbersCrash ==
  ASSUME Strict, TypeInv, DurableInv, NumberInv, Crash PROVE NumberInv'
<1>1. /\ pc \notin {"write", "compacted"} /\ ~up' /\ pc' = "idle"
      /\ itemsBySeq' = {} /\ UNCHANGED <<meta, log, issued>>
  BY DEF Crash, Strict, Sound, disk, history
<1>2. Numbered' \subseteq Numbered
  BY <1>1 DEF Numbered, Entries
<1> QED  BY <1>1, <1>2 DEF NumberInv, SameMsg, Fresh, Shown

LEMMA NumbersKept ==
  ASSUME Strict
  PROVE  TypeInv /\ DurableInv /\ NumberInv /\ [Delivering]_vars => NumberInv'
<1> SUFFICES ASSUME TypeInv, DurableInv, NumberInv, [Delivering]_vars PROVE NumberInv'
  OBVIOUS
<1>1. CASE UNCHANGED vars
  BY <1>1 DEF vars, memory, disk, history, NumberInv, SameMsg, Fresh, Shown, Numbered
<1> QED
  BY <1>1, NumbersLoad, NumbersDiskStep, NumbersCrash, NumbersEnqueue, NumbersAcknowledge,
     NumbersReschedule DEF Delivering

\* The queue of a delivery.
QueueInv == TypeInv /\ DurableInv /\ NumberInv

LEMMA QueueHolds == ASSUME Strict PROVE DSpec => []QueueInv
<1>1. Sound
  BY DEF Strict
<1>2. DInit => QueueInv
  BY <1>1, TypeInit, DurableInit, NumbersInitially DEF DInit, QueueInv
<1>3. QueueInv /\ [DNext]_dvars => QueueInv'
  BY <1>1, QueueSteps, DeliveringIsNext, TypeNext, DurableNext, NumbersKept DEF QueueInv
<1> QED  BY <1>2, <1>3, PTL DEF DSpec

(* queue_test.go:81.  While the rewriting of the files is not interrupted, *)
(* a sequence number of a delivery never stands for two messages, restarts *)
(* included.                                                               *)
THEOREM NumbersAreUnique == ASSUME Strict PROVE DSpec => []SeqNotReused
<1>1. QueueInv => SeqNotReused
  BY DEF QueueInv, NumberInv, SameMsg, Numbered, SeqNotReused
<1> QED  BY <1>1, QueueHolds, PTL

-----------------------------------------------------------------------------
\* The loops write what was visible; what the API has seen under a number was
\* visible and is applied.
Heard ==
  /\ \A c \in Conns : \A i \in batch[c] : Entry(i) \in issued
  /\ \A p \in seen : \E e \in issued : p = <<e.stream, e.seq>> /\ e.msg \in delivered

\* What the queue owes nobody any more has been applied.
SettledWasDelivered == settled \subseteq delivered

DeliveryInv == Heard /\ SettledWasDelivered

(* What was visible stays so.                                              *)
LEMMA IssuedGrows == [Delivering]_vars => issued \subseteq issued'
  BY DEF Delivering, Load, DiskStep, AppendLine, AppendFails, CompactLog, CompactFails,
     TruncateMeta, WriteMeta, PersistMetaFails, Return, Crash, EnqueueNew, Acknowledge,
     BecomeDue, MarkAttemptSent, MarkAttemptFailed, vars, history

(* Only an acknowledgement settles.                                        *)
LEMMA AckSettles ==
  [Delivering]_vars =>
    settled' = settled \/ \E n \in 1..(nextSeq - 1) : Acknowledge(n)
  BY DEF Delivering, Load, DiskStep, AppendLine, AppendFails, CompactLog, CompactFails,
     TruncateMeta, WriteMeta, PersistMetaFails, Return, Crash, EnqueueNew,
     BecomeDue, MarkAttemptSent, MarkAttemptFailed, vars, history

LEMMA HeardKept ==
  QueueInv /\ DTypeOK /\ Heard /\ [DNext]_dvars => Heard'
<1> SUFFICES ASSUME QueueInv, DTypeOK, Heard, [DNext]_dvars PROVE Heard'
  OBVIOUS
<1> USE DEF net, api
<1>1. issued \subseteq issued'
  BY QueueSteps, IssuedGrows
<1>2. CASE QueueStep \/ (\E n \in 1..(nextSeq - 1) : AckArrives(n)) \/ UNCHANGED dvars
           \/ Disconnect \/ (\E c \in Conns : Connect(c))
  <2>1. UNCHANGED <<batch, seen, delivered>>
    BY <1>2 DEF QueueStep, AckArrives, dvars, Disconnect, Connect
  <2> QED  BY <1>1, <2>1 DEF Heard
<1>3. CASE AgentCrash
  BY <1>1, <1>3 DEF AgentCrash, Heard
<1>4. ASSUME NEW c \in Conns, FlushStep(c) PROVE Heard'
  <2>1. CASE FlushTick(c)
    <3>1. DueItems \subseteq itemsBySeq /\ itemsBySeq \in SUBSET Item
      BY DEF DueItems, QueueInv, TypeInv, TypeOK, MemoryTypes
    <3>2. \A i \in FirstBySeq(DueItems) : i \in itemsBySeq
      BY <3>1 DEF FirstBySeq
    <3>3. \A i \in itemsBySeq : Entry(i) \in issued
      BY <2>1, <3>1, NoItemAssumption, IdleFacts
      DEF FlushTick, Idle, QueueInv, NumberInv, Shown
    <3>4. batch' = [batch EXCEPT ![c] = FirstBySeq(DueItems)] /\ UNCHANGED <<seen, delivered>>
      BY <2>1 DEF FlushTick
    <3> QED  BY <1>1, <3>2, <3>3, <3>4 DEF Heard, DTypeOK
  <2>2. CASE WriteReceived(c)
    <3> DEFINE i == Copy(c)
               place == <<i.stream, i.seq>>
    <3>1. Entry(i) \in issued
      BY <2>2, CopyOfBatch DEF WriteReceived, Heard
    <3>2. /\ batch' = batch /\ seen' = seen \union {place}
          /\ delivered' = IF place \in seen THEN delivered ELSE delivered \union {i.msg}
      BY <2>2 DEF WriteReceived
    <3>3. /\ Entry(i).stream = i.stream /\ Entry(i).seq = i.seq /\ Entry(i).msg = i.msg
      BY DEF Entry
    <3> HIDE DEF i
    <3> QED  BY <1>1, <3>1, <3>2, <3>3 DEF Heard
  <2>3. CASE WriteLost(c) \/ WriteFails(c) \/ FlusherStops(c)
    BY <1>1, <2>3 DEF WriteLost, WriteFails, FlusherStops, Heard
  <2>4. CASE MarkSent(c)
    BY <1>1, <2>4 DEF MarkSent, Heard, DTypeOK
  <2>5. CASE MarkFailed(c)
    BY <1>1, <2>5 DEF MarkFailed, Heard, DTypeOK
  <2> QED  BY <1>4, <2>1, <2>2, <2>3, <2>4, <2>5 DEF FlushStep
<1> QED  BY <1>2, <1>3, <1>4 DEF DNext

(* What the API has applied, it has applied.                               *)
LEMMA DeliveredGrows == [DNext]_dvars => delivered \subseteq delivered'
  BY DEF DNext, QueueStep, AgentCrash, Disconnect, Connect, FlushStep, FlushTick, WriteReceived,
     WriteLost, WriteFails, FlusherStops, MarkSent, MarkFailed, AckArrives, api, dvars

(* What an acknowledgement covers was seen under its number, hence is the  *)
(* message that was applied.                                               *)
LEMMA AckCoversDelivered ==
  ASSUME QueueInv, Heard, NEW n \in Nat, AckArrives(n),
         NEW i \in itemsBySeq, i.seq <= n
  PROVE  i.msg \in delivered
<1>1. PICK s \in 1..streams : ApiHasUpTo(s, n)
  BY DEF AckArrives
<1>2. i.seq \in 1..n
  BY DEF QueueInv, TypeInv, TypeOK, MemoryTypes, Item
<1>3. PICK e \in issued : <<s, i.seq>> = <<e.stream, e.seq>> /\ e.msg \in delivered
  BY <1>1, <1>2 DEF ApiHasUpTo, Heard
<1>4. e \in Numbered /\ Entry(i) \in Numbered /\ Entry(i).seq = e.seq /\ Entry(i).msg = i.msg
  BY <1>3 DEF Numbered, Entries, Entry
<1> QED  BY <1>3, <1>4 DEF QueueInv, NumberInv, SameMsg

LEMMA SettledKept ==
  QueueInv /\ DeliveryInv /\ [DNext]_dvars => SettledWasDelivered'
<1> SUFFICES ASSUME QueueInv, DeliveryInv, [DNext]_dvars PROVE SettledWasDelivered'
  OBVIOUS
<1>1. CASE settled' = settled
  BY <1>1, DeliveredGrows DEF DeliveryInv, SettledWasDelivered
<1>2. ASSUME NEW n \in 1..(nextSeq - 1), AckArrives(n) PROVE SettledWasDelivered'
  <2>1. /\ delivered' = delivered
        /\ settled' = settled \union Msgs(itemsBySeq \ itemsBySeq')
        /\ itemsBySeq' = {i \in itemsBySeq : i.seq > n}
    BY <1>2 DEF AckArrives, Acknowledge, api
  <2>2. \A i \in itemsBySeq \ itemsBySeq' : i.seq <= n
    BY <2>1 DEF QueueInv, TypeInv, TypeOK, MemoryTypes, Item
  <2>3. \A i \in itemsBySeq \ itemsBySeq' : i.msg \in delivered
    BY <1>2, <2>2, AckCoversDelivered DEF DeliveryInv
  <2> QED  BY <2>1, <2>3 DEF DeliveryInv, SettledWasDelivered, Msgs
<1>3. ASSUME NEW n \in 1..(nextSeq - 1), Acknowledge(n)
      PROVE  settled' = settled \/ \E k \in 1..(nextSeq - 1) : AckArrives(k)
  <2>1. /\ up /\ ackUpto' # ackUpto
    BY <1>3 DEF Acknowledge, Idle, QueueInv, TypeInv, TypeOK, MemoryTypes
  <2> QED
    BY <2>1 DEF DNext, QueueStep, Load, DiskStep, AppendLine, AppendFails, CompactLog, CompactFails,
       TruncateMeta, WriteMeta, PersistMetaFails, Return, BecomeDue, EnqueueNew, AgentCrash, Crash,
       Disconnect, Connect, FlushStep, FlushTick, WriteReceived, WriteLost, WriteFails, FlusherStops,
       MarkSent, MarkFailed, MarkAttemptSent, MarkAttemptFailed, dvars, vars, memory, history
<1> QED  BY <1>1, <1>2, <1>3, QueueSteps, AckSettles

(* queue.go:3-5, events.go:29-78: the queue forgets a message only when    *)
(* the API has applied it, whatever was lost, repeated or overlapped on    *)
(* the way, and for acknowledgements of any age.                           *)
THEOREM ForgottenIsDelivered == ASSUME Strict PROVE DSpec => []SettledWasDelivered
<1>1. DInit => DeliveryInv
  <2> SUFFICES ASSUME DInit PROVE DeliveryInv
    OBVIOUS
  <2> QED  BY DEF DInit, Init, DeliveryInv, Heard, SettledWasDelivered
<1>2. QueueInv /\ DTypeOK /\ DeliveryInv /\ [DNext]_dvars => DeliveryInv'
  BY HeardKept, SettledKept DEF DeliveryInv
<1>3. DeliveryInv => SettledWasDelivered
  BY DEF DeliveryInv
<1> QED  BY <1>1, <1>2, <1>3, QueueHolds, DeliveryTypes, PTL DEF DSpec

-----------------------------------------------------------------------------
\* The other direction of SameMsg: a message is enqueued once, and goes by one
\* number from then on.  The number of an enqueue in progress is a new one.
Once ==
  /\ \A e, f \in Numbered : e.msg = f.msg => e.seq = f.seq
  /\ \A e \in issued : e.msg \in offered
  /\ pc = "append" => \A e \in issued : e.seq < cur.seq
  /\ pc # "reappend"

(* Only an enqueue gives out a number.                                     *)
LEMMA NumberedFewer ==
  ASSUME Strict, TypeInv, DurableInv, NumberInv, [Delivering]_vars,
         \A m \in Message : ~EnqueueNew(m, NoKey)
  PROVE  Numbered' \subseteq Numbered
<1> USE DEF disk, history
<1>1. CASE Load
  <2>1. meta.items = {} /\ meta.state # "empty"
    BY <1>1 DEF Load, DurableInv, FilesWhole
  <2>2. Recoverable \subseteq log
    BY <2>1 DEF Recoverable, LoadedItems
  <2> QED  BY <1>1, <2>2 DEF Load, Numbered, Entries
<1>2. CASE AppendLine
  <2>1. /\ up /\ pc \in {"append", "reappend"} /\ log' \subseteq log \union {cur}
        /\ itemsBySeq' = itemsBySeq /\ issued' = issued
    BY <1>2 DEF AppendLine, memory, DurableInv, FilesWhole
  <2>2. cur \in itemsBySeq
    BY <2>1, NoItemAssumption DEF TypeInv, TypeOK, OperationTypes, DurableInv, QueueOrdered
  <2> QED  BY <2>1, <2>2 DEF Numbered, Entries
<1>3. CASE CompactLog \/ Crash
  BY <1>3 DEF CompactLog, Crash, Numbered, Entries
<1>4. CASE CompactFails \/ WriteMeta
  <2>1. /\ up /\ itemsBySeq' = itemsBySeq /\ log' = log
        /\ issued' = IF cur = NoItem THEN issued ELSE issued \union {Entry(cur)}
    BY <1>4 DEF CompactFails, WriteMeta, Return, memory
  <2>2. cur # NoItem => cur \in itemsBySeq
    BY <2>1 DEF DurableInv, QueueOrdered
  <2> QED  BY <2>1, <2>2 DEF Numbered, Entries
<1>5. CASE TruncateMeta \/ (\E n \in 1..(nextSeq - 1) : Acknowledge(n)) \/ UNCHANGED vars
  <2>1. itemsBySeq' \subseteq itemsBySeq /\ log' = log /\ issued' = issued
    BY <1>5 DEF TruncateMeta, Acknowledge, vars, memory
  <2> QED  BY <2>1 DEF Numbered, Entries
<1>6. ASSUME NEW i \in itemsBySeq,
             BecomeDue(i) \/ MarkAttemptSent(i.seq) \/ MarkAttemptFailed(i.seq)
      PROVE  Numbered' \subseteq Numbered
  <2>1. PICK j \in itemsBySeq, a \in {"wait", "due"} :
          itemsBySeq' = (itemsBySeq \ {j}) \union {[j EXCEPT !.att = a]}
    BY <1>6 DEF BecomeDue, MarkAttemptSent, MarkAttemptFailed
  <2>2. log' = log /\ issued' = issued
    BY <1>6 DEF BecomeDue, MarkAttemptSent, MarkAttemptFailed
  <2>3. Entry([j EXCEPT !.att = a]) = Entry(j)
    BY DEF Entry, TypeInv, TypeOK, MemoryTypes, Item
  <2> QED  BY <2>1, <2>2, <2>3 DEF Numbered, Entries
<1>7. ~AppendFails /\ ~PersistMetaFails
  BY DEF Strict, Sound, AppendFails, PersistMetaFails
<1> QED  BY <1>1, <1>2, <1>3, <1>4, <1>5, <1>6, <1>7 DEF Delivering, DiskStep

(* What bears a number was handed to Enqueue.                              *)
LEMMA NumberedOffered ==
  ASSUME TypeInv, Once, NEW e \in Numbered PROVE e.msg \in offered
BY DEF TypeInv, TypeOK, HistoryTypes, Once, Numbered, Entries, Entry

LEMMA OnceKept ==
  ASSUME Strict, TypeInv, DurableInv, NumberInv, Once, [Delivering]_vars PROVE Once'
<1>1. ASSUME NEW m \in Message, EnqueueNew(m, NoKey) PROVE Once'
  <2> DEFINE item == [seq |-> nextSeq, stream |-> streamID, msg |-> m,
                      key |-> NoKey, att |-> "new"]
  <2>1. /\ itemsBySeq' = itemsBySeq \union {item} /\ cur' = item /\ log' = log
        /\ up /\ pc' = "append" /\ issued' = issued
        /\ m \notin offered /\ offered' = offered \union {m}
    BY <1>1 DEF EnqueueNew, disk, Idle
  <2>2. /\ Numbered' = Numbered \union {Entry(item)} /\ Entry(item).msg = m
        /\ cur'.seq = nextSeq
    BY <2>1 DEF Numbered, Entries, Entry
  <2> HIDE DEF item
  <2>3. \A e \in Numbered : e.msg # m
    BY <2>1, NumberedOffered
  <2>4. \A e, f \in Numbered' : e.msg = f.msg => e.seq = f.seq
    BY <2>2, <2>3 DEF Once
  <2>5. \A e \in issued : e.seq < nextSeq
    BY <2>1 DEF NumberInv, Fresh
  <2> QED  BY <2>1, <2>2, <2>4, <2>5 DEF Once
<1>2. ASSUME \A m \in Message : ~EnqueueNew(m, NoKey) PROVE Once'
  <2>1. Numbered' \subseteq Numbered
    BY <1>2, NumberedFewer
  <2>2. /\ offered' = offered /\ pc' # "reappend"
        /\ pc' = "append" => pc = "append" /\ cur' = cur /\ issued' = issued
    <3>1. CASE Load
      BY <3>1 DEF Load, DurableInv, FilesWhole
    <3>2. CASE DiskStep
      BY <3>2 DEF DiskStep, AppendLine, AppendFails, CompactLog, CompactFails,
         TruncateMeta, WriteMeta, PersistMetaFails, Return, history
    <3>3. CASE Crash \/ (\E n \in 1..(nextSeq - 1) : Acknowledge(n)) \/ UNCHANGED vars
      BY <3>3 DEF Once, Crash, Acknowledge, history, vars
    <3>4. CASE \E i \in itemsBySeq :
                 BecomeDue(i) \/ MarkAttemptSent(i.seq) \/ MarkAttemptFailed(i.seq)
      BY <3>4 DEF Once, BecomeDue, MarkAttemptSent, MarkAttemptFailed, Idle, history
    <3> QED  BY <1>2, <3>1, <3>2, <3>3, <3>4 DEF Delivering
  <2>3. issued' \subseteq Numbered
    BY <2>1 DEF Numbered
  <2>4. \A e \in issued' : e.msg \in offered'
    BY <2>2, <2>3, NumberedOffered
  <2> QED  BY <2>1, <2>2, <2>4 DEF Once
<1> QED  BY <1>1, <1>2

-----------------------------------------------------------------------------
\* What the API has applied was visible, and the loops hold copies of what is
\* on disk or already applied.
Copies ==
  /\ delivered \subseteq Msgs(issued)
  /\ \A c \in Conns : \A i \in batch[c] : i.msg \in delivered \union Msgs(Durable)

(* The line of a new message is the only thing that enters the store.      *)
LEMMA StoreAppend ==
  ASSUME QueueInv, QueueInv', Once, AppendLine
  PROVE  /\ Msgs(Durable)' = Msgs(Durable) \union {cur.msg}
         /\ cur.msg \notin Msgs(Durable) /\ cur.msg \notin Msgs(issued)
<1> USE DEF QueueInv
<1>1. /\ up /\ pc = "append" /\ pc' = "truncate" /\ meta' = meta
      /\ log' = {j \in log : j.seq # cur.seq} \union {cur}
  BY DEF Once, AppendLine, DurableInv, FilesWhole
<1>2. cur \in itemsBySeq /\ cur \in Item
  BY <1>1, NoItemAssumption DEF TypeInv, TypeOK, OperationTypes, DurableInv, QueueOrdered
<1>3. /\ meta.ack \in Nat /\ ackUpto \in Nat /\ meta.ack <= ackUpto /\ ackUpto < cur.seq
      /\ cur.seq \in Nat /\ \A j \in log : j.seq \in Nat /\ j.seq < cur.seq
  BY <1>1, <1>2 DEF TypeInv, TypeOK, MemoryTypes, FileTypes, Meta, Item, DurableInv,
     QueueOrdered, LogCovered
<1>4. Durable = {j \in log : meta.ack < j.seq}
  BY <1>1, DurableLines DEF DiskAck
<1>5. Durable' = {j \in log' : meta.ack < j.seq}
  BY <1>1, DurableLinesNext DEF DiskAck
<1>6. log' = log \union {cur}
  BY <1>1, <1>3
<1>7. Durable' = Durable \union {cur}
  BY <1>3, <1>4, <1>5, <1>6
<1>8. Entry(cur) \in Numbered /\ Entry(cur).msg = cur.msg /\ Entry(cur).seq = cur.seq
  BY <1>2 DEF Numbered, Entries, Entry
<1>9. \A j \in log : j.msg # cur.msg
  <2>1. \A j \in log : Entry(j) \in Numbered /\ Entry(j).msg = j.msg /\ Entry(j).seq = j.seq
    BY DEF Numbered, Entries, Entry
  <2> QED  BY <1>3, <1>8, <2>1 DEF Once
<1>10. \A e \in issued : e.msg # cur.msg
  <2>1. \A e \in issued : e \in Numbered /\ e.seq \in Nat
    BY DEF Numbered, TypeInv, TypeOK, HistoryTypes, EntryType
  <2>2. \A e \in issued : e.seq < cur.seq
    BY <1>1 DEF Once
  <2> QED  BY <1>3, <1>8, <2>1, <2>2 DEF Once
<1> QED  BY <1>4, <1>7, <1>9, <1>10 DEF Msgs

LEMMA StoreShrinks ==
  ASSUME Strict, QueueInv, QueueInv', [Delivering]_vars, ~AppendLine
  PROVE  Msgs(Durable)' \subseteq Msgs(Durable)
<1> USE DEF QueueInv
<1>1. CASE log' = log /\ DiskAck' = DiskAck
  BY <1>1, SameStore
<1>2. Durable = {j \in log : DiskAck < j.seq} /\ Durable' = {j \in log' : DiskAck' < j.seq}
  BY DurableLines, DurableLinesNext
<1>3. CASE CompactLog
  <2>1. /\ up /\ pc = "rename" /\ pc' = "compacted" /\ meta' = meta
        /\ log' \subseteq itemsBySeq
    BY <1>3 DEF CompactLog
  <2>2. DiskAck = meta.ack /\ DiskAck' = meta.ack
    BY <2>1 DEF DiskAck
  <2>3. \A i \in itemsBySeq : \E j \in log : j.seq = i.seq /\ j.msg = i.msg
    BY <2>1 DEF DurableInv, Logged, Unwritten
  <2> QED  BY <1>2, <2>1, <2>2, <2>3 DEF Msgs
<1>4. CASE TruncateMeta
  <2>1. /\ up /\ pc # "write" /\ pc' = "write" /\ log' = log /\ ackUpto' = ackUpto
    BY <1>4 DEF TruncateMeta, memory
  <2>2. DiskAck = meta.ack /\ DiskAck' = ackUpto /\ meta.ack <= ackUpto
    BY <2>1 DEF DiskAck, DurableInv, QueueOrdered
  <2>3. meta.ack \in Nat /\ ackUpto \in Nat /\ \A j \in log : j.seq \in Nat
    BY DEF TypeInv, TypeOK, MemoryTypes, FileTypes, Meta, Item
  <2> QED  BY <1>2, <2>1, <2>2, <2>3 DEF Msgs
<1>5. CASE WriteMeta
  <2>1. pc = "write" /\ pc' = "idle" /\ log' = log /\ meta'.ack = ackUpto
    BY <1>5 DEF WriteMeta, Return
  <2> QED  BY <1>1, <2>1 DEF DiskAck
<1>6. CASE CompactFails
  BY <1>1, <1>6 DEF CompactFails, Return, disk, DiskAck
<1>7. ~AppendFails /\ ~PersistMetaFails
  BY DEF Strict, Sound, AppendFails, PersistMetaFails
<1>8. CASE Load \/ Crash
  <2>1. log' = log /\ meta' = meta /\ pc # "write" /\ pc' # "write"
    BY <1>8 DEF Load, Crash, disk, Strict, Sound, DurableInv, FilesWhole
  <2> QED  BY <1>1, <2>1 DEF DiskAck
<1>9. CASE \/ \E m \in Message : EnqueueNew(m, NoKey)
           \/ \E n \in 1..(nextSeq - 1) : Acknowledge(n)
  <2>1. log' = log /\ meta' = meta /\ pc = "idle" /\ pc' # "write"
    BY <1>9 DEF EnqueueNew, Acknowledge, Idle, disk
  <2> QED  BY <1>1, <2>1 DEF DiskAck
<1>10. ASSUME NEW i \in itemsBySeq,
              BecomeDue(i) \/ MarkAttemptSent(i.seq) \/ MarkAttemptFailed(i.seq)
       PROVE  Msgs(Durable)' \subseteq Msgs(Durable)
  <2>1. /\ log' = log /\ meta' = meta /\ ackUpto' = ackUpto
        /\ \/ pc' = pc
           \/ pc = "idle" /\ pc' = "truncate"
    BY <1>10 DEF BecomeDue, MarkAttemptSent, MarkAttemptFailed, Idle, disk
  <2> QED  BY <1>1, <2>1 DEF DiskAck
<1>11. CASE UNCHANGED vars
  BY <1>1, <1>11 DEF vars, memory, disk, DiskAck
<1> QED
  BY <1>3, <1>4, <1>5, <1>6, <1>7, <1>8, <1>9, <1>10, <1>11 DEF Delivering, DiskStep

(* What leaves the store is settled, and what an Enqueue accepts is in it. *)
LEMMA StoreKeeps ==
  ASSUME Strict, QueueInv, QueueInv', [Delivering]_vars
  PROVE  /\ Msgs(Durable) \ Msgs(Durable)' \subseteq settled
         /\ accepted' # accepted =>
              /\ Msgs(Durable)' = Msgs(Durable)
              /\ \E m \in Msgs(Durable) : accepted' = accepted \union {m}
<1>1. Sound
  BY DEF Strict
<1>2. [Promise!Next]_(Promise!vars)
  BY <1>1, DeliveringIsNext, PromiseNext DEF QueueInv
<1> QED
  BY <1>2 DEF Promise!Next, Promise!vars, Promise!Write, Promise!Accept, Promise!Settle

LEMMA CopiesInitially == DInit => Copies
  BY DEF DInit, Init, Copies

(* A loop takes its copies from the disk's store: what is pending has its  *)
(* line.                                                                   *)
LEMMA PendingIsStored ==
  ASSUME QueueInv, Idle, NEW i \in itemsBySeq PROVE i.msg \in Msgs(Durable)
<1> USE DEF QueueInv
<1>1. up /\ pc = "idle" /\ meta.ack \in Nat /\ ackUpto \in Nat /\ meta.ack <= ackUpto
  BY IdleFacts
<1>2. ackUpto < i.seq /\ i.seq \in Nat
  BY <1>1 DEF DurableInv, QueueOrdered, TypeInv, TypeOK, MemoryTypes, Item
<1>3. PICK j \in log : j.seq = i.seq /\ j.msg = i.msg
  BY <1>1 DEF DurableInv, Logged, Unwritten
<1>4. DiskAck < j.seq
  BY <1>1, <1>2, <1>3 DEF DiskAck
<1> QED  BY <1>3, <1>4, DurableLines DEF Msgs

LEMMA CopiesKept ==
  ASSUME Strict, QueueInv, QueueInv', DTypeOK, DeliveryInv, Copies, [DNext]_dvars
  PROVE  Copies'
<1> USE DEF net, api
<1>1. issued \subseteq issued' /\ delivered \subseteq delivered'
  BY QueueSteps, IssuedGrows, DeliveredGrows
<1>2. delivered \union Msgs(Durable) \subseteq delivered' \union Msgs(Durable)'
  BY <1>1, QueueSteps, StoreKeeps DEF DeliveryInv, SettledWasDelivered
<1>3. Msgs(issued) \subseteq Msgs(issued')
  BY <1>1 DEF Msgs
<1>4. delivered' \subseteq Msgs(issued')
  <2>1. CASE delivered' = delivered
    BY <1>3, <2>1 DEF Copies
  <2>2. ASSUME NEW c \in Conns, WriteReceived(c) PROVE delivered' \subseteq Msgs(issued')
    <3>1. Copy(c) \in batch[c] /\ Entry(Copy(c)) \in issued
      BY <2>2, CopyOfBatch DEF WriteReceived, DeliveryInv, Heard
    <3>2. Copy(c).msg \in Msgs(issued)
      BY <3>1 DEF Msgs, Entry
    <3>3. delivered' \subseteq delivered \union {Copy(c).msg}
      BY <2>2 DEF WriteReceived
    <3> QED  BY <1>3, <3>2, <3>3 DEF Copies
  <2> QED
    BY <2>1, <2>2 DEF DNext, QueueStep, AgentCrash, Disconnect, Connect, FlushStep, FlushTick,
       WriteLost, WriteFails, FlusherStops, MarkSent, MarkFailed, AckArrives, dvars
<1>5. ASSUME NEW c \in Conns, NEW i \in batch'[c] PROVE i.msg \in delivered' \union Msgs(Durable)'
  <2>1. CASE i \in batch[c]
    BY <1>2, <2>1 DEF Copies
  <2>2. CASE FlushTick(c) /\ i \in FirstBySeq(DueItems)
    <3>1. i \in itemsBySeq /\ Idle
      BY <2>2 DEF FirstBySeq, DueItems, FlushTick
    <3> QED  BY <1>2, <3>1, PendingIsStored
  <2>3. i \in batch[c] \/ (FlushTick(c) /\ i \in FirstBySeq(DueItems))
    <3>1. CASE \E k \in Conns : Connect(k) \/ FlushStep(k)
      BY <3>1 DEF Connect, FlushStep, FlushTick, WriteReceived, WriteLost, WriteFails,
         FlusherStops, MarkSent, MarkFailed, DTypeOK
    <3>2. CASE ~ \E k \in Conns : Connect(k) \/ FlushStep(k)
      BY <3>2 DEF DNext, QueueStep, AgentCrash, Disconnect, AckArrives, dvars
    <3> QED  BY <3>1, <3>2
  <2> QED  BY <2>1, <2>2, <2>3
<1> QED  BY <1>4, <1>5 DEF Copies

-----------------------------------------------------------------------------
LEMMA ChannelInit == ASSUME Strict PROVE DInit => Channel!Init
<1> SUFFICES ASSUME DInit PROVE Channel!Init
  OBVIOUS
<1>1. meta = AbsentMeta /\ log = {} /\ pc = "idle" /\ accepted = {} /\ delivered = {}
  BY DEF DInit, Init, Strict, Sound, AbsentMeta, Msgs
<1>2. Durable = {}
  BY <1>1 DEF Durable, Recoverable, LoadedItems, AbsentMeta
<1> QED  BY <1>1, <1>2 DEF Channel!Init, Msgs

(* A step of the queue: the line of a new message stores it, a return      *)
(* accepts it, and rewriting a file forgets what has been applied.         *)
LEMMA ChannelQueue ==
  ASSUME Strict, QueueInv, QueueInv', Once, DeliveryInv, Copies,
         [Delivering]_vars, delivered' = delivered
  PROVE  [Channel!Next]_(Channel!vars)
<1>1. Msgs(Durable) \subseteq Message /\ Msgs(Durable)' \subseteq Message
  <2>1. Durable \subseteq log /\ Durable' \subseteq log'
    BY DurableLines, DurableLinesNext DEF QueueInv
  <2>2. log \subseteq Item /\ log' \subseteq Item
    BY DEF QueueInv, TypeInv, TypeOK, FileTypes
  <2> QED  BY <2>1, <2>2 DEF Msgs, Item
<1>2. CASE AppendLine
  <2>1. /\ Msgs(Durable)' = Msgs(Durable) \union {cur.msg}
        /\ cur.msg \notin Msgs(Durable) /\ cur.msg \notin delivered
    BY <1>2, StoreAppend DEF Copies
  <2>2. accepted' = accepted /\ cur.msg \in Message
    BY <1>1, <1>2, <2>1 DEF AppendLine, history
  <2>3. Channel!Store(cur.msg)
    BY <2>1, <2>2 DEF Channel!Store
  <2> QED  BY <2>2, <2>3 DEF Channel!Next
<1>3. CASE accepted' # accepted
  <2>1. PICK m \in Msgs(Durable) : accepted' = accepted \union {m}
    BY <1>3, StoreKeeps
  <2>2. Msgs(Durable)' = Msgs(Durable) /\ m \in Message
    BY <1>1, <1>3, StoreKeeps
  <2>3. Channel!Accept(m)
    BY <2>1, <2>2 DEF Channel!Accept
  <2> QED  BY <2>2, <2>3 DEF Channel!Next
<1>4. CASE ~AppendLine /\ accepted' = accepted
  <2>1. Msgs(Durable)' \subseteq Msgs(Durable)
    BY <1>4, StoreShrinks
  <2>2. Msgs(Durable) \ Msgs(Durable)' \subseteq delivered
    BY StoreKeeps DEF DeliveryInv, SettledWasDelivered
  <2>3. Channel!Forget
    BY <1>4, <2>1, <2>2 DEF Channel!Forget
  <2> QED  BY <2>3 DEF Channel!Next
<1> QED  BY <1>2, <1>3, <1>4

(* The API applies what a loop holds a copy of.                            *)
LEMMA ChannelWrite ==
  ASSUME QueueInv, DTypeOK, Copies, NEW c \in Conns, WriteReceived(c)
  PROVE  [Channel!Next]_(Channel!vars)
<1> DEFINE m == Copy(c).msg
<1>1. /\ Copy(c) \in batch[c] /\ m \in Message
      /\ m \in delivered \union Msgs(Durable)
  BY CopyOfBatch DEF WriteReceived, Copies, Item
<1>2. Msgs(Durable)' = Msgs(Durable) /\ accepted' = accepted
  <2>1. UNCHANGED vars
    BY DEF WriteReceived
  <2>2. Durable' = Durable
    BY <2>1 DEF vars, memory, disk, Durable, Recoverable
  <2> QED  BY <2>1, <2>2 DEF Msgs, vars, history
<1>3. delivered' = delivered \/ delivered' = delivered \union {m}
  BY DEF WriteReceived
<1> HIDE DEF m
<1>4. CASE delivered' = delivered
  BY <1>2, <1>4 DEF Channel!vars
<1>5. CASE delivered' # delivered
  <2>1. m \in Msgs(Durable) /\ delivered' = delivered \union {m}
    BY <1>1, <1>3, <1>5
  <2>2. Channel!Deliver(m)
    BY <1>2, <2>1 DEF Channel!Deliver
  <2> QED  BY <1>1, <2>2 DEF Channel!Next
<1> QED  BY <1>4, <1>5

LEMMA ChannelNext ==
  ASSUME Strict, QueueInv, QueueInv', Once, DTypeOK, DeliveryInv, Copies, [DNext]_dvars
  PROVE  [Channel!Next]_(Channel!vars)
<1>1. ASSUME NEW c \in Conns, WriteReceived(c) PROVE [Channel!Next]_(Channel!vars)
  BY <1>1, ChannelWrite
<1>2. CASE ~ \E c \in Conns : WriteReceived(c)
  <2>1. delivered' = delivered
    BY <1>2 DEF DNext, QueueStep, AgentCrash, Disconnect, Connect, FlushStep, FlushTick,
       WriteLost, WriteFails, FlusherStops, MarkSent, MarkFailed, AckArrives, api, dvars
  <2> QED  BY <2>1, QueueSteps, ChannelQueue
<1> QED  BY <1>1, <1>2

\* The invariant of the refinement.
ChannelInv == QueueInv /\ DTypeOK /\ DeliveryInv /\ Once /\ Copies

LEMMA ChannelInvHolds == ASSUME Strict PROVE DSpec => []ChannelInv
<1>1. DInit => DeliveryInv /\ Once /\ Copies
  <2> SUFFICES ASSUME DInit PROVE DeliveryInv /\ Once /\ Copies
    OBVIOUS
  <2>1. meta.items = {} /\ log = {} /\ itemsBySeq = {} /\ issued = {} /\ pc = "idle"
    BY DEF DInit, Init, Strict, Sound, AbsentMeta, Entries
  <2> QED
    BY <2>1, CopiesInitially
    DEF DInit, Init, DeliveryInv, Heard, SettledWasDelivered, Once, Numbered, Entries
<1>2. QueueInv /\ QueueInv' /\ DTypeOK /\ DeliveryInv /\ Once /\ Copies /\ [DNext]_dvars
        => (DeliveryInv /\ Once /\ Copies)'
  BY HeardKept, SettledKept, OnceKept, CopiesKept, QueueSteps DEF DeliveryInv, QueueInv
<1> QED  BY <1>1, <1>2, QueueHolds, DeliveryTypes, PTL DEF DSpec, ChannelInv

(* queue.go:3-5, events.go:29-78, end to end.  Queue, files, loops and API *)
(* together are a reliable channel: a message is on disk before its        *)
(* Enqueue returns and before the API sees it, and it leaves the disk only *)
(* when the API has applied it; connections, numbers, retries, crashes and *)
(* restarts do not show.                                                   *)
THEOREM DeliveryImplementsChannel ==
  ASSUME Strict PROVE DSpec => ImplementsReliableChannel
<1>1. ChannelInv /\ ChannelInv' /\ [DNext]_dvars => [Channel!Next]_(Channel!vars)
  BY ChannelNext DEF ChannelInv
<1> QED
  BY <1>1, ChannelInit, ChannelInvHolds, PTL DEF DSpec, ImplementsReliableChannel, Channel!Spec

(* The point of it: a message whose Enqueue succeeded and that the API has *)
(* not applied is on disk.                                                 *)
THEOREM NothingLost == ASSUME Strict PROVE DSpec => []Channel!NothingLost
<1>1. ChannelInv => Channel!NothingLost
  BY Held DEF ChannelInv, QueueInv, DeliveryInv, SettledWasDelivered, AcceptedStaysOnDisk,
     Channel!NothingLost
<1> QED  BY <1>1, ChannelInvHolds, PTL
=============================================================================
