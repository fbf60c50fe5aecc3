---------------------------- MODULE OutboxProofs ----------------------------
(***************************************************************************)
(* The type invariant of Outbox, for every value of its constants: every   *)
(* crash point, every disk fault and meta files of older agents included.  *)
(*                                                                         *)
(* The one step that is not routine is Load, which takes the largest of a  *)
(* set of sequence numbers.  Such a number exists because the set is       *)
(* bounded, so the invariant carries a bound along (Bounded).              *)
(*                                                                         *)
(* At the end, what may make a fact leave a running queue.                 *)
(***************************************************************************)
EXTENDS Outbox, WellFoundedInduction, TLAPS

\* Some number bounds the sequence numbers in memory and in the files.
AtMost(S, N) == \A i \in S : i.seq <= N

Bounded ==
  \E N \in Nat : AtMost(itemsBySeq \union log \union meta.items, N)

TypeInv == TypeOK /\ Bounded

-----------------------------------------------------------------------------
(* A non-empty bounded set of naturals has a largest element: the gaps     *)
(* below the bound have a least one.                                       *)
LEMMA BoundedMax ==
  ASSUME NEW T \in SUBSET Nat, T # {}, NEW N \in Nat, \A t \in T : t <= N
  PROVE  \E n \in T : \A t \in T : t <= n
<1> DEFINE Less == {ss \in Nat \X Nat : ss[1] < ss[2]}
           Gap == {N - t : t \in T}
<1>1. IsWellFoundedOn(Less, Nat)
  BY NatLessThanWellFounded DEF OpToRel
<1>2. Gap \subseteq Nat /\ Gap # {}
  <2>1. ASSUME NEW t \in T PROVE N - t \in Nat
    OBVIOUS
  <2> QED  BY <2>1
<1>3. \E x \in Gap : \A y \in Gap : ~(<<y, x>> \in Less)
  <2> HIDE DEF Less, Gap
  <2> QED  BY <1>1, <1>2, WFMin, Zenon
<1>4. PICK x \in Gap : \A y \in Gap : ~(<<y, x>> \in Less)
  BY <1>3
<1>5. PICK n \in T : x = N - n
  BY <1>4
<1>6. ASSUME NEW t \in T PROVE t <= n
  <2>1. N - t \in Gap
    OBVIOUS
  <2>2. ~(N - t < x)
    BY <2>1, <1>2, <1>4
  <2> QED  BY <2>2, <1>5
<1> QED  BY <1>6

(* Load reads back items of the two files and nothing else.                *)
LEMMA LoadedFromFiles ==
  ASSUME NEW m, NEW lines
  PROVE  LoadedItems(m, lines) \subseteq lines \union m.items
BY DEF LoadedItems

(* Load's next sequence number is a positive number above every item it    *)
(* loads, and not below the one in the meta file.                          *)
LEMMA LoadedNextAbove ==
  ASSUME NEW m \in Meta, NEW lines \in SUBSET Item, NEW N \in Nat,
         AtMost(lines \union m.items, N)
  PROVE  /\ LoadedNext(m, lines) \in Nat \ {0}
         /\ m.next <= LoadedNext(m, lines)
         /\ \A i \in LoadedItems(m, lines) : i.seq < LoadedNext(m, lines)
<1> DEFINE T == NextCandidates(m, lines)
           B == N + 1 + m.next
<1>1. m.next \in Nat \ {0} /\ m.items \subseteq Item
  BY DEF Meta
<1>2. \A i \in LoadedItems(m, lines) : i.seq \in Nat \ {0} /\ i.seq <= N
  BY <1>1, LoadedFromFiles DEF Item, AtMost
<1>3. T \in SUBSET (Nat \ {0}) /\ m.next \in T /\ B \in Nat
  BY <1>1, <1>2 DEF NextCandidates
<1>4. \A t \in T : t <= B
  BY <1>1, <1>2 DEF NextCandidates
<1>5. \E n \in T : \A t \in T : t <= n
  <2> HIDE DEF T, B
  <2>1. T \in SUBSET Nat /\ T # {}
    BY <1>3
  <2> QED  BY <2>1, <1>3, <1>4, BoundedMax
<1>6. LoadedNext(m, lines) \in T /\ \A t \in T : t <= LoadedNext(m, lines)
  <2>1. LoadedNext(m, lines) = CHOOSE n \in T : \A t \in T : t <= n
    BY DEF LoadedNext
  <2> HIDE DEF T, B
  <2> QED  BY <2>1, <1>5
<1>7. \A i \in LoadedItems(m, lines) : i.seq + 1 \in T
  BY DEF NextCandidates
<1> QED
  <2> HIDE DEF T, B
  <2>1. ASSUME NEW i \in LoadedItems(m, lines) PROVE i.seq < LoadedNext(m, lines)
    <3>1. i.seq \in Nat /\ i.seq + 1 \in T
      BY <1>2, <1>7
    <3>2. i.seq + 1 <= LoadedNext(m, lines) /\ LoadedNext(m, lines) \in Nat
      BY <3>1, <1>3, <1>6
    <3> QED  BY <3>1, <3>2
  <2> QED  BY <1>3, <1>6, <2>1

-----------------------------------------------------------------------------
(* Replacing an item by one that differs in att only changes neither the   *)
(* types, nor the bound, nor the messages.                                 *)
LEMMA Reschedule ==
  ASSUME NEW S \in SUBSET Item, NEW i \in S, NEW a \in {"new", "wait", "due"}
  PROVE  LET T == (S \ {i}) \union {[i EXCEPT !.att = a]}
         IN  /\ T \subseteq Item
             /\ \A O : (\A j \in S : j.msg \in O) => \A j \in T : j.msg \in O
             /\ \A N \in Nat : AtMost(S, N) => AtMost(T, N)
<1>1. /\ [i EXCEPT !.att = a] \in Item
      /\ [i EXCEPT !.att = a].msg = i.msg
      /\ [i EXCEPT !.att = a].seq = i.seq
  BY DEF Item
<1> QED  BY <1>1 DEF AtMost

LEMMA TypeInit == Init => TypeInv
<1> SUFFICES ASSUME Init PROVE TypeInv
  OBVIOUS
<1>1. \A m \in LegacyMsgs : /\ LegacyMeta(m) \in Meta
                            /\ AtMost(LegacyMeta(m).items, 1)
                            /\ Entries(LegacyMeta(m).items) \subseteq EntryType
                            /\ Msgs(LegacyMeta(m).items) \subseteq Message
  BY OutboxAssumption
  DEF LegacyMeta, Meta, Item, AtMost, Entries, Entry, EntryType, Msgs, Message
<1>2. /\ AbsentMeta \in Meta /\ AbsentMeta.items = {}
      /\ Msgs(AbsentMeta.items) = {} /\ Entries(AbsentMeta.items) = {}
  BY DEF AbsentMeta, Meta, Msgs, Entries
<1>3. meta \in Meta /\ Msgs(meta.items) \subseteq Message
  BY <1>1, <1>2 DEF Init
<1>4. Entries(meta.items) \subseteq EntryType
  BY <1>1, <1>2 DEF Init
<1>5. AtMost(meta.items, 1)
  BY <1>1, <1>2 DEF Init, AtMost
<1>6. MemoryTypes /\ FileTypes
  <2>1. meta.stream \in Nat
    BY <1>3 DEF Meta
  <2>2. up \in BOOLEAN /\ torn \in BOOLEAN
    BY DEF Init
  <2>3. /\ streamID \in Nat /\ nextSeq \in Nat \ {0} /\ ackUpto \in Nat
        /\ acksSince \in Nat /\ crashes \in Nat /\ streams \in Nat
        /\ itemsBySeq \subseteq Item /\ log \subseteq Item
    BY <2>1 DEF Init
  <2> QED  BY <1>3, <2>2, <2>3 DEF MemoryTypes, FileTypes
<1>7. OperationTypes
  BY DEF Init, OperationTypes, Points
<1>8. HistoryTypes
  BY <1>3, <1>4 DEF Init, HistoryTypes, Msgs
<1>9. Bounded
  BY <1>5 DEF Init, Bounded
<1> QED  BY <1>6, <1>7, <1>8, <1>9 DEF TypeInv, TypeOK

LEMMA TypeLoad == TypeInv /\ Load => TypeInv'
<1> SUFFICES ASSUME TypeInv, Load PROVE TypeInv'
  OBVIOUS
<1> USE DEF TypeInv, TypeOK
<1>1. PICK N \in Nat : AtMost(itemsBySeq \union log \union meta.items, N)
  BY DEF Bounded
<1>2. /\ itemsBySeq' \subseteq log \union meta.items
      /\ itemsBySeq' = Recoverable
  BY LoadedFromFiles DEF Load, Recoverable
<1>3. meta.items \subseteq Item /\ meta.stream \in Nat /\ meta.ack \in Nat
  BY DEF FileTypes, Meta
<1>4. LoadedNext(meta, log) \in Nat \ {0}
  <2>1. AtMost(log \union meta.items, N)
    BY <1>1 DEF AtMost
  <2> QED  BY <2>1, LoadedNextAbove DEF FileTypes
<1>5. MemoryTypes' /\ FileTypes'
  BY <1>2, <1>3, <1>4 DEF Load, MemoryTypes, FileTypes, disk
<1>6. OperationTypes'
  BY DEF Load, OperationTypes
<1>7. HistoryTypes'
  <2>1. Entries(Recoverable) \subseteq EntryType
    <3>1. Recoverable \subseteq Item
      BY <1>2, <1>3 DEF FileTypes
    <3> QED  BY <3>1 DEF Entries, Entry, EntryType, Item
  <2> QED  BY <1>2, <2>1 DEF Load, HistoryTypes, disk
<1>8. Bounded'
  BY <1>1, <1>2 DEF Load, Bounded, AtMost, disk
<1> QED  BY <1>5, <1>6, <1>7, <1>8

(* The operations: only an enqueue brings in an item, and its sequence     *)
(* number extends the bound.                                               *)

(* The operations: only an enqueue brings in an item, and its sequence     *)
(* number extends the bound.                                               *)

(* The operations: only an enqueue brings in an item, and its sequence     *)
(* number extends the bound.                                               *)

(* The operations: only an enqueue brings in an item, and its sequence     *)
(* number extends the bound.                                               *)
LEMMA TypeOperation == TypeInv /\ Operation => TypeInv'
<1> SUFFICES ASSUME TypeInv, Operation PROVE TypeInv'
  OBVIOUS
<1> USE DEF TypeInv, TypeOK, vars, memory, disk, history
<1>1. PICK N \in Nat : AtMost(itemsBySeq \union log \union meta.items, N)
  BY DEF Bounded
<1>2. ASSUME NEW m \in Message, NEW k \in Keys \union {NoKey}, EnqueueNew(m, k)
      PROVE  TypeInv'
  <2> DEFINE item == [seq |-> nextSeq, stream |-> streamID, msg |-> m,
                      key |-> k, att |-> "new"]
  <2>1. item \in Item /\ item.seq = nextSeq /\ item.msg = m
    BY DEF Item, MemoryTypes
  <2>2. itemsBySeq' = itemsBySeq \union {item} /\ cur' = item
    BY <1>2 DEF EnqueueNew
  <2>3. MemoryTypes' /\ FileTypes'
    BY <1>2, <2>1, <2>2 DEF EnqueueNew, MemoryTypes, FileTypes
  <2>4. OperationTypes'
    BY <1>2, <2>1, <2>2 DEF EnqueueNew, OperationTypes, Points
  <2>5. HistoryTypes'
    <3> HIDE DEF item
    <3> QED  BY <1>2, <2>1, <2>2 DEF EnqueueNew, HistoryTypes
  <2>6. AtMost(itemsBySeq' \union log' \union meta'.items, N + nextSeq)
    <3>1. N + nextSeq \in Nat /\ N <= N + nextSeq /\ nextSeq <= N + nextSeq
      BY DEF MemoryTypes
    <3>2. \A i \in itemsBySeq \union log \union meta.items : i.seq \in Nat
      BY DEF MemoryTypes, FileTypes, Item, Meta
    <3>3. log' = log /\ meta' = meta
      BY <1>2 DEF EnqueueNew
    <3> QED
      BY <1>1, <2>1, <2>2, <3>1, <3>2, <3>3 DEF AtMost, MemoryTypes
  <2>7. Bounded'
    BY <2>6 DEF Bounded, MemoryTypes
  <2> QED  BY <2>3, <2>4, <2>5, <2>7
<1>3. ASSUME NEW m \in Message, NEW k \in Keys \union {NoKey},
             EnqueueCoalesced(m, k)
      PROVE  TypeInv'
  <2>1. PICK x \in itemsBySeq :
          LET item == [x EXCEPT !.msg = m]
          IN  /\ itemsBySeq' = (itemsBySeq \ {x}) \union {item}
              /\ cur' = item
              /\ settled' = settled \union {x.msg}
    BY <1>3 DEF EnqueueCoalesced, Coalescible
  <2> DEFINE item == [x EXCEPT !.msg = m]
  <2>2. /\ item \in Item /\ item.seq = x.seq /\ item.msg = m
        /\ itemsBySeq' = (itemsBySeq \ {x}) \union {item}
        /\ cur' = item /\ settled' = settled \union {x.msg}
    BY <2>1 DEF Item, MemoryTypes
  <2>3. MemoryTypes' /\ FileTypes'
    BY <1>3, <2>1, <2>2 DEF EnqueueCoalesced, MemoryTypes, FileTypes
  <2>4. OperationTypes'
    BY <1>3, <2>1, <2>2 DEF EnqueueCoalesced, OperationTypes, Points
  <2>5. HistoryTypes'
    <3> HIDE DEF item
    <3> QED  BY <1>3, <2>2 DEF EnqueueCoalesced, HistoryTypes
  <2>6. Bounded'
    BY <1>1, <1>3, <2>1, <2>2 DEF EnqueueCoalesced, Bounded, AtMost
  <2> QED  BY <2>3, <2>4, <2>5, <2>6
<1>4. ASSUME NEW n \in 1..(nextSeq - 1), Acknowledge(n) PROVE TypeInv'
  <2>1. itemsBySeq' \subseteq itemsBySeq /\ n \in Nat
    BY <1>4 DEF Acknowledge, MemoryTypes
  <2>2. MemoryTypes' /\ FileTypes'
    BY <1>4, <2>1 DEF Acknowledge, MemoryTypes, FileTypes
  <2>3. OperationTypes' /\ HistoryTypes'
    BY <1>4, <2>1 DEF Acknowledge, OperationTypes, HistoryTypes, Points, Msgs
  <2>4. Bounded'
    BY <1>1, <1>4, <2>1 DEF Acknowledge, Bounded, AtMost
  <2> QED  BY <2>2, <2>3, <2>4
<1>5. ASSUME NEW s, MarkAttemptSent(s) \/ MarkAttemptFailed(s) PROVE TypeInv'
  <2>1. PICK x \in itemsBySeq :
          itemsBySeq' = (itemsBySeq \ {x}) \union {[x EXCEPT !.att = "wait"]}
    BY <1>5 DEF MarkAttemptSent, MarkAttemptFailed
  <2>2. /\ itemsBySeq' \subseteq Item
        /\ \A O : (\A j \in itemsBySeq : j.msg \in O)
                    => \A j \in itemsBySeq' : j.msg \in O
        /\ AtMost(itemsBySeq', N)
    <3>1. itemsBySeq \in SUBSET Item
      BY DEF MemoryTypes
    <3>2. AtMost(itemsBySeq, N)
      BY <1>1 DEF AtMost
    <3> QED  BY <1>1, <2>1, <3>1, <3>2, Reschedule
  <2>3. /\ UNCHANGED <<up, streamID, nextSeq, ackUpto, acksSince, cur,
                       meta, log, torn, crashes, streams>>
        /\ UNCHANGED <<offered, accepted, settled, issued>>
        /\ pc' = pc \/ pc' = "truncate"
    BY <1>5 DEF MarkAttemptSent, MarkAttemptFailed
  <2>4. MemoryTypes' /\ FileTypes' /\ OperationTypes'
    BY <2>2, <2>3 DEF MemoryTypes, FileTypes, OperationTypes, Points
  <2>5. HistoryTypes'
    BY <2>2, <2>3 DEF HistoryTypes
  <2>6. Bounded'
    BY <1>1, <2>2, <2>3 DEF Bounded, AtMost
  <2> QED  BY <2>4, <2>5, <2>6
<1>6. CASE ResetPendingForRecovery
  <2>1. itemsBySeq' \subseteq itemsBySeq
    BY <1>6 DEF ResetPendingForRecovery
  <2>2. MemoryTypes' /\ FileTypes'
    BY <1>6, <2>1 DEF ResetPendingForRecovery, MemoryTypes, FileTypes
  <2>3. OperationTypes' /\ HistoryTypes'
    BY <1>6, <2>1
    DEF ResetPendingForRecovery, OperationTypes, HistoryTypes, Points, Msgs
  <2>4. Bounded'
    BY <1>1, <1>6, <2>1 DEF ResetPendingForRecovery, Bounded, AtMost
  <2> QED  BY <2>2, <2>3, <2>4
<1> QED  BY <1>2, <1>3, <1>4, <1>5, <1>6 DEF Operation

(* The end of an operation: the enqueued item becomes visible.             *)
LEMMA TypeReturn ==
  ASSUME TypeOK, NEW ok, Return(ok), UNCHANGED <<itemsBySeq, offered, settled>>,
         log' = log, meta'.items \subseteq meta.items
  PROVE  OperationTypes' /\ HistoryTypes'
<1> USE DEF TypeOK
<1>1. OperationTypes'
  BY DEF Return, OperationTypes, Points
<1>2. issued' \subseteq EntryType
  <2>1. ASSUME cur \in Item PROVE Entry(cur) \in EntryType
    BY <2>1 DEF Entry, EntryType, Item
  <2> QED  BY <2>1 DEF Return, HistoryTypes, OperationTypes
<1>3. accepted' \subseteq offered
  BY DEF Return, HistoryTypes, OperationTypes
<1>4. \A i \in itemsBySeq' \union log' \union meta'.items : i.msg \in offered'
  BY DEF HistoryTypes
<1>5. cur' # NoItem => cur'.msg \in offered'
  BY DEF Return
<1> QED  BY <1>1, <1>2, <1>3, <1>4, <1>5 DEF HistoryTypes

(* The disk writes: the files only ever receive items of the queue.        *)
LEMMA TypeDiskStep == TypeInv /\ DiskStep => TypeInv'
<1> SUFFICES ASSUME TypeInv, DiskStep PROVE TypeInv'
  OBVIOUS
<1> USE DEF TypeInv, TypeOK, memory, disk, history
<1>1. PICK N \in Nat : AtMost(itemsBySeq \union log \union meta.items, N)
  BY DEF Bounded
<1>2. CASE AppendLine
  <2>1. cur \in Item
    BY <1>2 DEF AppendLine, OperationTypes
  <2>2. log' \subseteq log \union {cur} /\ torn' = FALSE
    BY <1>2 DEF AppendLine
  <2>3. MemoryTypes' /\ FileTypes'
    BY <1>2, <2>1, <2>2 DEF AppendLine, MemoryTypes, FileTypes
  <2>4. OperationTypes'
    BY <1>2 DEF AppendLine, OperationTypes, Points
  <2>5. HistoryTypes'
    <3>1. cur.msg \in offered
      BY <2>1, NoItemAssumption DEF HistoryTypes
    <3>2. \A i \in log' : i.msg \in offered
      BY <2>2, <3>1 DEF HistoryTypes
    <3> QED  BY <1>2, <3>2 DEF AppendLine, HistoryTypes
  <2>6. Bounded'
    <3>1. /\ cur.seq \in Nat
          /\ \A i \in itemsBySeq \union log \union meta.items : i.seq \in Nat
      BY <2>1 DEF Item, MemoryTypes, FileTypes, Meta
    <3>2. itemsBySeq' = itemsBySeq /\ meta' = meta
      BY <1>2 DEF AppendLine
    <3>3. AtMost(itemsBySeq' \union log' \union meta'.items, N + cur.seq)
      BY <1>1, <2>2, <3>1, <3>2 DEF AtMost
    <3> QED  BY <3>1, <3>3 DEF Bounded
  <2> QED  BY <2>3, <2>4, <2>5, <2>6
<1>3. CASE AppendFails
  <2>1. MemoryTypes' /\ FileTypes'
    <3>1. torn' \in BOOLEAN
      BY <1>3 DEF AppendFails, FileTypes
    <3> QED  BY <1>3, <3>1 DEF AppendFails, MemoryTypes, FileTypes
  <2>2. OperationTypes' /\ HistoryTypes'
    <3>1. CASE pc = "append"
      BY <1>3, <3>1, TypeReturn DEF AppendFails
    <3>2. CASE pc # "append"
      BY <1>3, <3>2 DEF AppendFails, OperationTypes, HistoryTypes, Points
    <3> QED  BY <3>1, <3>2
  <2>3. Bounded'
    BY <1>3 DEF AppendFails, Bounded
  <2> QED  BY <2>1, <2>2, <2>3
<1>4. CASE CompactLog
  <2>1. log' \subseteq itemsBySeq /\ torn' = FALSE
    BY <1>4 DEF CompactLog
  <2>2. MemoryTypes' /\ FileTypes'
    BY <1>4, <2>1 DEF CompactLog, MemoryTypes, FileTypes
  <2>3. OperationTypes' /\ HistoryTypes'
    BY <1>4, <2>1 DEF CompactLog, OperationTypes, HistoryTypes, Points
  <2>4. Bounded'
    BY <1>1, <1>4, <2>1 DEF CompactLog, Bounded, AtMost
  <2> QED  BY <2>2, <2>3, <2>4
<1>5. CASE TruncateMeta
  <2>1. EmptyMeta \in Meta /\ EmptyMeta.items = {}
    BY DEF EmptyMeta, AbsentMeta, Meta
  <2>2. MemoryTypes' /\ FileTypes'
    BY <1>5, <2>1 DEF TruncateMeta, MemoryTypes, FileTypes
  <2>3. OperationTypes' /\ HistoryTypes'
    BY <1>5, <2>1 DEF TruncateMeta, OperationTypes, HistoryTypes, Points
  <2>4. Bounded'
    BY <1>1, <1>5, <2>1 DEF TruncateMeta, Bounded, AtMost
  <2> QED  BY <2>2, <2>3, <2>4
<1>6. CASE WriteMeta
  <2>1. meta' \in Meta /\ meta'.items = {}
    BY <1>6 DEF WriteMeta, Meta, MemoryTypes
  <2>2. MemoryTypes' /\ FileTypes'
    BY <1>6, <2>1 DEF WriteMeta, MemoryTypes, FileTypes
  <2>3. OperationTypes' /\ HistoryTypes'
    BY <1>6, <2>1, TypeReturn DEF WriteMeta
  <2>4. Bounded'
    BY <1>1, <1>6, <2>1 DEF WriteMeta, Bounded, AtMost
  <2> QED  BY <2>2, <2>3, <2>4
<1>7. CASE CompactFails \/ PersistMetaFails
  <2>1. Return(FALSE) /\ UNCHANGED <<up, memory, disk, crashes, streams,
                                     offered, settled>>
    BY <1>7 DEF CompactFails, PersistMetaFails
  <2>2. MemoryTypes' /\ FileTypes'
    BY <2>1 DEF MemoryTypes, FileTypes
  <2>3. OperationTypes' /\ HistoryTypes'
    BY <2>1, TypeReturn
  <2>4. Bounded'
    BY <2>1 DEF Bounded
  <2> QED  BY <2>2, <2>3, <2>4
<1> QED
  BY <1>2, <1>3, <1>4, <1>5, <1>6, <1>7 DEF DiskStep

LEMMA TypeNext == TypeInv /\ [Next]_vars => TypeInv'
<1> SUFFICES ASSUME TypeInv, [Next]_vars PROVE TypeInv'
  OBVIOUS
<1> USE DEF TypeInv, TypeOK, memory, disk, history
<1>1. CASE Crash
  <2>1. MemoryTypes'
    <3>1. up' \in BOOLEAN
      BY <1>1 DEF Crash
    <3> QED  BY <1>1, <3>1 DEF Crash, MemoryTypes
  <2>2. OperationTypes' /\ FileTypes' /\ HistoryTypes'
    BY <1>1 DEF Crash, OperationTypes, FileTypes, HistoryTypes, Points
  <2>3. Bounded'
    BY <1>1 DEF Crash, Bounded, AtMost
  <2> QED  BY <2>1, <2>2, <2>3
<1>2. ASSUME NEW i \in itemsBySeq, BecomeDue(i) PROVE TypeInv'
  <2>1. PICK N \in Nat : AtMost(itemsBySeq \union log \union meta.items, N)
    BY DEF Bounded
  <2>2. itemsBySeq' = (itemsBySeq \ {i}) \union {[i EXCEPT !.att = "due"]}
    BY <1>2 DEF BecomeDue
  <2>3. /\ itemsBySeq' \subseteq Item
        /\ \A O : (\A j \in itemsBySeq : j.msg \in O)
                    => \A j \in itemsBySeq' : j.msg \in O
        /\ AtMost(itemsBySeq', N)
    <3>1. itemsBySeq \in SUBSET Item
      BY DEF MemoryTypes
    <3>2. AtMost(itemsBySeq, N)
      BY <2>1 DEF AtMost
    <3> QED  BY <2>1, <2>2, <3>1, <3>2, Reschedule
  <2>4. MemoryTypes' /\ FileTypes' /\ OperationTypes'
    BY <1>2, <2>3 DEF BecomeDue, MemoryTypes, FileTypes, OperationTypes
  <2>5. HistoryTypes'
    BY <1>2, <2>3 DEF BecomeDue, HistoryTypes
  <2>6. Bounded'
    BY <1>2, <2>1, <2>3 DEF BecomeDue, Bounded, AtMost
  <2> QED  BY <2>4, <2>5, <2>6
<1>3. CASE UNCHANGED vars
  BY <1>3 DEF vars, MemoryTypes, OperationTypes, FileTypes, HistoryTypes, Bounded
<1> QED
  BY <1>1, <1>2, <1>3, TypeLoad, TypeOperation, TypeDiskStep DEF Next

(* Whatever the crash points and disk faults, the queue, its files and     *)
(* their histories keep their types; in particular Load always finds a     *)
(* next sequence number (queue.go:85-163).                                 *)
THEOREM TypeCorrect == Spec => []TypeOK
<1>1. TypeInv => TypeOK
  BY DEF TypeInv
<1> QED  BY TypeInit, TypeNext, <1>1, PTL DEF Spec

(* The same with the bound, for the proofs that build on it.               *)
THEOREM TypeInvariant == Spec => []TypeInv
BY TypeInit, TypeNext, PTL DEF Spec

-----------------------------------------------------------------------------
\* The queue of a process that is not running is empty.
DownEmpty == ~up => itemsBySeq = {}

LEMMA DownStaysEmpty == TypeInv /\ DownEmpty /\ [Next]_vars => DownEmpty'
<1> SUFFICES ASSUME DownEmpty, [Next]_vars PROVE DownEmpty'
  OBVIOUS
<1>1. CASE Load
  BY <1>1 DEF Load, DownEmpty
<1>2. CASE Operation \/ \E i \in itemsBySeq : BecomeDue(i)
  BY <1>2 DEF Operation, EnqueueNew, EnqueueCoalesced, Acknowledge, MarkAttemptSent,
     MarkAttemptFailed, ResetPendingForRecovery, BecomeDue, Idle, DownEmpty
<1>3. CASE DiskStep
  BY <1>3 DEF DiskStep, AppendLine, AppendFails, CompactLog, CompactFails, TruncateMeta,
     WriteMeta, PersistMetaFails, memory, DownEmpty
<1>4. CASE Crash \/ UNCHANGED vars
  BY <1>4 DEF Crash, vars, memory, DownEmpty
<1> QED  BY <1>1, <1>2, <1>3, <1>4 DEF Next

\* What a step keeps of item i.
Keeps(i) == \E j \in itemsBySeq' : j.seq = i.seq /\ (j.msg = i.msg \/ j = cur')

(* Changing att keeps every item's number and message.                     *)
LEMMA RescheduleKeeps ==
  ASSUME TypeInv, NEW i \in itemsBySeq, NEW j \in itemsBySeq,
         NEW a \in {"new", "wait", "due"},
         itemsBySeq' = (itemsBySeq \ {j}) \union {[j EXCEPT !.att = a]}
  PROVE  Keeps(i)
<1>1. j \in Item
  BY DEF TypeInv, TypeOK, MemoryTypes
<1>2. [j EXCEPT !.att = a].seq = j.seq /\ [j EXCEPT !.att = a].msg = j.msg
  BY <1>1 DEF Item
<1> QED  BY <1>2 DEF Keeps

LEMMA StepKeepsFacts ==
  ASSUME TypeInv, DownEmpty, [Next]_vars, NEW i \in itemsBySeq,
         up', i.msg \in Facts, ackUpto' < i.seq
  PROVE  Keeps(i)
<1>1. itemsBySeq \subseteq Item /\ i.msg \notin Signals
  BY OutboxAssumption DEF TypeInv, TypeOK, MemoryTypes
<1>2. ASSUME itemsBySeq \subseteq itemsBySeq' PROVE Keeps(i)
  BY <1>2 DEF Keeps
<1>3. CASE Load
  BY <1>3 DEF Load, DownEmpty
<1>4. ASSUME NEW m \in Message, NEW k \in Keys \union {NoKey}, EnqueueNew(m, k)
      PROVE  Keeps(i)
  BY <1>2, <1>4 DEF EnqueueNew
<1>5. ASSUME NEW m \in Message, NEW k \in Keys \union {NoKey}, EnqueueCoalesced(m, k)
      PROVE  Keeps(i)
  <2>1. PICK e \in Coalescible(k) :
          /\ itemsBySeq' = (itemsBySeq \ {e}) \union {[e EXCEPT !.msg = m]}
          /\ cur' = [e EXCEPT !.msg = m]
    BY <1>5 DEF EnqueueCoalesced
  <2>2. [e EXCEPT !.msg = m].seq = e.seq
    BY <1>1 DEF Coalescible, Item
  <2> QED  BY <2>1, <2>2 DEF Keeps
<1>6. ASSUME NEW n \in 1..(nextSeq - 1), Acknowledge(n) PROVE Keeps(i)
  BY <1>6 DEF Acknowledge, Keeps
<1>7. ASSUME NEW j \in itemsBySeq, MarkAttemptSent(j.seq) \/ MarkAttemptFailed(j.seq)
      PROVE  Keeps(i)
  BY <1>7, RescheduleKeeps DEF MarkAttemptSent, MarkAttemptFailed
<1>8. CASE ResetPendingForRecovery
  BY <1>1, <1>8 DEF ResetPendingForRecovery, Keeps
<1>9. ASSUME NEW j \in itemsBySeq, BecomeDue(j) PROVE Keeps(i)
  BY <1>9, RescheduleKeeps DEF BecomeDue
<1>10. CASE DiskStep
  BY <1>2, <1>10 DEF DiskStep, AppendLine, AppendFails, CompactLog, CompactFails,
     TruncateMeta, WriteMeta, PersistMetaFails, memory
<1>11. CASE Crash \/ UNCHANGED vars
  BY <1>2, <1>11 DEF Crash, vars, memory
<1> QED
  BY <1>3, <1>4, <1>5, <1>6, <1>7, <1>8, <1>9, <1>10, <1>11 DEF Next, Operation

(* events.go:80-83: whatever the order of acknowledgements, attempts,      *)
(* retries and recoveries, a running queue lets go of a fact only when an  *)
(* acknowledgement covers it or a message with its key replaces it.        *)
THEOREM FactsLeave == Spec => FactsLeaveByAckOnly
<1>1. Init => DownEmpty
  BY DEF Init, DownEmpty
<1>2. TypeInv /\ DownEmpty /\ [Next]_vars =>
        [\A i \in itemsBySeq :
           up' /\ i.msg \in Facts /\ ackUpto' < i.seq =>
             \E j \in itemsBySeq' : j.seq = i.seq /\ (j.msg = i.msg \/ j = cur')]_vars
  BY StepKeepsFacts DEF Keeps
<1> QED
  BY <1>1, <1>2, DownStaysEmpty, TypeInvariant, PTL DEF Spec, FactsLeaveByAckOnly
=============================================================================
