--------------------------- MODULE DispatchProofs ---------------------------
(***************************************************************************)
(* Theorems about dashboard commands, for any number of commands, runners, *)
(* copies, failing saves and crashes: the type invariant, and, of every    *)
(* tracked command that is not exposed (no copy of it came before the      *)
(* mark, and no receipt of it was evicted or lost with the process),       *)
(*                                                                         *)
(*   - it is executed once;                                                *)
(*   - its result lies behind a finished receipt;                          *)
(*   - all answers to it agree;                                            *)
(*   - it lives the life of a command of OnceExecutor.                     *)
(***************************************************************************)
EXTENDS CommandDispatch, FiniteSetTheorems, SequenceTheorems, TLAPS

-----------------------------------------------------------------------------
(* The inbox.                                                              *)
TrackedIds == Commands \ Streaming

IsBox(box) ==
  /\ box \in Seq(Receipt)
  /\ \A k \in 1 .. Len(box) : box[k].cmd \in TrackedIds
  /\ \A j, k \in 1 .. Len(box) : box[j].cmd = box[k].cmd => j = k

(* A receipt that is there says what the command's status is.              *)
LEMMA StatusFound ==
  ASSUME NEW box, IsBox(box), NEW k \in 1 .. Len(box)
  PROVE  Holds(box, box[k].cmd) /\ StatusIn(box, box[k].cmd) = box[k].status
<1>1. DOMAIN box = 1 .. Len(box)
  BY LenProperties DEF IsBox
<1>2. Holds(box, box[k].cmd)
  BY <1>1 DEF Holds
<1>3. /\ PositionOf(box, box[k].cmd) \in 1 .. Len(box)
      /\ box[PositionOf(box, box[k].cmd)].cmd = box[k].cmd
  BY <1>1 DEF PositionOf
<1>4. PositionOf(box, box[k].cmd) = k
  BY <1>3 DEF IsBox
<1> QED  BY <1>2, <1>4 DEF StatusIn

(* A status is that of a receipt, or there is none.                        *)
LEMMA StatusLost ==
  ASSUME NEW box, IsBox(box), NEW c
  PROVE  \/ ~Holds(box, c) /\ StatusIn(box, c) = "none"
         \/ \E k \in 1 .. Len(box) : box[k].cmd = c /\ StatusIn(box, c) = box[k].status
<1>1. DOMAIN box = 1 .. Len(box)
  BY LenProperties DEF IsBox
<1>2. CASE Holds(box, c)
  <2>1. PICK k \in 1 .. Len(box) : box[k].cmd = c
    BY <1>1, <1>2 DEF Holds
  <2> QED  BY <2>1, StatusFound
<1>3. CASE ~Holds(box, c)
  BY <1>3 DEF StatusIn
<1> QED  BY <1>2, <1>3

LEMMA StatusTyped ==
  ASSUME NEW box, IsBox(box), NEW c
  PROVE  /\ StatusIn(box, c) \in Finished \union {"running", "none"}
         /\ Holds(box, c) <=> StatusIn(box, c) # "none"
<1>1. \A k \in 1 .. Len(box) : box[k].status \in Finished \union {"running"}
  <2> TAKE k \in 1 .. Len(box)
  <2>1. box[k] \in Receipt
    BY ElementOfSeq DEF IsBox
  <2> QED  BY <2>1 DEF Receipt
<1> QED  BY <1>1, StatusLost, StatusFound DEF Finished

\* What a box is to a former one: no receipt was added, and c's is gone.
Without(others, box, c) ==
  /\ \A j \in 1 .. Len(others) :
       others[j].cmd # c /\ \E k \in 1 .. Len(box) : others[j] = box[k]
  /\ \A k \in 1 .. Len(box) :
       box[k].cmd # c => \E j \in 1 .. Len(others) : others[j] = box[k]

LEMMA RemoveFormer ==
  ASSUME NEW box, IsBox(box), NEW c, Holds(box, c)
  PROVE  LET others == RemoveAt(box, PositionOf(box, c))
         IN  IsBox(others) /\ Len(others) < Len(box) /\ Without(others, box, c)
<1> DEFINE p == PositionOf(box, c)
           front == SubSeq(box, 1, p - 1)
           back == SubSeq(box, p + 1, Len(box))
           others == RemoveAt(box, p)
<1>1. DOMAIN box = 1 .. Len(box) /\ Len(box) \in Nat
      /\ \A k \in 1 .. Len(box) : box[k] \in Receipt
  BY LenProperties, ElementOfSeq DEF IsBox
<1>2. p \in 1 .. Len(box) /\ box[p].cmd = c
  BY <1>1 DEF PositionOf, Holds
<1> HIDE DEF p
<1>3. /\ front \in Seq(Receipt) /\ Len(front) = p - 1
      /\ \A i \in 1 .. p - 1 : front[i] = box[i]
  BY <1>1, <1>2, SubSeqProperties
<1>4. /\ back \in Seq(Receipt) /\ Len(back) = Len(box) - p
      /\ \A i \in 1 .. Len(box) - p : back[i] = box[p + i]
  <2>1. /\ p + 1 \in Int /\ Len(box) \in Int
        /\ \A i \in p + 1 .. Len(box) : box[i] \in Receipt
    BY <1>1, <1>2
  <2>2. /\ back \in Seq(Receipt)
        /\ Len(back) = IF p + 1 <= Len(box) THEN Len(box) - (p + 1) + 1 ELSE 0
        /\ \A i \in 1 .. Len(box) - (p + 1) + 1 : back[i] = box[(p + 1) + i - 1]
    BY <2>1, SubSeqProperties
  <2>3. Len(box) - (p + 1) + 1 = Len(box) - p
        /\ \A i \in 1 .. Len(box) - p : (p + 1) + i - 1 = p + i
    BY <1>1, <1>2
  <2>4. CASE p + 1 <= Len(box)
    BY <2>2, <2>3, <2>4
  <2>5. CASE ~(p + 1 <= Len(box))
    <3>a. p \in Int /\ Len(box) \in Int /\ p <= Len(box)
      BY <1>1, <1>2
    <3>1. Len(box) - p = 0
      BY <2>5, <3>a
    <3> QED  BY <2>2, <2>3, <2>5, <3>1
  <2> QED  BY <2>4, <2>5
<1>5. others = front \o back
  BY DEF RemoveAt
<1> HIDE DEF front, back, others
<1>6. /\ others \in Seq(Receipt) /\ Len(others) = Len(box) - 1
      /\ \A i \in 1 .. Len(box) - 1 : others[i] = IF i < p THEN box[i] ELSE box[i + 1]
  <2>1. /\ others \in Seq(Receipt) /\ Len(others) = Len(front) + Len(back)
        /\ \A i \in 1 .. Len(front) + Len(back) :
             others[i] = IF i <= Len(front) THEN front[i] ELSE back[i - Len(front)]
    BY <1>3, <1>4, <1>5, ConcatProperties
  <2>2. Len(front) + Len(back) = Len(box) - 1
    BY <1>1, <1>2, <1>3, <1>4
  <2>3. ASSUME NEW i \in 1 .. Len(box) - 1
        PROVE  others[i] = IF i < p THEN box[i] ELSE box[i + 1]
    <3>1. CASE i < p
      BY <1>1, <1>2, <1>3, <2>1, <2>2, <3>1
    <3>2. CASE ~(i < p)
      <4>1. i - (p - 1) \in 1 .. Len(box) - p /\ ~(i <= p - 1) /\ p + (i - (p - 1)) = i + 1
        BY <1>1, <1>2, <3>2
      <4>2. others[i] = back[i - (p - 1)]
        BY <1>3, <2>1, <2>2, <4>1
      <4> QED  BY <1>4, <3>2, <4>1, <4>2
    <3> QED  BY <3>1, <3>2
  <2> QED  BY <2>1, <2>2, <2>3
<1>7. \A i \in 1 .. Len(others) : \E k \in 1 .. Len(box) \ {p} :
        others[i] = box[k] /\ k = IF i < p THEN i ELSE i + 1
  BY <1>1, <1>2, <1>6
<1>8. IsBox(others)
  <2>1. \A k \in 1 .. Len(others) : others[k].cmd \in TrackedIds
    BY <1>7 DEF IsBox
  <2>2. ASSUME NEW j \in 1 .. Len(others), NEW k \in 1 .. Len(others),
               others[j].cmd = others[k].cmd
        PROVE  j = k
    <3> DEFINE was(i) == IF i < p THEN i ELSE i + 1
    <3>1. /\ was(j) \in 1 .. Len(box) /\ others[j] = box[was(j)]
          /\ was(k) \in 1 .. Len(box) /\ others[k] = box[was(k)]
      BY <1>7
    <3>2. was(j) = was(k)
      BY <2>2, <3>1 DEF IsBox
    <3>3. p \in Int /\ j \in Int /\ k \in Int
      BY <1>2
    <3> QED  BY <3>2, <3>3
  <2> QED  BY <1>6, <2>1, <2>2 DEF IsBox
<1>9. ASSUME NEW k \in 1 .. Len(box), box[k].cmd # c
      PROVE  \E j \in 1 .. Len(others) : others[j] = box[k]
  <2>1. k # p
    BY <1>2, <1>9
  <2>2. CASE k < p
    BY <1>1, <1>2, <1>6, <2>2
  <2>3. CASE p < k
    <3>1. k - 1 \in 1 .. Len(others) /\ others[k - 1] = box[k]
      BY <1>1, <1>2, <1>6, <2>3
    <3> QED  BY <3>1
  <2> QED  BY <1>2, <2>1, <2>2, <2>3
<1>10. \A j \in 1 .. Len(others) : others[j].cmd # c
  BY <1>2, <1>7 DEF IsBox
<1>11. Without(others, box, c)
  BY <1>7, <1>9, <1>10 DEF Without
<1> QED  BY <1>1, <1>6, <1>8, <1>11 DEF others, p

\* The receipts without the command's former one.
Others(box, c) == IF Holds(box, c) THEN RemoveAt(box, PositionOf(box, c)) ELSE box

LEMMA OthersKept ==
  ASSUME NEW box, IsBox(box), NEW c
  PROVE  /\ IsBox(Others(box, c)) /\ Len(Others(box, c)) <= Len(box)
         /\ Without(Others(box, c), box, c)
<1>1. DOMAIN box = 1 .. Len(box) /\ Len(box) \in Nat
  BY LenProperties DEF IsBox
<1>2. CASE Holds(box, c)
  <2>1. Len(Others(box, c)) \in Nat
    BY <1>2, RemoveFormer, LenProperties DEF Others, IsBox
  <2> QED  BY <1>1, <1>2, <2>1, RemoveFormer DEF Others
<1>3. CASE ~Holds(box, c)
  BY <1>1, <1>3 DEF Others, Holds, Without
<1> QED  BY <1>2, <1>3

\* The receipts before one of them may be dropped.
Next1(box, c, s) == Append(Others(box, c), [cmd |-> c, status |-> s])

LEMMA AppendedBox ==
  ASSUME NEW box, IsBox(box), NEW c \in TrackedIds, NEW s \in Finished \union {"running"}
  PROVE  /\ IsBox(Next1(box, c, s)) /\ Next1(box, c, s) # << >>
         /\ Len(Next1(box, c, s)) = Len(Others(box, c)) + 1
         /\ \A j \in 1 .. Len(Others(box, c)) : Next1(box, c, s)[j] = Others(box, c)[j]
         /\ Next1(box, c, s)[Len(Others(box, c)) + 1] = [cmd |-> c, status |-> s]
<1> DEFINE others == Others(box, c)
           new == [cmd |-> c, status |-> s]
           next == Append(others, new)
<1>1. IsBox(others) /\ Without(others, box, c)
  BY OthersKept
<1>2. new \in Receipt /\ new.cmd = c /\ c \in TrackedIds
  BY DEF Receipt, TrackedIds
<1> HIDE DEF others, new
<1>3. /\ next \in Seq(Receipt) /\ Len(next) = Len(others) + 1
      /\ \A j \in 1 .. Len(others) : next[j] = others[j]
      /\ next[Len(others) + 1] = new /\ Len(others) \in Nat
  BY <1>1, <1>2, AppendProperties, LenProperties DEF IsBox
<1> HIDE DEF next
<1>4. \A j \in 1 .. Len(next) : j \in 1 .. Len(others) \/ j = Len(others) + 1
  BY <1>3
<1>5. IsBox(next)
  <2>1. \A k \in 1 .. Len(next) : next[k].cmd \in TrackedIds
    BY <1>1, <1>2, <1>3, <1>4 DEF IsBox
  <2>2. \A j, k \in 1 .. Len(next) : next[j].cmd = next[k].cmd => j = k
    <3>1. \A j \in 1 .. Len(others) : next[j].cmd # c /\ next[j] = others[j]
      BY <1>1, <1>3 DEF Without
    <3>2. \A j \in 1 .. Len(next) : j \in 1 .. Len(others) <=> next[j].cmd # c
      BY <1>2, <1>3, <1>4, <3>1
    <3>3. \A j, k \in 1 .. Len(others) : others[j].cmd = others[k].cmd => j = k
      BY <1>1 DEF IsBox
    <3> QED  BY <1>4, <3>1, <3>2, <3>3
  <2> QED  BY <1>3, <2>1, <2>2 DEF IsBox
<1>6. next # << >>
  BY <1>3, EmptySeq
<1> QED  BY <1>3, <1>5, <1>6 DEF next, others, new, Next1

LEMMA UpsertIsNext ==
  \A box, c, s : Upsert(box, c, s) =
    IF Len(Next1(box, c, s)) > Cap THEN Tail(Next1(box, c, s)) ELSE Next1(box, c, s)
  BY DEF Upsert, Next1, Others

LEMMA UpsertKeepsBox ==
  ASSUME NEW box, IsBox(box), Len(box) <= Cap,
         NEW c \in TrackedIds, NEW s \in Finished \union {"running"}
  PROVE  IsBox(Upsert(box, c, s)) /\ Len(Upsert(box, c, s)) <= Cap
<1> DEFINE next == Next1(box, c, s)
<1>1. /\ IsBox(next) /\ next # << >> /\ Len(next) \in Nat /\ Cap \in Nat
      /\ Len(next) <= Cap + 1
  <2>1. Len(box) \in Nat /\ Len(Others(box, c)) \in Nat /\ Cap \in Nat
    BY OthersKept, LenProperties, DispatchAssumption DEF DispatchAssumption, IsBox
  <2>2. IsBox(next) /\ next # << >> /\ Len(next) = Len(Others(box, c)) + 1
    BY AppendedBox
  <2>3. Len(Others(box, c)) <= Len(box)
    BY OthersKept
  <2> QED  BY <2>1, <2>2, <2>3
<1> HIDE DEF next
<1>2. /\ Tail(next) \in Seq(Receipt) /\ Len(Tail(next)) = Len(next) - 1
      /\ \A i \in 1 .. Len(next) - 1 : Tail(next)[i] = next[i + 1]
  BY <1>1, HeadTailProperties DEF IsBox
<1>3. IsBox(Tail(next))
  <2>1. \A i \in 1 .. Len(Tail(next)) : i + 1 \in 1 .. Len(next) /\ Tail(next)[i] = next[i + 1]
    BY <1>1, <1>2
  <2>2. \A i, j \in 1 .. Len(Tail(next)) : i + 1 = j + 1 => i = j
    BY <1>1, <1>2
  <2> QED  BY <1>1, <1>2, <2>1, <2>2 DEF IsBox
<1>4. Upsert(box, c, s) = IF Len(next) > Cap THEN Tail(next) ELSE next
  BY UpsertIsNext DEF next
<1> QED  BY <1>1, <1>2, <1>3, <1>4

(* The receipt that is kept last is the one just made.                     *)
LEMMA UpsertRemembers ==
  ASSUME NEW box, IsBox(box), Len(box) <= Cap,
         NEW c \in TrackedIds, NEW s \in Finished \union {"running"}
  PROVE  StatusIn(Upsert(box, c, s), c) = s
<1> DEFINE next == Next1(box, c, s)
           n == Len(Others(box, c)) + 1
           new == [cmd |-> c, status |-> s]
<1>1. /\ IsBox(next) /\ next # << >> /\ Len(next) = n /\ next[n] = new
      /\ Len(Others(box, c)) \in Nat
  BY AppendedBox, OthersKept, LenProperties DEF IsBox
<1>2. new.cmd = c /\ new.status = s /\ Cap \in Nat \ {0}
  BY DispatchAssumption DEF DispatchAssumption
<1>3. Upsert(box, c, s) = IF Len(next) > Cap THEN Tail(next) ELSE next
  BY UpsertIsNext DEF next
<1>4. /\ Len(Tail(next)) = Len(next) - 1
      /\ \A i \in 1 .. Len(next) - 1 : Tail(next)[i] = next[i + 1]
  BY <1>1, HeadTailProperties DEF IsBox
<1>5. IsBox(Upsert(box, c, s))
  BY UpsertKeepsBox
<1> HIDE DEF next, n, new
<1>6. CASE Len(next) > Cap
  <2>1. n - 1 \in 1 .. Len(next) - 1 /\ (n - 1) + 1 = n
    BY <1>1, <1>2, <1>6 DEF n
  <2>2. n - 1 \in 1 .. Len(Tail(next)) /\ Tail(next)[n - 1] = new
    BY <1>1, <1>4, <2>1
  <2>3. IsBox(Tail(next)) /\ Upsert(box, c, s) = Tail(next)
    BY <1>3, <1>5, <1>6
  <2> QED  BY <1>2, <2>2, <2>3, StatusFound
<1>7. CASE ~(Len(next) > Cap)
  <2>1. n \in 1 .. Len(next) /\ Upsert(box, c, s) = next
    BY <1>1, <1>3, <1>7 DEF n
  <2> QED  BY <1>1, <1>2, <2>1, StatusFound
<1> QED  BY <1>6, <1>7

-----------------------------------------------------------------------------
(* Types.                                                                  *)
Typed ==
  /\ IsBox(receipts) /\ Len(receipts) <= Cap /\ (file = Torn \/ (IsBox(file) /\ Len(file) <= Cap))
  /\ saver \in Runners \union {NoRunner}
  /\ saver # NoRunner => at[saver] \in {"marked", "recorded"}
  /\ at \in [Runners -> Steps]
  /\ cmd \in [Runners -> Commands \union {NoCommand}]
  /\ outcome \in [Runners -> Finished \union {"none"}]
  /\ queued \subseteq Result /\ told \subseteq Result
  /\ runs \in [Commands -> Nat]
  /\ saved \in BOOLEAN /\ exposed \subseteq Commands
  /\ \A r \in Runners :
       /\ at[r] = "free" <=> cmd[r] = NoCommand
       /\ outcome[r] \in Finished <=> at[r] \in {"record", "recorded", "queue", "signal"}
       /\ at[r] \in {"check", "mark", "marked", "record", "recorded", "queue"} =>
            Tracked(cmd[r])
       /\ at[r] = "signal" => ~Tracked(cmd[r])

LEMMA TypedImplies == Typed => TypeOK
<1> SUFFICES ASSUME Typed PROVE TypeOK
  OBVIOUS
<1>1. DOMAIN receipts = 1 .. Len(receipts) /\ receipts \in Seq(Receipt)
  BY LenProperties DEF Typed, IsBox
<1>2. /\ receipts \in Seq(Receipt) /\ Len(receipts) <= Cap
      /\ \A j, k \in DOMAIN receipts : receipts[j].cmd = receipts[k].cmd => j = k
      /\ file = Torn \/ file \in Seq(Receipt)
  BY <1>1, LenProperties DEF Typed, IsBox
<1>3. /\ saver \in Runners \union {NoRunner}
      /\ saver # NoRunner => at[saver] \in {"marked", "recorded"}
      /\ queued \subseteq Result /\ told \subseteq Result
      /\ saved \in BOOLEAN /\ exposed \subseteq Commands
  BY DEF Typed
<1>4. \A r \in Runners :
       /\ at[r] \in Steps
       /\ cmd[r] \in Commands \union {NoCommand}
       /\ at[r] = "free" <=> cmd[r] = NoCommand
       /\ outcome[r] \in Finished <=> at[r] \in {"record", "recorded", "queue", "signal"}
  BY DEF Typed
<1> QED  BY <1>2, <1>3, <1>4 DEF TypeOK

LEMMA EmptyBox == IsBox(<< >>) /\ Len(<< >>) = 0
  BY EmptySeq DEF IsBox

LEMMA TypedInitially == Init => Typed
<1> SUFFICES ASSUME Init PROVE Typed
  OBVIOUS
<1>1. IsBox(receipts) /\ Len(receipts) <= Cap
  BY EmptyBox, DispatchAssumption DEF Init, DispatchAssumption
<1> QED  BY <1>1 DEF Init, Typed, Steps, Finished

(* What starts the save of a receipt.                                      *)
LEMMA TypedSave ==
  ASSUME Typed, NEW r \in Runners, MarkRunning(r) \/ RecordResult(r)
  PROVE  Typed'
<1> DEFINE status == IF at[r] = "mark" THEN "running" ELSE outcome[r]
<1>1. /\ StartSave(r, status) /\ cmd[r] \in TrackedIds
      /\ status \in Finished \union {"running"} /\ saver = NoRunner
  BY DEF MarkRunning, RecordResult, StartSave, InboxFree, Typed, Tracked, TrackedIds, Steps
<1>2. IsBox(receipts') /\ Len(receipts') <= Cap
  BY <1>1, UpsertKeepsBox DEF StartSave, Typed
<1>3. /\ file' = Torn \/ (IsBox(file') /\ Len(file') <= Cap)
      /\ saver' = r /\ saved' = FALSE /\ exposed' \subseteq Commands
  BY <1>1 DEF StartSave, Typed, Differing
<1>4. CASE MarkRunning(r)
  BY <1>2, <1>3, <1>4 DEF MarkRunning, Goto, Typed, Steps, Finished
<1>5. CASE RecordResult(r)
  BY <1>2, <1>3, <1>5 DEF RecordResult, Goto, Typed, Steps, Finished
<1> QED  BY <1>4, <1>5

LEMMA TypedRunner ==
  ASSUME Typed, NEW r \in Runners,
         \/ Check(r) \/ FinishSave(r) \/ StartCommand(r) \/ FinishCommand(r)
         \/ QueueResult(r) \/ SignalResult(r)
  PROVE  Typed'
<1> USE DEF Typed, Goto, Done, Steps, Finished
<1>a. NoCommand \notin Commands /\ NoRunner \notin Runners
  BY DispatchAssumption DEF DispatchAssumption
<1>1. CASE Check(r)
  <2>1. told' \subseteq Result
    BY <1>1, <1>a DEF Check, Result
  <2>2. saver = NoRunner
    BY <1>1 DEF Check, InboxFree
  <2>3. /\ UNCHANGED <<receipts, file, saver, queued, runs, saved, exposed>>
        /\ \/ at' = [at EXCEPT ![r] = "free"] /\ cmd' = [cmd EXCEPT ![r] = NoCommand]
              /\ outcome' = [outcome EXCEPT ![r] = "none"]
           \/ at' = [at EXCEPT ![r] = "mark"] /\ UNCHANGED <<cmd, outcome>>
    BY <1>1 DEF Check
  <2>4. at[r] = "check"
    BY <1>1 DEF Check
  <2> QED  BY <1>a, <2>1, <2>2, <2>3, <2>4
<1>2. CASE FinishSave(r)
  BY <1>2, <1>a DEF FinishSave
<1>3. CASE StartCommand(r)
  BY <1>3, <1>a DEF StartCommand
<1>4. CASE FinishCommand(r)
  BY <1>4, <1>a DEF FinishCommand
<1>5. CASE QueueResult(r)
  <2>1. [cmd |-> cmd[r], status |-> outcome[r]] \in Result
    BY <1>5, <1>a DEF QueueResult, Result
  <2> QED  BY <1>5, <1>a, <2>1 DEF QueueResult
<1>6. CASE SignalResult(r)
  BY <1>6, <1>a DEF SignalResult
<1> QED  BY <1>1, <1>2, <1>3, <1>4, <1>5, <1>6

LEMMA TypedKept == Typed /\ [Next]_vars => Typed'
<1> SUFFICES ASSUME Typed, [Next]_vars PROVE Typed'
  OBVIOUS
<1>1. ASSUME NEW r \in Runners, NEW c \in Commands, ReceiveCommand(r, c) PROVE Typed'
  <2>1. c # NoCommand /\ NoRunner \notin Runners
    BY DispatchAssumption DEF DispatchAssumption
  <2>2. exposed' \subseteq Commands
    BY <1>1 DEF ReceiveCommand, Typed
  <2> QED  BY <1>1, <2>1, <2>2 DEF ReceiveCommand, Goto, Typed, Steps, Finished
<1>2. CASE CrashRestart
  <2>1. /\ IsBox(receipts') /\ Len(receipts') <= Cap
        /\ saved' = TRUE /\ exposed' \subseteq Commands
    BY <1>2, EmptyBox, DispatchAssumption
       DEF CrashRestart, Loaded, Typed, DispatchAssumption, Differing
  <2> QED  BY <1>2, <2>1 DEF CrashRestart, Typed, Steps, Finished
<1>3. CASE UNCHANGED vars
  BY <1>3 DEF vars, Typed
<1> QED  BY <1>1, <1>2, <1>3, TypedSave, TypedRunner
     DEF Next, RunnerStep, LockingStep, PlainStep

LEMMA Types == Spec => []Typed
  BY TypedInitially, TypedKept, PTL DEF Spec

(* command_dispatch.go, command_inbox.go: the inbox holds one receipt per  *)
(* command and no more than its cap, and every runner's step, command and  *)
(* outcome fit each other, through any copies, races and crashes.          *)
THEOREM DispatchTypes == Spec => []TypeOK
  BY Types, TypedImplies, PTL

-----------------------------------------------------------------------------
(* What follows is about the tracked commands that are not exposed.        *)
Kept == TrackedIds \ exposed

Status(c) == StatusIn(receipts, c)

Arrives(r) == at[r] \in {"check", "mark"}
Past(r) == at[r] \in {"marked", "execute", "executing", "record", "recorded", "queue"}

\* The receipt of a command follows its runner.
Followed(r) ==
  cmd[r] \in Kept =>
    /\ at[r] = "mark" => Status(cmd[r]) = "none"
    /\ at[r] \in {"marked", "execute", "executing", "record"} => Status(cmd[r]) = "running"
    /\ at[r] \in {"recorded", "queue"} => Status(cmd[r]) = outcome[r]
    /\ at[r] \in {"marked", "execute"} => runs[cmd[r]] = 0
    /\ at[r] \in {"executing", "record"} => runs[cmd[r]] = 1

\* No two runners of a command are on the same side of its mark.
Alone ==
  \A r, q \in Runners :
    /\ cmd[r] \in Kept /\ cmd[r] = cmd[q]
    /\ (Arrives(r) /\ Arrives(q)) \/ (Past(r) /\ Past(q))
    => r = q

\* What was executed or answered has its receipt, and the file says of every
\* command what the inbox says, if it was read or written last.
Remembered ==
  /\ saved => \A c \in Commands : StatusIn(file, c) = Status(c)
  /\ \A c \in Kept : runs[c] <= 1 /\ (runs[c] > 0 => Status(c) # "none")
  /\ \A a \in queued \union told : a.cmd \in Kept => Status(a.cmd) = a.status
  /\ \A a \in queued \union told : a.cmd \in TrackedIds

Lives == Alone /\ Remembered /\ \A r \in Runners : Followed(r)

LEMMA LivesInitially == Init => Lives
<1> SUFFICES ASSUME Init PROVE Lives
  OBVIOUS
<1>1. NoCommand \notin TrackedIds
  BY DispatchAssumption DEF DispatchAssumption, TrackedIds
<1> QED  BY <1>1 DEF Init, Lives, Alone, Remembered, Followed, Status, Kept, TrackedIds

(* A receipt is saved for a command that nobody else is past the mark with. *)
LEMMA LivesSave ==
  ASSUME Typed, Lives, NEW r \in Runners, MarkRunning(r) \/ RecordResult(r)
  PROVE  Lives'
<1> DEFINE status == IF at[r] = "mark" THEN "running" ELSE outcome[r]
           c == cmd[r]
<1>1. /\ StartSave(r, status) /\ c \in TrackedIds /\ at[r] \in {"mark", "record"}
      /\ status \in Finished \union {"running"}
      /\ UNCHANGED <<cmd, outcome, queued, told, runs>>
      /\ at' = [at EXCEPT ![r] = IF at[r] = "mark" THEN "marked" ELSE "recorded"]
  BY DEF MarkRunning, RecordResult, StartSave, InboxFree, Typed, Tracked, TrackedIds, Steps, Goto
<1>2. /\ IsBox(receipts) /\ Len(receipts) <= Cap
      /\ receipts' = Upsert(receipts, c, status) /\ saved' = FALSE
  BY <1>1 DEF StartSave, Typed
<1> HIDE DEF status
<1>3. /\ Status(c)' = status
      /\ \A d \in Kept' : d \in Kept /\ (d # c => StatusIn(receipts', d) = Status(d))
  <2>1. StatusIn(Upsert(receipts, c, status), c) = status
    BY <1>1, <1>2, UpsertRemembers
  <2>2. cmd'[r] = c
    BY <1>1
  <2>3. exposed' = exposed \union
          {d \in Commands \ {c} : StatusIn(receipts, d) # StatusIn(receipts', d)}
    BY <1>1 DEF StartSave, Differing
  <2>4. \A d \in Kept' : d \in Kept /\ (d # c => StatusIn(receipts', d) = Status(d))
    BY <2>3 DEF Kept, TrackedIds, Status
  <2> QED  BY <1>2, <2>1, <2>2, <2>4 DEF Status
<1>4. ASSUME c \in Kept
      PROVE  \A q \in Runners \ {r} : cmd[q] = c => ~Past(q) /\ at[q] # "mark"
  <2> SUFFICES ASSUME NEW q \in Runners \ {r}, cmd[q] = c, Past(q) \/ at[q] = "mark"
               PROVE  FALSE
    OBVIOUS
  <2>1. Status(c) = "none" <=> at[r] = "mark"
    BY <1>1, <1>4 DEF Lives, Followed
  <2>2. Status(c) = "none" <=> at[q] = "mark"
    BY <1>1, <1>4 DEF Lives, Followed, Past, Typed, Finished
  <2> QED  BY <1>1, <1>4, <2>1, <2>2 DEF Lives, Alone, Arrives, Past
<1>5. \A q \in Runners \ {r} : at'[q] = at[q]
  BY <1>1 DEF Typed
<1>6. at'[r] = IF at[r] = "mark" THEN "marked" ELSE "recorded"
  BY <1>1 DEF Typed
<1>7. Alone'
  BY <1>1, <1>3, <1>4, <1>5, <1>6 DEF Lives, Alone, Arrives, Past
<1>8. Remembered'
  <2>1. c \in Kept => Status(c) \in {"none", "running"}
    BY <1>1 DEF Lives, Followed
  <2>2. \A a \in queued \union told : a.status \in Finished
    BY DEF Typed, Result
  <2>3. \A a \in queued \union told : a.cmd \in Kept => a.cmd # c
    BY <2>1, <2>2 DEF Lives, Remembered, Finished
  <2>4. status # "none"
    BY <1>1 DEF Finished
  <2>5. \A a \in (queued \union told)' : a.cmd \in Kept' => Status(a.cmd)' = a.status
    BY <1>1, <1>3, <2>3 DEF Lives, Remembered, Status
  <2>6. \A d \in Kept' : runs'[d] <= 1 /\ (runs'[d] > 0 => Status(d)' # "none")
    BY <1>1, <1>3, <2>4 DEF Lives, Remembered, Status
  <2> QED  BY <1>1, <1>2, <2>5, <2>6 DEF Lives, Remembered
<1>9. ASSUME NEW q \in Runners, cmd[q] \in Kept' PROVE Followed(q)'
  <2>0. cmd[q] \in Kept
    BY <1>3, <1>9
  <2>1. CASE q = r
    <3>1. at[r] = "mark" => runs[c] = 0
      BY <1>1, <2>0, <2>1 DEF Lives, Followed, Remembered, Typed, Kept, TrackedIds
    <3> QED  BY <1>1, <1>3, <1>6, <2>0, <2>1, <3>1 DEF Lives, Followed, Status, status
  <2>2. CASE q # r /\ cmd[q] = c
    BY <1>1, <1>4, <1>5, <2>0, <2>2 DEF Followed, Past
  <2>3. CASE q # r /\ cmd[q] # c
    BY <1>1, <1>3, <1>5, <1>9, <2>0, <2>3 DEF Lives, Followed, Status
  <2> QED  BY <2>1, <2>2, <2>3
<1>10. \A q \in Runners : Followed(q)'
  BY <1>1, <1>9 DEF Followed
<1> QED  BY <1>7, <1>8, <1>10 DEF Lives

(* The other steps of a runner leave the receipts alone.                   *)
LEMMA LivesRunner ==
  ASSUME Typed, Lives, NEW r \in Runners,
         \/ Check(r) \/ FinishSave(r) \/ StartCommand(r) \/ FinishCommand(r)
         \/ QueueResult(r) \/ SignalResult(r)
  PROVE  Lives'
<1>a. NoCommand \notin TrackedIds /\ NoRunner \notin Runners
  BY DispatchAssumption DEF DispatchAssumption, TrackedIds
<1>b. /\ receipts' = receipts /\ exposed' = exposed
      /\ \A q \in Runners \ {r} :
           at'[q] = at[q] /\ cmd'[q] = cmd[q] /\ outcome'[q] = outcome[q]
  BY DEF Check, FinishSave, StartCommand, FinishCommand, QueueResult, SignalResult,
         Goto, Done, Typed
<1>c. (\A d : Status(d)' = Status(d)) /\ Kept' = Kept /\ Kept \subseteq TrackedIds
  BY <1>b DEF Status, Kept
<1> USE DEF Typed, Goto, Done
<1>1. CASE Check(r)
  <2>1. /\ at[r] = "check" /\ cmd[r] \in TrackedIds
        /\ UNCHANGED <<receipts, file, saved, queued, runs>>
        /\ \/ cmd'[r] = NoCommand
           \/ cmd'[r] = cmd[r] /\ at'[r] = "mark" /\ Status(cmd[r]) \notin Finished \union {"running"}
    BY <1>1 DEF Check, Status, Tracked, TrackedIds
  <2>2. told' \subseteq told \union {[cmd |-> cmd[r], status |-> Status(cmd[r])]}
    BY <1>1 DEF Check, Status
  <2>3. Status(cmd[r]) \in Finished \union {"running", "none"}
    BY StatusTyped DEF Status
  <2>4. Alone'
    BY <1>a, <1>b, <1>c, <2>1 DEF Lives, Alone, Arrives, Past
  <2>5. Remembered'
    BY <1>c, <2>1, <2>2 DEF Lives, Remembered
  <2>6. \A q \in Runners : Followed(q)'
    BY <1>a, <1>b, <1>c, <2>1, <2>3 DEF Lives, Followed
  <2> QED  BY <2>4, <2>5, <2>6 DEF Lives
<1>2. CASE FinishSave(r)
  <2>1. /\ (file' = receipts) \/ (UNCHANGED <<file, saved>>)
        /\ UNCHANGED <<cmd, outcome, queued, told, runs>>
        /\ at[r] \in {"marked", "recorded"}
        /\ at'[r] = IF at[r] = "marked" THEN "execute" ELSE "queue"
    BY <1>2, <1>a DEF FinishSave
  <2>2. Alone'
    BY <1>b, <1>c, <2>1 DEF Lives, Alone, Arrives, Past
  <2>3. saved' => \A d \in Commands : StatusIn(file', d) = Status(d)'
    BY <1>c, <2>1 DEF Lives, Remembered, Status
  <2>4. Remembered'
    BY <1>b, <1>c, <2>1, <2>3 DEF Lives, Remembered
  <2>5. \A q \in Runners : Followed(q)'
    BY <1>b, <1>c, <2>1 DEF Lives, Followed
  <2> QED  BY <2>2, <2>4, <2>5 DEF Lives
<1>3. CASE StartCommand(r)
  <2>1. /\ UNCHANGED <<file, saved, cmd, outcome, queued, told>>
        /\ at[r] = "execute" /\ at'[r] = "executing"
        /\ \A c \in Commands : runs'[c] = IF c = cmd[r] THEN runs[c] + 1 ELSE runs[c]
    BY <1>3 DEF StartCommand
  <2>2. Alone'
    BY <1>b, <1>c, <2>1 DEF Lives, Alone, Arrives, Past
  <2>3. cmd[r] \in Kept => Status(cmd[r]) = "running" /\ runs[cmd[r]] = 0
    BY <2>1 DEF Lives, Followed
  <2>4. \A c \in Kept : runs'[c] <= 1 /\ (runs'[c] > 0 => Status(c)' # "none")
    BY <1>c, <2>1, <2>3 DEF Lives, Remembered, TrackedIds
  <2>5. Remembered'
    BY <1>b, <1>c, <2>1, <2>4 DEF Lives, Remembered
  <2>6. \A q \in Runners \ {r} : Past(q) /\ cmd[r] \in Kept => cmd[q] # cmd[r]
    BY <2>1 DEF Lives, Alone, Past
  <2>7. \A q \in Runners : Followed(q)'
    BY <1>b, <1>c, <2>1, <2>3, <2>6 DEF Lives, Followed, Past, TrackedIds
  <2> QED  BY <2>2, <2>5, <2>7 DEF Lives
<1>4. CASE FinishCommand(r)
  <2>1. /\ UNCHANGED <<file, saved, cmd, queued, told, runs>>
        /\ at[r] = "executing" /\ at'[r] \in {"record", "signal"}
    BY <1>4 DEF FinishCommand
  <2>2. Alone'
    BY <1>b, <1>c, <2>1 DEF Lives, Alone, Arrives, Past
  <2>3. Remembered'
    BY <1>b, <1>c, <2>1 DEF Lives, Remembered
  <2>4. \A q \in Runners : Followed(q)'
    BY <1>b, <1>c, <2>1 DEF Lives, Followed
  <2> QED  BY <2>2, <2>3, <2>4 DEF Lives
<1>5. CASE QueueResult(r) \/ SignalResult(r)
  <2>1. /\ UNCHANGED <<file, saved, runs>> /\ cmd'[r] = NoCommand /\ at'[r] = "free"
    BY <1>5 DEF QueueResult, SignalResult
  <2>2. \/ /\ cmd[r] \in TrackedIds
           /\ cmd[r] \in Kept => Status(cmd[r]) = outcome[r]
           /\ queued' \subseteq queued \union {[cmd |-> cmd[r], status |-> outcome[r]]}
           /\ told' \subseteq told \union {[cmd |-> cmd[r], status |-> outcome[r]]}
        \/ queued' = queued /\ told' = told
    <3>1. CASE QueueResult(r)
      <4>1. cmd[r] \in TrackedIds /\ at[r] = "queue"
        BY <3>1 DEF QueueResult, Tracked, TrackedIds
      <4> QED  BY <3>1, <4>1 DEF QueueResult, Lives, Followed
    <3>2. CASE SignalResult(r)
      BY <3>2 DEF SignalResult
    <3> QED  BY <1>5, <3>1, <3>2
  <2>3. Alone'
    BY <1>a, <1>b, <1>c, <2>1 DEF Lives, Alone, Arrives, Past
  <2>4. Remembered'
    BY <1>b, <1>c, <2>1, <2>2 DEF Lives, Remembered
  <2>5. \A q \in Runners : Followed(q)'
    BY <1>a, <1>b, <1>c, <2>1 DEF Lives, Followed
  <2> QED  BY <2>3, <2>4, <2>5 DEF Lives
<1> QED  BY <1>1, <1>2, <1>3, <1>4, <1>5

(* A file that holds nothing says of every command what an empty inbox     *)
(* says.                                                                   *)
LEMMA LoadedSays == \A c \in Commands : StatusIn(Loaded, c) = StatusIn(file, c)
<1> SUFFICES ASSUME NEW c \in Commands PROVE StatusIn(Loaded, c) = StatusIn(file, c)
  OBVIOUS
<1>1. CASE file = Torn
  <2>1. NoCommand # c
    BY DispatchAssumption DEF DispatchAssumption
  <2>2. DOMAIN Torn = {1} /\ Torn[1].cmd = NoCommand
    BY DEF Torn
  <2>3. StatusIn(Torn, c) = "none"
    BY <2>1, <2>2 DEF StatusIn, Holds
  <2>4. StatusIn(<< >>, c) = "none"
    BY EmptyBox, StatusLost
  <2> QED  BY <1>1, <2>3, <2>4 DEF Loaded
<1>2. CASE file # Torn
  BY <1>2 DEF Loaded
<1> QED  BY <1>1, <1>2

LEMMA LivesKept ==
  ASSUME Typed, Lives, [Next]_vars
  PROVE  Lives'
<1>a. NoCommand \notin TrackedIds
  BY DispatchAssumption DEF DispatchAssumption, TrackedIds
<1>1. ASSUME NEW r \in Runners, NEW c \in Commands, ReceiveCommand(r, c) PROVE Lives'
  <2>1. /\ UNCHANGED <<receipts, file, saved, outcome, queued, told, runs>>
        /\ at[r] = "free" /\ cmd'[r] = c /\ at'[r] \in {"check", "execute"}
        /\ c \in TrackedIds => at'[r] = "check"
        /\ \A q \in Runners \ {r} : at'[q] = at[q] /\ cmd'[q] = cmd[q]
    BY <1>1 DEF ReceiveCommand, Goto, Typed, Tracked, TrackedIds
  <2>2. /\ exposed \subseteq exposed'
        /\ c \notin exposed' => \A q \in Runners : Arrives(q) => cmd[q] # c
    BY <1>1 DEF ReceiveCommand, Arriving, Arrives
  <2>3. (\A d : Status(d)' = Status(d)) /\ Kept' \subseteq Kept /\ Kept \subseteq TrackedIds
        /\ (c \in Kept' => \A q \in Runners : Arrives(q) => cmd[q] # c)
    BY <2>1, <2>2 DEF Status, Kept
  <2>4. Alone'
    BY <2>1, <2>3 DEF Lives, Alone, Arrives, Past
  <2>5. Remembered'
    BY <2>1, <2>3 DEF Lives, Remembered
  <2>6. \A q \in Runners : Followed(q)'
    BY <2>1, <2>3 DEF Lives, Followed
  <2> QED  BY <2>4, <2>5, <2>6 DEF Lives
<1>2. CASE CrashRestart
  <2>1. /\ UNCHANGED <<file, queued, told, runs>> /\ receipts' = Loaded
        /\ exposed' = exposed \union
             {c \in Commands : StatusIn(receipts, c) # StatusIn(Loaded, c)}
        /\ \A q \in Runners : at'[q] = "free" /\ cmd'[q] = NoCommand
    BY <1>2 DEF CrashRestart, Differing
  <2>2. /\ Kept' \subseteq Kept /\ \A d \in Kept' : Status(d)' = Status(d)
    BY <2>1 DEF Kept, TrackedIds, Status
  <2>3. \A c \in Commands : StatusIn(file', c) = Status(c)'
    BY <2>1, LoadedSays DEF Status
  <2>4. Remembered'
    BY <2>1, <2>2, <2>3 DEF Lives, Remembered
  <2> QED  BY <1>a, <2>1, <2>4 DEF Lives, Alone, Followed, Kept
<1>3. CASE UNCHANGED vars
  BY <1>3 DEF vars, Lives, Alone, Remembered, Followed, Status, Arrives, Past, Kept
<1> QED  BY <1>1, <1>2, <1>3, LivesSave, LivesRunner
     DEF Next, RunnerStep, LockingStep, PlainStep

LEMMA LivesAlways == Spec => [](Typed /\ Lives)
  BY LivesKept, LivesInitially, Types, PTL DEF Spec

(* config.go:34-36: a tracked command is executed once, however often it   *)
(* is sent and however often the agent restarts, unless it is exposed.     *)
THEOREM OnceOnly == Spec => []RunsAtMostOnce
<1>1. Lives => RunsAtMostOnce
  BY DEF Lives, Remembered, RunsAtMostOnce, Tracked, Kept, TrackedIds
<1> QED  BY <1>1, LivesAlways, PTL

(* command_dispatch.go:81-87: a queued result lies behind a receipt with   *)
(* that very result, on disk too if the last save ended well.              *)
THEOREM ReceiptFirst == Spec => []ResultBehindReceipt
<1>1. Typed /\ Lives => ResultBehindReceipt
  <2> SUFFICES ASSUME Typed, Lives, NEW q \in queued, q.cmd \notin exposed
               PROVE  /\ StatusIn(receipts, q.cmd) = q.status
                      /\ saved => StatusIn(file, q.cmd) = q.status
    BY DEF ResultBehindReceipt
  <2>1. q.cmd \in Kept /\ q.cmd \in Commands
    BY DEF Lives, Remembered, Kept, TrackedIds
  <2> QED  BY <2>1 DEF Lives, Remembered, Status
<1> QED  BY <1>1, LivesAlways, PTL

\* command_dispatch.go:99-116: all answers to one command, the queued result
\* and the replays, say the same, unless it is exposed.
AnswersAgree ==
  \A p, q \in queued \union told :
    p.cmd = q.cmd /\ p.cmd \notin exposed => p.status = q.status

(* command_dispatch.go:99-116: the queued result and the replays of one    *)
(* command say the same.                                                   *)
THEOREM OneAnswer == Spec => []AnswersAgree
<1>1. Lives => AnswersAgree
  <2> SUFFICES ASSUME Lives, NEW p \in queued \union told, NEW q \in queued \union told,
                      p.cmd = q.cmd, p.cmd \notin exposed
               PROVE  p.status = q.status
    BY DEF AnswersAgree
  <2>1. p.cmd \in Kept /\ q.cmd \in Kept
    BY DEF Lives, Remembered, Kept
  <2> QED  BY <2>1 DEF Lives, Remembered
<1> QED  BY <1>1, LivesAlways, PTL

-----------------------------------------------------------------------------
(* The abstract executor: the life of a command is its status in memory,   *)
(* and the promise is waived for the exposed ones.                         *)
Life == [c \in TrackedIds |-> Status(c)]
Executed == [c \in TrackedIds |-> runs[c]]
Answers(c) == {a \in queued \union told : a.cmd = c}

LEMMA ExecutorInit == Init => Executor!Init
<1> SUFFICES ASSUME Init PROVE Executor!Init
  OBVIOUS
<1>1. \A c \in TrackedIds : StatusIn(receipts, c) = "none" /\ runs[c] = 0
  BY EmptyBox, StatusLost DEF Init, TrackedIds
<1> QED  BY <1>1 DEF Init, Executor!Init, TrackedIds

\* What a step may do to one command.
Lived(c) ==
  \/ Status(c) = "none" /\ Status(c)' = "running" /\ runs'[c] = runs[c] /\ Answers(c)' = Answers(c)
  \/ /\ Status(c) = "running" /\ Status(c)' = "running" /\ runs[c] = 0 /\ runs'[c] = 1
     /\ Answers(c)' = Answers(c)
  \/ /\ Status(c) = "running" /\ Status(c)' \in Finished /\ runs[c] = 1 /\ runs'[c] = 1
     /\ Answers(c)' = Answers(c)
  \/ /\ Status(c) \in Finished /\ Status(c)' = Status(c) /\ runs'[c] = runs[c]
     /\ Answers(c)' = Answers(c) \union {[cmd |-> c, status |-> Status(c)]}
  \/ Status(c)' = Status(c) /\ runs'[c] = runs[c] /\ Answers(c)' = Answers(c)

(* A step that lets every command that is not exposed live is one of the   *)
(* executor's.                                                             *)
LEMMA ExecutorStep ==
  ASSUME Typed, Typed', exposed \subseteq exposed', \A c \in Kept' : Lived(c)
  PROVE  Executor!Next
<1>1. /\ exposed' \ Streaming \in SUBSET (Commands \ Streaming)
      /\ exposed \ Streaming \subseteq exposed' \ Streaming
  BY DEF Typed
<1>2. ASSUME NEW c \in (Commands \ Streaming) \ (exposed' \ Streaming)
      PROVE  \/ Executor!TakeUp(c) \/ Executor!Execute(c) \/ Executor!Answer(c)
             \/ Executor!Rest(c) \/ \E s \in Finished : Executor!Finish(c, s)
  <2>1. Lived(c)
    BY <1>2 DEF Kept, TrackedIds
  <2> QED  BY <1>2, <2>1 DEF Lived, Answers, Status, Executor!TakeUp, Executor!Execute,
              Executor!Answer, Executor!Rest, Executor!Finish, Executor!AnswersTo
<1> QED  BY <1>1, <1>2 DEF Executor!Next

LEMMA LivedSave ==
  ASSUME Typed, Lives, NEW r \in Runners, MarkRunning(r) \/ RecordResult(r)
  PROVE  exposed \subseteq exposed' /\ \A c \in Kept' : Lived(c)
<1> DEFINE status == IF at[r] = "mark" THEN "running" ELSE outcome[r]
<1>1. /\ StartSave(r, status) /\ cmd[r] \in TrackedIds /\ at[r] \in {"mark", "record"}
      /\ at[r] = "record" => status \in Finished
      /\ UNCHANGED <<queued, told, runs>>
  BY DEF MarkRunning, RecordResult, StartSave, InboxFree, Typed, Tracked, TrackedIds, Steps
<1>2. status \in Finished \union {"running"} /\ (at[r] = "mark" => status = "running")
  BY <1>1
<1> HIDE DEF status
<1>3. /\ receipts' = Upsert(receipts, cmd[r], status) /\ exposed \subseteq exposed'
      /\ \A d \in Commands \ {cmd[r]} : d \notin exposed' => Status(d)' = Status(d)
  BY <1>1 DEF StartSave, Differing, Status
<1>4. Status(cmd[r]) = StatusIn(receipts, cmd[r]) /\ StatusIn(receipts', cmd[r]) = status
  BY <1>1, <1>2, <1>3, UpsertRemembers DEF Typed, Status
<1>5. ASSUME NEW c \in Kept' PROVE Lived(c)
  <2>1. c \in Kept /\ c \in Commands /\ c \notin exposed' /\ Answers(c)' = Answers(c)
    BY <1>1, <1>3 DEF Kept, TrackedIds, Answers
  <2>2. CASE c # cmd[r]
    BY <1>1, <1>3, <2>1, <2>2 DEF Lived
  <2>3. CASE c = cmd[r]
    <3>1. Status(c)' = status
      BY <1>4, <2>3 DEF Status
    <3>2. CASE at[r] = "mark"
      BY <1>1, <1>2, <2>1, <2>3, <3>1, <3>2 DEF Lives, Followed, Lived
    <3>3. CASE at[r] = "record"
      BY <1>1, <2>1, <2>3, <3>1, <3>3 DEF Lives, Followed, Lived
    <3> QED  BY <1>1, <3>2, <3>3
  <2> QED  BY <2>2, <2>3
<1> QED  BY <1>3, <1>5

LEMMA LivedRunner ==
  ASSUME Typed, Lives, NEW r \in Runners,
         \/ Check(r) \/ FinishSave(r) \/ StartCommand(r) \/ FinishCommand(r)
         \/ QueueResult(r) \/ SignalResult(r)
  PROVE  exposed \subseteq exposed' /\ \A c \in Kept' : Lived(c)
<1>1. UNCHANGED <<receipts, exposed>>
  BY DEF Check, FinishSave, StartCommand, FinishCommand, QueueResult, SignalResult
<1>2. Kept' = Kept /\ \A c : Status(c)' = Status(c)
  BY <1>1 DEF Kept, Status
<1> SUFFICES ASSUME NEW c \in Kept PROVE Lived(c)
  BY <1>1, <1>2
<1>3. CASE FinishSave(r) \/ FinishCommand(r) \/ SignalResult(r)
  BY <1>2, <1>3 DEF FinishSave, FinishCommand, SignalResult, Lived, Answers
<1>4. ASSUME NEW s, Status(cmd[r]) = s \/ cmd[r] \notin Kept, s \in Finished,
             UNCHANGED runs,
             queued' \in {queued, queued \union {[cmd |-> cmd[r], status |-> s]}},
             told' \in {told, told \union {[cmd |-> cmd[r], status |-> s]}}
      PROVE  Lived(c)
  <2>1. CASE c # cmd[r]
    <3>1. Answers(c)' = Answers(c)
      BY <1>4, <2>1 DEF Answers
    <3> QED  BY <1>2, <1>4, <3>1 DEF Lived
  <2>2. CASE c = cmd[r]
    <3>1. \/ Answers(c)' = Answers(c)
          \/ Answers(c)' = Answers(c) \union {[cmd |-> c, status |-> s]}
      BY <1>4, <2>2 DEF Answers
    <3> QED  BY <1>2, <1>4, <2>2, <3>1 DEF Lived
  <2> QED  BY <2>1, <2>2
<1>5. CASE Check(r)
  <2>1. /\ UNCHANGED <<queued, runs>>
        /\ \/ UNCHANGED told
           \/ /\ Status(cmd[r]) \in Finished
              /\ told' = told \union {[cmd |-> cmd[r], status |-> Status(cmd[r])]}
    BY <1>5 DEF Check, Status
  <2>2. CASE UNCHANGED told
    BY <1>2, <2>1, <2>2 DEF Lived, Answers
  <2> QED  BY <1>4, <2>1, <2>2
<1>6. CASE StartCommand(r)
  <2>1. /\ UNCHANGED <<queued, told>> /\ at[r] = "execute"
        /\ runs' = [runs EXCEPT ![cmd[r]] = runs[cmd[r]] + 1]
    BY <1>6 DEF StartCommand
  <2>2. c \in Commands /\ Answers(c)' = Answers(c)
    BY <2>1 DEF Answers, Kept, TrackedIds
  <2>3. CASE c = cmd[r]
    <3>1. Status(c) = "running" /\ runs[c] = 0
      BY <2>1, <2>3 DEF Lives, Followed
    <3>2. runs'[c] = 1
      BY <2>1, <2>2, <2>3, <3>1 DEF Typed
    <3> QED  BY <1>2, <2>2, <3>1, <3>2 DEF Lived
  <2>4. CASE c # cmd[r]
    BY <1>2, <2>1, <2>2, <2>4 DEF Lived, Typed
  <2> QED  BY <2>3, <2>4
<1>7. CASE QueueResult(r)
  <2>1. /\ at[r] = "queue" /\ outcome[r] \in Finished /\ UNCHANGED runs
        /\ queued' \in {queued, queued \union {[cmd |-> cmd[r], status |-> outcome[r]]}}
        /\ told' = told \union {[cmd |-> cmd[r], status |-> outcome[r]]}
    BY <1>7 DEF QueueResult, Typed
  <2>2. Status(cmd[r]) = outcome[r] \/ cmd[r] \notin Kept
    BY <2>1 DEF Lives, Followed
  <2> QED  BY <1>4, <2>1, <2>2
<1> QED  BY <1>3, <1>5, <1>6, <1>7

LEMMA ExecutorNext ==
  ASSUME Typed, Lives, [Next]_vars
  PROVE  [Executor!Next]_(Executor!vars)
<1>0. Typed'
  BY TypedKept
<1>1. ASSUME UNCHANGED <<queued, told, runs>>, exposed \subseteq exposed',
             \A c \in Kept' : Status(c)' = Status(c)
      PROVE  Executor!Next
  <2>1. \A c \in Kept' : Lived(c)
    BY <1>1 DEF Lived, Answers
  <2> QED  BY <1>0, <1>1, <2>1, ExecutorStep
<1>2. CASE CrashRestart
  <2>1. /\ UNCHANGED <<queued, told, runs>> /\ receipts' = Loaded
        /\ exposed' = exposed \union
             {c \in Commands : StatusIn(receipts, c) # StatusIn(Loaded, c)}
    BY <1>2 DEF CrashRestart, Differing
  <2>2. \A c \in Kept' : Status(c)' = Status(c)
    BY <2>1 DEF Kept, TrackedIds, Status
  <2> QED  BY <1>1, <2>1, <2>2
<1>3. ASSUME NEW r \in Runners, NEW c \in Commands, ReceiveCommand(r, c)
      PROVE  Executor!Next
  <2>1. UNCHANGED <<receipts, queued, told, runs>> /\ exposed \subseteq exposed'
    BY <1>3 DEF ReceiveCommand
  <2>2. \A d \in Kept' : Status(d)' = Status(d)
    BY <2>1 DEF Status
  <2> QED  BY <1>1, <2>1, <2>2
<1>4. CASE UNCHANGED vars
  BY <1>4 DEF vars, Executor!vars
<1> QED  BY <1>0, <1>2, <1>3, <1>4, LivedSave, LivedRunner, ExecutorStep
     DEF Next, RunnerStep, LockingStep, PlainStep

(* config.go:34-36, command_dispatch.go:81-126: runners, receipts, failing *)
(* saves, crashes and restarts together are, for every command that is not *)
(* exposed, an executor that takes it up once, executes it at most once    *)
(* and has one answer for good.                                            *)
THEOREM DispatchImplementsExecutor == Spec => ImplementsExecutor
<1>1. Typed /\ Lives /\ [Next]_vars => [Executor!Next]_(Executor!vars)
  BY ExecutorNext
<1> QED  BY <1>1, ExecutorInit, LivesAlways, PTL DEF Spec, ImplementsExecutor, Executor!Spec
=============================================================================
