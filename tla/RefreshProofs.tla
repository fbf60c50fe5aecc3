--------------------------- MODULE RefreshProofs ---------------------------
(***************************************************************************)
(* Theorems about container refreshes, for any number of containers, of    *)
(* states and of publishers: the type invariant, that snapshots do not     *)
(* pile up, and that what is skipped as reported was reported.             *)
(***************************************************************************)
EXTENDS ContainerRefresh, FiniteSetTheorems, SequenceTheorems, TLAPS

Snapshot == [list : Listing, applied : BOOLEAN]

\* What a publisher keeps from one step to the next.
Job ==
  [step : {"idle", "renew"}]
    \union [step : {"listed", "built", "enqueue"}, list : Listing]
    \union [step : {"deltas"}, list : Listing, todo : SUBSET Containers, all : BOOLEAN]
    \union [step : {"send", "forget"}, list : Listing, todo : SUBSET Containers,
            all : BOOLEAN, about : Containers]

Typed ==
  /\ world \in Listing /\ view \in Listing
  /\ cache \in [Containers -> States \union {Unknown}]
  /\ pending \in Seq(Snapshot)
  /\ job \in [Publishers -> Job]

\* Deltas are about containers that were in the list.
ToReport ==
  \A p \in Publishers :
    /\ At(p, "deltas") \/ At(p, "send") \/ At(p, "forget") =>
         job[p].todo \subseteq Present(job[p].list)
    /\ At(p, "send") \/ At(p, "forget") => job[p].about \in job[p].todo

LEMMA Steps ==
  ASSUME Typed, NEW p \in Publishers
  PROVE  /\ At(p, "listed") \/ At(p, "built") \/ At(p, "enqueue") =>
              job[p] \in [step : {"listed", "built", "enqueue"}, list : Listing]
         /\ At(p, "deltas") =>
              job[p] \in [step : {"deltas"}, list : Listing,
                          todo : SUBSET Containers, all : BOOLEAN]
         /\ At(p, "send") \/ At(p, "forget") =>
              job[p] \in [step : {"send", "forget"}, list : Listing,
                          todo : SUBSET Containers, all : BOOLEAN, about : Containers]
<1>1. job[p] \in Job
  BY DEF Typed
<1> QED  BY <1>1 DEF Job, At

(* What the machine and the outbox do leaves the publishers alone.         *)
Outside ==
  \/ \E c \in Containers, s \in States \union {Gone} : ContainerChanges(c, s)
  \/ BacklogGrows \/ BacklogDrains \/ OutboxStep

LEMMA TypedOutside == Typed /\ Outside => Typed' /\ UNCHANGED <<job, cache, written>>
<1> SUFFICES ASSUME Typed, Outside PROVE Typed' /\ UNCHANGED <<job, cache, written>>
  OBVIOUS
<1> USE DEF Typed
<1>1. ASSUME NEW c \in Containers, NEW s \in States \union {Gone}, ContainerChanges(c, s)
      PROVE  Typed' /\ UNCHANGED <<job, cache, written>>
  BY <1>1 DEF ContainerChanges, Listing
<1>2. CASE BacklogGrows \/ BacklogDrains
  BY <1>2 DEF BacklogGrows, BacklogDrains
<1>3. ASSUME NEW k \in DOMAIN pending, SnapshotArrives(k)
      PROVE  Typed' /\ UNCHANGED <<job, cache, written>>
  <2>0. k \in 1 .. Len(pending) /\ pending[k] \in Snapshot
    BY ElementOfSeq
  <2>1. [pending[k] EXCEPT !.applied = TRUE] \in Snapshot
    BY <2>0 DEF Snapshot
  <2>2. pending' = [pending EXCEPT ![k] = [pending[k] EXCEPT !.applied = TRUE]]
    BY <1>3 DEF SnapshotArrives
  <2>3. pending' \in Seq(Snapshot)
    BY <2>0, <2>1, <2>2, ExceptSeq
  <2> QED  BY <1>3, <2>0, <2>3 DEF SnapshotArrives, Snapshot
<1>4. CASE SnapshotAcknowledged
  BY <1>4 DEF SnapshotAcknowledged
<1> QED  BY <1>1, <1>2, <1>3, <1>4 DEF Outside, OutboxStep

(* What a publisher may do.                                                *)
Publisher(p) ==
  \/ BuildSnapshot(p) \/ CheckBacklog(p) \/ EnqueueSnapshot(p)
  \/ ListAll(p) \/ (\E c \in Containers : ListOne(p, c)) \/ LookForNew(p)
  \/ (\E c \in Containers : CompareState(p, c))
  \/ SendDelta(p) \/ DeltaFails(p) \/ ForgetContainerState(p) \/ FinishDeltas(p)

LEMMA NextSplit == Next => Outside \/ \E p \in Publishers : Publisher(p)
  BY DEF Next, Outside, Publisher, SnapshotStep, Start, DeltaStep

\* What holds of a publisher's own step.
JobKept(p) ==
  /\ job'[p] \in Job
  /\ job'[p].step \in {"deltas", "send", "forget"} =>
       job'[p].todo \subseteq Present(job'[p].list)
  /\ job'[p].step \in {"send", "forget"} => job'[p].about \in job'[p].todo

LEMMA SnapshotJobs ==
  ASSUME Typed, ToReport, NEW p \in Publishers,
         BuildSnapshot(p) \/ CheckBacklog(p) \/ EnqueueSnapshot(p)
  PROVE  JobKept(p) /\ pending' \in Seq(Snapshot)
<1> USE Steps DEF Typed, Goes, JobKept, Job
<1>1. CASE BuildSnapshot(p)
  <2>1. NoContainers \in Listing
    BY DEF NoContainers, Listing
  <2> QED  BY <1>1, <2>1 DEF BuildSnapshot
<1>2. CASE CheckBacklog(p)
  BY <1>2 DEF CheckBacklog, Idle
<1>3. CASE EnqueueSnapshot(p)
  <2>1. [list |-> job[p].list, applied |-> FALSE] \in Snapshot
    BY <1>3 DEF EnqueueSnapshot, Snapshot
  <2>2. pending' \in Seq(Snapshot)
    BY <1>3, <2>1, AppendProperties DEF EnqueueSnapshot
  <2> QED  BY <1>3, <2>2 DEF EnqueueSnapshot, Idle
<1> QED  BY <1>1, <1>2, <1>3

LEMMA DeltaJobs ==
  ASSUME Typed, ToReport, NEW p \in Publishers,
         \/ ListAll(p) \/ (\E c \in Containers : ListOne(p, c)) \/ LookForNew(p)
         \/ (\E c \in Containers : CompareState(p, c)) \/ FinishDeltas(p)
  PROVE  JobKept(p)
<1> USE Steps DEF Typed, Goes, JobKept, Job
<1>1. CASE ListAll(p)
  BY <1>1 DEF ListAll
<1>2. ASSUME NEW c \in Containers, ListOne(p, c) PROVE JobKept(p)
  BY <1>2 DEF ListOne, Present
<1>3. CASE LookForNew(p)
  BY <1>3 DEF LookForNew, Present
<1>4. ASSUME NEW c \in Containers, CompareState(p, c) PROVE JobKept(p)
  <2>1. /\ job[p] \in [step : {"deltas"}, list : Listing, todo : SUBSET Containers,
                        all : BOOLEAN]
        /\ c \in job[p].todo /\ job[p].todo \subseteq Present(job[p].list)
    BY <1>4 DEF CompareState, ToReport
  <2>2. CASE job' = [job EXCEPT ![p] = [job[p] EXCEPT !.todo = @ \ {c}]]
    <3> DEFINE n == [job[p] EXCEPT !.todo = @ \ {c}]
    <3>1. /\ n \in [step : {"deltas"}, list : Listing, todo : SUBSET Containers, all : BOOLEAN]
          /\ n.step = "deltas" /\ n.list = job[p].list /\ n.todo = job[p].todo \ {c}
      BY <2>1
    <3>2. job'[p] = n
      BY <2>2
    <3> QED  BY <2>1, <3>1, <3>2
  <2>3. CASE job' = [job EXCEPT ![p] =
                       [step |-> "send", list |-> job[p].list, all |-> job[p].all,
                        todo |-> job[p].todo, about |-> c]]
    BY <2>1, <2>3
  <2> QED  BY <1>4, <2>2, <2>3 DEF CompareState
<1>5. CASE FinishDeltas(p)
  BY <1>5 DEF FinishDeltas, Idle
<1> QED  BY <1>1, <1>2, <1>3, <1>4, <1>5

LEMMA SendJobs ==
  ASSUME Typed, ToReport, NEW p \in Publishers,
         SendDelta(p) \/ DeltaFails(p) \/ ForgetContainerState(p)
  PROVE  JobKept(p)
<1>1. /\ job[p] \in [step : {"send", "forget"}, list : Listing, todo : SUBSET Containers,
                      all : BOOLEAN, about : Containers]
      /\ job[p].todo \subseteq Present(job[p].list) /\ job[p].about \in job[p].todo
  BY Steps DEF SendDelta, DeltaFails, ForgetContainerState, ToReport
<1> USE DEF Typed, Goes, JobKept, Job
<1>2. CASE SendDelta(p) \/ ForgetContainerState(p)
  BY <1>1, <1>2 DEF SendDelta, ForgetContainerState, Reported
<1>3. CASE DeltaFails(p)
  <2> DEFINE n == [job[p] EXCEPT !.step = "forget"]
  <2>1. /\ n \in [step : {"send", "forget"}, list : Listing, todo : SUBSET Containers,
                   all : BOOLEAN, about : Containers]
        /\ n.step = "forget" /\ n.list = job[p].list /\ n.todo = job[p].todo
        /\ n.about = job[p].about
    BY <1>1
  <2>2. job'[p] = n
    BY <1>3 DEF DeltaFails
  <2> QED  BY <1>1, <2>1, <2>2
<1> QED  BY <1>2, <1>3

(* Each of its steps changes a publisher's own job only.                   *)
OwnJob(p) ==
  /\ job' = [job EXCEPT ![p] = job'[p]]
  /\ world' = world /\ view' \in Listing
  /\ cache' \in [Containers -> States \union {Unknown}]
  /\ pending' = pending \/ EnqueueSnapshot(p)

LEMMA OwnJobOnly ==
  ASSUME Typed, ToReport, NEW p \in Publishers, Publisher(p)
  PROVE  OwnJob(p)
<1> USE DEF Typed, Goes, OwnJob
<1>1. CASE BuildSnapshot(p) \/ CheckBacklog(p) \/ EnqueueSnapshot(p)
  BY <1>1 DEF BuildSnapshot, CheckBacklog, EnqueueSnapshot
<1>2. CASE ListAll(p) \/ (\E c \in Containers : ListOne(p, c)) \/ LookForNew(p)
  BY <1>2 DEF ListAll, ListOne, LookForNew
<1>3. ASSUME NEW c \in Containers, CompareState(p, c) PROVE OwnJob(p)
  <2>1. job[p].list \in Listing /\ c \in Present(job[p].list)
    BY <1>3, Steps DEF CompareState, ToReport
  <2>2. job[p].list[c] \in States
    BY <2>1 DEF Present, Listing
  <2> QED  BY <1>3, <2>2 DEF CompareState
<1>4. CASE SendDelta(p)
  <2>1. job[p].list \in Listing /\ job[p].about \in Containers
    BY <1>4, Steps DEF SendDelta
  <2> QED  BY <1>4, <2>1 DEF SendDelta, Listing
<1>5. CASE DeltaFails(p) \/ ForgetContainerState(p)
  BY <1>5 DEF DeltaFails, ForgetContainerState
<1>6. CASE FinishDeltas(p)
  <2>1. cache' \in [Containers -> States \union {Unknown}]
    BY <1>6 DEF FinishDeltas
  <2> QED  BY <1>6, <2>1 DEF FinishDeltas
<1> QED  BY <1>1, <1>2, <1>3, <1>4, <1>5, <1>6 DEF Publisher

LEMMA JobsInitially == Init => Typed /\ ToReport
<1> SUFFICES ASSUME Init PROVE Typed /\ ToReport
  OBVIOUS
<1>1. Idle \in Job /\ NoContainers \in Listing
  BY DEF Idle, Job, NoContainers, Listing
<1>2. Typed
  BY <1>1 DEF Init, Typed
<1>3. ToReport
  BY DEF Init, ToReport, At, Idle
<1> QED  BY <1>2, <1>3

LEMMA JobsKept == Typed /\ ToReport /\ [Next]_vars => Typed' /\ ToReport'
<1> SUFFICES ASSUME Typed, ToReport, [Next]_vars PROVE Typed' /\ ToReport'
  OBVIOUS
<1>1. CASE Outside
  BY <1>1, TypedOutside DEF ToReport, At
<1>2. ASSUME NEW p \in Publishers, Publisher(p) PROVE Typed' /\ ToReport'
  <2>1. JobKept(p) /\ OwnJob(p)
    BY <1>2, SnapshotJobs, DeltaJobs, SendJobs, OwnJobOnly DEF Publisher
  <2>2. pending' \in Seq(Snapshot)
    BY <2>1, SnapshotJobs DEF OwnJob, Typed
  <2>3. \A q \in Publishers \ {p} : job'[q] = job[q]
    BY <2>1 DEF OwnJob, Typed
  <2>4. Typed'
    BY <2>1, <2>2 DEF OwnJob, JobKept, Typed
  <2>5. ToReport'
    BY <2>1, <2>3 DEF JobKept, ToReport, At
  <2> QED  BY <2>4, <2>5
<1>3. CASE UNCHANGED vars
  BY <1>3 DEF vars, Typed, ToReport, At
<1> QED  BY <1>1, <1>2, <1>3, NextSplit

LEMMA Jobs == Spec => [](Typed /\ ToReport)
  BY JobsInitially, JobsKept, PTL DEF Spec

(* events.go, handshake.go: the caches, the queue and what a publisher is  *)
(* about stay well typed, and a delta is about a container of its list.    *)
THEOREM RefreshTypes == Spec => []TypeOK
<1>1. Typed /\ ToReport => TypeOK
  <2> SUFFICES ASSUME Typed, ToReport PROVE TypeOK
    OBVIOUS
  <2>1. \A p \in Publishers : job[p].step \in {"idle", "listed", "renew", "built",
                                             "enqueue", "deltas", "send", "forget"}
    BY DEF Typed, Job
  <2>2. \A k \in DOMAIN pending : pending[k].list \in Listing
    <3> TAKE k \in DOMAIN pending
    <3>1. pending[k] \in Snapshot
      BY ElementOfSeq DEF Typed
    <3> QED  BY <3>1 DEF Snapshot
  <2> QED  BY <2>1, <2>2 DEF Typed, ToReport, TypeOK
<1> QED  BY <1>1, Jobs, PTL

-----------------------------------------------------------------------------
LEMMA SkippedKept ==
  Typed /\ ToReport /\ SkippedWasReported /\ [Next]_vars => SkippedWasReported'
<1> SUFFICES ASSUME Typed, ToReport, SkippedWasReported, [Next]_vars
             PROVE  SkippedWasReported'
  OBVIOUS
<1>1. CASE Outside
  BY <1>1, TypedOutside DEF SkippedWasReported, At
<1>2. ASSUME NEW p \in Publishers, Publisher(p) PROVE SkippedWasReported'
  <2>1. \A q \in Publishers \ {p} : job'[q] = job[q]
    BY <1>2, OwnJobOnly DEF OwnJob, Typed
  <2>2. CASE ~(At(p, "send") \/ At(p, "forget")) /\ UNCHANGED <<cache, written>>
    BY <2>1, <2>2 DEF SkippedWasReported, At
  <2>3. ASSUME NEW c \in Containers, CompareState(p, c) PROVE SkippedWasReported'
    <3>1. ~(At(p, "send") \/ At(p, "forget")) /\ written' = written
      BY <2>3 DEF CompareState, At
    <3>2. CASE cache' = [cache EXCEPT ![c] = job[p].list[c]]
               /\ job'[p] = [step |-> "send", list |-> job[p].list, all |-> job[p].all,
                             todo |-> job[p].todo, about |-> c]
      BY <2>1, <3>1, <3>2 DEF SkippedWasReported, At, Typed
    <3> QED  BY <2>2, <2>3, <3>1, <3>2 DEF CompareState, Goes, Typed
  <2>4. CASE SendDelta(p)
    <3>1. /\ cache' = cache
          /\ written' = written \union {<<job[p].about, job[p].list[job[p].about]>>}
          /\ At(p, "send")
      BY <2>4 DEF SendDelta
    <3> QED  BY <2>1, <3>1 DEF SkippedWasReported, At
  <2>5. CASE DeltaFails(p)
    <3>1. /\ UNCHANGED <<cache, written>>
          /\ job'[p] = [job[p] EXCEPT !.step = "forget"]
      BY <2>5 DEF DeltaFails, Goes, Typed
    <3>2. At(p, "forget")' /\ job'[p].about = job[p].about /\ job'[p].list = job[p].list
      BY <2>5, <3>1, Steps DEF DeltaFails, At
    <3>3. ASSUME NEW q \in Publishers, At(q, "send") \/ At(q, "forget")
          PROVE  /\ (At(q, "send") \/ At(q, "forget"))'
                 /\ job'[q].about = job[q].about /\ job'[q].list = job[q].list
      BY <2>1, <3>2, <3>3 DEF At
    <3> QED  BY <3>1, <3>3 DEF SkippedWasReported
  <2>6. CASE ForgetContainerState(p)
    <3>1. cache' = [cache EXCEPT ![job[p].about] = Unknown] /\ written' = written
      BY <2>6 DEF ForgetContainerState
    <3> QED  BY <2>1, <3>1 DEF SkippedWasReported, At, Typed
  <2>7. CASE FinishDeltas(p)
    <3>1. /\ \A c \in Containers : cache'[c] \in {cache[c], Unknown}
          /\ written' = written /\ ~(At(p, "send") \/ At(p, "forget"))
      BY <2>7 DEF FinishDeltas, Typed, At
    <3> QED  BY <2>1, <3>1 DEF SkippedWasReported, At
  <2>8. CASE BuildSnapshot(p) \/ CheckBacklog(p) \/ EnqueueSnapshot(p) \/ ListAll(p)
             \/ (\E c \in Containers : ListOne(p, c)) \/ LookForNew(p)
    BY <2>2, <2>8 DEF BuildSnapshot, CheckBacklog, EnqueueSnapshot, ListAll, ListOne,
                      LookForNew, At
  <2> QED  BY <1>2, <2>3, <2>4, <2>5, <2>6, <2>7, <2>8 DEF Publisher
<1>3. CASE UNCHANGED vars
  BY <1>3 DEF vars, SkippedWasReported, At
<1> QED  BY <1>1, <1>2, <1>3, NextSplit

(* events.go:193-219: a state is skipped as already reported only if a     *)
(* delta with it was written, or is about to be.                           *)
THEOREM Reports == Spec => []SkippedWasReported
<1>1. Init => SkippedWasReported
  BY DEF Init, SkippedWasReported
<1> QED  BY <1>1, SkippedKept, Jobs, PTL DEF Spec

-----------------------------------------------------------------------------
Enqueuing == {p \in Publishers : At(p, "enqueue")}
Bound == Len(pending) + Cardinality(Enqueuing) <= Cardinality(Publishers)

LEMMA EnqueuingFinite ==
  /\ IsFiniteSet(Enqueuing) /\ Cardinality(Enqueuing) \in Nat
  /\ Cardinality(Publishers) \in Nat /\ Cardinality(Enqueuing) <= Cardinality(Publishers)
<1>1. IsFiniteSet(Publishers) /\ Enqueuing \subseteq Publishers
  BY RefreshAssumption DEF RefreshAssumption, Enqueuing
<1> QED  BY <1>1, FS_Subset, FS_CardinalityType

LEMMA BoundKept == Typed /\ ToReport /\ Bound /\ [Next]_vars => Bound'
<1> SUFFICES ASSUME Typed, ToReport, Bound, [Next]_vars PROVE Bound'
  OBVIOUS
<1>a. Len(pending) \in Nat
  BY LenProperties DEF Typed
<1>1. CASE Outside
  <2>1. Enqueuing' = Enqueuing
    BY <1>1, TypedOutside DEF Enqueuing, At
  <2>2. pending' = pending \/ Len(pending') = Len(pending)
        \/ (pending # << >> /\ pending' = Tail(pending))
    <3>1. ASSUME NEW k \in DOMAIN pending, SnapshotArrives(k)
          PROVE  Len(pending') = Len(pending)
      <4>1. pending' = [pending EXCEPT ![k] = pending'[k]] /\ DOMAIN pending' = DOMAIN pending
        BY <3>1 DEF SnapshotArrives, Typed
      <4>2. pending' \in Seq(Snapshot)
        BY <1>1, TypedOutside DEF Typed
      <4> QED  BY <4>1, <4>2, LenProperties DEF Typed
    <3> QED  BY <1>1, <3>1 DEF Outside, OutboxStep, ContainerChanges, BacklogGrows,
             BacklogDrains, SnapshotAcknowledged
  <2>3. Len(pending') \in Nat /\ Len(pending') <= Len(pending)
    BY <1>a, <2>2, HeadTailProperties DEF Typed
  <2> QED  BY <1>a, <2>1, <2>3, EnqueuingFinite DEF Bound
<1>2. ASSUME NEW p \in Publishers, Publisher(p) PROVE Bound'
  <2>1. \A q \in Publishers \ {p} : job'[q] = job[q]
    BY <1>2, OwnJobOnly DEF OwnJob, Typed
  <2>2. CASE EnqueueSnapshot(p)
    <3>1. p \in Enqueuing /\ Enqueuing' = Enqueuing \ {p}
      BY <2>1, <2>2 DEF EnqueueSnapshot, Enqueuing, At, Goes, Idle, Typed
    <3>2. Cardinality(Enqueuing') = Cardinality(Enqueuing) - 1
      BY <3>1, EnqueuingFinite, FS_RemoveElement
    <3>3. [list |-> job[p].list, applied |-> FALSE] \in Snapshot
      BY <2>2, Steps DEF EnqueueSnapshot, Snapshot
    <3>4. Len(pending') = Len(pending) + 1
      BY <2>2, <3>3, AppendProperties DEF EnqueueSnapshot, Typed
    <3> QED  BY <1>a, <3>2, <3>4, EnqueuingFinite DEF Bound
  <2>3. CASE ~EnqueueSnapshot(p)
    <3>1. pending' = pending
      BY <1>2, <2>3, OwnJobOnly DEF OwnJob
    <3>2. CASE job'[p].step # "enqueue"
      <4>1. Enqueuing' \subseteq Enqueuing
        BY <2>1, <3>2 DEF Enqueuing, At
      <4>2. Cardinality(Enqueuing') \in Nat /\ Cardinality(Enqueuing') <= Cardinality(Enqueuing)
        BY <4>1, EnqueuingFinite, FS_Subset, FS_CardinalityType
      <4> QED  BY <1>a, <3>1, <4>2, EnqueuingFinite DEF Bound
    <3>3. CASE job'[p].step = "enqueue"
      <4>1. CheckBacklog(p)
        BY <1>2, <2>3, <3>3, Steps DEF Publisher, Typed, BuildSnapshot, ListAll, ListOne, LookForNew,
           CompareState, SendDelta, DeltaFails, ForgetContainerState, FinishDeltas,
            Goes, Idle, Reported, At
      <4>2. pending = << >>
        BY <3>3, <4>1 DEF CheckBacklog, Goes, Idle, Typed
      <4>3. Enqueuing' \subseteq Publishers
        BY DEF Enqueuing
      <4>4. Cardinality(Enqueuing') \in Nat /\ Cardinality(Enqueuing') <= Cardinality(Publishers)
        BY <4>3, FS_Subset, FS_CardinalityType, RefreshAssumption DEF RefreshAssumption
      <4> QED  BY <3>1, <4>2, <4>4 DEF Bound
    <3> QED  BY <3>2, <3>3
  <2> QED  BY <2>2, <2>3
<1>3. CASE UNCHANGED vars
  BY <1>3 DEF vars, Bound, Enqueuing, At
<1> QED  BY <1>1, <1>2, <1>3, NextSplit

(* handshake.go:54-56: snapshots do not pile up, however the checks and    *)
(* the enqueues of several publishers interleave.                          *)
THEOREM NoPileUp == Spec => []SnapshotsDoNotPileUp
<1>1. Init => Bound
  <2> SUFFICES ASSUME Init PROVE Bound
    OBVIOUS
  <2>1. Enqueuing = {} /\ Len(pending) = 0
    BY DEF Init, Enqueuing, At, Idle
  <2> QED  BY <2>1, EnqueuingFinite, FS_EmptySet DEF Bound
<1>2. Bound => SnapshotsDoNotPileUp
  BY DEF Bound, Enqueuing, SnapshotsDoNotPileUp
<1> QED  BY <1>1, <1>2, BoundKept, Jobs, PTL DEF Spec
=============================================================================
