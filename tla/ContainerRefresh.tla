-------------------------- MODULE ContainerRefresh --------------------------
(***************************************************************************)
(* What the dashboard knows of the machine's containers:                   *)
(* internal/agent/events.go (deltas) and handshake.go (snapshots).         *)
(*                                                                         *)
(* Several goroutines publish: the refresh and self-heal loops of the      *)
(* session, the loop of a former session that gets one more tick, and      *)
(* every command that changed a container.  They share the cache of the    *)
(* states last reported and the outbox, and hold no lock from one step to  *)
(* the next: a list of containers is read, then compared with the cache    *)
(* container by container, then written to the socket as signals; a        *)
(* snapshot is built, then checked against the backlog, then queued.       *)
(*                                                                         *)
(* A delta overtakes the snapshots that still wait in the outbox.          *)
(***************************************************************************)
EXTENDS SequencesExt, FiniteSets

CONSTANTS
  Containers, States,   \* container ids, their observable states
  Gone,                 \* the container does not exist
  Unknown,              \* no entry in the cache
  Publishers,           \* goroutines that publish at one time
  MaxChanges,           \* bound: changes of a container on the machine
  MaxFaults             \* bound: docker errors, lost and failed deltas

ASSUME RefreshAssumption ==
  /\ Gone \notin States /\ Unknown \notin States \union {Gone}
  /\ IsFiniteSet(Publishers)
  /\ MaxChanges \in Nat /\ MaxFaults \in Nat

VARIABLES
  world,     \* the containers of the machine
  cache,     \* lastContainerDeltaState
  pending,   \* snapshots in the outbox: contents, and whether the API has it
  backlog,   \* the outbox holds more than snapshotBacklogLimit messages
  view,      \* the dashboard's containers
  job,       \* job[p]: what publisher p is doing
  changes, faults,
  written    \* history: deltas <<container, state>> written to a socket

vars == <<world, cache, pending, backlog, view, job, changes, faults, written>>

Listing == [Containers -> States \union {Gone}]
Present(list) == {c \in Containers : list[c] # Gone}
NoContainers == [c \in Containers |-> Gone]

Idle == [step |-> "idle"]
Goes(p, next) == job' = [job EXCEPT ![p] = next]
At(p, step) == job[p].step = step

Init ==
  /\ world \in Listing
  /\ cache = [c \in Containers |-> Unknown]
  /\ pending = << >> /\ backlog = FALSE
  /\ view = NoContainers
  /\ job = [p \in Publishers |-> Idle]
  /\ changes = 0 /\ faults = 0
  /\ written = {}

-----------------------------------------------------------------------------
\* The machine and the rest of the outbox.

ContainerChanges(c, s) ==
  /\ changes < MaxChanges /\ world[c] # s
  /\ changes' = changes + 1
  /\ world' = [world EXCEPT ![c] = s]
  /\ UNCHANGED <<cache, pending, backlog, view, job, faults, written>>

\* Other facts fill the outbox, or have been acknowledged.
BacklogGrows ==
  /\ ~backlog /\ faults < MaxFaults
  /\ backlog' = TRUE /\ faults' = faults + 1
  /\ UNCHANGED <<world, cache, pending, view, job, changes, written>>

BacklogDrains ==
  /\ backlog
  /\ backlog' = FALSE
  /\ UNCHANGED <<world, cache, pending, view, job, changes, faults, written>>

-----------------------------------------------------------------------------
\* sendSnapshot.

\* buildSnapshot.  An error of ListContainers is ignored: the snapshot then
\* says that there are no containers.
BuildSnapshot(p) ==
  /\ At(p, "idle") \/ At(p, "renew")
  /\ \/ Goes(p, [step |-> "built", list |-> world]) /\ UNCHANGED faults
     \/ /\ faults < MaxFaults /\ faults' = faults + 1
        /\ Goes(p, [step |-> "built", list |-> NoContainers])
  /\ UNCHANGED <<world, cache, pending, backlog, view, changes, written>>

\* Faulty variant: only a deep queue holds a snapshot back.
CheckBacklog_DeepOnly(p) ==
  /\ At(p, "built")
  /\ Goes(p, IF backlog THEN Idle ELSE [job[p] EXCEPT !.step = "enqueue"])
  /\ UNCHANGED <<world, cache, pending, backlog, view, changes, faults, written>>

\* snapshotWouldPileUp: dropped when one is pending or the queue is deep.
CheckBacklog(p) ==
  /\ At(p, "built")
  /\ Goes(p, IF backlog \/ pending # << >> THEN Idle
             ELSE [job[p] EXCEPT !.step = "enqueue"])
  /\ UNCHANGED <<world, cache, pending, backlog, view, changes, faults, written>>

EnqueueSnapshot(p) ==
  /\ At(p, "enqueue")
  /\ pending' = Append(pending, [list |-> job[p].list, applied |-> FALSE])
  /\ Goes(p, Idle)
  /\ UNCHANGED <<world, cache, backlog, view, changes, faults, written>>

\* The outbox delivers in sequence order; the dashboard replaces its list.
SnapshotArrives(k) ==
  /\ ~pending[k].applied
  /\ \A j \in 1..(k - 1) : pending[j].applied
  /\ pending' = [pending EXCEPT ![k].applied = TRUE]
  /\ view' = pending[k].list
  /\ UNCHANGED <<world, cache, backlog, job, changes, faults, written>>

\* Faulty variant: the acknowledged snapshot stays in the queue.
SnapshotAcknowledged_Kept ==
  /\ pending # << >> /\ Head(pending).applied
  /\ UNCHANGED vars

SnapshotAcknowledged ==
  /\ pending # << >> /\ Head(pending).applied
  /\ pending' = Tail(pending)
  /\ UNCHANGED <<world, cache, backlog, view, job, changes, faults, written>>

-----------------------------------------------------------------------------
\* publishAllContainerStatuses and publishContainerStatus.

\* The listing; its error ends the job.
ListAll(p) ==
  /\ At(p, "idle")
  /\ Goes(p, [step |-> "listed", list |-> world])
  /\ UNCHANGED <<world, cache, pending, backlog, view, changes, faults, written>>

ListOne(p, c) ==
  /\ At(p, "idle")
  /\ world[c] # Gone
  /\ Goes(p, [step |-> "deltas", list |-> world, todo |-> {c}, all |-> FALSE])
  /\ UNCHANGED <<world, cache, pending, backlog, view, changes, faults, written>>

\* A container without an entry makes the refresh send a snapshot instead of
\* deltas; the cache is left as it is.
LookForNew(p) ==
  /\ At(p, "listed")
  /\ LET present == Present(job[p].list)
         hasNew == \E c \in present : cache[c] = Unknown
     IN  Goes(p, IF hasNew THEN [step |-> "renew"]
                 ELSE [step |-> "deltas", list |-> job[p].list,
                       todo |-> present, all |-> TRUE])
  /\ UNCHANGED <<world, cache, pending, backlog, view, changes, faults, written>>

\* containerStateChanged: skip a state that is in the cache, else record it.
CompareState(p, c) ==
  /\ At(p, "deltas") /\ c \in job[p].todo
  /\ IF cache[c] = job[p].list[c]
     THEN Goes(p, [job[p] EXCEPT !.todo = @ \ {c}]) /\ UNCHANGED cache
     ELSE /\ cache' = [cache EXCEPT ![c] = job[p].list[c]]
          /\ Goes(p, [step |-> "send", list |-> job[p].list, all |-> job[p].all,
                      todo |-> job[p].todo, about |-> c])
  /\ UNCHANGED <<world, pending, backlog, view, changes, faults, written>>

Reported(p) == [step |-> "deltas", list |-> job[p].list, all |-> job[p].all,
                todo |-> job[p].todo \ {job[p].about}]

\* emitSignal: written, and received unless the socket is already dead.
SendDelta(p) ==
  /\ At(p, "send")
  /\ LET c == job[p].about
         s == job[p].list[c]
     IN  /\ written' = written \union {<<c, s>>}
         /\ \/ view' = [view EXCEPT ![c] = s] /\ UNCHANGED faults
            \/ faults < MaxFaults /\ faults' = faults + 1 /\ UNCHANGED view
  /\ Goes(p, Reported(p))
  /\ UNCHANGED <<world, cache, pending, backlog, changes>>

\* Faulty variant: the cache keeps a state that was not written.
DeltaFails_Kept(p) ==
  /\ At(p, "send")
  /\ faults < MaxFaults /\ faults' = faults + 1
  /\ Goes(p, Reported(p))
  /\ UNCHANGED <<world, cache, pending, backlog, view, changes, written>>

\* The write fails: forgetContainerState takes the mutex again.
DeltaFails(p) ==
  /\ At(p, "send")
  /\ faults < MaxFaults /\ faults' = faults + 1
  /\ Goes(p, [job[p] EXCEPT !.step = "forget"])
  /\ UNCHANGED <<world, cache, pending, backlog, view, changes, written>>

ForgetContainerState(p) ==
  /\ At(p, "forget")
  /\ cache' = [cache EXCEPT ![job[p].about] = Unknown]
  /\ Goes(p, Reported(p))
  /\ UNCHANGED <<world, pending, backlog, view, changes, faults, written>>

\* Faulty variant: missing containers are recorded as such.
FinishDeltas_RecordsMissing(p) ==
  /\ At(p, "deltas") /\ job[p].todo = {}
  /\ cache' = IF job[p].all
              THEN [c \in Containers |-> IF c \in Present(job[p].list)
                                         THEN cache[c] ELSE Gone]
              ELSE cache
  /\ Goes(p, Idle)
  /\ UNCHANGED <<world, pending, backlog, view, changes, faults, written>>

\* forgetMissingContainers ends a refresh; a single report just ends.
FinishDeltas(p) ==
  /\ At(p, "deltas") /\ job[p].todo = {}
  /\ cache' = IF job[p].all
              THEN [c \in Containers |-> IF c \in Present(job[p].list)
                                         THEN cache[c] ELSE Unknown]
              ELSE cache
  /\ Goes(p, Idle)
  /\ UNCHANGED <<world, pending, backlog, view, changes, faults, written>>

-----------------------------------------------------------------------------
SnapshotStep(p) == CheckBacklog(p) \/ EnqueueSnapshot(p)

DeltaStep(p) ==
  \/ LookForNew(p)
  \/ \E c \in Containers : CompareState(p, c)
  \/ SendDelta(p) \/ DeltaFails(p) \/ ForgetContainerState(p)
  \/ FinishDeltas(p)

Start(p) == ListAll(p) \/ \E c \in Containers : ListOne(p, c)

OutboxStep ==
  (\E k \in DOMAIN pending : SnapshotArrives(k)) \/ SnapshotAcknowledged

Next ==
  \/ \E c \in Containers, s \in States \union {Gone} : ContainerChanges(c, s)
  \/ BacklogGrows \/ BacklogDrains \/ OutboxStep
  \/ \E p \in Publishers :
       BuildSnapshot(p) \/ SnapshotStep(p) \/ Start(p) \/ DeltaStep(p)

Spec == Init /\ [][Next]_vars

\* The goroutines run, the outbox delivers what it holds (Delivery) and the
\* self-heal loop builds a snapshot every 15 minutes of a session.
FairSpec ==
  /\ Spec
  /\ WF_vars(BacklogDrains) /\ WF_vars(OutboxStep)
  /\ \A p \in Publishers :
       /\ WF_vars(SnapshotStep(p)) /\ WF_vars(DeltaStep(p))
       /\ WF_vars(At(p, "renew") /\ BuildSnapshot(p))
       /\ SF_vars(At(p, "idle") /\ BuildSnapshot(p))

-----------------------------------------------------------------------------
TypeOK ==
  /\ world \in Listing /\ view \in Listing
  /\ cache \in [Containers -> States \union {Unknown}]
  /\ \A k \in DOMAIN pending : pending[k].list \in Listing
  /\ \A p \in Publishers :
       /\ job[p].step \in {"idle", "listed", "renew", "built", "enqueue",
                           "deltas", "send", "forget"}
       /\ At(p, "deltas") \/ At(p, "send") \/ At(p, "forget") =>
            job[p].todo \subseteq Present(job[p].list)
       /\ At(p, "send") \/ At(p, "forget") => job[p].about \in job[p].todo

\* handshake.go:54-56 and events_test.go:44: snapshots do not pile up.  The
\* check and the enqueue are not atomic, so several publishers may queue one
\* each, but never more: as many as publishers, and none on top of those.
SnapshotsDoNotPileUp ==
  Len(pending) + Cardinality({p \in Publishers : At(p, "enqueue")})
    <= Cardinality(Publishers)

\* events.go:193-194 and 217-219: a state is skipped as already reported only
\* if a delta with it was written, or is about to be.
SkippedWasReported ==
  \A c \in Containers :
    cache[c] # Unknown =>
      \/ <<c, cache[c]>> \in written
      \/ \E p \in Publishers : /\ At(p, "send") \/ At(p, "forget")
                               /\ job[p].about = c
                               /\ job[p].list[c] = cache[c]

\* events.go:196-199: whatever was lost, overtaken or skipped, once the machine
\* is quiet the dashboard comes to show it as it is, and keeps doing so.
DashboardConverges == <>[](view = world)
=============================================================================
