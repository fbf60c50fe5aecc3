-------------------------- MODULE CommandDispatch --------------------------
(***************************************************************************)
(* The life of a dashboard command: internal/agent/command_dispatch.go and *)
(* the receipts of internal/agent/command_inbox.go.                        *)
(*                                                                         *)
(* readServerFrames starts one goroutine (a runner) per frame.  The runner *)
(* first looks for a receipt, then marks the command running, executes it, *)
(* records the result in the inbox and queues it as a fact; a receipt it   *)
(* finds is answered instead.  Nothing but inbox.mu is held, and only for  *)
(* one inbox operation at a time, so runners of two copies of a command    *)
(* interleave at every step.  The inbox is saved by os.WriteFile under     *)
(* inbox.mu: the file is empty between its truncation and its writing, and *)
(* a save that fails, before the truncation or after it, goes unnoticed.   *)
(*                                                                         *)
(* The receipts cannot do their work for every command.  The auxiliary     *)
(* variable exposed names those for which they could not, as the world and *)
(* not the runners decide; the properties are about all the others.        *)
(*                                                                         *)
(* Facts are queued in the outbox, used here through its promise           *)
(* (DurableStore): what is queued is durable.                              *)
(***************************************************************************)
EXTENDS SequencesExt

CONSTANTS
  Commands,    \* command ids
  Streaming,   \* those whose type is a streaming one
  Runners,     \* bound: goroutines running commands at one time
  NoRunner, NoCommand,
  Cap,         \* commandInboxCap
  MaxSends,    \* bound: how often the API sends each command
  MaxCrashes   \* bound: crashes

ASSUME DispatchAssumption ==
  /\ Streaming \subseteq Commands
  /\ NoRunner \notin Runners /\ NoCommand \notin Commands
  /\ Cap \in Nat \ {0}
  /\ MaxSends \in [Commands -> Nat] /\ MaxCrashes \in Nat

VARIABLES
  receipts,  \* the inbox in memory, oldest UpdatedAt first
  file,      \* the inbox file: a sequence of receipts, or Torn when empty
  saver,     \* the runner saving the inbox, which holds inbox.mu
  at,        \* at[r]: the next step of runner r
  cmd,       \* cmd[r]: its command
  outcome,   \* outcome[r]: what its execution ended with
  queued,    \* results queued as facts
  told,      \* results of tracked commands sent as signals, lost or not
  sends, crashes,
  runs,      \* runs[c]: how often the handler of c was started
  saved,     \* auxiliary: the last save ended well, or the file was just read
  exposed    \* auxiliary: commands a copy of which came before the mark, or
             \* whose receipt was evicted or did not reach the disk in time

vars == <<receipts, file, saver, at, cmd, outcome, queued, told, sends,
          crashes, runs, saved, exposed>>

-----------------------------------------------------------------------------
Finished == {"succeeded", "failed"}
Receipt == [cmd : Commands, status : Finished \union {"running"}]
Result == [cmd : Commands, status : Finished]
Torn == <<[cmd |-> NoCommand, status |-> "torn"]>>

Steps == {"free", "check", "mark", "marked", "execute", "executing",
          "record", "recorded", "queue", "signal"}

Tracked(c) == c \notin Streaming

\* commandInbox.get: the status of a command's receipt, "none" without one.
Holds(box, c) == \E k \in DOMAIN box : box[k].cmd = c
PositionOf(box, c) == CHOOSE k \in DOMAIN box : box[k].cmd = c
StatusIn(box, c) == IF Holds(box, c) THEN box[PositionOf(box, c)].status ELSE "none"

\* The commands whose receipt is another in one inbox than in the other.
Differing(box, next, C) == {c \in C : StatusIn(box, c) # StatusIn(next, c)}

\* Faulty variant: one receipt too many is kept.
Upsert_OneMore(box, c, s) ==
  LET others == IF Holds(box, c) THEN RemoveAt(box, PositionOf(box, c)) ELSE box
      next == Append(others, [cmd |-> c, status |-> s])
  IN  IF Len(next) > Cap + 1 THEN Tail(next) ELSE next

\* commandInbox.upsert: the receipt replaces that of the same command; above
\* the cap the receipt with the oldest UpdatedAt goes, whatever its status.
Upsert(box, c, s) ==
  LET others == IF Holds(box, c) THEN RemoveAt(box, PositionOf(box, c)) ELSE box
      next == Append(others, [cmd |-> c, status |-> s])
  IN  IF Len(next) > Cap THEN Tail(next) ELSE next

InboxFree == saver = NoRunner

Goto(r, step) == at' = [at EXCEPT ![r] = step]
Done(r) == /\ Goto(r, "free")
           /\ cmd' = [cmd EXCEPT ![r] = NoCommand]
           /\ outcome' = [outcome EXCEPT ![r] = "none"]

Init ==
  /\ receipts = << >> /\ file = << >> /\ saver = NoRunner
  /\ at = [r \in Runners |-> "free"]
  /\ cmd = [r \in Runners |-> NoCommand]
  /\ outcome = [r \in Runners |-> "none"]
  /\ queued = {} /\ told = {}
  /\ sends = [c \in Commands |-> 0]
  /\ runs = [c \in Commands |-> 0]
  /\ crashes = 0
  /\ saved = TRUE /\ exposed = {}

-----------------------------------------------------------------------------
\* A copy of c has been received and has not been marked running yet.
Arriving(c) == \E r \in Runners : cmd[r] = c /\ at[r] \in {"check", "mark"}

\* readServerFrames: a command frame starts a runner.  The API sends a command
\* again when it has not told of its result, typically after a reconnect.
ReceiveCommand(r, c) ==
  /\ at[r] = "free"
  /\ sends[c] < MaxSends[c]
  /\ exposed' = exposed \union (IF Arriving(c) THEN {c} ELSE {})
  /\ sends' = [sends EXCEPT ![c] = @ + 1]
  /\ cmd' = [cmd EXCEPT ![r] = c]
  /\ Goto(r, IF Tracked(c) THEN "check" ELSE "execute")
  /\ UNCHANGED <<receipts, file, saver, outcome, queued, told, crashes, runs,
                 saved>>

\* Faulty variant: only finished commands are recognised.
Check_IgnoresRunning(r) ==
  /\ at[r] = "check" /\ InboxFree
  /\ IF StatusIn(receipts, cmd[r]) \in Finished
     THEN Done(r) ELSE Goto(r, "mark") /\ UNCHANGED <<cmd, outcome>>
  /\ UNCHANGED <<receipts, file, saver, queued, told, sends, crashes, runs,
                 saved, exposed>>

\* replayIdempotentCommand: a finished command is answered with its result, as
\* a signal that the connection may lose; a running one with progress only.
\* With no receipt the runner reports "received" and goes on to mark it.
Check(r) ==
  /\ at[r] = "check" /\ InboxFree
  /\ LET status == StatusIn(receipts, cmd[r])
         answer == [cmd |-> cmd[r], status |-> status]
     IN  CASE status \in Finished -> Done(r) /\ told' = told \union {answer}
           [] status = "running"  -> Done(r) /\ UNCHANGED told
           [] OTHER -> Goto(r, "mark") /\ UNCHANGED <<cmd, outcome, told>>
  /\ UNCHANGED <<receipts, file, saver, queued, sends, crashes, runs, saved,
                 exposed>>

\* upsert and what opens its save: the file is truncated, or the directory or
\* the file cannot be opened.  A receipt evicted above the cap is forgotten.
StartSave(r, status) ==
  /\ InboxFree
  /\ LET next == Upsert(receipts, cmd[r], status)
     IN  /\ receipts' = next
         /\ exposed' = exposed \union Differing(receipts, next, Commands \ {cmd[r]})
  /\ file' \in {Torn, file}
  /\ saver' = r /\ saved' = FALSE

MarkRunning(r) ==
  /\ at[r] = "mark"
  /\ StartSave(r, "running")
  /\ Goto(r, "marked")
  /\ UNCHANGED <<cmd, outcome, queued, told, sends, crashes, runs>>

\* The save ends and inbox.mu is released.  The write to the opened file may
\* fail as well: upsert ignores the error and the runner goes on, with a file
\* that is older than the inbox or that holds nothing a load would accept.
FinishSave(r) ==
  /\ saver = r
  /\ \/ file = Torn /\ file' = receipts /\ saved' = TRUE
     \/ UNCHANGED <<file, saved>>
  /\ saver' = NoRunner
  /\ Goto(r, IF at[r] = "marked" THEN "execute" ELSE "queue")
  /\ UNCHANGED <<receipts, cmd, outcome, queued, told, sends, crashes, runs,
                 exposed>>

\* executeCommand calls the handler ...
StartCommand(r) ==
  /\ at[r] = "execute"
  /\ runs' = [runs EXCEPT ![cmd[r]] = @ + 1]
  /\ Goto(r, "executing")
  /\ UNCHANGED <<receipts, file, saver, cmd, outcome, queued, told, sends,
                 crashes, saved, exposed>>

\* Faulty variant: a failed handler ends its runner.
FinishCommand_FailureForgotten(r) ==
  /\ at[r] = "executing"
  /\ \/ /\ outcome' = [outcome EXCEPT ![r] = "succeeded"]
        /\ Goto(r, IF Tracked(cmd[r]) THEN "record" ELSE "signal")
        /\ UNCHANGED cmd
     \/ Done(r)
  /\ UNCHANGED <<receipts, file, saver, queued, told, sends, crashes, runs,
                 saved, exposed>>

\* ... and it returns; an unknown type counts as a success.
FinishCommand(r) ==
  /\ at[r] = "executing"
  /\ \E s \in Finished : outcome' = [outcome EXCEPT ![r] = s]
  /\ Goto(r, IF Tracked(cmd[r]) THEN "record" ELSE "signal")
  /\ UNCHANGED <<receipts, file, saver, cmd, queued, told, sends, crashes,
                 runs, saved, exposed>>

\* Faulty variant: the receipt stays "running".
RecordResult_Forgotten(r) ==
  /\ at[r] = "record"
  /\ Goto(r, "queue")
  /\ UNCHANGED <<receipts, file, saver, cmd, outcome, queued, told, sends,
                 crashes, runs, saved, exposed>>

\* publishCommandResult: markResult ...
RecordResult(r) ==
  /\ at[r] = "record"
  /\ StartSave(r, outcome[r])
  /\ Goto(r, "recorded")
  /\ UNCHANGED <<cmd, outcome, queued, told, sends, crashes, runs>>

\* ... then emitFact, whose error is logged and leaves the result unqueued; the
\* last progress report, a signal, tells the result either way.
QueueResult(r) ==
  /\ at[r] = "queue"
  /\ LET result == [cmd |-> cmd[r], status |-> outcome[r]]
     IN  /\ \/ queued' = queued \union {result}
            \/ UNCHANGED queued
         /\ told' = told \union {result}
  /\ Done(r)
  /\ UNCHANGED <<receipts, file, saver, sends, crashes, runs, saved, exposed>>

\* A streaming command's result is a signal to whoever watches it; nothing is
\* kept of it.
SignalResult(r) ==
  /\ at[r] = "signal"
  /\ Done(r)
  /\ UNCHANGED <<receipts, file, saver, queued, told, sends, crashes, runs,
                 saved, exposed>>

-----------------------------------------------------------------------------
\* What a load makes of the file: nothing, if it is torn.
Loaded == IF file = Torn THEN << >> ELSE file

\* Faulty variant: receipts of interrupted commands are dropped when loaded.
CrashRestart_DropsRunning ==
  /\ crashes < MaxCrashes
  /\ crashes' = crashes + 1
  /\ receipts' = SelectSeq(Loaded, LAMBDA k : k.status # "running")
  /\ exposed' = exposed \union Differing(receipts, Loaded, Commands)
  /\ saver' = NoRunner /\ saved' = TRUE
  /\ at' = [r \in Runners |-> "free"]
  /\ cmd' = [r \in Runners |-> NoCommand]
  /\ outcome' = [r \in Runners |-> "none"]
  /\ UNCHANGED <<file, queued, told, sends, runs>>

\* The process dies, whatever it was doing, and starts again: newCommandInbox
\* loads the file, ignoring the error of one that does not parse.
CrashRestart ==
  /\ crashes < MaxCrashes
  /\ crashes' = crashes + 1
  /\ receipts' = Loaded
  /\ exposed' = exposed \union Differing(receipts, Loaded, Commands)
  /\ saver' = NoRunner /\ saved' = TRUE
  /\ at' = [r \in Runners |-> "free"]
  /\ cmd' = [r \in Runners |-> NoCommand]
  /\ outcome' = [r \in Runners |-> "none"]
  /\ UNCHANGED <<file, queued, told, sends, runs>>

\* The steps of a runner that take inbox.mu, and the others.
LockingStep(r) == Check(r) \/ MarkRunning(r) \/ RecordResult(r)
PlainStep(r) ==
  \/ FinishSave(r) \/ StartCommand(r) \/ FinishCommand(r)
  \/ QueueResult(r) \/ SignalResult(r)

RunnerStep(r) == LockingStep(r) \/ PlainStep(r)

Next ==
  \/ \E r \in Runners : RunnerStep(r)
  \/ \E r \in Runners, c \in Commands : ReceiveCommand(r, c)
  \/ CrashRestart

Spec == Init /\ [][Next]_vars

\* The Go scheduler runs every goroutine; sync.Mutex does not starve a waiter;
\* a handler returns (what may keep one from it is the matter of its module).
FairSpec ==
  /\ Spec
  /\ \A r \in Runners : WF_vars(PlainStep(r)) /\ SF_vars(LockingStep(r))

-----------------------------------------------------------------------------
\* Types; the inbox holds one receipt per command and no more than its cap.
TypeOK ==
  /\ receipts \in Seq(Receipt) /\ Len(receipts) <= Cap
  /\ \A j, k \in DOMAIN receipts : receipts[j].cmd = receipts[k].cmd => j = k
  /\ file = Torn \/ file \in Seq(Receipt)
  /\ saver \in Runners \union {NoRunner}
  /\ saver # NoRunner => at[saver] \in {"marked", "recorded"}
  /\ \A r \in Runners :
       /\ at[r] \in Steps
       /\ cmd[r] \in Commands \union {NoCommand}
       /\ at[r] = "free" <=> cmd[r] = NoCommand
       /\ outcome[r] \in Finished <=> at[r] \in {"record", "recorded", "queue", "signal"}
  /\ queued \subseteq Result /\ told \subseteq Result
  /\ saved \in BOOLEAN /\ exposed \subseteq Commands

\* config.go:34-36: a command that is not a streaming one is executed once,
\* however often the API sends it and however often the agent restarts, unless
\* two copies came before the mark, its receipt was evicted, or the process
\* died before its receipt was on disk.
RunsAtMostOnce == \A c \in Commands \ exposed : Tracked(c) => runs[c] <= 1

\* command_dispatch.go:81-87: once its result has been queued, a tracked
\* command has a finished receipt with that very result, on disk too if the
\* last save ended well, so that a replay is neither run nor answered otherwise.
ResultBehindReceipt ==
  \A q \in queued : q.cmd \notin exposed =>
    /\ StatusIn(receipts, q.cmd) = q.status
    /\ saved => StatusIn(file, q.cmd) = q.status

\* A copy of c has been received and its outcome is open.
Awaited(c) == \E r \in Runners : cmd[r] = c /\ outcome[r] = "none"

\* command_dispatch.go:84-87: every tracked command the agent receives gets a
\* result queued, or at least a receipt of its result that answers a replay,
\* unless the process dies in between.
ReceivedIsAnswered ==
  \A c \in Commands : Tracked(c) /\ Awaited(c) ~>
    \/ \E q \in queued : q.cmd = c
    \/ StatusIn(receipts, c) \in Finished
    \/ crashes > 0

\* Together: the receipts, whatever happens to the connection, to the process
\* and to the copies and receipts of other commands, implement for each command
\* that is not exposed an executor that takes it up once.
Executor ==
  INSTANCE OnceExecutor WITH
    Command <- Commands \ Streaming, Outcome <- Finished,
    life <- [c \in Commands \ Streaming |-> StatusIn(receipts, c)],
    executed <- [c \in Commands \ Streaming |-> runs[c]],
    answers <- queued \union told,
    waived <- exposed \ Streaming

\* config.go:34-36 and command_dispatch.go:81-126: seen by the dashboard, a
\* tracked command that is not exposed goes from unknown to running to one
\* outcome and stays there.
ImplementsExecutor == Executor!Spec
=============================================================================
