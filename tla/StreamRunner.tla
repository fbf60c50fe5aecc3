---------------------------- MODULE StreamRunner ----------------------------
(***************************************************************************)
(* RunStreamingCommand, internal/docker/compose.go:130-191.  A process     *)
(* writes lines into an OS pipe; os/exec copies them into an io.Pipe,      *)
(* whose writes wait for the reader; a scanner puts them into a channel;   *)
(* a reporter notes them in the transcript and reports them in batches.    *)
(* Lines are told by their number, and each stage by how many it has       *)
(* taken.  A deploy and a redeploy have a deadline that kills the process,  *)
(* but not what it has started; a git_deploy has none.                     *)
(***************************************************************************)
EXTENDS Integers

CONSTANTS
  MaxLines,  \* bound: lines a process writes
  PipeCap,   \* lines the OS pipe holds, and the scanner's buffer
  ChanCap,   \* capacity of lineChan, 200 in the code
  Batch,     \* lines that are reported at once, 15 in the code
  LongLines  \* numbers of the lines that exceed the scanner's megabyte

ASSUME StreamAssumption ==
  /\ MaxLines \in Nat /\ PipeCap \in Nat \ {0} /\ ChanCap \in Nat \ {0}
  /\ Batch \in Nat \ {0} /\ LongLines \subseteq 1 .. MaxLines

VARIABLES
  process,   \* "timed" and "untimed": runs with a deadline, or without; "exited"
  child,     \* a process it left behind holds the pipe
  written,   \* lines in the OS pipe or past it
  copied,    \* lines os/exec has written into the io.Pipe
  queued,    \* lines the scanner has put into lineChan
  noted,     \* lines the transcript has
  reported,  \* lines that were reported
  scanner,   \* "scanning", "stopped": lineChan is closed
  reporter,  \* "on", "off": done is closed
  runner     \* "run": in cmd.Run; "close": waits for done; "returned"

svars == <<process, child, written, copied, queued, noted, reported, scanner,
           reporter, runner>>

StreamInit ==
  /\ process \in {"timed", "untimed"} /\ child = FALSE
  /\ written = 0 /\ copied = 0 /\ queued = 0 /\ noted = 0 /\ reported = 0
  /\ scanner = "scanning" /\ reporter = "on" /\ runner = "run"

\* The process or the one it started blocks on a full pipe.
WriteLine ==
  /\ process # "exited" \/ child
  /\ written < MaxLines /\ written - copied < PipeCap
  /\ written' = written + 1
  /\ UNCHANGED <<process, child, copied, queued, noted, reported, scanner,
                 reporter, runner>>

\* By itself or killed by its context, with or without a child that lives on.
ProcessEnds ==
  /\ process # "exited"
  /\ process' = "exited" /\ child' \in BOOLEAN
  /\ UNCHANGED <<written, copied, queued, noted, reported, scanner, reporter, runner>>

ChildEnds ==
  /\ child
  /\ child' = FALSE
  /\ UNCHANGED <<process, written, copied, queued, noted, reported, scanner,
                 reporter, runner>>

\* A write into the io.Pipe ends when the scanner has read all of it; a
\* scanner that has stopped reads no more.
Copy ==
  /\ copied < written /\ scanner = "scanning" /\ copied - queued < PipeCap
  /\ copied + 1 \notin LongLines
  /\ copied' = copied + 1
  /\ UNCHANGED <<process, child, written, queued, noted, reported, scanner,
                 reporter, runner>>

\* lineChan <- line
Enqueue ==
  /\ scanner = "scanning" /\ queued < copied /\ queued - noted < ChanCap
  /\ queued' = queued + 1
  /\ UNCHANGED <<process, child, written, copied, noted, reported, scanner,
                 reporter, runner>>

\* Faulty variant: the pipe is not closed.
StopScanning_PipeOpen ==
  /\ scanner = "scanning" /\ queued = copied
  /\ copied < written /\ copied + 1 \in LongLines
  /\ scanner' = "stopped"
  /\ UNCHANGED <<process, child, written, copied, queued, noted, reported,
                 reporter, runner>>

\* The scanner sees the end of the closed pipe, or a line that is too long.
StopScanning ==
  /\ scanner = "scanning" /\ queued = copied
  /\ runner = "close" \/ (copied < written /\ copied + 1 \in LongLines)
  /\ scanner' = "stopped"
  /\ UNCHANGED <<process, child, written, copied, queued, noted, reported,
                 reporter, runner>>

\* Faulty variant: a batch is full one line too late.
Note_LateBatch ==
  /\ reporter = "on" /\ noted < queued
  /\ noted' = noted + 1
  /\ reported' = IF noted' - reported > Batch THEN noted' ELSE reported
  /\ UNCHANGED <<process, child, written, copied, queued, scanner, reporter, runner>>

\* A line is noted, and reported with the ones before it if they make a batch.
Note ==
  /\ reporter = "on" /\ noted < queued
  /\ noted' = noted + 1
  /\ reported' = IF noted' - reported >= Batch THEN noted' ELSE reported
  /\ UNCHANGED <<process, child, written, copied, queued, scanner, reporter, runner>>

Tick ==
  /\ reporter = "on" /\ reported < noted
  /\ reported' = noted
  /\ UNCHANGED <<process, child, written, copied, queued, noted, scanner,
                 reporter, runner>>

\* Faulty variant: the last lines are not flushed.
EndReports_NoFlush ==
  /\ reporter = "on" /\ scanner = "stopped" /\ noted = queued
  /\ reporter' = "off"
  /\ UNCHANGED <<process, child, written, copied, queued, noted, reported,
                 scanner, runner>>

\* The channel is closed and empty.
EndReports ==
  /\ reporter = "on" /\ scanner = "stopped" /\ noted = queued
  /\ reporter' = "off" /\ reported' = noted
  /\ UNCHANGED <<process, child, written, copied, queued, noted, scanner, runner>>

\* cmd.Run returns when the process and os/exec's copy have ended, which it is
\* when nobody holds the pipe and all of it was copied.  pw.Close.
RunEnds ==
  /\ runner = "run" /\ process = "exited" /\ ~child /\ copied = written
  /\ runner' = "close"
  /\ UNCHANGED <<process, child, written, copied, queued, noted, reported,
                 scanner, reporter>>

\* <-done
Return ==
  /\ runner = "close" /\ reporter = "off"
  /\ runner' = "returned"
  /\ UNCHANGED <<process, child, written, copied, queued, noted, reported,
                 scanner, reporter>>

StreamNext ==
  \/ WriteLine \/ ProcessEnds \/ ChildEnds \/ Copy \/ Enqueue \/ StopScanning
  \/ Note \/ Tick \/ EndReports \/ RunEnds \/ Return

StreamSpec == StreamInit /\ [][StreamNext]_svars

\* The goroutines run, and a deadline kills the process that has one.
StreamProgress ==
  \/ (process = "timed" /\ ProcessEnds) \/ Copy \/ Enqueue \/ StopScanning \/ Note \/ EndReports
  \/ RunEnds \/ Return

StreamFairness == WF_svars(StreamProgress)

-----------------------------------------------------------------------------
\* No stage is ahead of the one before it, none holds more than its capacity,
\* and less than a batch waits to be reported.
StreamTypeOK ==
  /\ process \in {"timed", "untimed", "exited"} /\ child \in BOOLEAN
  /\ scanner \in {"scanning", "stopped"} /\ reporter \in {"on", "off"}
  /\ runner \in {"run", "close", "returned"}
  /\ {written, copied, queued, noted, reported} \subseteq 0 .. MaxLines
  /\ copied <= written /\ written <= copied + PipeCap
  /\ queued <= copied /\ copied <= queued + PipeCap
  /\ noted <= queued /\ queued <= noted + ChanCap
  /\ reported <= noted /\ noted < reported + Batch

\* compose.go:186-190: when the command returns, every line its process wrote
\* is in the transcript and was reported, those of the last moment included.
ReturnedIsComplete ==
  runner = "returned" => reported = written /\ noted = written

\* compose.go:130-191, commands_docker.go:168, 200, deploy.go:106: a command
\* returns, a deploy or redeploy at the latest after its deadline and a
\* git_deploy once its process ends; unless a line was too long for the scanner
\* or a process it left behind keeps its output open.
StreamReturns ==
  []<>(\/ runner = "returned" \/ process = "untimed" \/ child
       \/ \E n \in LongLines : n <= written)
=============================================================================
