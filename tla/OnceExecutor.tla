---------------------------- MODULE OnceExecutor ----------------------------
(***************************************************************************)
(* What the dashboard may rely on when it sends a command that is not a    *)
(* streaming one, as often as it likes (internal/config/config.go:34-36    *)
(* and internal/agent/command_dispatch.go:81-87), with no connection, no   *)
(* copies, no receipts, no files and no restarts: a command is taken up    *)
(* once, executed at most once and then finished for good, and whoever     *)
(* asks hears what it finished with.  The promise is made for each command *)
(* by itself and may be withdrawn for one (waived): nothing is said of it  *)
(* from then on, and nothing changes for the others.                       *)
(***************************************************************************)
EXTENDS Integers

CONSTANTS Command, Outcome

VARIABLES
  life,      \* life[c]: "none", then "running", then its outcome
  executed,  \* executed[c]: how often its handler was started
  answers,   \* the results that were given, as queued facts or to a replay
  waived     \* the commands for which the promise no longer holds

vars == <<life, executed, answers, waived>>

Init ==
  /\ life = [c \in Command |-> "none"]
  /\ executed = [c \in Command |-> 0]
  /\ answers = {}
  /\ waived = {}

AnswersTo(c) == {a \in answers : a.cmd = c}

TakeUp(c) ==
  /\ life[c] = "none" /\ life'[c] = "running"
  /\ executed'[c] = executed[c] /\ AnswersTo(c)' = AnswersTo(c)

Execute(c) ==
  /\ life[c] = "running" /\ life'[c] = life[c]
  /\ executed[c] = 0 /\ executed'[c] = 1
  /\ AnswersTo(c)' = AnswersTo(c)

Finish(c, s) ==
  /\ life[c] = "running" /\ life'[c] = s
  /\ executed[c] = 1 /\ executed'[c] = 1
  /\ AnswersTo(c)' = AnswersTo(c)

Answer(c) ==
  /\ life[c] \in Outcome /\ life'[c] = life[c]
  /\ executed'[c] = executed[c]
  /\ AnswersTo(c)' = AnswersTo(c) \union {[cmd |-> c, status |-> life[c]]}

Rest(c) ==
  /\ life'[c] = life[c] /\ executed'[c] = executed[c]
  /\ AnswersTo(c)' = AnswersTo(c)

Next ==
  /\ waived' \in SUBSET Command /\ waived \subseteq waived'
  /\ \A c \in Command \ waived' :
       TakeUp(c) \/ Execute(c) \/ Answer(c) \/ Rest(c) \/ \E s \in Outcome : Finish(c, s)

Spec == Init /\ [][Next]_vars
=============================================================================
