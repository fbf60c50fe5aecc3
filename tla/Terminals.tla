----------------------------- MODULE Terminals -----------------------------
(***************************************************************************)
(* Web terminals: internal/agent/terminal.go, composed with the session    *)
(* they belong to.                                                         *)
(*                                                                         *)
(* Each terminal command runs in a goroutine of its own (a runner) that    *)
(* holds termMu for the whole handler, which includes the docker exec that *)
(* probes for bash and the write of the input to the PTY.  Each shell has  *)
(* a reader goroutine that outlives it, reports its end and removes the    *)
(* entry with the shell's id.  The end of a session takes all entries      *)
(* under termMu and kills their shells after releasing it.  A runner       *)
(* belongs to Run's context, not to its session's: it may come late.       *)
(***************************************************************************)
EXTENDS Session

CONSTANTS
  Ids,        \* terminal ids, chosen by the dashboard
  Shells, NoShell,
  Runners,    \* goroutines running terminal commands at one time
  NoOne,      \* termMu is free
  ReusedIds,  \* ids the dashboard may start a terminal with again
  Hangs       \* steps that may never end: "probe", "input"

ASSUME TerminalAssumption ==
  /\ NoShell \notin Shells
  /\ NoOne \notin Runners
  /\ ReusedIds \subseteq Ids
  /\ Hangs \subseteq {"probe", "input"}

VARIABLES
  terminals,  \* terminals[id]: the registered shell of id, or NoShell
  shell,      \* shell[s]: its id, connection and state
  reader,     \* reader[s]: its output loop
  request,    \* request[r]: the command runner r handles
  termMu,     \* the holder of termMu
  closing,    \* shells closeAllTerminals has taken and not killed yet
  startedIds, \* ids the dashboard has asked to start
  told        \* shells whose end the dashboard has been told

tvars == <<terminals, shell, reader, request, termMu, closing, startedIds, told>>
vars == <<svars, tvars>>

NoRequest == [step |-> "idle"]

Init ==
  /\ SInit
  /\ terminals = [id \in Ids |-> NoShell]
  /\ shell = [s \in Shells |-> [state |-> "unused", conn |-> 0]]
  /\ reader = [s \in Shells |-> "none"]
  /\ request = [r \in Runners |-> NoRequest]
  /\ termMu = NoOne /\ closing = {}
  /\ startedIds = {} /\ told = {}

Running(s) == shell[s].state = "running"
Kill(S) == [s \in Shells |-> IF s \in S THEN [shell[s] EXCEPT !.state = "ended"]
                             ELSE shell[s]]
Finish(r) == request' = [request EXCEPT ![r] = NoRequest]
\* Runner r may enter the handler of op.
Enters(r, op) == /\ request[r].step = "queued" /\ request[r].op = op
                 /\ termMu = NoOne /\ phase # "stopped"

-----------------------------------------------------------------------------
\* readServerFrames starts a goroutine for a terminal command.
ReceiveTerminal(r, op, id) ==
  /\ phase = "serve" /\ conn \in open \ lost
  /\ request[r] = NoRequest
  /\ op = "start" /\ id \in startedIds => id \in ReusedIds
  /\ startedIds' = IF op = "start" THEN startedIds \union {id} ELSE startedIds
  /\ request' = [request EXCEPT ![r] =
                   [step |-> "queued", op |-> op, id |-> id, conn |-> conn]]
  /\ UNCHANGED <<svars, terminals, shell, reader, termMu, closing, told>>

\* terminal_start with a free id: docker exec probes for bash.
ProbeShell(r) ==
  /\ Enters(r, "start")
  /\ terminals[request[r].id] = NoShell
  /\ termMu' = r
  /\ request' = [request EXCEPT ![r].step = "probe"]
  /\ UNCHANGED <<svars, terminals, shell, reader, closing, startedIds, told>>

\* "terminal session already exists".
RefuseStart(r) ==
  /\ Enters(r, "start")
  /\ terminals[request[r].id] # NoShell
  /\ Finish(r)
  /\ UNCHANGED <<svars, terminals, shell, reader, termMu, closing, startedIds, told>>

\* pty.Start, the registration and the reader; or the error of pty.Start.
StartShell(r) ==
  /\ request[r].step = "probe" /\ phase # "stopped"
  /\ \/ \E s \in Shells :
          /\ shell[s].state = "unused"
          /\ shell' = [shell EXCEPT ![s] = [state |-> "running",
                         id |-> request[r].id, conn |-> request[r].conn]]
          /\ terminals' = [terminals EXCEPT ![request[r].id] = s]
          /\ reader' = [reader EXCEPT ![s] = "reading"]
     \/ UNCHANGED <<terminals, shell, reader>>
  /\ termMu' = NoOne
  /\ Finish(r)
  /\ UNCHANGED <<svars, closing, startedIds, told>>

\* terminal_input: the write to the PTY holds termMu and WriteMu.
WriteInput(r) ==
  /\ Enters(r, "input")
  /\ terminals[request[r].id] # NoShell
  /\ termMu' = r
  /\ request' = [request EXCEPT ![r].step = "write"]
  /\ UNCHANGED <<svars, terminals, shell, reader, closing, startedIds, told>>

InputWritten(r) ==
  /\ request[r].step = "write" /\ phase # "stopped"
  /\ termMu' = NoOne
  /\ Finish(r)
  /\ UNCHANGED <<svars, terminals, shell, reader, closing, startedIds, told>>

\* terminal_stop; an unknown id is a success (and input to one an error).
StopTerminal(r) ==
  /\ Enters(r, "stop")
  /\ shell' = Kill({terminals[request[r].id]})
  /\ terminals' = [terminals EXCEPT ![request[r].id] = NoShell]
  /\ Finish(r)
  /\ UNCHANGED <<svars, reader, termMu, closing, startedIds, told>>

RefuseInput(r) ==
  /\ Enters(r, "input")
  /\ terminals[request[r].id] = NoShell
  /\ Finish(r)
  /\ UNCHANGED <<svars, terminals, shell, reader, termMu, closing, startedIds, told>>

-----------------------------------------------------------------------------
\* Shells and their readers.

ShellExits(s) ==
  /\ Running(s)
  /\ shell' = Kill({s})
  /\ UNCHANGED <<svars, terminals, reader, request, termMu, closing, startedIds, told>>

\* Faulty variant: the reader leaves without a word.
ReaderEnds_Silent(s) ==
  /\ reader[s] = "reading" /\ ~Running(s) /\ phase # "stopped"
  /\ reader' = [reader EXCEPT ![s] = "leaving"]
  /\ UNCHANGED <<svars, terminals, shell, request, termMu, closing, startedIds, told>>

\* The PTY's read fails: a last signal, with Closed set, goes to the
\* connection the shell was started from.
ReaderEnds(s) ==
  /\ reader[s] = "reading" /\ ~Running(s) /\ phase # "stopped"
  /\ reader' = [reader EXCEPT ![s] = "leaving"]
  /\ told' = IF shell[s].conn \in open \ lost THEN told \union {s} ELSE told
  /\ UNCHANGED <<svars, terminals, shell, request, termMu, closing, startedIds>>

\* Faulty variant: the entry of an ended shell stays.
ReaderLeaves_KeepsEntry(s) ==
  /\ reader[s] = "leaving" /\ termMu = NoOne /\ phase # "stopped"
  /\ reader' = [reader EXCEPT ![s] = "gone"]
  /\ UNCHANGED <<svars, terminals, shell, request, termMu, closing, startedIds, told>>

\* The reader's deferred function deletes whatever its id stands for by now.
ReaderLeaves(s) ==
  /\ reader[s] = "leaving" /\ termMu = NoOne /\ phase # "stopped"
  /\ reader' = [reader EXCEPT ![s] = "gone"]
  /\ terminals' = [terminals EXCEPT ![shell[s].id] = NoShell]
  /\ UNCHANGED <<svars, shell, request, termMu, closing, startedIds, told>>

-----------------------------------------------------------------------------
\* closeAllTerminals, the deferred call that ends a session.

Registered == {terminals[id] : id \in Ids} \ {NoShell}

\* Faulty variant: the entries are forgotten and their shells not killed.
TakeTerminals_None ==
  /\ phase = "teardown" /\ termMu = NoOne
  /\ terminals' = [id \in Ids |-> NoShell]
  /\ phase' = "decide"
  /\ UNCHANGED <<ctxDone, conn, open, lost, workers, err, stable, streak, rested>>
  /\ UNCHANGED <<shell, reader, request, termMu, closing, startedIds, told>>

\* termMu is held for the copy only; the shells are killed afterwards.
TakeTerminals ==
  /\ phase = "teardown" /\ termMu = NoOne
  /\ closing' = Registered
  /\ terminals' = [id \in Ids |-> NoShell]
  /\ phase' = IF closing' = {} THEN "decide" ELSE "closing"
  /\ UNCHANGED <<ctxDone, conn, open, lost, workers, err, stable, streak, rested>>
  /\ UNCHANGED <<shell, reader, request, termMu, startedIds, told>>

CloseTerminal(s) ==
  /\ s \in closing
  /\ shell' = Kill({s})
  /\ closing' = closing \ {s}
  /\ phase' = IF closing' = {} THEN "decide" ELSE phase
  /\ UNCHANGED <<ctxDone, conn, open, lost, workers, err, stable, streak, rested>>
  /\ UNCHANGED <<terminals, reader, request, termMu, startedIds, told>>

RunnerStep(r) ==
  \/ ProbeShell(r) \/ RefuseStart(r) \/ StartShell(r)
  \/ WriteInput(r) \/ RefuseInput(r) \/ InputWritten(r)
  \/ StopTerminal(r)

TerminalStep ==
  \/ \E r \in Runners : RunnerStep(r)
  \/ \E r \in Runners, op \in {"start", "input", "stop"}, id \in Ids :
       ReceiveTerminal(r, op, id)
  \/ \E s \in Shells : ShellExits(s) \/ ReaderEnds(s) \/ ReaderLeaves(s)
  \/ TakeTerminals
  \/ \E s \in closing : CloseTerminal(s)

Next == (SessionStep /\ UNCHANGED tvars) \/ TerminalStep

Spec == Init /\ [][Next]_vars

\* The goroutines run and sync.Mutex does not starve a waiter.  The probe and
\* the write end unless Hangs says otherwise: a docker exec has no timeout
\* here, and nobody may read what is typed.  A shell that dies ends the write.
FairSpec ==
  /\ Spec /\ SessionFairness
  /\ \A r \in Runners :
       /\ SF_vars(ProbeShell(r) \/ RefuseStart(r) \/ StopTerminal(r)
                    \/ WriteInput(r) \/ RefuseInput(r))
       /\ "probe" \notin Hangs => WF_vars(StartShell(r))
       /\ "input" \notin Hangs => WF_vars(InputWritten(r))
  /\ \A s \in Shells :
       WF_vars(ReaderEnds(s)) /\ SF_vars(ReaderLeaves(s)) /\ WF_vars(CloseTerminal(s))
  /\ SF_vars(TakeTerminals)

-----------------------------------------------------------------------------
\* The parts of the type invariant.  A shell is registered under its own id,
\* and only while its reader is there to remove it.
RegistryTypes ==
  \A id \in Ids : terminals[id] # NoShell =>
    /\ terminals[id] \in Shells
    /\ shell[terminals[id]].id = id
    /\ reader[terminals[id]] \in {"reading", "leaving"}

ShellTypes ==
  \A s \in Shells :
    /\ shell[s].state \in {"unused", "running", "ended"}
    /\ reader[s] \in {"none", "reading", "leaving", "gone"}
    /\ Running(s) => reader[s] = "reading" /\ shell[s].conn \in 1..conn

RunnerTypes ==
  /\ \A r \in Runners : request[r].step \in {"idle", "queued", "probe", "write"}
  /\ termMu \in Runners \union {NoOne}
  /\ termMu \in Runners => request[termMu].step \in {"probe", "write"}

EndTypes ==
  /\ closing \subseteq Shells /\ (closing # {} <=> phase = "closing")
  /\ told \subseteq {s \in Shells : ~Running(s)}

\* Types, see the parts above.
TypeOK == SessionTypes /\ RegistryTypes /\ ShellTypes /\ RunnerTypes /\ EndTypes

\* terminal.go:40-42 and 179-182: every running shell is registered, so that
\* a stop, an input or the end of the session still reaches it.
EveryShellIsHeld ==
  \A s \in Shells : Running(s) =>
    terminals[shell[s].id] = s \/ s \in closing \/ shell[s].id \in ReusedIds

\* session.go:38-39 and terminal.go:179-182: the shells of a session do not
\* outlive it.
DiesWithSession ==
  \A s \in Shells :
    Running(s) => /\ shell[s].conn = conn
                  /\ phase \in {"snapshot", "serve", "teardown", "closing"}

\* terminal.go:89-90: the dashboard is told that a shell ended, unless the
\* connection it was started from went first.
EndIsTold ==
  \A s \in Shells :
    shell[s].state = "ended" ~> s \in told \/ shell[s].conn \notin open \ lost
                                  \/ phase = "stopped"
=============================================================================
