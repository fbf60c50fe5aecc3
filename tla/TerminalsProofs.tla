-------------------------- MODULE TerminalsProofs --------------------------
(***************************************************************************)
(* Theorems about the reconnect loop and the terminals, for any number of  *)
(* connections, terminals and goroutines:                                  *)
(*                                                                         *)
(*   - the agent rests between two connection attempts;                    *)
(*   - the type invariant of Terminals;                                    *)
(*   - every running shell is within reach, if ids are not used again.     *)
(*                                                                         *)
(* The last one is about the reader of an ended shell: it deletes the      *)
(* entry of its id without a look at the entry.  That it deletes no other  *)
(* shell's entry follows from OncePerId.                                   *)
(***************************************************************************)
EXTENDS Terminals, TLAPS

\* The reconnect loop rests when it decides, unless the session was stable;
\* the invariant follows the promise through the phases up to the next dial.
RestInv ==
  /\ phase \in Phases
  /\ phase \in {"check", "dial"} => rested

LEMMA RestSession == RestInv /\ SessionStep => RestInv'
<1> SUFFICES ASSUME RestInv, SessionStep PROVE RestInv'
  OBVIOUS
<1> USE DEF RestInv, Phases
<1>1. CASE CheckContext \/ DialSucceeds \/ DialFails
  BY <1>1 DEF CheckContext, DialSucceeds, DialFails
<1>2. CASE SnapshotFails \/ SnapshotHangs \/ StartSessionWorkers \/ ReadFails \/ Rejected
  BY <1>2 DEF SnapshotFails, SnapshotHangs, StartSessionWorkers, ReadFails, Rejected
<1>3. CASE Decide \/ Sleep
  BY <1>3 DEF Decide, Sleep
<1>4. CASE NetworkDrop \/ Shutdown
  BY <1>4 DEF NetworkDrop, Shutdown
<1>5. CASE \E c \in workers : CloserCloses(c) \/ PingFails(c)
  BY <1>5 DEF CloserCloses, PingFails
<1> QED  BY <1>1, <1>2, <1>3, <1>4, <1>5 DEF SessionStep

(* Of the terminals' steps only the end of a session moves the phase.      *)
LEMMA RestTerminal == RestInv /\ TerminalStep => RestInv'
<1> SUFFICES ASSUME RestInv, TerminalStep PROVE RestInv'
  OBVIOUS
<1> USE DEF RestInv, Phases
<1>1. ASSUME NEW r \in Runners, RunnerStep(r) PROVE UNCHANGED svars
  BY <1>1 DEF RunnerStep, ProbeShell, RefuseStart, StartShell, WriteInput,
              RefuseInput, InputWritten, StopTerminal
<1>2. ASSUME NEW r \in Runners, NEW op, NEW id \in Ids, ReceiveTerminal(r, op, id)
      PROVE  UNCHANGED svars
  BY <1>2 DEF ReceiveTerminal
<1>3. ASSUME NEW s \in Shells, ShellExits(s) \/ ReaderEnds(s) \/ ReaderLeaves(s)
      PROVE  UNCHANGED svars
  BY <1>3 DEF ShellExits, ReaderEnds, ReaderLeaves
<1>4. UNCHANGED svars => RestInv'
  BY DEF svars
<1>5. CASE TakeTerminals
  BY <1>5 DEF TakeTerminals
<1>6. ASSUME NEW s \in closing, CloseTerminal(s) PROVE RestInv'
  BY <1>6 DEF CloseTerminal
<1> QED  BY <1>1, <1>2, <1>3, <1>4, <1>5, <1>6 DEF TerminalStep

(* runtime.go:97-98, errors.go:57-59: between two connection attempts the  *)
(* agent has slept or served a stable session, whatever ended the first.   *)
THEOREM ReconnectRests == Spec => []NoReconnectStorm
<1>1. Init => RestInv
  BY DEF Init, SInit, RestInv, Phases
<1>2. RestInv /\ [Next]_vars => RestInv'
  <2>1. ASSUME RestInv, UNCHANGED vars PROVE RestInv'
    BY <2>1 DEF vars, svars, RestInv
  <2> QED  BY <2>1, RestSession, RestTerminal DEF Next
<1>3. RestInv => NoReconnectStorm
  BY DEF RestInv, NoReconnectStorm
<1> QED  BY <1>1, <1>2, <1>3, PTL DEF Spec

-----------------------------------------------------------------------------
(* The session's own variables.                                            *)
SessionInv ==
  /\ SessionTypes
  /\ phase \in {"snapshot", "serve"} => conn \in 1..conn

LEMMA TypesSession ==
  ASSUME SessionInv, SessionStep
  PROVE  /\ SessionInv' /\ conn <= conn'
         /\ phase' = "closing" <=> phase = "closing"
<1> USE DEF SessionInv, SessionTypes
<1>1. /\ phase' \in Phases /\ err' \in Errors
      /\ phase' = "closing" <=> phase = "closing"
  BY DEF Phases, Errors, SessionStep, CheckContext, DialSucceeds, DialFails,
         SnapshotFails, SnapshotHangs, StartSessionWorkers, ReadFails, Rejected, Decide, Sleep,
         NetworkDrop, Shutdown, CloserCloses, PingFails
<1>2. conn' \in 0..MaxConns /\ conn <= conn'
  BY SessionAssumption
     DEF SessionStep, CheckContext, DialSucceeds, DialFails,
         SnapshotFails, SnapshotHangs, StartSessionWorkers, ReadFails, Rejected, Decide, Sleep,
         NetworkDrop, Shutdown, CloserCloses, PingFails
<1>3. phase' \in {"snapshot", "serve"} => conn' \in 1..conn'
  BY <1>2
     DEF SessionStep, CheckContext, DialSucceeds, DialFails,
         SnapshotFails, SnapshotHangs, StartSessionWorkers, ReadFails, Rejected, Decide, Sleep,
         NetworkDrop, Shutdown, CloserCloses, PingFails
<1>4. lost' \subseteq open' /\ open' \subseteq 1..conn' /\ workers' \subseteq 1..conn'
  <2>1. 1..conn \subseteq 1..conn'
    BY <1>2
  <2>2. CASE DialSucceeds \/ StartSessionWorkers
    BY <2>1, <2>2, <1>2, <1>3 DEF DialSucceeds, StartSessionWorkers
  <2>3. CASE Rejected \/ NetworkDrop
    BY <2>3 DEF Rejected, NetworkDrop
  <2>4. CASE Decide \/ \E c \in workers : CloserCloses(c) \/ PingFails(c)
    <3>1. /\ conn' = conn /\ workers' \subseteq workers
          /\ \E c \in Nat : open' = open \ {c} /\ lost' = lost \ {c}
      BY <2>4 DEF Decide, CloserCloses, PingFails
    <3> QED  BY <3>1
  <2>5. CASE UNCHANGED <<conn, open, lost, workers>>
    BY <2>5
  <2> QED
    BY <2>2, <2>3, <2>4, <2>5
       DEF SessionStep, CheckContext, DialFails, SnapshotFails, SnapshotHangs, ReadFails, Sleep,
           Shutdown
<1>5. streak' \in 0..MaxStreak
  BY SessionAssumption
     DEF SessionStep, CheckContext, DialSucceeds, DialFails, NextStreak,
         SnapshotFails, SnapshotHangs, StartSessionWorkers, ReadFails, Rejected, Decide, Sleep,
         NetworkDrop, Shutdown, CloserCloses, PingFails
<1>6. ctxDone' \in BOOLEAN /\ stable' \in BOOLEAN /\ rested' \in BOOLEAN
  BY DEF SessionStep, CheckContext, DialSucceeds, DialFails,
         SnapshotFails, SnapshotHangs, StartSessionWorkers, ReadFails, Rejected, Decide, Sleep,
         NetworkDrop, Shutdown, CloserCloses, PingFails
<1> QED  BY <1>1, <1>2, <1>3, <1>4, <1>5, <1>6

-----------------------------------------------------------------------------
\* What the registry, the shells and their readers look like.  A shell that
\* has a reader, an entry or a report has been started.
Started(s) == shell[s].state # "unused"

ShellRecord ==
  [state : {"unused"}, conn : Nat]
    \union [state : {"running", "ended"}, id : Ids, conn : Nat]

Request == [step : {"queued", "probe", "write"}, op : {"start", "input", "stop"},
            id : Ids, conn : Nat]

Shapes ==
  /\ terminals \in [Ids -> Shells \union {NoShell}]
  /\ shell \in [Shells -> ShellRecord]
  /\ reader \in [Shells -> {"none", "reading", "leaving", "gone"}]
  /\ request \in [Runners -> {NoRequest} \union Request]

\* Readers, reports and commands come from shells and connections there were.
Origins ==
  /\ \A s \in Shells : reader[s] # "none" => Started(s)
  /\ \A s \in told \union closing : Started(s)
  /\ \A r \in Runners : request[r] # NoRequest => request[r].conn \in 1..conn

TypeInv == TypeOK /\ SessionInv /\ Shapes /\ Origins

(* Killing started shells ends them and changes nothing else.              *)
LEMMA KillOnlyEnds ==
  ASSUME Shapes, NEW S, \A s \in S \intersect Shells : Started(s), shell' = Kill(S)
  PROVE  /\ shell' \in [Shells -> ShellRecord]
         /\ \A s \in Shells : Started(s)' <=> Started(s)
         /\ \A s \in Shells : Started(s) => shell'[s].id = shell[s].id
         /\ \A s \in Shells : Running(s)' <=> Running(s) /\ s \notin S
         /\ \A s \in Shells : shell'[s].conn = shell[s].conn
<1>1. ASSUME NEW s \in Shells
      PROVE  /\ shell'[s] \in ShellRecord
             /\ Started(s)' <=> Started(s)
             /\ Started(s) => shell'[s].id = shell[s].id
             /\ Running(s)' <=> Running(s) /\ s \notin S
             /\ shell'[s].conn = shell[s].conn
  <2>1. shell[s] \in ShellRecord
    BY DEF Shapes
  <2>2. CASE s \notin S
    BY <2>1, <2>2 DEF Kill, Started, Running
  <2>3. CASE s \in S
    <3>1. shell[s] \in [state : {"running", "ended"}, id : Ids, conn : Nat]
      BY <2>1, <2>3 DEF Started, ShellRecord
    <3>2. shell'[s] = [shell[s] EXCEPT !.state = "ended"]
      BY <2>3 DEF Kill
    <3> QED  BY <2>3, <3>1, <3>2 DEF Started, Running, ShellRecord
  <2> QED  BY <2>2, <2>3
<1>2. shell' = [s \in Shells |-> shell'[s]]
  BY DEF Kill
<1> QED  BY <1>1, <1>2

(* Nor does it, with entries deleted, disturb what a shell's state says.   *)
LEMMA TypesAfterKill ==
  ASSUME TypeInv, NEW S, \A s \in S \intersect Shells : Started(s),
         shell' = Kill(S), reader' = reader, conn' = conn, told' = told,
         closing' \subseteq closing,
         request' = request \/ \E r \in Runners : Finish(r),
         terminals' \in [Ids -> Shells \union {NoShell}],
         \A id \in Ids : terminals'[id] \in {terminals[id], NoShell}
  PROVE  /\ RegistryTypes' /\ ShellTypes' /\ Shapes' /\ Origins'
         /\ told' \subseteq {s \in Shells : ~Running(s)'}
<1> USE DEF TypeInv, Shapes, Origins, TypeOK, RegistryTypes, ShellTypes, EndTypes
<1>1. /\ shell' \in [Shells -> ShellRecord]
      /\ \A s \in Shells : Started(s)' <=> Started(s)
      /\ \A s \in Shells : Started(s) => shell'[s].id = shell[s].id
      /\ \A s \in Shells : Running(s)' => Running(s)
      /\ \A s \in Shells : shell'[s].conn = shell[s].conn
  BY KillOnlyEnds
<1>2. Shapes'
  BY <1>1 DEF Finish
<1>3. RegistryTypes'
  BY <1>1, TerminalAssumption
<1>4. ShellTypes'
  BY <1>1 DEF ShellRecord
<1>5. Origins' /\ told' \subseteq {s \in Shells : ~Running(s)'}
  BY <1>1 DEF Finish
<1> QED  BY <1>2, <1>3, <1>4, <1>5

(* While a session's own step is taken, nothing happens to the terminals.  *)
LEMMA TypesWithSession ==
  TypeInv /\ SessionStep /\ UNCHANGED tvars => TypeInv'
<1> SUFFICES ASSUME TypeInv, SessionStep, UNCHANGED tvars PROVE TypeInv'
  OBVIOUS
<1>1. /\ SessionInv' /\ conn <= conn' /\ conn \in Nat /\ conn' \in Nat
      /\ phase' = "closing" <=> phase = "closing"
  BY TypesSession DEF TypeInv, SessionInv, SessionTypes
<1>2. 1..conn \subseteq 1..conn'
  BY <1>1
<1>3. TypeOK'
  BY <1>1, <1>2 DEF TypeInv, SessionInv, TypeOK, RegistryTypes, ShellTypes,
                    RunnerTypes, EndTypes, Running, tvars
<1>4. Shapes' /\ Origins'
  BY <1>2 DEF TypeInv, Shapes, Origins, Started, tvars
<1> QED  BY <1>1, <1>3, <1>4 DEF TypeInv

(* The steps of a runner.                                                  *)
LEMMA TypesRunner ==
  ASSUME TypeInv, NEW r \in Runners, RunnerStep(r)
  PROVE  TypeInv'
<1> USE DEF TypeInv, Shapes, Origins, TypeOK, RegistryTypes, ShellTypes,
            RunnerTypes, EndTypes
<1>1. /\ SessionInv' /\ SessionTypes'
      /\ conn' = conn /\ phase' = phase /\ closing' = closing
  BY DEF RunnerStep, ProbeShell, RefuseStart, StartShell, WriteInput, RefuseInput,
         InputWritten, StopTerminal, svars, SessionInv, SessionTypes
<1>2. CASE RefuseStart(r) \/ RefuseInput(r) \/ InputWritten(r)
  BY <1>1, <1>2, TerminalAssumption DEF RefuseStart, RefuseInput, InputWritten,
     Finish, Enters, Running, Started, NoRequest
<1>3. CASE ProbeShell(r) \/ WriteInput(r)
  BY <1>1, <1>3 DEF ProbeShell, WriteInput, Enters, Running, Started, Request, NoRequest
<1>4. CASE StartShell(r)
  <2>1. /\ request[r] \in Request /\ request[r].conn \in 1..conn
        /\ request' = [request EXCEPT ![r] = NoRequest] /\ termMu' = NoOne
        /\ told' = told
    BY <1>4 DEF StartShell, Finish, NoRequest
  <2>2. RunnerTypes' /\ request' \in [Runners -> {NoRequest} \union Request]
    BY <2>1, TerminalAssumption DEF NoRequest
  <2>3. \A q \in Runners : request'[q] # NoRequest => request'[q].conn \in 1..conn'
    BY <1>1, <2>1
  <2>4. CASE UNCHANGED <<terminals, shell, reader>>
    BY <1>1, <2>1, <2>2, <2>3, <2>4 DEF Running, Started
  <2>5. ASSUME NEW s \in Shells, ~Started(s),
               shell' = [shell EXCEPT ![s] = [state |-> "running",
                           id |-> request[r].id, conn |-> request[r].conn]],
               terminals' = [terminals EXCEPT ![request[r].id] = s],
               reader' = [reader EXCEPT ![s] = "reading"]
        PROVE  TypeInv'
    <3>1. request[r].id \in Ids /\ request[r].conn \in Nat /\ s # NoShell
      BY <2>1, TerminalAssumption DEF Request
    <3>2. \A t \in Shells : t # s => shell'[t] = shell[t] /\ reader'[t] = reader[t]
      BY <2>5
    <3>3. /\ shell'[s] = [state |-> "running", id |-> request[r].id,
                           conn |-> request[r].conn]
          /\ reader'[s] = "reading"
      BY <2>5
    <3>4. Shapes'
      BY <2>2, <2>5, <3>1 DEF ShellRecord
    <3>5. s \notin told /\ \A id \in Ids : terminals[id] # s
      BY <2>5, <3>1
    <3>6. ASSUME NEW id \in Ids, terminals'[id] # NoShell
          PROVE  /\ terminals'[id] \in Shells
                 /\ shell'[terminals'[id]].id = id
                 /\ reader'[terminals'[id]] \in {"reading", "leaving"}
      <4>1. CASE id = request[r].id
        BY <2>5, <3>3, <4>1
      <4>2. CASE id # request[r].id
        <5>1. terminals'[id] = terminals[id]
          BY <2>5, <4>2
        <5> QED  BY <3>2, <3>5, <3>6, <5>1
      <4> QED  BY <4>1, <4>2
    <3>7. ShellTypes'
      BY <1>1, <2>1, <3>2, <3>3 DEF Running
    <3>8. EndTypes'
      BY <1>1, <2>1, <3>2, <3>5 DEF Running
    <3>9. Origins'
      BY <1>1, <2>1, <2>3, <3>2, <3>3, <3>5 DEF Started
    <3> QED  BY <1>1, <2>2, <3>4, <3>6, <3>7, <3>8, <3>9
  <2> QED  BY <1>4, <2>4, <2>5 DEF StartShell, Started
<1>5. CASE StopTerminal(r)
  <2> DEFINE id == request[r].id
  <2>1. /\ request[r] \in Request /\ id \in Ids
        /\ request' = [request EXCEPT ![r] = NoRequest]
        /\ terminals' = [terminals EXCEPT ![id] = NoShell]
        /\ termMu' = termMu /\ termMu = NoOne
        /\ reader' = reader /\ told' = told
    BY <1>5 DEF StopTerminal, Enters, Finish, NoRequest, Request
  <2>2. shell' = Kill({terminals[id]})
    BY <1>5 DEF StopTerminal
  <2>3. \A s \in {terminals[id]} \intersect Shells : Started(s)
    BY <2>1, TerminalAssumption
  <2>4. /\ RegistryTypes' /\ ShellTypes' /\ Shapes' /\ Origins'
        /\ told' \subseteq {s \in Shells : ~Running(s)'}
    <3>1. /\ closing' \subseteq closing /\ Finish(r)
          /\ terminals' \in [Ids -> Shells \union {NoShell}]
          /\ \A i \in Ids : terminals'[i] \in {terminals[i], NoShell}
      BY <1>1, <2>1 DEF Finish
    <3> HIDE DEF TypeInv, Shapes, Origins, TypeOK, RegistryTypes, ShellTypes,
                 RunnerTypes, EndTypes, id
    <3> QED  BY <1>1, <2>1, <2>2, <2>3, <3>1, TypesAfterKill
  <2>5. RunnerTypes'
    BY <2>1, TerminalAssumption DEF NoRequest
  <2> QED  BY <1>1, <2>4, <2>5
<1> QED  BY <1>2, <1>3, <1>4, <1>5 DEF RunnerStep

(* The arrival of a command, and the end of a shell and of its reader.     *)
LEMMA TypesOther ==
  ASSUME TypeInv,
         \/ \E r \in Runners, op \in {"start", "input", "stop"}, id \in Ids :
              ReceiveTerminal(r, op, id)
         \/ \E s \in Shells : ShellExits(s) \/ ReaderEnds(s) \/ ReaderLeaves(s)
  PROVE  TypeInv'
<1> USE DEF TypeInv, Shapes, Origins, TypeOK, RegistryTypes, ShellTypes,
            RunnerTypes, EndTypes
<1>1. /\ SessionInv' /\ SessionTypes'
      /\ conn' = conn /\ phase' = phase /\ closing' = closing
  <2>1. UNCHANGED svars /\ closing' = closing
    BY DEF ReceiveTerminal, ShellExits, ReaderEnds, ReaderLeaves
  <2> QED  BY <2>1 DEF svars, SessionInv, SessionTypes
<1>2. ASSUME NEW r \in Runners, NEW op \in {"start", "input", "stop"},
             NEW id \in Ids, ReceiveTerminal(r, op, id)
      PROVE  TypeInv'
  <2>1. conn \in 1..conn /\ conn \in Nat
    BY <1>2 DEF ReceiveTerminal, SessionInv, SessionTypes
  <2> QED
    BY <1>1, <1>2, <2>1 DEF ReceiveTerminal, Request, NoRequest, Running, Started
<1>3. ASSUME NEW s \in Shells, ShellExits(s)
      PROVE  TypeInv'
  <2>1. shell' = Kill({s}) /\ Started(s)
    BY <1>3 DEF ShellExits, Running, Started
  <2>2. /\ RegistryTypes' /\ ShellTypes' /\ Shapes' /\ Origins'
        /\ told' \subseteq {t \in Shells : ~Running(t)'}
    BY <1>1, <1>3, <2>1, TypesAfterKill DEF ShellExits
  <2>3. RunnerTypes'
    BY <1>3 DEF ShellExits
  <2> QED  BY <1>1, <2>2, <2>3
<1>4. ASSUME NEW s \in Shells, ReaderEnds(s)
      PROVE  TypeInv'
  BY <1>1, <1>4 DEF ReaderEnds, Running, Started
<1>5. ASSUME NEW s \in Shells, ReaderLeaves(s)
      PROVE  TypeInv'
  <2>1. Started(s) /\ shell[s].id \in Ids
    BY <1>5 DEF ReaderLeaves, Started, ShellRecord
  <2> QED  BY <1>1, <1>5, <2>1, TerminalAssumption DEF ReaderLeaves, Running, Started
<1> QED  BY <1>2, <1>3, <1>4, <1>5

(* The end of a session.                                                   *)
LEMMA TypesClosing ==
  ASSUME TypeInv, TakeTerminals \/ \E s \in closing : CloseTerminal(s)
  PROVE  TypeInv'
<1> USE DEF TypeInv, Shapes, Origins, TypeOK, RegistryTypes, ShellTypes,
            RunnerTypes, EndTypes
<1>1. CASE TakeTerminals
  <2>1. /\ UNCHANGED <<shell, reader, request, termMu, startedIds, told>>
        /\ conn' = conn /\ phase' = IF closing' = {} THEN "decide" ELSE "closing"
    BY <1>1 DEF TakeTerminals
  <2>2. closing' \subseteq Shells
    BY <1>1 DEF TakeTerminals, Registered
  <2>3. SessionInv'
    BY <1>1 DEF TakeTerminals, SessionInv, SessionTypes, Phases
  <2>4. terminals' = [id \in Ids |-> NoShell]
    BY <1>1 DEF TakeTerminals
  <2>5. \A s \in closing' : Started(s)
    BY <1>1 DEF TakeTerminals, Registered
  <2>6. RegistryTypes' /\ ShellTypes' /\ RunnerTypes' /\ Shapes'
    BY <2>1, <2>4 DEF Running
  <2>7. EndTypes'
    BY <2>1, <2>2 DEF Running
  <2>8. Origins'
    BY <2>1, <2>5 DEF Started
  <2> QED  BY <2>3, <2>6, <2>7, <2>8 DEF SessionInv
<1>2. ASSUME NEW s \in closing, CloseTerminal(s) PROVE TypeInv'
  <2>1. /\ UNCHANGED <<terminals, reader, request, termMu, told, conn>>
        /\ phase' = IF closing' = {} THEN "decide" ELSE phase
        /\ closing' = closing \ {s} /\ shell' = Kill({s})
    BY <1>2 DEF CloseTerminal
  <2>2. SessionInv'
    BY <1>2 DEF CloseTerminal, SessionInv, SessionTypes, Phases
  <2>3. Started(s)
    OBVIOUS
  <2>4. /\ RegistryTypes' /\ ShellTypes' /\ Shapes' /\ Origins'
        /\ told' \subseteq {t \in Shells : ~Running(t)'}
    <3>1. /\ closing' \subseteq closing /\ request' = request
          /\ terminals' \in [Ids -> Shells \union {NoShell}]
          /\ \A id \in Ids : terminals'[id] \in {terminals[id], NoShell}
      BY <2>1
    <3> HIDE DEF TypeInv, Shapes, Origins, TypeOK, RegistryTypes, ShellTypes,
                 RunnerTypes, EndTypes
    <3> QED  BY <2>1, <2>3, <3>1, TypesAfterKill
  <2> QED  BY <2>1, <2>2, <2>4 DEF SessionInv
<1> QED  BY <1>1, <1>2

LEMMA TypesInit == Init => TypeInv
<1> SUFFICES ASSUME Init PROVE TypeInv
  OBVIOUS
<1> USE DEF Init, SInit
<1>1. SessionInv
  <2>1. ctxDone \in BOOLEAN /\ stable \in BOOLEAN /\ rested \in BOOLEAN
    OBVIOUS
  <2> QED  BY <2>1, SessionAssumption DEF SessionInv, SessionTypes, Phases, Errors
<1>2. TypeOK
  BY <1>1, TerminalAssumption
     DEF TypeOK, SessionInv, RegistryTypes, ShellTypes, RunnerTypes, EndTypes,
         Running, NoRequest
<1>3. Shapes /\ Origins
  BY DEF Shapes, Origins, ShellRecord, Started
<1> QED  BY <1>1, <1>2, <1>3 DEF TypeInv

LEMMA TypesNext == TypeInv /\ [Next]_vars => TypeInv'
<1> SUFFICES ASSUME TypeInv, [Next]_vars PROVE TypeInv'
  OBVIOUS
<1>1. CASE UNCHANGED vars
  BY <1>1
     DEF vars, svars, tvars, TypeInv, SessionInv, SessionTypes, TypeOK,
         RegistryTypes, ShellTypes, RunnerTypes, EndTypes, Shapes, Origins,
         Running, Started
<1> QED
  BY <1>1, TypesWithSession, TypesRunner, TypesOther, TypesClosing
     DEF Next, TerminalStep

(* terminal.go, session.go: the type invariant, for any number of           *)
(* connections, ids, shells and goroutines, ids used again included.       *)
THEOREM TerminalTypes == Spec => []TypeOK
<1>1. TypeInv => TypeOK
  BY DEF TypeInv
<1> QED  BY <1>1, TypesInit, TypesNext, PTL DEF Spec

-----------------------------------------------------------------------------
\* A runner that may still start a shell.
Starting(r) == \/ request[r].step = "probe"
               \/ request[r].step = "queued" /\ request[r].op = "start"

\* Each id asked for, unless it may be asked for again, is borne by one shell
\* or one runner about to start it.
OncePerId ==
  /\ \A s \in Shells : Started(s) => shell[s].id \in startedIds
  /\ \A r \in Runners : Starting(r) => request[r].id \in startedIds
  /\ \A s, t \in Shells :
       Started(s) /\ Started(t) /\ shell[s].id = shell[t].id =>
         s = t \/ shell[s].id \in ReusedIds
  /\ \A r \in Runners, s \in Shells :
       Starting(r) /\ Started(s) =>
         request[r].id # shell[s].id \/ shell[s].id \in ReusedIds
  /\ \A q, r \in Runners :
       Starting(q) /\ Starting(r) /\ request[q].id = request[r].id =>
         q = r \/ request[q].id \in ReusedIds

HeldInv == OncePerId /\ EveryShellIsHeld

(* It is kept when no shell starts and no command to start one arrives.    *)
LEMMA OnceKept ==
  ASSUME OncePerId, startedIds' = startedIds,
         \A s \in Shells : Started(s)' => Started(s) /\ shell'[s].id = shell[s].id,
         \A r \in Runners : Starting(r)' => Starting(r) /\ request'[r].id = request[r].id
  PROVE  OncePerId'
BY DEF OncePerId

LEMMA HeldRunner ==
  ASSUME TypeInv, HeldInv, NEW r \in Runners, RunnerStep(r)
  PROVE  HeldInv'
<1> USE DEF HeldInv
<1>1. CASE ProbeShell(r) \/ RefuseStart(r) \/ WriteInput(r) \/ RefuseInput(r) \/ InputWritten(r)
  <2>1. UNCHANGED <<terminals, shell, closing, startedIds>>
    BY <1>1 DEF ProbeShell, RefuseStart, WriteInput, RefuseInput, InputWritten
  <2>2. \A q \in Runners : Starting(q)' => Starting(q) /\ request'[q].id = request[q].id
    BY <1>1 DEF ProbeShell, RefuseStart, WriteInput, RefuseInput, InputWritten,
                Enters, Finish, Starting, TypeInv, Shapes, Request, NoRequest
  <2>3. OncePerId'
    BY <2>1, <2>2, OnceKept DEF Started
  <2>4. EveryShellIsHeld'
    BY <2>1 DEF EveryShellIsHeld, Running
  <2> QED  BY <2>3, <2>4
<1>2. CASE StartShell(r)
  <2>1. /\ request[r] \in Request /\ Starting(r)
        /\ request' = [request EXCEPT ![r] = NoRequest]
        /\ UNCHANGED <<closing, startedIds>>
    BY <1>2 DEF StartShell, Finish, Starting, TypeInv, Shapes, NoRequest
  <2>2. /\ ~Starting(r)'
        /\ \A q \in Runners : q # r => request'[q] = request[q] /\ (Starting(q)' <=> Starting(q))
    BY <2>1 DEF Starting, NoRequest, TypeInv, Shapes
  <2>3. CASE UNCHANGED <<terminals, shell, reader>>
    <3>1. OncePerId'
      BY <2>1, <2>2, <2>3, OnceKept DEF Started
    <3> QED  BY <2>1, <2>3, <3>1 DEF EveryShellIsHeld, Running
  <2>4. ASSUME NEW s \in Shells, ~Started(s),
               shell' = [shell EXCEPT ![s] = [state |-> "running",
                           id |-> request[r].id, conn |-> request[r].conn]],
               terminals' = [terminals EXCEPT ![request[r].id] = s]
        PROVE  HeldInv'
    <3>1. /\ shell'[s].id = request[r].id /\ shell'[s].state = "running"
          /\ \A t \in Shells : t # s => shell'[t] = shell[t]
      BY <2>4 DEF TypeInv, Shapes
    <3>2. \A t \in Shells : t # s => (Started(t)' <=> Started(t)) /\ (Running(t)' <=> Running(t))
      BY <3>1 DEF Started, Running
    <3>3. \A t \in Shells : t # s /\ Started(t) =>
            shell[t].id # request[r].id \/ shell[t].id \in ReusedIds
      BY <2>1 DEF OncePerId
    <3>4. OncePerId'
      BY <2>1, <2>2, <3>1, <3>2, <3>3 DEF OncePerId
    <3>5. /\ request[r].id \in Ids
          /\ \A t \in Shells : Running(t) => Started(t) /\ shell[t].id \in Ids
      BY <2>1 DEF Request, TypeInv, Shapes, ShellRecord, Started, Running
    <3>6. EveryShellIsHeld'
      BY <2>1, <2>4, <3>1, <3>2, <3>3, <3>5 DEF EveryShellIsHeld, TypeInv, Shapes
    <3> QED  BY <3>4, <3>6
  <2> QED  BY <1>2, <2>3, <2>4 DEF StartShell, Started
<1>3. CASE StopTerminal(r)
  <2> DEFINE id == request[r].id
  <2>1. /\ id \in Ids /\ UNCHANGED <<closing, startedIds>>
        /\ terminals' = [terminals EXCEPT ![id] = NoShell]
        /\ shell' = Kill({terminals[id]})
        /\ request' = [request EXCEPT ![r] = NoRequest]
    BY <1>3 DEF StopTerminal, Enters, Finish, NoRequest, TypeInv, Shapes, Request
  <2>2. \A s \in {terminals[id]} \intersect Shells : Started(s)
    BY <2>1, TerminalAssumption DEF TypeInv, TypeOK, RegistryTypes, Origins
  <2>3. /\ \A s \in Shells : Started(s)' <=> Started(s)
        /\ \A s \in Shells : Started(s) => shell'[s].id = shell[s].id
        /\ \A s \in Shells : Running(s)' <=> Running(s) /\ s # terminals[id]
    BY <2>1, <2>2, KillOnlyEnds DEF TypeInv
  <2>4. \A q \in Runners : Starting(q)' => Starting(q) /\ request'[q].id = request[q].id
    BY <2>1 DEF Starting, NoRequest, TypeInv, Shapes
  <2>5. OncePerId'
    BY <2>1, <2>3, <2>4, OnceKept
  <2>6. \A s \in Shells : Running(s) => Started(s) /\ shell[s].id \in Ids
    BY DEF Running, Started, TypeInv, Shapes, ShellRecord
  <2>7. EveryShellIsHeld'
    <3> SUFFICES ASSUME NEW s \in Shells, Running(s)'
                 PROVE  \/ terminals'[shell'[s].id] = s \/ s \in closing'
                        \/ shell'[s].id \in ReusedIds
      BY DEF EveryShellIsHeld
    <3>1. /\ Running(s) /\ s # terminals[id]
          /\ shell'[s].id = shell[s].id /\ shell[s].id \in Ids
      BY <2>3, <2>6
    <3>2. terminals[shell[s].id] = s \/ s \in closing \/ shell[s].id \in ReusedIds
      BY <3>1 DEF EveryShellIsHeld
    <3> QED  BY <2>1, <3>1, <3>2 DEF TypeInv, Shapes
  <2> QED  BY <2>5, <2>7
<1> QED  BY <1>1, <1>2, <1>3 DEF RunnerStep

(* Only a reusable id is asked for again; an ended shell's                 *)
(* reader deletes an entry that is its own, if there is one.               *)
LEMMA HeldOther ==
  ASSUME TypeInv, HeldInv,
         \/ \E r \in Runners, op \in {"start", "input", "stop"}, id \in Ids :
              ReceiveTerminal(r, op, id)
         \/ \E s \in Shells : ShellExits(s) \/ ReaderEnds(s) \/ ReaderLeaves(s)
  PROVE  HeldInv'
<1> USE DEF HeldInv
<1>1. ASSUME NEW r \in Runners, NEW op \in {"start", "input", "stop"},
             NEW id \in Ids, ReceiveTerminal(r, op, id)
      PROVE  HeldInv'
  <2>1. UNCHANGED <<terminals, shell, closing>>
    BY <1>1 DEF ReceiveTerminal
  <2>2. /\ request'[r].id = id /\ (Starting(r)' <=> op = "start")
        /\ \A q \in Runners : q # r => request'[q] = request[q]
    BY <1>1 DEF ReceiveTerminal, Starting, TypeInv, Shapes
  <2>3. /\ startedIds \subseteq startedIds'
        /\ op = "start" /\ id \notin ReusedIds => id \notin startedIds
        /\ op = "start" => id \in startedIds'
    BY <1>1 DEF ReceiveTerminal
  <2>4. /\ \A q \in Runners : q # r => (Starting(q)' <=> Starting(q))
        /\ \A s \in Shells : Started(s)' <=> Started(s)
    BY <2>1, <2>2 DEF Starting, Started
  <2>5. OncePerId'
    BY <2>1, <2>2, <2>3, <2>4 DEF OncePerId
  <2> QED  BY <2>1, <2>5 DEF EveryShellIsHeld, Running
<1>2. ASSUME NEW s \in Shells, ShellExits(s) PROVE HeldInv'
  <2>1. /\ shell' = Kill({s}) /\ Started(s)
        /\ UNCHANGED <<terminals, request, closing, startedIds>>
    BY <1>2 DEF ShellExits, Running, Started
  <2>2. /\ \A t \in Shells : Started(t)' <=> Started(t)
        /\ \A t \in Shells : Started(t) => shell'[t].id = shell[t].id
        /\ \A t \in Shells : Running(t)' => Running(t)
    BY <2>1, KillOnlyEnds DEF TypeInv
  <2>3. OncePerId'
    BY <2>1, <2>2, OnceKept DEF Starting
  <2> QED  BY <2>1, <2>2, <2>3 DEF EveryShellIsHeld, Running, Started
<1>3. ASSUME NEW s \in Shells, ReaderEnds(s) PROVE HeldInv'
  <2>1. UNCHANGED <<terminals, shell, request, closing, startedIds>>
    BY <1>3 DEF ReaderEnds
  <2> QED  BY <2>1 DEF OncePerId, Started, Starting, EveryShellIsHeld, Running
<1>4. ASSUME NEW s \in Shells, ReaderLeaves(s) PROVE HeldInv'
  <2>1. /\ UNCHANGED <<shell, request, closing, startedIds>>
        /\ terminals' = [terminals EXCEPT ![shell[s].id] = NoShell]
        /\ Started(s) /\ ~Running(s)
    BY <1>4 DEF ReaderLeaves, TypeInv, Origins, TypeOK, ShellTypes
  <2>2. OncePerId'
    BY <2>1 DEF OncePerId, Started, Starting
  <2>3. \A t \in Shells : Running(t) =>
          Started(t) /\ (shell[t].id # shell[s].id \/ shell[t].id \in ReusedIds)
    BY <2>1 DEF OncePerId, Started, Running
  <2>4. EveryShellIsHeld'
    BY <2>1, <2>3 DEF EveryShellIsHeld, Running, TypeInv, Shapes
  <2> QED  BY <2>2, <2>4
<1> QED  BY <1>1, <1>2, <1>3, <1>4

(* The end of a session moves every entry to the shells to be killed.      *)
LEMMA HeldClosing ==
  ASSUME TypeInv, HeldInv, TakeTerminals \/ \E s \in closing : CloseTerminal(s)
  PROVE  HeldInv'
<1> USE DEF HeldInv
<1>1. CASE TakeTerminals
  <2>1. /\ UNCHANGED <<shell, request, startedIds>> /\ closing' = Registered
        /\ closing = {}
    BY <1>1 DEF TakeTerminals, TypeInv, TypeOK, EndTypes
  <2>2. OncePerId'
    BY <2>1 DEF OncePerId, Started, Starting
  <2>3. \A s \in Shells : Running(s) => s \in Registered \/ shell[s].id \in ReusedIds
    <3>1. \A s \in Shells : Running(s) => shell[s].id \in Ids
      BY DEF Running, TypeInv, Shapes, ShellRecord
    <3> QED  BY <2>1, <3>1, TerminalAssumption DEF EveryShellIsHeld, Registered
  <2> QED  BY <2>1, <2>2, <2>3 DEF EveryShellIsHeld, Running
<1>2. ASSUME NEW s \in closing, CloseTerminal(s) PROVE HeldInv'
  <2>1. /\ shell' = Kill({s}) /\ closing' = closing \ {s} /\ Started(s)
        /\ UNCHANGED <<terminals, request, startedIds>>
    BY <1>2 DEF CloseTerminal, TypeInv, Origins
  <2>2. /\ \A t \in Shells : Started(t)' <=> Started(t)
        /\ \A t \in Shells : Started(t) => shell'[t].id = shell[t].id
        /\ \A t \in Shells : Running(t)' <=> Running(t) /\ t \notin {s}
    <3>1. Shapes /\ \A t \in {s} \intersect Shells : Started(t)
      BY <2>1 DEF TypeInv
    <3> QED  BY <2>1, <3>1, KillOnlyEnds
  <2>3. OncePerId'
    BY <2>1, <2>2, OnceKept DEF Starting
  <2> QED  BY <2>1, <2>2, <2>3 DEF EveryShellIsHeld, Running, Started
<1> QED  BY <1>1, <1>2

(* terminal.go:40-42 and 179-182: every running shell is registered or      *)
(* about to be killed, unless the dashboard may use its id again.          *)
THEOREM ShellsAreHeld == Spec => []EveryShellIsHeld
<1>1. Init => HeldInv
  BY DEF Init, HeldInv, OncePerId, Started, Starting, EveryShellIsHeld, Running,
         NoRequest
<1>2. TypeInv /\ HeldInv /\ [Next]_vars => HeldInv'
  <2> SUFFICES ASSUME TypeInv, HeldInv, [Next]_vars PROVE HeldInv'
    OBVIOUS
  <2>1. CASE UNCHANGED tvars
    BY <2>1 DEF tvars, HeldInv, OncePerId, Started, Starting, EveryShellIsHeld, Running
  <2> QED
    BY <2>1, HeldRunner, HeldOther, HeldClosing DEF Next, TerminalStep, vars
<1>3. HeldInv => EveryShellIsHeld
  BY DEF HeldInv
<1> QED  BY <1>1, <1>2, <1>3, TypesInit, TypesNext, PTL DEF Spec
=============================================================================
