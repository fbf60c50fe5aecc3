------------------------------ MODULE Session ------------------------------
(***************************************************************************)
(* The agent's connection to the API: the reconnect loop of                *)
(* internal/agent/runtime.go (Run) and one session of                      *)
(* internal/agent/session.go (connectAndServe).                            *)
(*                                                                         *)
(*   check -> dial -> snapshot -> serve -> teardown -> decide -> sleep     *)
(*                                                                         *)
(* with "closing", between teardown and decide, owned by Terminals, and    *)
(* "hung", the snapshot whose docker command never returns.                *)
(*                                                                         *)
(* Run is one goroutine and blocks in ReadMessage, without a deadline,     *)
(* while it serves: it learns that its context is done, or that the peer   *)
(* is gone, only because a worker of the session closes the connection.    *)
(* The end of a session closes its terminals first, see Terminals.         *)
(***************************************************************************)
EXTENDS Integers

CONSTANTS
  MaxConns,   \* bound: connections established
  MaxStreak   \* failures in a row after which the backoff no longer grows

ASSUME SessionAssumption == MaxConns \in Nat /\ MaxStreak \in Nat \ {0}

VARIABLES
  phase,    \* where Run is
  ctxDone,  \* the process has been told to stop
  conn,     \* number of the last connection established, 0 before the first
  open,     \* connections the agent has not closed and not seen fail
  lost,     \* of these, the ones whose peer vanished silently
  workers,  \* sessions whose workers run
  err,      \* the kind of error connectAndServe returned
  stable,   \* ... and its boolean result
  streak,   \* consecutiveFailures, no higher than MaxStreak
  rested    \* history: Run slept, or served a stable session, since it dialed

svars == <<phase, ctxDone, conn, open, lost, workers, err, stable, streak, rested>>

Phases == {"check", "dial", "snapshot", "serve", "teardown", "closing",
           "decide", "sleep", "stopped", "hung"}
Errors == {"none", "pending", "duplicate", "other"}

SInit ==
  /\ phase = "check" /\ ctxDone = FALSE
  /\ conn = 0 /\ open = {} /\ lost = {} /\ workers = {}
  /\ err = "none" /\ stable = FALSE /\ streak = 0
  /\ rested = TRUE

\* The context of the session on connection c has been cancelled.
SessionDone(c) == ctxDone \/ conn # c \/ phase # "serve"

-----------------------------------------------------------------------------
\* Run and connectAndServe.

CheckContext ==
  /\ phase = "check"
  /\ phase' = IF ctxDone THEN "stopped" ELSE "dial"
  /\ UNCHANGED <<ctxDone, conn, open, lost, workers, err, stable, streak, rested>>

DialSucceeds ==
  /\ phase = "dial" /\ ~ctxDone
  /\ conn < MaxConns
  /\ conn' = conn + 1
  /\ open' = open \union {conn'}
  /\ phase' = "snapshot"
  /\ rested' = FALSE
  /\ UNCHANGED <<ctxDone, lost, workers, err, stable, streak>>

\* A 400, 401 or 403 marks the error pending; everything else is "other".
DialFails ==
  /\ phase = "dial"
  /\ \/ err' = "pending" /\ ~ctxDone
     \/ err' = "other"
  /\ stable' = FALSE
  /\ phase' = "decide"
  /\ rested' = FALSE
  /\ UNCHANGED <<ctxDone, conn, open, lost, workers, streak>>

\* sendSnapshot fails before there are workers; it may have taken its time.
SnapshotFails ==
  /\ phase = "snapshot"
  /\ err' = "other" /\ stable' \in BOOLEAN
  /\ phase' = "teardown"
  /\ UNCHANGED <<ctxDone, conn, open, lost, workers, streak, rested>>

\* detectDockerVersion starts the docker command with no context and no timeout:
\* with a docker daemon that does not answer it never returns, nor does Run.
SnapshotHangs ==
  /\ phase = "snapshot"
  /\ phase' = "hung"
  /\ UNCHANGED <<ctxDone, conn, open, lost, workers, err, stable, streak, rested>>

\* Faulty variant: no worker waits for the end of the session's context.
StartSessionWorkers_NoCloser ==
  /\ phase = "snapshot"
  /\ phase' = "serve"
  /\ UNCHANGED <<ctxDone, conn, open, lost, workers, err, stable, streak, rested>>

StartSessionWorkers ==
  /\ phase = "snapshot"
  /\ workers' = workers \union {conn}
  /\ phase' = "serve"
  /\ UNCHANGED <<ctxDone, conn, open, lost, err, stable, streak, rested>>

\* ReadMessage fails on a connection that has been closed or reset.
ReadFails ==
  /\ phase = "serve" /\ conn \notin open
  /\ err' = "other" /\ stable' \in BOOLEAN
  /\ phase' = "teardown"
  /\ UNCHANGED <<ctxDone, conn, open, lost, workers, streak, rested>>

\* The API closes with the reason "duplicate", or sends an auth_error frame.
Rejected ==
  /\ phase = "serve" /\ conn \in open \ lost
  /\ \/ err' = "duplicate" /\ open' = open \ {conn}
     \/ err' = "pending" /\ UNCHANGED open
  /\ stable' = FALSE
  /\ phase' = "teardown"
  /\ UNCHANGED <<ctxDone, conn, lost, workers, streak, rested>>

\* consecutiveFailures after the attempt that just ended.
NextStreak ==
  CASE stable \/ err \in {"duplicate", "pending"} -> 0
    [] streak = MaxStreak -> streak
    [] OTHER -> streak + 1

\* Faulty variant: an agent waiting for its pairing dials again at once.
Decide_PendingAtOnce ==
  /\ phase = "decide"
  /\ open' = open \ {conn}
  /\ phase' = IF stable \/ err = "pending" THEN "check" ELSE "sleep"
  /\ streak' = NextStreak
  /\ rested' = stable
  /\ err' = "none" /\ stable' = FALSE
  /\ lost' = lost \ {conn}
  /\ UNCHANGED <<ctxDone, conn, workers>>

\* The deferred conn.Close, then Run's choice: retry at once after a stable
\* session, else sleep (5 min after a duplicate, 3 s while pairing is pending,
\* the backoff of the streak otherwise).  No code makes a nonRetriableError.
Decide ==
  /\ phase = "decide"
  /\ open' = open \ {conn}
  /\ phase' = IF stable THEN "check" ELSE "sleep"
  /\ streak' = NextStreak
  /\ rested' = stable
  /\ err' = "none" /\ stable' = FALSE
  /\ lost' = lost \ {conn}
  /\ UNCHANGED <<ctxDone, conn, workers>>

\* sleepUntil: the delay passes, or the context is done first.
Sleep ==
  /\ phase = "sleep"
  /\ \/ phase' = "check" /\ rested' = TRUE
     \/ ctxDone /\ phase' = "stopped" /\ UNCHANGED rested
  /\ UNCHANGED <<ctxDone, conn, open, lost, workers, err, stable, streak>>

-----------------------------------------------------------------------------
\* The workers of a session.

\* The goroutine that waits for sessionCtx closes the connection; the tickers
\* see the end of the context on their own.
CloserCloses(c) ==
  /\ c \in workers /\ SessionDone(c)
  /\ open' = open \ {c}
  /\ workers' = workers \ {c} /\ lost' = lost \ {c}
  /\ UNCHANGED <<phase, ctxDone, conn, err, stable, streak, rested>>

\* Faulty variant: the ping's error is ignored.
PingFails_Ignored(c) ==
  /\ c \in workers /\ c \in open \intersect lost
  /\ UNCHANGED svars

\* A ping, a heartbeat or a flush fails on a connection whose peer is gone:
\* endSession closes it.
PingFails(c) ==
  /\ c \in workers /\ c \in open \intersect lost
  /\ open' = open \ {c} /\ lost' = lost \ {c}
  /\ UNCHANGED <<phase, ctxDone, conn, workers, err, stable, streak, rested>>

-----------------------------------------------------------------------------
\* The world outside.

\* The network or the API breaks the connection, with or without a word.
NetworkDrop ==
  /\ conn \in open \ lost
  /\ \/ open' = open \ {conn} /\ UNCHANGED lost
     \/ lost' = lost \union {conn} /\ UNCHANGED open
  /\ UNCHANGED <<phase, ctxDone, conn, workers, err, stable, streak, rested>>

\* SIGTERM or SIGINT.
Shutdown ==
  /\ ~ctxDone /\ phase # "stopped"
  /\ ctxDone' = TRUE
  /\ UNCHANGED <<phase, conn, open, lost, workers, err, stable, streak, rested>>

SessionStep ==
  \/ CheckContext \/ DialSucceeds \/ DialFails
  \/ SnapshotFails \/ SnapshotHangs \/ StartSessionWorkers
  \/ ReadFails \/ Rejected \/ Decide \/ Sleep
  \/ NetworkDrop \/ Shutdown
  \/ \E c \in workers : CloserCloses(c) \/ PingFails(c)

\* The goroutines run; a write to a vanished peer fails in the end (TCP gives
\* up on unacknowledged data).  Dialing takes a bounded time, and so does the
\* snapshot unless it hangs.
SessionFairness ==
  /\ WF_svars(CheckContext)
  /\ WF_svars(DialSucceeds \/ DialFails)
  /\ WF_svars(SnapshotFails \/ SnapshotHangs \/ StartSessionWorkers)
  /\ WF_svars(ReadFails) /\ WF_svars(Decide) /\ WF_svars(Sleep)
  /\ \A c \in 1..MaxConns : WF_svars(CloserCloses(c)) /\ WF_svars(PingFails(c))

-----------------------------------------------------------------------------
SessionTypes ==
  /\ phase \in Phases /\ ctxDone \in BOOLEAN
  /\ conn \in 0..MaxConns
  /\ lost \subseteq open /\ open \subseteq 1..conn /\ workers \subseteq 1..conn
  /\ err \in Errors /\ stable \in BOOLEAN /\ streak \in 0..MaxStreak
  /\ rested \in BOOLEAN

\* errors.go:57-59 and runtime.go:97-98: between two connection attempts the
\* agent has slept or served a stable session, however the first one ended.
NoReconnectStorm == phase = "dial" => rested

\* main.go and runtime.go:97: told to stop, the agent leaves Run, whatever it
\* was doing with the connection and its terminals, unless the docker command
\* of a snapshot hangs.
ShutdownEnds == ctxDone ~> phase \in {"stopped", "hung"}

\* runtime.go:97-98: Run keeps a session to the API alive; one whose connection
\* fails, even silently, is followed by another attempt.
LostSessionIsReplaced ==
  \A c \in 1..MaxConns :
    (conn = c /\ phase = "serve" /\ (c \notin open \/ c \in lost))
      ~> phase \in {"dial", "stopped"}
=============================================================================
