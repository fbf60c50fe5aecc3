----------------------------- MODULE Hardening ------------------------------
(***************************************************************************)
(* The security commands: internal/security/ssh.go, firewall.go and        *)
(* internal/agent/commands_security.go.                                    *)
(*                                                                         *)
(* apply_security_hardening puts an Include into sshd's main file, writes  *)
(* a drop-in, has sshd check its whole configuration, reloads sshd, and    *)
(* turns fail2ban on or off.  Both files are truncated and then written.   *)
(* The settings are told by the command that asked for them.               *)
(***************************************************************************)
EXTENDS Integers

CONSTANTS
  Hardenings,  \* hardening commands
  Jailing,     \* those that turn fail2ban on; the others turn it off
  Refused,     \* those whose settings sshd does not accept on this machine
  NoDropIn,    \* no settings of the agent's
  Piece,       \* a part of them that sshd accepts, an empty file included
  Scrap        \* a part of them that it refuses

ASSUME HardeningAssumption ==
  /\ Jailing \subseteq Hardenings /\ Refused \subseteq Hardenings
  /\ {NoDropIn, Piece, Scrap} \intersect Hardenings = {}
  /\ Scrap \notin {NoDropIn, Piece} /\ Piece # NoDropIn

\* sshd_config: all of the administrator's text is there, it has the directory's
\* name somewhere, it includes the directory, sshd accepts it by itself.
MainFiles == [text : BOOLEAN, names : BOOLEAN, reads : BOOLEAN, sound : BOOLEAN]
Intact(f) == f.text /\ f.sound
EmptyFile == [text |-> FALSE, names |-> FALSE, reads |-> FALSE, sound |-> TRUE]
\* What a write that was cut short may leave.
Torn == {f \in MainFiles : ~f.text /\ (f.reads => f.names)}

VARIABLES
  mainFile,   \* sshd_config
  others,     \* sshd accepts the other drop-ins
  earlier,    \* other settings of the same things come first
  dropIn,     \* 99-tug.conf
  sshd,       \* whose settings sshd runs with
  jail,       \* fail2ban: "absent", "installed", "active"
  hstep,      \* hstep[h]: the next step of its handler
  read,       \* read[h]: the main file as it found it
  hresult,    \* hresult[h]: what it answered
  lastHard,   \* history: the command that began last
  tangled,    \* history: the last command met another one at work
  torn,       \* history: a write of sshd_config was cut short, or read half-way
  unchecked,  \* history: a command ended after a change and before its check
  unloaded    \* history: the last reload of sshd failed

hvars == <<mainFile, others, earlier, dropIn, sshd, jail, hstep, read, hresult,
           lastHard, tangled, torn, unchecked, unloaded>>
machine == <<others, earlier>>
begun == <<lastHard, tangled>>

\* sshd runs with the files that are there at first.
HardeningInit ==
  /\ mainFile \in {f \in MainFiles : Intact(f) /\ (f.reads => f.names)}
  /\ others \in BOOLEAN /\ earlier \in BOOLEAN /\ (mainFile.reads => others)
  /\ dropIn = NoDropIn /\ sshd = NoDropIn
  /\ jail \in {"absent", "installed", "active"}
  /\ hstep = [h \in Hardenings |-> "idle"]
  /\ read = [h \in Hardenings |-> EmptyFile]
  /\ hresult = [h \in Hardenings |-> "none"]
  /\ lastHard = NoDropIn
  /\ tangled = FALSE /\ torn = FALSE /\ unchecked = FALSE /\ unloaded = FALSE

HAtWork(h) == hstep[h] \notin {"idle", "done"}
HGoto(h, to) == hstep' = [hstep EXCEPT ![h] = to]
HAnswer(h, what) == HGoto(h, "done") /\ hresult' = [hresult EXCEPT ![h] = what]

-----------------------------------------------------------------------------
\* ApplySSHHardening, the main file: its errors are ignored.

\* An Include is to go to its top, unless it has the directory's name somewhere
\* or cannot be read.  Where it is being written, a part is read.
ReadMain(h) ==
  /\ hstep[h] = "idle"
  /\ lastHard' = h
  /\ tangled' = \E g \in Hardenings \ {h} : HAtWork(g)
  /\ torn' = (torn \/ \E g \in Hardenings : hstep[g] = "main")
  /\ read' = [read EXCEPT ![h] = mainFile]
  /\ \/ ~mainFile.names /\ HGoto(h, "include")
     \/ HGoto(h, "write")
  /\ UNCHANGED <<mainFile, machine, dropIn, sshd, jail, hresult, unchecked, unloaded>>

TruncateMain(h) ==
  /\ hstep[h] = "include"
  /\ \/ mainFile' = EmptyFile /\ HGoto(h, "main")
     \/ HGoto(h, "write") /\ UNCHANGED mainFile
  /\ UNCHANGED <<machine, dropIn, sshd, jail, read, hresult, begun, torn,
                 unchecked, unloaded>>

Including(f) == [f EXCEPT !.names = TRUE, !.reads = TRUE]

\* The Include and what was read.  Of two writers the longer text stays.
WriteMain(h) ==
  /\ hstep[h] = "main" /\ HGoto(h, "write")
  /\ \/ /\ mainFile' \in {Including(read[h])} \union
             (IF mainFile = EmptyFile THEN {} ELSE {mainFile})
        /\ UNCHANGED torn
     \/ mainFile' \in Torn \union {mainFile} /\ torn' = TRUE
  /\ UNCHANGED <<machine, dropIn, sshd, jail, read, hresult, begun, unchecked, unloaded>>

-----------------------------------------------------------------------------
\* The drop-in and the check.
MayHaveIncluded(h) == ~read[h].names

TruncateDropIn(h) ==
  /\ hstep[h] = "write"
  /\ \/ dropIn' = Piece /\ HGoto(h, "drop") /\ UNCHANGED <<hresult, unchecked>>
     \/ /\ HAnswer(h, "error") /\ UNCHANGED dropIn
        /\ unchecked' = (unchecked \/ MayHaveIncluded(h))
  /\ UNCHANGED <<mainFile, machine, sshd, jail, read, begun, torn, unloaded>>

\* Another command may have written, or removed, the file in between.
WriteDropIn(h) ==
  /\ hstep[h] = "drop"
  /\ \/ /\ dropIn' \in IF dropIn = Piece THEN {h} ELSE {h, dropIn, Scrap}
        /\ HGoto(h, "test") /\ UNCHANGED <<hresult, unchecked>>
     \/ /\ dropIn' \in {dropIn, Piece, Scrap}
        /\ HAnswer(h, "error") /\ unchecked' = TRUE
  /\ UNCHANGED <<mainFile, machine, sshd, jail, read, begun, torn, unloaded>>

\* sshd reads the drop-ins only if the main file includes them.
Accepted ==
  /\ mainFile.sound
  /\ mainFile.reads => others /\ dropIn \notin Refused \union {Scrap}

\* sshd -t, which may fail for reasons of its own.
TestSshd(h) ==
  /\ hstep[h] = "test"
  /\ \/ Accepted /\ HGoto(h, "reload") /\ unchecked' = FALSE
     \/ HGoto(h, "revert") /\ UNCHANGED unchecked
  /\ UNCHANGED <<mainFile, machine, dropIn, sshd, jail, read, hresult, begun, torn, unloaded>>

\* Faulty variant: the file stays although sshd does not accept it.
RevertDropIn_Kept(h) ==
  /\ hstep[h] = "revert"
  /\ HAnswer(h, "error") /\ unchecked' = FALSE
  /\ UNCHANGED <<mainFile, machine, dropIn, sshd, jail, read, begun, torn, unloaded>>

\* The file is removed, which does not bring back what an earlier command had
\* written there; the Include stays.  An error is ignored.
RevertDropIn(h) ==
  /\ hstep[h] = "revert"
  /\ HAnswer(h, "error")
  /\ \/ dropIn' = NoDropIn /\ unchecked' = FALSE
     \/ unchecked' = TRUE /\ UNCHANGED dropIn
  /\ UNCHANGED <<mainFile, machine, sshd, jail, read, begun, torn, unloaded>>

\* systemctl reload of ssh or sshd; an error of both is ignored.
ReloadSshd(h) ==
  /\ hstep[h] = "reload"
  /\ \/ /\ Accepted /\ unloaded' = FALSE
        /\ sshd' = IF mainFile.reads /\ ~earlier THEN dropIn ELSE sshd
     \/ unloaded' = TRUE /\ UNCHANGED sshd
  /\ HGoto(h, "jail")
  /\ UNCHANGED <<mainFile, machine, dropIn, jail, read, hresult, begun, torn, unchecked>>

\* ApplyFail2ban(true): installed if need be, started, and looked at.
EnableFail2ban(h) ==
  /\ hstep[h] = "jail" /\ h \in Jailing
  /\ \/ jail' = "active" /\ HAnswer(h, "success")
     \/ jail' \in {jail, "installed"} /\ HAnswer(h, "error")
  /\ UNCHANGED <<mainFile, machine, dropIn, sshd, read, begun, torn, unchecked, unloaded>>

\* ApplyFail2ban(false), whose error the handler ignores.
DisableFail2ban(h) ==
  /\ hstep[h] = "jail" /\ h \notin Jailing
  /\ jail' \in {jail} \union (IF jail = "active" THEN {"installed"} ELSE {})
  /\ HAnswer(h, "success")
  /\ UNCHANGED <<mainFile, machine, dropIn, sshd, read, begun, torn, unchecked, unloaded>>

\* It has changed a file, or may have, and not had it checked.
Pending(h) ==
  hstep[h] \in {"main", "drop", "test", "revert"} \/ (hstep[h] = "write" /\ MayHaveIncluded(h))

\* The agent dies, maybe in the middle of a write.
HardeningCrash ==
  /\ \E h \in Hardenings : HAtWork(h)
  /\ unchecked' = (unchecked \/ \E h \in Hardenings : Pending(h))
  /\ torn' = (torn \/ \E h \in Hardenings : hstep[h] = "main")
  /\ mainFile' \in {mainFile} \union
       (IF \E h \in Hardenings : hstep[h] = "main" THEN Torn ELSE {})
  /\ dropIn' \in {dropIn} \union
       (IF \E h \in Hardenings : hstep[h] = "drop" THEN {Piece, Scrap} ELSE {})
  /\ hstep' = [h \in Hardenings |-> IF HAtWork(h) THEN "done" ELSE hstep[h]]
  /\ UNCHANGED <<machine, sshd, jail, read, hresult, begun, unloaded>>

HardeningStep(h) ==
  \/ ReadMain(h) \/ TruncateMain(h) \/ WriteMain(h) \/ TruncateDropIn(h)
  \/ WriteDropIn(h) \/ TestSshd(h) \/ RevertDropIn(h) \/ ReloadSshd(h)
  \/ EnableFail2ban(h) \/ DisableFail2ban(h)

HardeningNext == (\E h \in Hardenings : HardeningStep(h)) \/ HardeningCrash

HardeningSpec == HardeningInit /\ [][HardeningNext]_hvars

-----------------------------------------------------------------------------
HardeningTypeOK ==
  /\ mainFile \in MainFiles /\ others \in BOOLEAN /\ earlier \in BOOLEAN
  /\ dropIn \in Hardenings \union {NoDropIn, Piece, Scrap}
  /\ sshd \in Hardenings \union {NoDropIn, Piece}
  /\ jail \in {"absent", "installed", "active"}
  /\ hstep \in [Hardenings -> {"idle", "include", "main", "write", "drop", "test",
                               "revert", "reload", "jail", "done"}]
  /\ read \in [Hardenings -> MainFiles]
  /\ hresult \in [Hardenings -> {"none", "error", "success"}]
  /\ lastHard \in Hardenings \union {NoDropIn}
  /\ {tangled, torn, unchecked, unloaded} \subseteq BOOLEAN

\* ssh.go:20-77, commands_security.go:10-30: between the changes and the checks
\* of the commands sshd can be started with the files that are there, and the
\* administrator's text is among them, unless a command ended before its check
\* (the agent died, a write of the drop-in or its removal failed), a write of
\* sshd_config was cut short, or sshd refuses other drop-ins that it did not
\* read before the agent's Include, which nobody takes back.  The settings of a
\* successful command are in force, unless it met another one, the reload
\* failed, or the rest of the configuration keeps the drop-in from being read
\* or from counting.
HardeningHolds ==
  /\ ~torn /\ (\A h \in Hardenings : hstep[h] # "main") => mainFile.text
  /\ ~torn /\ ~unchecked /\ others /\ (\A h \in Hardenings : ~Pending(h)) => Accepted
  /\ ~tangled =>
       \A h \in Hardenings : lastHard = h /\ hresult[h] = "success" =>
         /\ dropIn = h
         /\ ~unloaded /\ mainFile.reads /\ ~earlier => sshd = h
=============================================================================
