---------------------------- MODULE NamespaceProbe ----------------------------
(***************************************************************************)
(* fujicli-dev probe simulation-namespace: one selector write to the       *)
(* camera, outside every permit, between a backup and an audit log.  The   *)
(* command exports a backup, records that it is about to write, writes the *)
(* selector, reads it and perhaps the slot's name back, restores and       *)
(* verifies it, and records how that went.                                 *)
(*                                                                         *)
(* A second thread runs the Ctrl-C handler; each atomic access is a step.  *)
(* Every camera access may be accepted, rejected or lost (PtpLink); an     *)
(* accepted write need not have taken effect, a lost one may still do so.  *)
(* Every system call may fail, and the host may lose power.                *)
(***************************************************************************)
EXTENDS FileOutput, Naturals, Sequences, SequencesExt

CONSTANTS
    Slots,       \* what the selector may hold
    MaxPresses   \* bound: how often the user presses Ctrl-C

ASSUME SlotsAssumption == Slots # {} /\ "nothing" \notin Slots
ASSUME PressesAssumption == MaxPresses \in Nat

VARIABLES
    \* the main thread
    pc,          \* where it is
    slot,        \* the slot to be written
    named,       \* the operator gave the slot's names
    snapshot,    \* the selector as read before the write
    signal,      \* what the slot's name says
    outcome,     \* WriteSequenceStage::outcome, "restored" without a failure
    \* the interrupt latch and the handler
    critical,    \* IN_CRITICAL_WRITE
    seen,        \* INTERRUPTS_SEEN
    handler,     \* where the handler is
    queued,      \* Ctrl-C not handled yet
    presses,     \* Ctrl-C pressed so far
    \* the audit log
    logBefore,   \* it was there before
    log,         \* the lines this command added to it
    logSynced,   \* how many of them are on stable storage
    \* the camera
    healthy,     \* the session may still be used
    selector,    \* 0xD18C
    pending,     \* a lost write that the camera may still execute
    \* the process
    exit,        \* its exit status, Running before that
    \* history
    original,    \* the selector at the start
    sent,        \* the probe write has been put on the wire
    early,       \* the handler decided to quit outside the window
    latched      \* the handler counted a Ctrl-C before the drain

runVars == <<slot, named, snapshot, signal, outcome>>
latchVars == <<critical, seen>>
handlerVars == <<handler, queued, presses, early, latched>>
logVars == <<logBefore, log, logSynced>>
cameraVars == <<healthy, selector, pending, sent, original>>
vars == <<pc, runVars, latchVars, handlerVars, logVars, cameraVars, exit,
          fileVars>>

Running == 256
MutatingStages == {"write_failed", "readback_failed", "restore_failed",
                   "restore_verify_read_failed", "restore_verify_mismatch"}

InitAt(stage) ==
    /\ pc = stage /\ slot \in Slots /\ named \in BOOLEAN
    /\ snapshot = "nothing" /\ signal = "none" /\ outcome = "restored"
    /\ critical = FALSE /\ seen = 0
    /\ handler = "idle" /\ queued = 0 /\ presses = 0
    /\ early = FALSE /\ latched = FALSE
    /\ logBefore \in BOOLEAN /\ log = <<>> /\ logSynced = 0
    /\ healthy = TRUE /\ selector \in Slots /\ pending = "nothing"
    /\ exit = Running /\ original = selector /\ sent = FALSE
    /\ FileInit({"Exclusive"})

Init == InitAt("gates")

Alive == exit = Running /\ pc # "dark"
At(stage) == Alive /\ pc = stage
Goto(stage) == pc' = stage /\ UNCHANGED exit
Exit(status) == pc' = "ended" /\ exit' = status

-----------------------------------------------------------------------------
(* Gates, backup and audit log.                                            *)

\* The camera is opened; acknowledgement, fingerprint and names are checked,
\* and the backup is exported.
Gates ==
    /\ At("gates")
    /\ Exit(1) \/ Goto("backup")
    /\ UNCHANGED <<runVars, latchVars, handlerVars, logVars, cameraVars, fileVars>>

\* NewOutput::write_all.  Nothing is looked at before the rename.
CreateTemporary ==
    /\ file = "closed"
    /\ \/ file' = "open" /\ UNCHANGED <<policy, path, onDisk, contentVars>>
       \/ DropFile
NewOutput == CreateTemporary \/ WriteAll \/ SyncAll \/ Persist \/ SyncDirectory

SaveBackup ==
    /\ At("backup")
    /\ NewOutput
    /\ IF file' = "failed" THEN Exit(1)
       ELSE Goto(IF file' = "committed" THEN "attempt" ELSE "backup")
    /\ UNCHANGED <<runVars, latchVars, handlerVars, logVars, cameraVars>>

\* audit::append ends well, cannot open the log, or fails with the line
\* written in part or in whole.
AppendWell(line) == log' = Append(log, line) /\ logSynced' = Len(log')
AppendFails(line) ==
    /\ log' \in {log, Append(log, "torn"), Append(log, line)}
    /\ UNCHANGED logSynced

\* A bug: the attempt is recorded in memory only.
RecordNothing ==
    /\ At("attempt")
    /\ Goto("snapshot")
    /\ UNCHANGED <<runVars, latchVars, handlerVars, logVars, cameraVars, fileVars>>
RecordAttempt ==
    /\ At("attempt")
    /\ \/ AppendWell("attempted") /\ Goto("snapshot")
       \/ AppendFails("attempted") /\ Exit(1)
    /\ UNCHANGED <<logBefore, runVars, latchVars, handlerVars, cameraVars, fileVars>>

-----------------------------------------------------------------------------
(* The write sequence.                                                     *)

Fails(stage, next) == outcome' = stage /\ Goto(next)

\* A read is answered, refused, or lost with the session.
ReadAnswered == healthy /\ UNCHANGED healthy
ReadFails == healthy' \in {healthy, FALSE}
UnchangedByRead == <<selector, pending, sent, original>>

ReadSnapshot ==
    /\ At("snapshot")
    /\ \/ /\ ReadAnswered /\ snapshot' = selector
          /\ Goto("enter") /\ UNCHANGED outcome
       \/ /\ ReadFails
          /\ Fails("snapshot_failed", "terminal") /\ UNCHANGED snapshot
    /\ UNCHANGED <<slot, named, signal, latchVars, handlerVars,
                   logVars, UnchangedByRead, fileVars>>

\* CriticalWriteGuard::enter: two stores.
EnterWindow ==
    /\ At("enter") \/ At("entering")
    /\ IF pc = "enter" THEN seen' = 0 /\ UNCHANGED critical /\ Goto("entering")
                       ELSE critical' = TRUE /\ UNCHANGED seen /\ Goto("write")
    /\ UNCHANGED <<runVars, handlerVars, logVars, cameraVars, fileVars>>

\* probe_write_single_property_unverified.  An accepted write may be ignored.
WriteAccepted(value) ==
    /\ healthy /\ selector' \in {value, selector}
    /\ UNCHANGED <<healthy, pending>>
WriteRejected == UNCHANGED <<healthy, selector, pending>>
WriteLost(value) ==
    /\ healthy /\ healthy' = FALSE
    /\ pending' = value /\ UNCHANGED selector
WriteFails(value) == WriteRejected \/ WriteLost(value)

ProbeWrite ==
    /\ At("write")
    /\ sent' = TRUE
    /\ \/ WriteAccepted(slot) /\ Goto("readback") /\ UNCHANGED outcome
       \/ WriteFails(slot) /\ Fails("write_failed", "leave")
    /\ UNCHANGED <<slot, named, snapshot, signal, latchVars,
                   handlerVars, logVars, original, fileVars>>

ReadBack ==
    /\ At("readback")
    /\ \/ ReadAnswered /\ Goto(IF named THEN "name" ELSE "restore") /\ UNCHANGED outcome
       \/ ReadFails /\ Fails("readback_failed", "leave")
    /\ UNCHANGED <<slot, named, snapshot, signal, latchVars,
                   handlerVars, logVars, UnchangedByRead, fileVars>>

\* observe_namespace_signal never ends the sequence.
ReadName ==
    /\ At("name")
    /\ \/ ReadAnswered /\ signal' \in {"still", "movie", "neither", "none"}
       \/ ReadFails /\ signal' = "none"
    /\ Goto("restore")
    /\ UNCHANGED <<slot, named, snapshot, outcome, latchVars,
                   handlerVars, logVars, UnchangedByRead, fileVars>>

Restore ==
    /\ At("restore")
    /\ \/ WriteAccepted(snapshot) /\ Goto("verify") /\ UNCHANGED outcome
       \/ WriteFails(snapshot) /\ Fails("restore_failed", "leave")
    /\ UNCHANGED <<slot, named, snapshot, signal, latchVars,
                   handlerVars, logVars, sent, original, fileVars>>

\* A bug: any answer verifies the restore.
VerifyAnyAnswer ==
    /\ At("verify")
    /\ \/ ReadAnswered /\ Goto("leave") /\ UNCHANGED outcome
       \/ ReadFails /\ Fails("restore_verify_read_failed", "leave")
    /\ UNCHANGED <<slot, named, snapshot, signal, latchVars,
                   handlerVars, logVars, UnchangedByRead, fileVars>>
Verify ==
    /\ At("verify")
    /\ \/ ReadAnswered /\ selector = snapshot /\ Goto("leave") /\ UNCHANGED outcome
       \/ /\ ReadAnswered /\ selector # snapshot
          /\ Fails("restore_verify_mismatch", "leave")
       \/ ReadFails /\ Fails("restore_verify_read_failed", "leave")
    /\ UNCHANGED <<slot, named, snapshot, signal, latchVars,
                   handlerVars, logVars, UnchangedByRead, fileVars>>

LeaveWindow ==
    /\ At("leave")
    /\ critical' = FALSE /\ UNCHANGED seen
    /\ Goto("drain")
    /\ UNCHANGED <<runVars, handlerVars, logVars, cameraVars, fileVars>>

\* A bug: what was latched is dropped.
DrainBlindly ==
    /\ At("drain")
    /\ seen' = 0 /\ Goto("terminal")
    /\ UNCHANGED <<slot, named, snapshot, signal, outcome, critical,
                   handlerVars, logVars, cameraVars, fileVars>>
\* INTERRUPTS_SEEN.swap; an error of the sequence comes before the interrupt.
Drain ==
    /\ At("drain")
    /\ seen' = 0
    /\ outcome' = IF outcome = "restored" /\ seen > 0
                  THEN "interrupted_after_restore" ELSE outcome
    /\ Goto("terminal")
    /\ UNCHANGED <<slot, named, snapshot, signal, critical, handlerVars,
                   logVars, cameraVars, fileVars>>

\* The second line, then the verdict or the error.
RecordOutcome ==
    /\ At("terminal")
    /\ \/ AppendWell(outcome) /\ Exit(IF outcome = "restored" THEN 0 ELSE 1)
       \/ AppendFails(outcome) /\ Exit(1)
    /\ UNCHANGED <<logBefore, runVars, latchVars, handlerVars, cameraVars, fileVars>>

MainStep ==
    \/ Gates \/ SaveBackup \/ RecordAttempt \/ ReadSnapshot \/ EnterWindow
    \/ ProbeWrite \/ ReadBack \/ ReadName \/ Restore \/ Verify \/ LeaveWindow
    \/ Drain \/ RecordOutcome

-----------------------------------------------------------------------------
(* The Ctrl-C handler, on a thread of its own.                             *)

UnchangedByHandler == <<runVars, logVars, cameraVars, fileVars>>

Press ==
    /\ Alive /\ presses < MaxPresses
    /\ presses' = presses + 1 /\ queued' = queued + 1
    /\ UNCHANGED <<handler, early, latched, pc, exit, latchVars, UnchangedByHandler>>

\* A bug: the handler does not know of the window.
SampleNothing ==
    /\ Alive /\ handler = "idle" /\ queued > 0
    /\ queued' = queued - 1
    /\ handler' = "quit"
    /\ early' = (early \/ ~critical)
    /\ UNCHANGED <<presses, latched, pc, exit, latchVars, UnchangedByHandler>>
\* record_interrupt: outside the window the process exits.
Sample ==
    /\ Alive /\ handler = "idle" /\ queued > 0
    /\ queued' = queued - 1
    /\ handler' = IF critical THEN "count" ELSE "quit"
    /\ early' = (early \/ ~critical)
    /\ UNCHANGED <<presses, latched, pc, exit, latchVars, UnchangedByHandler>>

\* fetch_add, some time after the sample.  One that comes after the drain has
\* been announced as deferred and is forgotten: it is not latched.
Count ==
    /\ Alive /\ handler = "count"
    /\ seen' = seen + 1 /\ UNCHANGED critical
    /\ handler' = IF seen = 0 THEN "idle" ELSE "force"
    /\ latched' = (latched \/ critical \/ pc = "drain")
    /\ UNCHANGED <<queued, presses, early, pc, exit, UnchangedByHandler>>

Quit ==
    /\ Alive /\ handler \in {"quit", "force"}
    /\ Exit(IF handler = "force" THEN 3 ELSE 130)
    /\ UNCHANGED <<handlerVars, latchVars, UnchangedByHandler>>

-----------------------------------------------------------------------------
(* The camera and the host.                                                *)

ActLate ==
    /\ pending # "nothing"
    /\ selector' = pending /\ pending' = "nothing"
    /\ UNCHANGED <<healthy, sent, original, pc, exit, runVars, latchVars,
                   handlerVars, logVars, fileVars>>

\* Lines that were not synced may be gone, and so may the whole log if this
\* command created it: its directory is never synced.
LosePower ==
    /\ pc # "dark"
    /\ pc' = "dark" /\ UNCHANGED exit
    /\ PowerLoss
    /\ \E kept \in (IF logBefore THEN logSynced ELSE 0) .. Len(log) :
          log' = SubSeq(log, 1, kept)
    /\ logSynced' = Len(log')
    /\ UNCHANGED <<logBefore, runVars, latchVars, handlerVars, cameraVars>>

Rival ==
    /\ Alive /\ RivalCreates
    /\ UNCHANGED <<pc, exit, runVars, latchVars, handlerVars, logVars, cameraVars>>

Next ==
    \/ MainStep \/ Press \/ Sample \/ Count \/ Quit \/ ActLate \/ LosePower
    \/ Rival

Spec == Init /\ [][Next]_vars

-----------------------------------------------------------------------------
TypeOK ==
    /\ FileTypeOK
    /\ slot \in Slots /\ named \in BOOLEAN
    /\ snapshot \in Slots \cup {"nothing"} /\ selector \in Slots
    /\ pending \in Slots \cup {"nothing"}
    /\ signal \in {"none", "still", "movie", "neither"}
    /\ outcome \in MutatingStages \cup {"restored", "snapshot_failed",
                                        "interrupted_after_restore"}
    /\ {critical, healthy, sent, early, latched, logBefore} \subseteq BOOLEAN
    /\ seen \in 0 .. MaxPresses /\ handler \in {"idle", "count", "quit", "force"}
    /\ logSynced \in 0 .. Len(log) /\ Len(log) <= 2
    /\ exit \in {0, 1, 3, 130, Running}

Recorded(line) == line \in ToSet(log)
Changed == selector # original \/ pending \notin {"nothing", original}

\* Before the camera is written, the backup and the attempt are on stable
\* storage, whatever the handler, a rival or a power loss does; only a log
\* that this command created may go with the power.
WriteIsOnRecord ==
    sent => /\ path = "whole"
            /\ Recorded("attempted") \/ (pc = "dark" /\ ~logBefore)

\* A record that says so means that the camera holds its old selector and
\* that no lost write can still change it.
RecordIsTrue ==
    Recorded("restored") \/ Recorded("interrupted_after_restore") => ~Changed

\* A command that leaves the camera changed does not end well, and its record
\* names the failure unless that could not be written.  A Ctrl-C may only
\* abandon the sequence if the handler sampled the latch outside the window
\* or the user insisted; one that was counted before the drain is never
\* forgotten.  One that was sampled in the window and counted after the drain
\* is, but a success still means that the selector was put back and verified.
ChangeIsReported ==
    exit # Running =>
        /\ Changed => \/ exit = 1
                      \/ exit = 3 /\ presses > 1
                      \/ exit = 130 /\ early
        /\ Changed /\ exit = 1 /\ pc # "dark" =>
              MutatingStages \cap ToSet(log) # {} \/ logSynced < 2
        /\ exit = 0 => ~Changed /\ ~latched
=============================================================================
