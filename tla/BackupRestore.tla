---------------------------- MODULE BackupRestore ----------------------------
(***************************************************************************)
(* "backup import": an artifact is validated against the connected body,   *)
(* the body's settings are exported to a new recovery file, the artifact   *)
(* is sent once, and a fresh session with the same body, found again by    *)
(* its serial number, shows whether the settings are the requested ones.   *)
(* "backup export" is the export alone, to a file of the user's choice;    *)
(* "backup inspect" reads an artifact and opens no camera.                 *)
(*                                                                         *)
(* Bodies come and go on the bus.  Every PTP transaction may be refused or *)
(* lost, a body may store other settings than it was sent, and may do so   *)
(* only when the session ends.  Ctrl-C and a power loss of the host may    *)
(* come between any two steps.                                             *)
(***************************************************************************)
EXTENDS FileOutput, StateChangeAudit, Integers

CONSTANTS
    Bodies,       \* camera bodies, one serial number each
    Identities,   \* model and firmware
    IdentityOf,   \* [Bodies -> Identities]
    Payloads,     \* what the settings of a body can be
    MaxAttempts,  \* bound: further reconnect attempts before the deadline
    MaxMoves,     \* bound: how often a body is plugged in or out
    NoBody,
    NoPayload

ASSUME BackupAssumption ==
    /\ IdentityOf \in [Bodies -> Identities]
    /\ MaxAttempts \in Nat /\ MaxMoves \in Nat
    /\ NoBody \notin Bodies /\ NoPayload \notin Payloads

\* What the manifest says of an artifact, and its payload.
Artifacts == [purpose : {"Portable", "Recovery"}, source : Bodies,
              identity : Identities, payload : Payloads]

VARIABLES
    settings,   \* what every body has stored
    staged,     \* what it will store when its session ends
    bus,        \* the bodies that are plugged in
    moves,      \* how often one was plugged in or out
    handle,     \* the body of the open camera session
    poisoned,   \* that session is lost
    backup,     \* the input artifact
    named,      \* --target-serial-sha256, if given
    mode,       \* an import that restores, its dry run, an export, an inspect
    expected,   \* what --expect-sha256 names
    phase,      \* where the command is
    target,     \* the body the preflight validated
    exported,   \* the payload of the recovery artifact, or of the export
    attempts,   \* reconnect attempts left
    pressed,    \* Ctrl-C was recorded in the critical region
    audit,      \* what the restore reports of itself
    exit,       \* the exit status
    before,     \* history: what every body had stored at the start
    sent        \* history: an import was begun on the wire

cameraVars == <<settings, staged>>
plugVars == <<bus, moves>>
sessionVars == <<handle, poisoned>>
reportVars == <<expected, audit>>
inputVars == <<backup, named, mode, before>>
vars == <<fileVars, cameraVars, plugVars, sessionVars, inputVars, phase,
          expected, target, exported, attempts, pressed, audit, exit, sent>>

Region == {"sendInfo", "sendData", "endRegion"}
Modes == {"restore", "dryRun", "export", "inspect"}
Phases == {"start", "begin", "read", "open", "preflight", "export", "save", "reconnect", "verify",
           "done", "dark"} \cup Region

TypeOK ==
    /\ FileTypeOK
    /\ settings \in [Bodies -> Payloads]
    /\ staged \in [Bodies -> Payloads \cup {NoPayload}]
    /\ bus \subseteq Bodies /\ moves \in 0..MaxMoves
    /\ handle \in Bodies \cup {NoBody} /\ poisoned \in BOOLEAN
    /\ backup \in Artifacts /\ named \in Bodies \cup {NoBody}
    /\ mode \in Modes
    /\ expected \in {"none", "this", "other"}
    /\ audit \in Audits
    /\ phase \in Phases
    /\ target \in Bodies \cup {NoBody}
    /\ exported \in Payloads \cup {NoPayload}
    /\ attempts \in 0..MaxAttempts
    /\ pressed \in BOOLEAN
    /\ exit \in {0, 1, 2, 3, 130}
    /\ before \in [Bodies -> Payloads]
    /\ sent \in BOOLEAN

Init ==
    /\ mode \in Modes /\ expected = "none"
    /\ FileInit(IF mode = "export" THEN {"Deny", "Allow"} ELSE {"Exclusive"})
    /\ settings \in [Bodies -> Payloads] /\ before = settings
    /\ staged = [b \in Bodies |-> NoPayload]
    /\ bus \in SUBSET Bodies /\ moves = 0
    /\ handle = NoBody /\ poisoned = FALSE
    /\ backup \in Artifacts /\ named \in Bodies \cup {NoBody}
    /\ phase = "start"
    /\ target = NoBody /\ exported = NoPayload
    /\ attempts = MaxAttempts
    /\ pressed = FALSE /\ exit = 0
    /\ audit = not_attempted
    /\ sent = FALSE

-----------------------------------------------------------------------------
(* The bodies.                                                             *)

\* What body b has stored once its session is over.
SessionEnds(b) ==
    /\ settings' \in IF b = NoBody \/ staged[b] = NoPayload THEN {settings}
                     ELSE {[settings EXCEPT ![b] = p] : p \in Payloads}
    /\ staged' = [x \in Bodies |-> IF x = b THEN NoPayload ELSE staged[x]]

\* Plugging a body out ends its session and makes the handle useless.
PlugOut ==
    /\ moves < MaxMoves /\ moves' = moves + 1
    /\ \E b \in bus :
          /\ bus' = bus \ {b}
          /\ SessionEnds(b)
          /\ handle' = IF b = handle THEN NoBody ELSE handle
    /\ UNCHANGED <<reportVars, fileVars, poisoned, inputVars, phase, target, exported,
                   attempts, pressed, exit, sent>>

PlugIn ==
    /\ moves < MaxMoves /\ moves' = moves + 1
    /\ \E b \in Bodies \ bus : bus' = bus \cup {b}
    /\ UNCHANGED <<reportVars, fileVars, cameraVars, sessionVars, inputVars, phase,
                   target, exported, attempts, pressed, exit, sent>>

\* A body stores an import at once, perhaps coerced, or when its session
\* ends.  It may have done so even if it answers with an error.
StoreImport ==
    \/ /\ \E p \in Payloads : settings' = [settings EXCEPT ![handle] = p]
       /\ UNCHANGED staged
    \/ staged' = [staged EXCEPT ![handle] = backup.payload]
       /\ UNCHANGED settings

\* A transaction that is answered with a framed OK, and one that is not: it
\* was refused, or lost together with the session.
Accepted == handle \in bus /\ ~poisoned /\ UNCHANGED sessionVars
Fails == poisoned' \in {poisoned, TRUE} /\ UNCHANGED handle

-----------------------------------------------------------------------------
(* The artifact and its target.                                            *)

\* The serial number the preflight is bound to.
Binding == IF named = NoBody THEN backup.source ELSE named

\* validate_target_compatibility
CompatibleWith(b) == backup.identity = IdentityOf[b]

\* A bug: A recovery artifact may go to the body the operator named.
RequiredSerialNamed == Binding

\* A recovery artifact goes to no other body than its own.
RequiredSerial == IF backup.purpose = "Recovery" THEN backup.source ELSE Binding

\* validate_target
ValidFor(b) == CompatibleWith(b) /\ b = RequiredSerial

-----------------------------------------------------------------------------
(* The command.                                                            *)

Goto(p) == phase' = p /\ UNCHANGED exit
Exit(status) == phase' = "done" /\ exit' = status

\* Camera::drop
CloseSession ==
    /\ IF poisoned THEN UNCHANGED cameraVars ELSE SessionEnds(handle)
    /\ handle' = NoBody /\ poisoned' = FALSE

\* What the command line says: the options, where the artifact is read
\* from, and whether --expect-sha256 names it.
Arguments == [yes : BOOLEAN, dry_run : BOOLEAN, recovery_backup : BOOLEAN,
              stdin : BOOLEAN, allow_stdin : BOOLEAN, json : BOOLEAN,
              expect_sha256 : {"none", "this", "other"}]

ModeOf(a) == IF a.dry_run THEN "dryRun" ELSE "restore"

\* A bug: --expect-sha256 is asked for only with standard input.
ParsesUnnamed(a) ==
    /\ a.yes = ~a.dry_run
    /\ a.recovery_backup = ~a.dry_run
    /\ a.allow_stdin => a.yes
    /\ a.json => a.dry_run

\* BackupImportArgs: which options need and which exclude each other.
Parses(a) ==
    /\ a.yes = ~a.dry_run
    /\ a.recovery_backup = ~a.dry_run
    /\ a.dry_run \/ a.expect_sha256 # "none"
    /\ a.allow_stdin => a.yes
    /\ a.json => a.dry_run

\* validation_error: standard input needs a permission, and only it has one.
Consistent(a) ==
    /\ a.allow_stdin => a.stdin
    /\ ~a.dry_run /\ a.stdin => a.allow_stdin

\* ensure_import_confirmation, ensure_import_input_policy: asked once more.
Confirmed(a) ==
    /\ a.dry_run \/ a.yes
    /\ ModeOf(a) = "restore" /\ a.stdin =>
          a.allow_stdin /\ a.expect_sha256 # "none"

\* The command line is accepted, or nothing happens at all.
Start ==
    /\ phase = "start"
    /\ \/ mode = "export" /\ Goto("begin") /\ UNCHANGED expected
       \/ mode = "inspect" /\ Goto("read") /\ UNCHANGED expected
       \/ \E a \in Arguments :
             /\ mode = ModeOf(a)
             /\ \/ ~(Parses(a) /\ Consistent(a)) /\ Exit(2)
                \/ Parses(a) /\ Consistent(a) /\ ~Confirmed(a) /\ Exit(1)
                \/ Parses(a) /\ Consistent(a) /\ Confirmed(a) /\ Goto("read")
             /\ expected' = a.expect_sha256
    /\ UNCHANGED <<fileVars, cameraVars, plugVars, sessionVars, inputVars,
                   target, exported, attempts, pressed, audit, sent>>

\* verify_fingerprint
FingerprintVerified == expected \in {"none", "this"}

\* The artifact is read to its end and parses, and is the one that was
\* named; inspect prints it.
ReadInput ==
    /\ phase = "read"
    /\ \/ FingerprintVerified
          /\ IF mode = "inspect" THEN Exit(0) ELSE Goto("open")
       \/ Exit(1)
    /\ UNCHANGED <<reportVars, fileVars, cameraVars, plugVars, sessionVars,
                   inputVars, target, exported, attempts, pressed, sent>>

\* An export opens its output before the camera.
BeginExport ==
    /\ phase = "begin"
    /\ BeginWrite
    /\ IF file' = "failed" THEN Exit(1) ELSE Goto("open")
    /\ UNCHANGED <<reportVars, cameraVars, plugVars, sessionVars, inputVars, target,
                   exported, attempts, pressed, sent>>

\* probe_candidates: a device whose probe fails is not among them.
ProbeCandidates == SUBSET bus

\* select_only
SelectOnly(candidates) == {b \in candidates : candidates = {b}}

\* get_camera: the body at the location that was given, or the only one.
GetCamera == bus \cup UNION {SelectOnly(c) : c \in ProbeCandidates}

Open ==
    /\ phase = "open"
    /\ \/ /\ \E b \in GetCamera : handle' = b
          /\ Goto(IF mode = "export" THEN "export" ELSE "preflight")
       \/ Exit(1) /\ UNCHANGED handle
    /\ UNCHANGED <<reportVars, fileVars, cameraVars, plugVars, poisoned, inputVars,
                   target, exported, attempts, pressed, sent>>

Refuse == Exit(1) /\ CloseSession

\* The preflight binds the session to a serial number; a dry run ends here.
Preflight ==
    /\ phase = "preflight"
    /\ \/ /\ Accepted /\ handle = Binding /\ ValidFor(handle)
          /\ mode = "restore"
          /\ target' = handle
          /\ Goto("export") /\ UNCHANGED cameraVars
       \/ /\ handle \in bus /\ handle = Binding /\ mode = "dryRun"
          /\ named # NoBody => ValidFor(handle)
          /\ CompatibleWith(handle)
          /\ target' = handle
          /\ Exit(0) /\ CloseSession
       \/ Refuse /\ UNCHANGED target
    /\ UNCHANGED <<reportVars, fileVars, plugVars, inputVars, exported, attempts,
                   pressed, sent>>

\* export_backup: the identity, object info and payload of this session.
ExportBackup ==
    /\ phase = "export"
    /\ \/ /\ Accepted
          /\ exported' = settings[handle]
          /\ Goto("save") /\ UNCHANGED cameraVars
       \/ Refuse /\ UNCHANGED exported
    /\ UNCHANGED <<reportVars, fileVars, plugVars, inputVars, target, attempts, pressed,
                   sent>>

\* restore_after_recovery_saved: nothing is sent unless write_all_new has
\* returned without an error.  An export prints the fingerprint of what it has
\* saved, and fails if it cannot.
SaveExport ==
    /\ phase = "save"
    /\ FileStep
    /\ \/ file' = "failed" /\ Refuse
       \/ /\ file' = "committed" /\ mode = "export"
          /\ Exit(0) \/ Exit(1)
          /\ CloseSession
       \/ /\ file' = "committed" /\ mode = "restore" /\ Goto("sendInfo")
          /\ UNCHANGED <<cameraVars, sessionVars>>
       \/ /\ file' \notin {"failed", "committed"} /\ Goto("save")
          /\ UNCHANGED <<cameraVars, sessionVars>>
    /\ UNCHANGED <<reportVars, plugVars, inputVars, target, exported, attempts, pressed,
                   sent>>

\* A bug: A framed refusal of the import counts as an ordinary error.
UnknownIfPoisoned == IF poisoned' THEN 3 ELSE 1

\* Every failure of the import is a BackupImportError of unknown state.
ImportFailed == 3

\* A send that fails: only a framed response leaves the session usable.
SendFails ==
    /\ Fails
    /\ \E error \in WriteErrors :
          /\ error = "Response" => handle \in bus /\ ~poisoned'
          /\ error \in {"Malformed", "Usb"} => poisoned'
          /\ audit' = from_write_error(error)
    /\ Exit(ImportFailed)

\* send_object_info: what is coming.
SendObjectInfo ==
    /\ phase = "sendInfo"
    /\ \/ Accepted /\ Goto("sendData") /\ UNCHANGED audit
       \/ SendFails
    /\ UNCHANGED cameraVars

\* send_object_data: the payload, once.
SendObjectData ==
    /\ phase = "sendData"
    /\ \/ Accepted /\ StoreImport /\ Goto("endRegion") /\ audit' = ptp_accepted
       \/ /\ SendFails
          /\ \/ handle \in bus /\ ~poisoned /\ StoreImport
             \/ UNCHANGED cameraVars

\* import_backup_with_transport
SendBackup ==
    /\ SendObjectInfo \/ SendObjectData
    /\ sent' = TRUE
    /\ UNCHANGED <<expected, fileVars, plugVars, inputVars, target, exported,
                   attempts, pressed>>

\* critical_camera_write ends: an interrupt that was recorded stops here.
EndRegion ==
    /\ phase = "endRegion"
    /\ IF pressed THEN Exit(3) ELSE Goto("reconnect")
    /\ CloseSession
    /\ pressed' = FALSE
    /\ UNCHANGED <<reportVars, fileVars, plugVars, inputVars, target, exported, attempts,
                   sent>>

\* A bug: The deadline is not checked when an attempt found nothing.
RetryAlways == attempts' = attempts - 1

Retry == attempts > 0 /\ attempts' = attempts - 1

\* find_camera_by_serial, tried again until the deadline.  A session that
\* was left open on the body ends when a new one is opened.
Reconnect ==
    /\ phase = "reconnect"
    /\ \/ /\ Binding \in bus /\ handle' = Binding /\ SessionEnds(Binding)
          /\ Goto("verify") /\ UNCHANGED attempts
       \/ /\ Retry
          /\ Goto("reconnect") /\ UNCHANGED <<handle, cameraVars>>
       \/ /\ attempts = 0 /\ UNCHANGED attempts
          /\ Exit(3) /\ UNCHANGED <<handle, cameraVars>>
    /\ UNCHANGED <<reportVars, fileVars, plugVars, poisoned, inputVars, target, exported,
                   pressed, sent>>

\* BackupRestoreAccepted, once the fresh export has been compared.
Compared(status) ==
    with_persistence(with_semantic(audit, status), status)

\* verify_post_restore_export
VerifyPostRestoreExport ==
    IF settings[handle] = backup.payload
    THEN Exit(0) /\ audit' = Compared("Succeeded")
    ELSE Exit(3) /\ audit' = Compared("Failed")

\* verify_restore_persisted: the fresh export is of the same body and shows
\* the payload that was sent.
Verify ==
    /\ phase = "verify"
    /\ \/ /\ Accepted
          /\ IF ValidFor(handle) /\ handle = target
             THEN VerifyPostRestoreExport
             ELSE Exit(3) /\ UNCHANGED audit
       \/ Fails /\ Exit(3) /\ UNCHANGED audit
    /\ UNCHANGED <<expected, fileVars, cameraVars, plugVars, inputVars, target,
                   exported, attempts, pressed, sent>>

HostStep ==
    \/ Start \/ ReadInput \/ BeginExport \/ Open \/ Preflight \/ ExportBackup \/ SaveExport \/ SendBackup
    \/ EndRegion \/ Reconnect \/ Verify

\* The process status of an interrupt: a camera write was begun, or not.
InterruptStatus == IF phase \in Region \/ sent THEN 3 ELSE 130

\* In the critical region the first Ctrl-C is recorded and the next one ends
\* the process; elsewhere the first one does.
Interrupt ==
    /\ phase \notin {"done", "dark"}
    /\ \/ /\ phase \in Region /\ ~pressed
          /\ pressed' = TRUE /\ UNCHANGED <<phase, exit>>
       \/ /\ phase \in Region => pressed
          /\ Exit(InterruptStatus) /\ UNCHANGED pressed
    /\ UNCHANGED <<reportVars, fileVars, cameraVars, plugVars, sessionVars, inputVars,
                   target, exported, attempts, sent>>

\* The host loses power, during the command or after it.
Crash ==
    /\ phase # "dark"
    /\ phase' = "dark"
    /\ PowerLoss
    /\ UNCHANGED <<reportVars, cameraVars, plugVars, sessionVars, inputVars, target,
                   exported, attempts, pressed, exit, sent>>

Rival ==
    /\ phase \notin {"done", "dark"}
    /\ RivalCreates
    /\ UNCHANGED <<reportVars, cameraVars, plugVars, sessionVars, inputVars, phase,
                   target, exported, attempts, pressed, exit, sent>>

Next == HostStep \/ Interrupt \/ PlugOut \/ PlugIn \/ Rival \/ Crash

Spec == Init /\ [][Next]_vars /\ WF_vars(HostStep)

-----------------------------------------------------------------------------
(* Properties.                                                             *)

\* From the moment an import is begun, the recovery file is whole and
\* survives a power loss, and holds what the target had stored before
\* (restore_after_recovery_saved, write_all_new).
RecoveryDurable ==
    sent => /\ path = "whole" /\ onDisk = {"whole"}
            /\ exported = before[target]

\* An import changes no body but the one whose serial number it is bound to,
\* and a recovery artifact no body but its own, and only with the artifact
\* that --expect-sha256 names (validate_target, preflight, BackupImportArgs).
OnlyTargetChanges ==
    \A b \in Bodies : settings[b] # before[b] =>
        /\ b = Binding /\ expected = "this"
        /\ backup.purpose = "Recovery" => b = backup.source
        /\ mode = "restore"

\* The exit status is true: 0 means that the target stores what was asked
\* for and will keep it, and the audit says so; any other than 0 and 3 mean
\* that no body has changed or will change (verify_restore_persisted,
\* BackupImportError, BackupRestoreOutcome, exit-codes.md).
ExitIsTrue ==
    phase = "done" =>
        /\ exit = 0 /\ mode = "restore" =>
              /\ settings[Binding] = backup.payload
              /\ staged[Binding] = NoPayload
              /\ audit = Audit("Succeeded", "Succeeded", "Succeeded")
        /\ audit.persistence = "Succeeded" => exit = 0 /\ mode = "restore"
        /\ exit \in {1, 2, 130} =>
              settings = before /\ \A b \in Bodies : staged[b] = NoPayload

=============================================================================
