------------------------- MODULE BackupRestoreProofs -------------------------
(***************************************************************************)
(* The safety of a backup import, for any number of bodies, settings,      *)
(* reconnect attempts and plugs pulled: nothing is sent before the         *)
(* recovery file is durable, no body but the bound one changes, and the    *)
(* exit status and the audit tell the truth.                               *)
(***************************************************************************)
EXTENDS BackupRestore, TLAPS

\* The phases that a restore reaches only with its recovery file committed.
Sending == Region \cup {"reconnect", "verify"}
Ended == {"done", "dark"}

\* A file gets its name only when its bytes are synced, and a name that was
\* synced stays.
FileKept ==
    /\ file \in {"written", "synced", "renamed", "committed"} => content = "full"
    /\ file \in {"synced", "renamed", "committed"} => synced
    /\ "whole" \in onDisk => synced
    /\ file = "renamed" /\ phase # "dark" => path = "whole"
    /\ file = "committed" => path = "whole" /\ onDisk = {"whole"}
    /\ phase \in Sending => file = "committed"

\* A restore goes on only with the artifact that was named.
NamedKept ==
    mode = "restore" =>
        /\ phase = "read" => expected # "none"
        /\ phase \notin {"start", "read"} \cup Ended => expected = "this"

\* The session of a restore is that of the validated body or gone, and the
\* export shows what that body had stored at the start.
TargetKept ==
    /\ phase \in Sending => mode = "restore"
    /\ mode = "restore" /\ phase \in {"export", "save"} \cup Sending =>
          target \in Bodies /\ target = Binding /\ ValidFor(target)
    /\ mode = "restore" /\ phase \in {"export", "save"} \cup Region =>
          handle \in {target, NoBody}
    /\ mode = "restore" /\ phase \in {"save"} \cup Sending => exported = before[target]

\* What is true from the moment an import was begun.
SentKept ==
    sent =>
        /\ phase \in Sending \cup Ended
        /\ file = "committed"
        /\ mode = "restore" /\ expected = "this"
        /\ target \in Bodies /\ target = Binding /\ ValidFor(target)
        /\ exported = before[target]

\* Only the target has changed or will change, and once it was reopened it
\* has stored what it will store.
Untouched(b) == settings[b] = before[b] /\ staged[b] = NoPayload

BodiesKept ==
    /\ \A b \in Bodies : Untouched(b) \/ (sent /\ b = target)
    /\ phase = "verify" => \A b \in Bodies : staged[b] = NoPayload

\* What the audit and the exit status say.
AnswerKept ==
    /\ phase \in {"endRegion", "reconnect", "verify"} => audit = ptp_accepted
    /\ audit.persistence = "Succeeded" => phase \in Ended /\ exit = 0 /\ mode = "restore"
    /\ sent /\ phase = "done" => exit \in {0, 3}
    /\ phase = "done" /\ exit = 0 /\ mode = "restore" =>
          /\ settings[Binding] = backup.payload
          /\ staged[Binding] = NoPayload
          /\ audit = Audit("Succeeded", "Succeeded", "Succeeded")

Inv == TypeOK /\ FileKept /\ NamedKept /\ TargetKept /\ SentKept /\ BodiesKept /\ AnswerKept

-----------------------------------------------------------------------------
(* The output file.                                                        *)

\* A file step keeps the types, and a file is committed only under its name
\* and with all its bytes.
LEMMA FileStepKeeps ==
  ASSUME FileTypeOK, FileStep,
         file \in {"written", "synced", "renamed", "committed"} => content = "full",
         file \in {"synced", "renamed", "committed"} => synced,
         "whole" \in onDisk => synced,
         file = "renamed" => path = "whole",
         file = "committed" => path = "whole" /\ onDisk = {"whole"}
  PROVE  /\ FileTypeOK'
         /\ file' \in {"written", "synced", "renamed", "committed"} => content' = "full"
         /\ file' \in {"synced", "renamed", "committed"} => synced'
         /\ "whole" \in onDisk' => synced'
         /\ file' = "renamed" => path' = "whole"
         /\ file' = "committed" => path' = "whole" /\ onDisk' = {"whole"}
<1> USE DEF FileTypeOK, Names, contentVars
<1>1. CASE BeginWrite
  BY <1>1 DEF BeginWrite, DropFile
<1>2. CASE WriteAll
  BY <1>2 DEF WriteAll
<1>3. CASE SyncAll
  <2>1. CASE DropFile
    BY <1>3, <2>1 DEF SyncAll, DropFile
  <2>2. CASE file' = "synced" /\ synced' = TRUE /\ UNCHANGED <<policy, path, onDisk, content>>
    <3>1. synced' /\ synced' \in BOOLEAN
      BY <2>2, Zenon
    <3> QED
      BY <1>3, <2>2, <3>1 DEF SyncAll
  <2> QED
    BY <1>3, <2>1, <2>2 DEF SyncAll
<1>4. CASE Persist
  BY <1>4 DEF Persist, DropFile, Artifact
<1>5. CASE SyncDirectory
  BY <1>5 DEF SyncDirectory, DropFile
<1> QED
  BY <1>1, <1>2, <1>3, <1>4, <1>5 DEF FileStep

\* Every step keeps what is known of the file.
LEMMA FileNext == Inv /\ Next => FileTypeOK' /\ FileKept'
<1> SUFFICES ASSUME Inv, Next PROVE FileTypeOK' /\ FileKept'
  OBVIOUS
<1>1. FileTypeOK /\ FileKept
  BY DEF Inv, TypeOK
<1>2. ASSUME UNCHANGED fileVars, phase' \in Sending => phase \in Sending, phase # "dark"
      PROVE  FileTypeOK' /\ FileKept'
  BY <1>1, <1>2 DEF fileVars, FileTypeOK, FileKept
<1>3. ASSUME FileStep, phase # "dark", phase' \in Sending => file' = "committed"
      PROVE  FileTypeOK' /\ FileKept'
  BY <1>1, <1>3, FileStepKeeps DEF FileKept
<1>4. CASE Start \/ ReadInput \/ Open \/ Preflight \/ ExportBackup
  <2>1. /\ UNCHANGED fileVars /\ phase # "dark"
        /\ phase' \notin Sending
    BY <1>4 DEF Start, ReadInput, Open, Preflight, ExportBackup, Goto, Exit, Refuse, Sending,
                Region
  <2> QED
    BY <1>2, <2>1
<1>5. CASE SendBackup \/ EndRegion \/ Reconnect \/ Verify \/ Interrupt
  <2>1. UNCHANGED fileVars /\ phase # "dark" /\ (phase' \in Sending => phase \in Sending)
    BY <1>5 DEF SendBackup, SendObjectInfo, SendObjectData, SendFails, EndRegion, Reconnect,
                Verify, Interrupt, VerifyPostRestoreExport, Goto, Exit, Sending, Region
  <2> QED
    BY <1>2, <2>1
<1>6. CASE BeginExport
  <2>1. FileStep /\ phase # "dark" /\ phase' \notin Sending
    BY <1>6 DEF BeginExport, FileStep, Goto, Exit, Sending, Region
  <2> QED
    BY <1>3, <2>1
<1>7. CASE SaveExport
  <2>1. FileStep /\ phase # "dark" /\ (phase' \in Sending => file' = "committed")
    BY <1>7 DEF SaveExport, Refuse, Goto, Exit, Sending, Region
  <2> QED
    BY <1>3, <2>1
<1>8. CASE PlugOut \/ PlugIn
  BY <1>1, <1>8 DEF PlugOut, PlugIn, fileVars, FileTypeOK, FileKept
<1>9. CASE Rival
  BY <1>1, <1>9 DEF Rival, RivalCreates, contentVars, FileTypeOK, FileKept, Names
<1>10. CASE Crash
  BY <1>1, <1>10 DEF Crash, PowerLoss, contentVars, FileTypeOK, FileKept, Names, Sending,
                     Region
<1> QED
  BY <1>4, <1>5, <1>6, <1>7, <1>8, <1>9, <1>10 DEF Next, HostStep

-----------------------------------------------------------------------------
(* The bodies.                                                             *)

CameraType ==
    /\ settings \in [Bodies -> Payloads]
    /\ staged \in [Bodies -> Payloads \cup {NoPayload}]

\* What a step may do to body b: nothing; end its session, which stores what
\* was staged; or send it the import.
Kept(b) == settings'[b] = settings[b] /\ staged'[b] = staged[b]

Settled(b) ==
    /\ staged'[b] = NoPayload
    /\ staged[b] = NoPayload => settings'[b] = settings[b]

Imported(b) == phase = "sendData" /\ b = handle /\ sent'

BodyStep ==
    /\ CameraType'
    /\ \A b \in Bodies : Kept(b) \/ Settled(b) \/ Imported(b)

LEMMA SessionEndsKeeps ==
  ASSUME CameraType, NEW b \in Bodies \cup {NoBody}, SessionEnds(b)
  PROVE  /\ CameraType'
         /\ \A x \in Bodies : IF x = b THEN Settled(x) ELSE Kept(x)
<1>1. NoBody \notin Bodies
  BY BackupAssumption
<1>2. settings' \in [Bodies -> Payloads] /\ \A x \in Bodies \ {b} : settings'[x] = settings[x]
  BY <1>1 DEF SessionEnds, CameraType
<1>3. b \in Bodies /\ staged[b] = NoPayload => settings' = settings
  BY <1>1 DEF SessionEnds
<1>4. /\ staged' \in [Bodies -> Payloads \cup {NoPayload}]
      /\ \A x \in Bodies : staged'[x] = IF x = b THEN NoPayload ELSE staged[x]
  BY DEF SessionEnds, CameraType
<1> QED
  BY <1>2, <1>3, <1>4 DEF CameraType, Kept, Settled

LEMMA StoreImportKeeps ==
  ASSUME CameraType, handle \in Bodies, backup.payload \in Payloads, StoreImport
  PROVE  CameraType' /\ \A x \in Bodies \ {handle} : Kept(x)
  BY DEF CameraType, StoreImport, Kept

\* Every step does to the bodies what BodyStep says.
LEMMA BodyNext == Inv /\ Next => BodyStep
<1> SUFFICES ASSUME Inv, Next PROVE BodyStep
  OBVIOUS
<1>1. /\ CameraType /\ handle \in Bodies \cup {NoBody} /\ bus \subseteq Bodies
      /\ backup.payload \in Payloads
  BY DEF Inv, TypeOK, CameraType, Artifacts
<1>2. ASSUME UNCHANGED cameraVars PROVE BodyStep
  BY <1>1, <1>2 DEF cameraVars, CameraType, BodyStep, Kept
<1>3. ASSUME NEW b \in Bodies \cup {NoBody}, SessionEnds(b) PROVE BodyStep
  BY <1>1, <1>3, SessionEndsKeeps DEF BodyStep
<1>4. CASE Start \/ ReadInput \/ BeginExport \/ Open \/ Verify \/ Interrupt \/ PlugIn
           \/ Rival \/ Crash
  BY <1>2, <1>4 DEF Start, ReadInput, BeginExport, Open, Verify, Interrupt, PlugIn, Rival,
                    Crash
<1>5. CASE Preflight \/ ExportBackup \/ SaveExport \/ EndRegion
  <2>1. UNCHANGED cameraVars \/ SessionEnds(handle)
    BY <1>5 DEF Preflight, ExportBackup, SaveExport, EndRegion, Refuse, CloseSession
  <2> QED
    BY <1>1, <1>2, <1>3, <2>1
<1>6. CASE SendBackup
  <2>1. CASE UNCHANGED cameraVars
    BY <1>2, <2>1
  <2>2. CASE phase = "sendData" /\ handle \in bus /\ StoreImport
    <3>1. sent'
      BY <1>6, Zenon DEF SendBackup
    <3> QED
      BY <1>1, <2>2, <3>1, StoreImportKeeps DEF BodyStep, Imported
  <2> QED
    BY <1>6, <2>1, <2>2 DEF SendBackup, SendObjectInfo, SendObjectData, Accepted
<1>7. CASE Reconnect
  <2>1. UNCHANGED cameraVars \/ (Binding \in bus /\ SessionEnds(Binding))
    BY <1>7 DEF Reconnect
  <2> QED
    BY <1>1, <1>2, <1>3, <2>1
<1>8. CASE PlugOut
  <2>1. \E b \in bus : SessionEnds(b)
    BY <1>8 DEF PlugOut
  <2> QED
    BY <1>1, <1>3, <2>1
<1> QED
  BY <1>4, <1>5, <1>6, <1>7, <1>8 DEF Next, HostStep

-----------------------------------------------------------------------------
(* The types.                                                              *)

\* What errors make of an audit.
LEMMA WriteErrorAudit ==
  ASSUME NEW error \in WriteErrors
  PROVE  /\ from_write_error(error) \in Audits
         /\ from_write_error(error).persistence # "Succeeded"
<1> USE DEF Audits, OutcomeStatus, Audit, from_write_error, transport_failed, attempt_unknown
<1>1. CASE error = "Response"
  BY <1>1
<1>2. CASE error = "Malformed"
  BY <1>2
<1>3. CASE error = "Usb"
  BY <1>3
<1>4. CASE error = "Other"
  BY <1>4
<1> QED
  BY <1>1, <1>2, <1>3, <1>4 DEF WriteErrors

\* What a comparison makes of it.
LEMMA ComparedAudit ==
  ASSUME audit = ptp_accepted, NEW status \in OutcomeStatus
  PROVE  /\ Compared(status) = Audit("Succeeded", "Succeeded", status)
         /\ Compared(status) \in Audits
<1>1. audit = [transport |-> "Succeeded", ptp_response |-> "Succeeded",
               semantic |-> "NotAttempted", persistence |-> "NotAttempted"]
  BY DEF ptp_accepted, Audit
<1> DEFINE seen == [transport |-> "Succeeded", ptp_response |-> "Succeeded",
                     semantic |-> status, persistence |-> "NotAttempted"]
            lasting == [transport |-> "Succeeded", ptp_response |-> "Succeeded",
                        semantic |-> status, persistence |-> status]
<1>2. with_semantic(audit, status) = seen
  BY <1>1 DEF with_semantic
<1>3. with_persistence(seen, status) = lasting
  BY DEF with_persistence
<1>4. Compared(status) = lasting
  BY <1>2, <1>3 DEF Compared
<1> QED
  BY <1>4 DEF Audit, Audits, OutcomeStatus

\* The variables that no step but the first changes.
LEMMA InputNext == Next => UNCHANGED inputVars
  BY DEF Next, HostStep, Start, ReadInput, BeginExport, Open, Preflight, ExportBackup,
         SaveExport, SendBackup, EndRegion, Reconnect, Verify, Interrupt, PlugOut, PlugIn,
         Rival, Crash
\* A report of an error changes the audit only to one of those above.
LEMMA AuditNext ==
  ASSUME Inv, Next
  PROVE  audit' \in Audits
<1>1. audit \in Audits
  BY DEF Inv, TypeOK
<1>2. CASE SendBackup
  <2>1. \/ UNCHANGED audit
        \/ audit' = ptp_accepted
        \/ \E error \in WriteErrors : audit' = from_write_error(error)
    BY <1>2 DEF SendBackup, SendObjectInfo, SendObjectData, SendFails
  <2>2. ptp_accepted \in Audits
    BY DEF ptp_accepted, Audit, Audits, OutcomeStatus
  <2> QED
    BY <1>1, <2>1, <2>2, WriteErrorAudit
<1>3. CASE Verify
  <2>1. \/ UNCHANGED audit
        \/ audit' = Compared("Succeeded")
        \/ audit' = Compared("Failed")
    BY <1>3 DEF Verify, VerifyPostRestoreExport
  <2>2. audit = ptp_accepted
    BY <1>3 DEF Verify, Inv, AnswerKept
  <2> QED
    BY <1>1, <2>1, <2>2, ComparedAudit DEF OutcomeStatus
<1>4. CASE ~SendBackup /\ ~Verify
  <2>1. UNCHANGED audit
    BY <1>4 DEF Next, HostStep, Start, ReadInput, BeginExport, Open, Preflight, ExportBackup,
                SaveExport, EndRegion, Reconnect, Interrupt, PlugOut, PlugIn, Rival, Crash,
                reportVars
  <2> QED
    BY <1>1, <2>1
<1> QED
  BY <1>2, <1>3, <1>4

\* Every step keeps the types.
LEMMA TypesNext == Inv /\ Next => TypeOK'
<1> SUFFICES ASSUME Inv, Next PROVE TypeOK'
  OBVIOUS
<1> USE DEF Goto, Exit, Refuse, reportVars, cameraVars, plugVars, sessionVars
<1>1. FileTypeOK' /\ CameraType' /\ audit' \in Audits
  BY FileNext, BodyNext, AuditNext DEF BodyStep
<1>2. UNCHANGED <<backup, named, mode, before>>
  BY InputNext DEF inputVars
<1>3. TypeOK
  BY DEF Inv
<1>4. Binding \in Bodies
  BY <1>3 DEF TypeOK, Binding, Artifacts
<1>5. bus' \subseteq Bodies /\ moves' \in 0..MaxMoves
  <2>1. \/ UNCHANGED plugVars
        \/ moves < MaxMoves /\ moves' = moves + 1 /\ bus' \subseteq bus \cup Bodies
    BY DEF Next, HostStep, Start, ReadInput, BeginExport, Open, Preflight, ExportBackup,
           SaveExport, SendBackup, EndRegion, Reconnect, Verify, Interrupt, PlugOut, PlugIn,
           Rival, Crash
  <2> QED
    BY <1>3, <2>1, BackupAssumption DEF TypeOK
<1>6. handle' \in Bodies \cup {NoBody}
  <2>1. handle' \in {handle, NoBody, Binding} \cup GetCamera
    BY DEF Next, HostStep, Start, ReadInput, BeginExport, Open, Preflight, ExportBackup,
           SaveExport, SendBackup, SendObjectInfo, SendObjectData, SendFails, EndRegion,
           Reconnect, Verify, Interrupt, PlugOut, PlugIn, Rival, Crash, Accepted, Fails,
           CloseSession
  <2>2. GetCamera \subseteq Bodies
    BY <1>3 DEF TypeOK, GetCamera, ProbeCandidates, SelectOnly
  <2> QED
    BY <1>3, <1>4, <2>1, <2>2 DEF TypeOK
<1>7. poisoned' \in BOOLEAN /\ pressed' \in BOOLEAN /\ sent' \in BOOLEAN
  <2>1. poisoned' \in {poisoned, TRUE, FALSE}
    BY DEF Next, HostStep, Start, ReadInput, BeginExport, Open, Preflight, ExportBackup,
           SaveExport, SendBackup, SendObjectInfo, SendObjectData, SendFails, EndRegion,
           Reconnect, Verify, Interrupt, PlugOut, PlugIn, Rival, Crash, Accepted, Fails,
           CloseSession
  <2>2. pressed' \in {pressed, TRUE, FALSE} /\ sent' \in {sent, TRUE}
    BY DEF Next, HostStep, Start, ReadInput, BeginExport, Open, Preflight, ExportBackup,
           SaveExport, SendBackup, EndRegion, Reconnect, Verify, Interrupt, PlugOut, PlugIn,
           Rival, Crash
  <2> QED
    BY <1>3, <2>1, <2>2, Zenon DEF TypeOK
<1>8. expected' \in {"none", "this", "other"}
  BY <1>3 DEF TypeOK, Next, HostStep, Start, Arguments, ReadInput, BeginExport, Open, Preflight,
         ExportBackup, SaveExport, SendBackup, EndRegion, Reconnect, Verify, Interrupt,
         PlugOut, PlugIn, Rival, Crash
<1>9. target' \in Bodies \cup {NoBody}
  <2>1. target' \in {target, handle}
    BY DEF Next, HostStep, Start, ReadInput, BeginExport, Open, Preflight, ExportBackup,
           SaveExport, SendBackup, EndRegion, Reconnect, Verify, Interrupt, PlugOut, PlugIn,
           Rival, Crash
  <2> QED
    BY <1>3, <2>1 DEF TypeOK
<1>10. exported' \in Payloads \cup {NoPayload}
  <2>1. \/ UNCHANGED exported
        \/ handle \in bus /\ exported' = settings[handle]
    BY DEF Next, HostStep, Start, ReadInput, BeginExport, Open, Preflight, ExportBackup,
           SaveExport, SendBackup, EndRegion, Reconnect, Verify, Interrupt, PlugOut, PlugIn,
           Rival, Crash, Accepted
  <2> QED
    BY <1>3, <2>1 DEF TypeOK
<1>11. attempts' \in 0..MaxAttempts
  <2>1. UNCHANGED attempts \/ Retry
    BY DEF Next, HostStep, Start, ReadInput, BeginExport, Open, Preflight, ExportBackup,
           SaveExport, SendBackup, EndRegion, Reconnect, Verify, Interrupt, PlugOut, PlugIn,
           Rival, Crash
  <2> QED
    BY <1>3, <2>1, BackupAssumption DEF TypeOK, Retry
<1>12. phase' \in Phases
  <2>1. phase' \in {phase} \cup Phases
    BY DEF Next, HostStep, Start, ReadInput, BeginExport, Open, Preflight, ExportBackup,
           SaveExport, SendBackup, SendObjectInfo, SendObjectData, SendFails, EndRegion,
           Reconnect, Verify, VerifyPostRestoreExport, Interrupt, PlugOut, PlugIn, Rival,
           Crash, Phases, Region
  <2> QED
    BY <1>3, <2>1 DEF TypeOK
<1>13. exit' \in {0, 1, 2, 3, 130}
  <2>1. exit' \in {exit, 0, 1, 2, 3, 130}
    BY DEF Next, HostStep, Start, ReadInput, BeginExport, Open, Preflight, ExportBackup,
           SaveExport, SendBackup, SendObjectInfo, SendObjectData, SendFails, EndRegion,
           Reconnect, Verify, VerifyPostRestoreExport, Interrupt, InterruptStatus, PlugOut,
           PlugIn, Rival, Crash, ImportFailed
  <2> QED
    BY <1>3, <2>1 DEF TypeOK
<1> QED
  BY <1>1, <1>2, <1>3, <1>5, <1>6, <1>7, <1>8, <1>9, <1>10, <1>11, <1>12, <1>13
     DEF TypeOK, CameraType

-----------------------------------------------------------------------------
(* The artifact and its target.                                            *)

\* Every step keeps the name of the artifact in mind.
LEMMA NamedNext == Inv /\ Next => NamedKept'
<1> SUFFICES ASSUME Inv, Next PROVE NamedKept'
  OBVIOUS
<1> USE DEF Goto, Exit, Refuse, reportVars, Ended
<1>1. UNCHANGED mode
  BY InputNext DEF inputVars
<1>2. CASE Start
  BY <1>1, <1>2 DEF Start, NamedKept, Arguments, Parses, ModeOf
<1>3. CASE ReadInput
  <2>1. UNCHANGED expected
    BY <1>3 DEF ReadInput
  <2>2. /\ phase = "read"
        /\ \/ phase' = "done"
           \/ phase' = "open" /\ FingerprintVerified
    BY <1>3 DEF ReadInput
  <2> QED
    BY <1>1, <2>1, <2>2 DEF Inv, NamedKept, FingerprintVerified
<1>4. CASE ~Start /\ ~ReadInput
  <2>1. /\ UNCHANGED expected
        /\ phase' \in Ended \/ UNCHANGED phase \/ phase \notin {"start", "read"} \cup Ended
        /\ phase' # "read" \/ UNCHANGED phase
    BY <1>4 DEF Next, HostStep, BeginExport, Open, Preflight, ExportBackup, SaveExport,
           SendBackup, SendObjectInfo, SendObjectData, SendFails, EndRegion, Reconnect,
           Verify, VerifyPostRestoreExport, Interrupt, PlugOut, PlugIn, Rival, Crash
  <2> QED
    BY <1>1, <2>1 DEF Inv, NamedKept
<1> QED
  BY <1>2, <1>3, <1>4

\* Where the phases that matter to a restore are entered from.
LEMMA PhaseNext ==
  ASSUME Inv, Next
  PROVE  /\ phase' = "export" => mode = "export" \/ phase = "export" \/ Preflight
         /\ phase' = "save" => phase = "save" \/ ExportBackup
         /\ phase' \in Sending =>
               phase \in Sending \/ (SaveExport /\ phase = "save" /\ mode = "restore")
         /\ phase' \in Region =>
               phase \in Region \/ (SaveExport /\ phase = "save" /\ mode = "restore")
         /\ phase \in Sending \cup Ended => phase' \in Sending \cup Ended
  BY DEF Next, HostStep, Start, ReadInput, BeginExport, Open, Preflight, ExportBackup,
         SaveExport, SendBackup, SendObjectInfo, SendObjectData, SendFails, EndRegion,
         Reconnect, Verify, VerifyPostRestoreExport, Interrupt, PlugOut, PlugIn, Rival, Crash,
         Goto, Exit, Refuse, Sending, Region, Ended

\* Every step keeps the target.
LEMMA TargetNext == Inv /\ Next => TargetKept'
<1> SUFFICES ASSUME Inv, Next PROVE TargetKept'
  OBVIOUS
<1> USE DEF Goto, Exit, Refuse, Ended
<1>1. UNCHANGED <<mode, backup, named, before>>
  BY InputNext DEF inputVars
<1>2. Binding' = Binding /\ \A b \in Bodies : ValidFor(b)' = ValidFor(b)
  BY <1>1 DEF Binding, ValidFor, CompatibleWith, RequiredSerial
<1>3. phase' \in Sending => mode = "restore"
  BY PhaseNext DEF Inv, TargetKept
<1>4. ASSUME mode = "restore", phase' \in {"export", "save"} \cup Sending
      PROVE  target' \in Bodies /\ target' = Binding /\ ValidFor(target')
  <2>1. CASE Preflight
    <3>1. target' = handle /\ handle \in bus /\ handle = Binding /\ ValidFor(handle)
      BY <1>4, <2>1 DEF Preflight, Accepted, Sending, Region
    <3> QED
      BY <3>1 DEF Inv, TypeOK
  <2>2. CASE ~Preflight
    <3>1. UNCHANGED target
      BY <2>2 DEF Next, HostStep, Start, ReadInput, BeginExport, Open, ExportBackup, SaveExport,
             SendBackup, EndRegion, Reconnect, Verify, Interrupt, PlugOut, PlugIn, Rival, Crash
    <3>2. phase \in {"export", "save"} \cup Sending
      BY <1>4, <2>2, PhaseNext DEF ExportBackup
    <3> QED
      BY <1>4, <3>1, <3>2 DEF Inv, TargetKept
  <2> QED
    BY <2>1, <2>2
<1>5. ASSUME mode = "restore", phase' \in {"export", "save"} \cup Region
      PROVE  handle' \in {target', NoBody}
  <2>1. CASE Preflight
    BY <1>5, <2>1 DEF Preflight, Accepted, sessionVars, Region
  <2>2. CASE ~Preflight
    <3>1. phase \in {"export", "save"} \cup Region
      BY <1>5, <2>2, PhaseNext DEF ExportBackup
    <3>2. handle' \in {handle, NoBody} /\ UNCHANGED target
      BY <2>2, <3>1 DEF Next, HostStep, Start, ReadInput, BeginExport, Open, ExportBackup,
             SaveExport, SendBackup, SendObjectInfo, SendObjectData, SendFails, EndRegion,
             Reconnect, Verify, Interrupt, PlugOut, PlugIn, Rival, Crash, Accepted, Fails,
             CloseSession, sessionVars, Region
    <3> QED
      BY <1>5, <3>1, <3>2 DEF Inv, TargetKept
  <2> QED
    BY <2>1, <2>2
<1>6. ASSUME mode = "restore", phase' \in {"save"} \cup Sending
      PROVE  exported' = before[target']
  <2>1. CASE ExportBackup
    <3>1. phase = "export" /\ handle \in bus /\ exported' = settings[handle] /\ UNCHANGED target
      BY <1>6, <2>1 DEF ExportBackup, Accepted, Sending, Region
    <3>2. handle \in Bodies /\ handle = target
      BY <1>6, <3>1, BackupAssumption DEF Inv, TargetKept, TypeOK
    <3>3. settings[handle] = before[handle]
      BY <3>1, <3>2 DEF Inv, BodiesKept, SentKept, Untouched, Sending, Region
    <3> QED
      BY <3>1, <3>2, <3>3
  <2>2. CASE ~ExportBackup
    <3>1. phase \in {"save"} \cup Sending
      BY <1>6, <2>2, PhaseNext
    <3>2. UNCHANGED <<exported, target>>
      BY <2>2, <3>1 DEF Next, HostStep, Start, ReadInput, BeginExport, Open, Preflight,
             SaveExport, SendBackup, EndRegion, Reconnect, Verify, Interrupt, PlugOut,
             PlugIn, Rival, Crash, Sending, Region
    <3> QED
      BY <1>6, <3>1, <3>2 DEF Inv, TargetKept
  <2> QED
    BY <2>1, <2>2
<1> QED
  BY <1>1, <1>2, <1>3, <1>4, <1>5, <1>6 DEF TargetKept

\* Every step keeps what was true when the import was begun.
LEMMA SentNext == Inv /\ Next => SentKept'
<1> SUFFICES ASSUME Inv, Next, sent' PROVE SentKept'
  BY DEF SentKept
<1>1. UNCHANGED <<mode, backup, named, before>>
  BY InputNext DEF inputVars
<1>2. Binding' = Binding /\ \A b \in Bodies : ValidFor(b)' = ValidFor(b)
  BY <1>1 DEF Binding, ValidFor, CompatibleWith, RequiredSerial
<1>3. CASE SendBackup
  <2>1. /\ phase \in Region /\ phase' \in Sending \cup Ended
        /\ UNCHANGED <<file, expected, target, exported>>
    BY <1>3 DEF SendBackup, SendObjectInfo, SendObjectData, SendFails, Goto, Exit, Region,
                Sending, Ended, fileVars
  <2>2. /\ file = "committed" /\ mode = "restore" /\ expected = "this"
        /\ target \in Bodies /\ target = Binding /\ ValidFor(target)
        /\ exported = before[target]
    BY <2>1 DEF Inv, FileKept, NamedKept, TargetKept, Sending, Region, Ended
  <2> QED
    BY <1>1, <1>2, <2>1, <2>2 DEF SentKept
<1>4. CASE ~SendBackup
  <2>1. sent
    BY <1>4 DEF Next, HostStep, Start, ReadInput, BeginExport, Open, Preflight, ExportBackup,
           SaveExport, EndRegion, Reconnect, Verify, Interrupt, PlugOut, PlugIn, Rival, Crash
  <2>2. phase \in Sending \cup Ended /\ phase' \in Sending \cup Ended
    BY <2>1, PhaseNext DEF Inv, SentKept
  <2>3. UNCHANGED <<file, expected, target, exported>>
    BY <1>4, <2>2 DEF Next, HostStep, Start, ReadInput, BeginExport, Open, Preflight,
           ExportBackup, SaveExport, EndRegion, Reconnect, Verify, Interrupt, PlugOut,
           PlugIn, Rival, Crash, RivalCreates, PowerLoss, reportVars, fileVars, Sending,
           Region, Ended
  <2> QED
    BY <1>1, <1>2, <2>1, <2>2, <2>3 DEF Inv, SentKept
<1> QED
  BY <1>3, <1>4

-----------------------------------------------------------------------------
(* What the bodies store and what the command says of it.                  *)

\* Every step leaves the other bodies alone.
LEMMA BodiesNext == Inv /\ Next => BodiesKept'
<1> SUFFICES ASSUME Inv, Next PROVE BodiesKept'
  OBVIOUS
<1>1. UNCHANGED <<mode, before>> /\ BodyStep
  BY InputNext, BodyNext DEF inputVars
<1>2. sent => sent' /\ UNCHANGED target
  BY DEF Next, HostStep, Start, ReadInput, BeginExport, Open, Preflight, ExportBackup,
         SaveExport, SendBackup, EndRegion, Reconnect, Verify, Interrupt, PlugOut, PlugIn,
         Rival, Crash, Inv, SentKept, Sending, Region, Ended
<1>3. ASSUME NEW b \in Bodies PROVE Untouched(b)' \/ (sent' /\ b = target')
  <2>1. CASE Imported(b)
    <3>1. b = target /\ UNCHANGED target /\ sent'
      BY <2>1, BackupAssumption
         DEF Imported, Inv, TargetKept, Sending, Region, Next, HostStep, Start, ReadInput,
             BeginExport, Open, Preflight, ExportBackup, SaveExport, SendBackup, EndRegion,
             Reconnect, Verify, Interrupt, PlugOut, PlugIn, Rival, Crash
    <3> QED
      BY <3>1
  <2>2. CASE sent /\ b = target
    BY <1>2, <2>2
  <2>3. CASE Untouched(b) /\ (Kept(b) \/ Settled(b))
    BY <1>1, <2>3 DEF Untouched, Kept, Settled
  <2> QED
    BY <1>1, <2>1, <2>2, <2>3 DEF Inv, BodiesKept, BodyStep
<1>4. ASSUME phase' = "verify", NEW b \in Bodies PROVE staged'[b] = NoPayload
  <2>1. CASE phase = "verify"
    <3>1. Kept(b) \/ Settled(b)
      BY <1>1, <2>1 DEF BodyStep, Imported
    <3> QED
      BY <2>1, <3>1 DEF Inv, BodiesKept, Kept, Settled
  <2>2. CASE phase # "verify"
    <3>1. phase = "reconnect" /\ Binding \in bus /\ SessionEnds(Binding)
      BY <1>4, <2>2 DEF Next, HostStep, Start, ReadInput, BeginExport, Open, Preflight,
             ExportBackup, SaveExport, SendBackup, SendObjectInfo, SendObjectData, SendFails,
             EndRegion, Reconnect, Verify, Interrupt, PlugOut, PlugIn, Rival, Crash, Goto,
             Exit, Refuse
    <3>2. target = Binding
      BY <3>1 DEF Inv, TargetKept, Sending
    <3>3. b # Binding => staged[b] = NoPayload
      BY <3>2 DEF Inv, BodiesKept, Untouched
    <3> QED
      BY <3>1, <3>3 DEF SessionEnds
  <2> QED
    BY <2>1, <2>2
<1> QED
  BY <1>3, <1>4 DEF BodiesKept
\* What is stored where nothing was staged, or only for another body.
LEMMA StoredStays ==
  ASSUME Inv, Next, NEW b \in Bodies, staged[b] = NoPayload, phase # "sendData"
  PROVE  settings'[b] = settings[b] /\ staged'[b] = NoPayload
<1>1. Kept(b) \/ Settled(b)
  BY BodyNext DEF BodyStep, Imported
<1> QED
  BY <1>1 DEF Kept, Settled

\* Every step keeps the answer true.
LEMMA AnswerNext == Inv /\ Next => AnswerKept'
<1> SUFFICES ASSUME Inv, Next PROVE AnswerKept'
  OBVIOUS
<1> USE DEF Goto, Exit, Refuse, reportVars, Ended
<1>1. UNCHANGED <<mode, backup, named, before>> /\ Binding' = Binding
  BY InputNext DEF inputVars, Binding
<1>2. Binding \in Bodies
  BY DEF Inv, TypeOK, Binding, Artifacts
<1>3. not_attempted.persistence # "Succeeded" /\ ptp_accepted.persistence # "Succeeded"
  BY DEF not_attempted, ptp_accepted, Audit
<1>4. CASE Verify
  <2>1. /\ phase = "verify" /\ phase' = "done" /\ audit = ptp_accepted /\ sent' = sent
        /\ mode = "restore" /\ target = Binding /\ UNCHANGED cameraVars
        /\ staged[Binding] = NoPayload
    BY <1>2, <1>4 DEF Verify, VerifyPostRestoreExport, Inv, AnswerKept, TargetKept, Sending,
                      BodiesKept
  <2>2. CASE exit' = 3 /\ (UNCHANGED audit \/ audit' = Compared("Failed"))
    <3>1. audit'.persistence # "Succeeded"
      <4>1. Compared("Failed").persistence = "Failed"
        BY <2>1, ComparedAudit DEF Audit, OutcomeStatus
      <4> QED
        BY <1>3, <2>1, <2>2, <4>1
    <3> QED
      BY <2>1, <2>2, <3>1 DEF AnswerKept
  <2>3. CASE exit' = 0 /\ audit' = Compared("Succeeded") /\ handle = target
             /\ settings[handle] = backup.payload
    <3>1. audit' = Audit("Succeeded", "Succeeded", "Succeeded")
      BY <2>1, <2>3, ComparedAudit DEF OutcomeStatus
    <3> QED
      BY <1>1, <2>1, <2>3, <3>1 DEF AnswerKept, cameraVars
  <2> QED
    BY <1>4, <2>2, <2>3 DEF Verify, VerifyPostRestoreExport
<1>5. CASE SendBackup
  <2>1. phase \in Region /\ audit.persistence # "Succeeded"
    BY <1>5 DEF SendBackup, SendObjectInfo, SendObjectData, Region, Inv, AnswerKept
  <2>2. audit'.persistence # "Succeeded"
    <3>1. \/ UNCHANGED audit \/ audit' = ptp_accepted
          \/ \E error \in WriteErrors : audit' = from_write_error(error)
      BY <1>5 DEF SendBackup, SendObjectInfo, SendObjectData, SendFails
    <3> QED
      BY <1>3, <2>1, <3>1, WriteErrorAudit
  <2>3. \/ phase' = "sendData"
        \/ phase' = "endRegion" /\ audit' = ptp_accepted
        \/ phase' = "done" /\ exit' = 3
    BY <1>5 DEF SendBackup, SendObjectInfo, SendObjectData, SendFails, ImportFailed
  <2> QED
    BY <2>2, <2>3 DEF AnswerKept
<1>6. CASE EndRegion \/ Reconnect
  <2>1. /\ phase \in {"endRegion", "reconnect"}
        /\ phase' \in {"reconnect", "verify"} \/ (phase' = "done" /\ exit' = 3)
        /\ audit = ptp_accepted /\ UNCHANGED audit
    BY <1>6 DEF EndRegion, Reconnect, Inv, AnswerKept
  <2> QED
    BY <1>3, <2>1 DEF AnswerKept
<1>7. CASE Interrupt
  <2>1. /\ phase \notin Ended /\ UNCHANGED <<audit, sent>>
        /\ \/ UNCHANGED <<phase, exit>>
           \/ phase' = "done" /\ exit' = InterruptStatus
    BY <1>7 DEF Interrupt
  <2>2. InterruptStatus \in {3, 130} /\ (sent => InterruptStatus = 3)
    BY DEF InterruptStatus
  <2> QED
    BY <2>1, <2>2 DEF Inv, AnswerKept
<1>8. CASE \/ Start \/ ReadInput \/ BeginExport \/ Open \/ Preflight \/ ExportBackup
           \/ SaveExport
  <2>1. /\ phase \notin Sending \cup Ended /\ UNCHANGED <<audit, sent>>
        /\ phase' \notin {"endRegion", "reconnect", "verify"}
        /\ phase' = "done" /\ exit' = 0 => mode # "restore"
    BY <1>8 DEF Start, ReadInput, BeginExport, Open, Preflight, ExportBackup, SaveExport,
                Sending, Region
  <2>2. ~sent
    BY <2>1 DEF Inv, SentKept
  <2> QED
    BY <1>1, <2>1, <2>2 DEF Inv, AnswerKept
<1>9. CASE PlugOut \/ PlugIn \/ Rival
  <2>1. UNCHANGED <<phase, exit, audit, sent>>
    BY <1>9 DEF PlugOut, PlugIn, Rival
  <2>2. phase = "done" /\ staged[Binding] = NoPayload =>
          settings'[Binding] = settings[Binding] /\ staged'[Binding] = NoPayload
    BY <1>2, StoredStays
  <2> QED
    BY <1>1, <2>1, <2>2 DEF Inv, AnswerKept
<1>10. CASE Crash
  <2>1. phase' = "dark" /\ UNCHANGED <<exit, audit>>
    BY <1>10 DEF Crash
  <2> QED
    BY <1>1, <2>1 DEF Inv, AnswerKept
<1> QED
  BY <1>4, <1>5, <1>6, <1>7, <1>8, <1>9, <1>10 DEF Next, HostStep

-----------------------------------------------------------------------------
(* The theorems.                                                           *)

\* It holds at the start.
LEMMA InvInit == Init => Inv
<1> SUFFICES ASSUME Init PROVE Inv
  OBVIOUS
<1>1. FileTypeOK /\ FileKept
  <2>1. synced \in BOOLEAN
    BY Zenon DEF Init, FileInit
  <2> QED
    BY <2>1 DEF Init, FileInit, FileTypeOK, FileKept, Names, Sending, Region
<1>2. poisoned \in BOOLEAN /\ pressed \in BOOLEAN /\ sent \in BOOLEAN
  BY Zenon DEF Init
<1>3. audit \in Audits /\ audit.persistence # "Succeeded"
  BY DEF Init, not_attempted, Audit, Audits, OutcomeStatus
<1>4. TypeOK
  BY <1>1, <1>2, <1>3, BackupAssumption DEF Init, TypeOK, Modes, Phases
<1>5. BodiesKept
  BY DEF Init, BodiesKept, Untouched
<1> QED
  BY <1>1, <1>3, <1>4, <1>5
     DEF Init, Inv, NamedKept, TargetKept, SentKept, AnswerKept, Sending, Region, Ended

\* A step that changes nothing keeps it.
LEMMA InvStutter == Inv /\ UNCHANGED vars => Inv'
  BY DEF vars, fileVars, cameraVars, plugVars, sessionVars, inputVars, Inv, TypeOK, FileTypeOK,
         FileKept, NamedKept, TargetKept, SentKept, BodiesKept, AnswerKept, Binding, ValidFor,
         CompatibleWith, RequiredSerial, Untouched

\* What the command knows of its files, its target and the bodies is true at
\* every step, also after a loss of power (features::backup).
THEOREM Invariance == Spec => []Inv
<1>1. Inv /\ [Next]_vars => Inv'
  BY TypesNext, FileNext, NamedNext, TargetNext, SentNext, BodiesNext, AnswerNext, InvStutter
     DEF Inv
<1> QED
  BY <1>1, InvInit, PTL DEF Spec

\* The values of all variables stay in their types.
THEOREM TypeCorrect == Spec => []TypeOK
<1>1. Inv => TypeOK
  BY DEF Inv
<1> QED
  BY <1>1, Invariance, PTL

\* Nothing is sent before the recovery file is whole, survives a loss of
\* power and holds what the target had stored (restore_after_recovery_saved).
THEOREM RecoverySaved == Spec => []RecoveryDurable
<1>1. Inv => RecoveryDurable
  BY DEF Inv, SentKept, FileKept, RecoveryDurable
<1> QED
  BY <1>1, Invariance, PTL

\* No body changes but the one that was named and validated (validate_target,
\* the preflight's binding, BackupImportArgs).
THEOREM OnlyTarget == Spec => []OnlyTargetChanges
<1>1. Inv => OnlyTargetChanges
  BY DEF Inv, SentKept, BodiesKept, Untouched, OnlyTargetChanges, ValidFor, RequiredSerial
<1> QED
  BY <1>1, Invariance, PTL

\* The exit status and the audit tell the truth (verify_restore_persisted,
\* BackupImportError, BackupRestoreOutcome).
THEOREM StatusTrue == Spec => []ExitIsTrue
<1>1. ASSUME Inv, ~sent PROVE settings = before /\ \A b \in Bodies : staged[b] = NoPayload
  BY <1>1 DEF Inv, BodiesKept, Untouched, TypeOK
<1>2. Inv => ExitIsTrue
  BY <1>1 DEF Inv, AnswerKept, ExitIsTrue
<1> QED
  BY <1>2, Invariance, PTL
=============================================================================
