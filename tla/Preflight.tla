------------------------------- MODULE Preflight ------------------------------
(***************************************************************************)
(* From a USB device to a command that changes the camera.  A device is    *)
(* opened as one of the supported cameras, and its image interface is      *)
(* claimed.  A preflight then reads the camera's identity, mode, battery   *)
(* and property descriptors and holds them against the compatibility       *)
(* profile that the definitions declare for this firmware and operation.   *)
(* It mints a permit, and every command that changes the camera is checked *)
(* against that permit before it goes on the wire.  Whatever needs no      *)
(* permit may only read.                                                   *)
(*                                                                         *)
(* What the camera really is (camera, truth) is kept apart from what the   *)
(* program learned of it (opened, learned, permit), so that the property   *)
(* speaks of the former; the two meet in the bytes of the answers.  A      *)
(* camera that serves no descriptors answers GeneralError to every request *)
(* for one; one that does may still be busy.  An answer may be cut short,  *)
(* run on, or describe another property, and any transaction may fail.     *)
(***************************************************************************)
EXTENDS CameraAccess, PtpCodec

CONSTANTS
    Firmwares, Serials, \* strings, as sequences of code units
    Properties,    \* "slot", "setting", "rawProfile", "startRaw", "battery"
    Codes,         \* the PTP code of every command and property
    Declared,      \* [Properties -> descriptors a camera may declare]
    Candidates,    \* [Properties -> values the program may write]
    WriteTypes,    \* [Properties -> the type it serialises them as]
    Settings,      \* sets of USB alternate settings a device may have
    Modes,         \* USB modes
    Levels,        \* battery percentages
    Profiles,      \* CameraPreflightProfile
    Managers,      \* [definition -> its feature managers]
    RawEvidence,   \* [firmwares with a capability profile -> evidence status]
    Layout,        \* the layout of the conversion profile they declare
    Layouts,       \* the layouts a live one may have
    MaxPermits,    \* bound: preflights that succeed on one camera handle
    NoForm,        \* no static descriptor is declared
    NoSerial,      \* no --target-serial-sha256
    Unread,        \* nothing is known of a property yet
    ShapeOnly,     \* only the shape of its value has been looked at
    NoCamera, NoProfile, NoPermit, NoCommand

ASSUME PreflightAssumption ==
    /\ MaxPermits \in Nat
    /\ \A names \in {Properties, Products} : \A p \in names, q \in names :
          Codes[p] = Codes[q] => p = q
    /\ \A f \in Profiles : DOMAIN f.needs \subseteq Properties
    /\ \A mode \in CameraModes, product \in Products : Resolve(mode, product) # NoCamera
    /\ NoSerial \notin Serials

Operations == {"BackupRestore", "RawConversion", "RawRecoveryFetch",
               "RawRecoveryCleanup", "SimulationAccess", "SimulationWrite"}
Uploads == {"FujiSendObjectInfo", "FujiSendObject"}

\* The methods of a validated session, by its operation.
Methods ==
    [BackupRestore |-> {"restore"},
     RawConversion |-> {"render", "cleanup"},
     RawRecoveryFetch |-> {"fetch"},
     RawRecoveryCleanup |-> {"cleanup"},
     SimulationAccess |-> {"readSimulation"},
     SimulationWrite |-> {"readSimulation", "writeSimulation"}]

\* camera/authorized.rs: the operations whose permit opens a camera path.
Allowed == [restore |-> {"BackupRestore"},
            readSimulation |-> {"SimulationAccess", "SimulationWrite"},
            writeSimulation |-> {"SimulationWrite"},
            render |-> {"RawConversion"},
            fetch |-> {"RawRecoveryFetch"},
            cleanup |-> {"RawConversion", "RawRecoveryCleanup"}]

\* The manager a path needs, and what it sends.
ManagerOf == [restore |-> "backup", readSimulation |-> "simulation",
              writeSimulation |-> "simulation", render |-> "render",
              fetch |-> "render", cleanup |-> "render"]
Sends == [restore |-> {"SendObjectInfo", "SendObject"},
          readSimulation |-> {"SetDevicePropValue"},
          writeSimulation |-> {"SetDevicePropValue"},
          render |-> Uploads \cup {"SetDevicePropValue"},
          fetch |-> {},
          cleanup |-> {"DeleteObject"}]
Writes == [readSimulation |-> {"slot"},
           writeSimulation |-> {"slot", "setting"},
           render |-> {"rawProfile", "startRaw"}]

\* A profile requires the properties in DOMAIN needs; needs[p] says of which
\* type p is, whether it has to be writable, and the form of its static
\* descriptor, or NoForm.
VARIABLES
    camera,    \* the connected camera
    truth,     \* what the properties asked for in this preflight really are
    phase,     \* where the program is
    opened,    \* what the camera was opened as
    claim,     \* who owns the claimed interface: nobody, the guard, Ptp
    operation, \* the operation the session is for
    named,     \* --target-serial-sha256
    profile,   \* the compatibility profile the preflight selected
    learned,   \* what it learned of every required property
    active,    \* the identifier of Ptp's active permit
    nextId,    \* next_mutation_permit_id
    permit,    \* the MutationPermit
    wire       \* the last command of a feature that reached the camera

targetVars == <<operation, named>>
openVars == <<opened, claim>>
evidenceVars == <<truth, profile, learned>>
permitVars == <<active, nextId, permit>>
vars == <<camera, targetVars, openVars, evidenceVars, phase, permitVars, wire>>

Required == DOMAIN profile.needs

\* What a camera is, and what it says of itself in GetDeviceInfo.
CameraSet ==
    [product : Products, reports : Products, advertises : BOOLEAN,
     settings : Settings, firmware : Firmwares, serial : Serials,
     mode : Modes, battery : Levels, layout : Layouts]

TypeOK ==
    /\ camera \in CameraSet
    /\ opened = NoCamera \/
          /\ opened.definition \in Products \cup {NoProduct}
          /\ opened.binding \in {"Native", "Emulated", "Unknown"}
          /\ opened.acknowledged \in BOOLEAN
    /\ claim \in {"nobody", "guard", "Ptp"}
    /\ operation \in Operations /\ named \in Serials \cup {NoSerial}
    /\ phase \in {"closed", "claimed", "connected", "idle", "info", "mode",
                  "descriptors", "open"}
    /\ profile \in Profiles \cup {NoProfile}
    /\ nextId \in 0..MaxPermits
    /\ active \in 0..MaxPermits \cup {NoPermit}
    /\ phase = "open" => permit.id = active

NothingRead == [p \in Properties |-> Unread]

Init ==
    /\ camera \in CameraSet
    /\ operation = "SimulationAccess" /\ named = NoSerial
    /\ phase = "closed" /\ opened = NoCamera /\ claim = "nobody"
    /\ active = NoPermit /\ permit = NoPermit /\ nextId = 0
    /\ profile = NoProfile
    /\ truth = NothingRead /\ learned = NothingRead
    /\ wire = NoCommand

-----------------------------------------------------------------------------
(* Opening the camera (open_with).                                         *)

\* A claimed interface belongs to a guard until the session is opened on it.
Claim ==
    /\ phase = "closed"
    /\ \E mode \in CameraModes :
          /\ Resolvable(mode, camera.product) /\ Bindable(camera.settings)
          /\ opened' = Resolve(mode, camera.product)
    /\ phase' = "claimed" /\ claim' = "guard"
    /\ UNCHANGED <<camera, targetVars, evidenceVars, permitVars, wire>>

\* Once the alternate setting is active the handle moves to a new Ptp.
CreatePtp ==
    /\ phase = "claimed"
    /\ phase' = "connected" /\ claim' = "Ptp" /\ nextId' = 0
    /\ UNCHANGED <<camera, targetVars, opened, evidenceVars, active, permit, wire>>

OpenSession ==
    /\ phase = "connected"
    /\ phase' = "idle"
    /\ UNCHANGED <<camera, targetVars, openVars, evidenceVars, permitVars, wire>>

\* The alternate setting or the session is refused, or the camera is given
\* back: the owner of the interface releases it when it is dropped.
Release ==
    /\ phase \in {"claimed", "connected", "idle"}
    /\ phase' = "closed" /\ opened' = NoCamera /\ claim' = "nobody"
    /\ wire' = NoCommand
    /\ UNCHANGED <<camera, targetVars, evidenceVars, permitVars>>

-----------------------------------------------------------------------------
(* Commands that need no permit.                                           *)

MayDo(risk) == Authorized(opened.binding, risk, opened.acknowledged)

\* A bug: the generic send takes whatever it is given.
SendsAnything(command) == TRUE

\* validate_read_only_send
Sendable(command) == CommandRisk(command) = "ReadOnly"

\* Camera::get_info, backup_identity and export_backup.
Reads == [ReadOnly |-> {"GetDeviceInfo", "GetDevicePropValue"},
          EmulationForbidden |-> {"GetDeviceInfo", "GetObjectInfo", "GetObject"}]

ReadCamera ==
    /\ phase = "idle"
    /\ \E risk \in DOMAIN Reads :
          /\ MayDo(risk)
          /\ \E command \in Reads[risk] : wire' = [command |-> command]
    /\ UNCHANGED <<camera, targetVars, openVars, evidenceVars, phase, permitVars>>

\* send, send_for_operation and send_until take any command of a feature that
\* holds the camera without a permit.
SendGeneric ==
    /\ phase = "idle"
    /\ \E command \in ReadOnlyCommands \cup SessionCommands \cup Commands :
          /\ Sendable(command)
          /\ wire' = [command |-> command]
    /\ UNCHANGED <<camera, targetVars, openVars, evidenceVars, phase, permitVars>>

-----------------------------------------------------------------------------
(* The preflight (run).                                                    *)

\* A bug: The session ends without clear_mutation_permit.
CloseLeavesPermit ==
    /\ phase' = "idle"
    /\ profile' = NoProfile
    /\ truth' = NothingRead /\ learned' = NothingRead
    /\ wire' = NoCommand
    /\ UNCHANGED <<active, permit>>

\* The operation is over, and with it the session and its permit (Drop).
Close ==
    /\ phase' = "idle"
    /\ active' = NoPermit /\ permit' = NoPermit
    /\ profile' = NoProfile
    /\ truth' = NothingRead /\ learned' = NothingRead
    /\ wire' = NoCommand

\* Only the simulation reads are not bound to a serial number.
SerialBinding(op) == IF op = "SimulationAccess" THEN {NoSerial} ELSE Serials

\* validate_native_binding and validate_physical_identity.
Genuine == opened.binding = "Native" /\ opened.definition = camera.product

Start ==
    /\ phase = "idle" /\ nextId < MaxPermits
    /\ Genuine
    /\ operation' \in Operations /\ named' \in SerialBinding(operation')
    /\ phase' = "info" /\ active' = NoPermit
    /\ wire' = NoCommand
    /\ UNCHANGED <<camera, openVars, evidenceVars, nextId, permit>>

\* What may come instead of these bytes: fewer, or more.
Spoilt(bytes) == {bytes, Front(bytes), Append(bytes, 0)}

\* GetDeviceInfo as the camera answers it: one that does not advertise
\* everything leaves out the first command and the first property.
InfoOf(c) ==
    LET all(names) == FoldSet(LAMBDA x, codes : Append(codes, Codes[x]), <<>>, names)
        some(names) == IF c.advertises THEN all(names) ELSE Tail(all(names))
    IN [operations |-> some(ReadOnlyCommands \cup Commands),
        properties |-> some(Properties),
        model |-> <<Codes[c.reports]>>, version |-> c.firmware,
        serial |-> c.serial]

\* select_profile: exactly one profile is for this firmware, and verified.
Matching(version) ==
    {f \in Profiles : /\ f.product = opened.definition
                      /\ f.operation = operation /\ f.firmware = version}

\* validate_device_info
ReportsAll(info, f) ==
    /\ info.model = <<Codes[opened.definition]>>
    /\ info.serial # <<>> /\ info.version # <<>>
    /\ {Codes[c] : c \in f.commands} \subseteq info.operations
    /\ {Codes[p] : p \in DOMAIN f.needs} \subseteq info.properties

\* select_capability_profile: there is one of exactly this firmware.
HasCapabilities(version) == version \in DOMAIN RawEvidence

\* Stage 1 (decide_profile_and_device_info): the compatibility profile, the
\* capability profile of the firmware, then the device information.
ReadInfo ==
    /\ phase = "info"
    /\ \E bytes \in Spoilt(EncodeInfo(InfoOf(camera))), f \in Profiles :
          LET info == DecodeInfo(bytes) IN
          /\ info # Malformed
          /\ Matching(info.version) = {f} /\ f.status = "Verified"
          /\ HasCapabilities(info.version)
          /\ ReportsAll(info, f)
          /\ profile' = f
    /\ phase' = "mode"
    /\ UNCHANGED <<camera, targetVars, openVars, truth, learned, permitVars, wire>>

\* validate_serial_binding
Bound(serial) == named \in {NoSerial, serial}

\* read_battery_percent and validate_mode_and_battery
FitToWork == camera.mode \in profile.modes /\ camera.battery >= profile.battery

\* Stage 2 (decide_mode_battery_and_binding).
ReadModeAndBattery ==
    /\ phase = "mode"
    /\ FitToWork
    /\ Bound(camera.serial)
    /\ phase' = "descriptors"
    /\ UNCHANGED <<camera, targetVars, openVars, evidenceVars, permitVars, wire>>

\* A bug: A busy camera counts as one that refuses to describe.
CameraRefusedOrBusy(answer) == answer \in {"GeneralError", "DeviceBusy"}

\* camera_refused
CameraRefused(answer) == answer = "GeneralError"

\* What a property of the camera is: whether the camera serves a descriptor
\* of it, and what that says.
PropertiesOf(p) == [describes : BOOLEAN, descriptor : Declared[p]]

\* The dataset of a descriptor.
EncodeForm(form, type) ==
    CASE form.kind = "None" -> <<0>>
      [] form.kind = "Range" ->
            <<1>> \o Encode(type, form.minimum) \o Encode(type, form.maximum)
                  \o Encode(type, form.step)
      [] form.kind = "Enumeration" ->
            <<2>> \o WriteScalar(Len(form.values), 2)
                  \o FlattenSeq([i \in DOMAIN form.values |->
                                     Encode(type, form.values[i])])
EncodeDescriptor(p, d) ==
    WriteScalar(Codes[p], 2) \o WriteScalar(CodeOf(d.type), 2)
        \o <<IF d.writable THEN 1 ELSE 0>>
        \o Encode(d.type, d.default) \o Encode(d.type, d.current)
        \o EncodeForm(d.form, d.type)

\* What the camera may answer to GetDevicePropDesc for a property that is x,
\* and the bytes that may come with a descriptor: those of any property.
AnswersFor(x) == {"DeviceBusy"} \cup IF x.describes THEN {"Descriptor"}
                                    ELSE {"GeneralError"}
DatasetsFor(x) == UNION {Spoilt(EncodeDescriptor(p, x.descriptor)) : p \in Properties}

\* get_prop_desc: an answer that describes the property that was asked for.
DescriptorOf(p, bytes) ==
    LET d == DecodeDescriptor(bytes)
    IN IF d # Malformed /\ d.code = Codes[p] THEN d ELSE Malformed

\* validate_descriptor
Described(p, bytes) ==
    LET need == profile.needs[p]  d == DescriptorOf(p, bytes) IN
    /\ d # Malformed
    /\ need.type \in {AnyType, d.type}
    /\ need.writable => d.writable
    /\ learned' = [learned EXCEPT ![p] = d]

\* descriptor_from_static: a written property of a pinned type.
StaticOf(p, bytes) ==
    LET need == profile.needs[p] IN
    IF need.writable /\ need.type # AnyType
    THEN FromStatic(Codes[p], need.type, need.static, bytes) ELSE Malformed

\* validate_value_shape
OnlyShaped(need, bytes) == ~need.writable /\ HasShape(bytes, need.type)

\* descriptor_after_refusal: the value is read instead and held against the
\* static descriptor.  A read-only property needs none, and learns nothing.
Refused(p, bytes) ==
    IF profile.needs[p].static # NoForm
    THEN /\ StaticOf(p, bytes) # Malformed
         /\ learned' = [learned EXCEPT ![p] = StaticOf(p, bytes)]
    ELSE /\ OnlyShaped(profile.needs[p], bytes)
         /\ learned' = [learned EXCEPT ![p] = ShapeOnly]

CollectDescriptor ==
    /\ phase = "descriptors"
    /\ \E p \in Required : \E x \in PropertiesOf(p) :
          /\ learned[p] = Unread
          /\ truth' = [truth EXCEPT ![p] = x]
          /\ \E answer \in AnswersFor(x) :
                \/ /\ answer = "Descriptor"
                   /\ \E bytes \in DatasetsFor(x) : Described(p, bytes)
                \/ /\ CameraRefused(answer)
                   /\ \E bytes \in Spoilt(Encode(x.descriptor.type,
                                                 x.descriptor.current)) :
                         Refused(p, bytes)
    /\ UNCHANGED <<camera, targetVars, openVars, phase, profile, permitVars, wire>>

\* MutationAuthorization::new and MutationPermit::new.
NewAuthorization == [fingerprint |-> FALSE, validated |-> FALSE]
NewPermit(id) == [id |-> id, authorization |-> NewAuthorization]

\* activate_mutation_permit
Activate ==
    /\ phase = "descriptors"
    /\ \A p \in Required : learned[p] # Unread
    /\ nextId' = nextId + 1 /\ active' = nextId
    /\ permit' = NewPermit(nextId)
    /\ phase' = "open"
    /\ UNCHANGED <<camera, targetVars, openVars, evidenceVars, wire>>

\* A check or a transaction of the preflight fails.
PreflightFails ==
    /\ phase \in {"info", "mode", "descriptors"}
    /\ Close
    /\ UNCHANGED <<camera, targetVars, openVars, nextId>>

-----------------------------------------------------------------------------
(* The validated session.                                                  *)

\* validate_property_candidate: the profile, not only the descriptor, has to
\* say that the property is writable.
Candidate(p, bytes) ==
    /\ p \in Required /\ profile.needs[p].writable
    /\ learned[p] \notin {Unread, ShapeOnly}
    /\ AdmitsBytes(learned[p], bytes)

\* What the program may serialise for a property.
BytesFor(p) == {Encode(WriteTypes[p], v) : v \in Candidates[p]}

\* is_active_for
IsActiveFor(id) == permit.id = id

\* validate_permit
PermitActive == phase = "open" /\ IsActiveFor(active)

\* AuthorizedPtp::new on a path that the session's methods lead to.
Opens(path) ==
    /\ path \in Methods[operation] /\ operation \in Allowed[path]
    /\ ManagerOf[path] \in Managers[opened.definition]

\* AuthorizedPtp: a feature on a path that its permit opens.
OnPath(path) == PermitActive /\ Opens(path)

SendAuthorizedRead ==
    /\ \E path \in DOMAIN Allowed : OnPath(path)
    /\ \E command \in ReadOnlyCommands \cup SessionCommands \cup Commands :
          /\ Sendable(command)
          /\ wire' = [command |-> command]
    /\ UNCHANGED <<camera, targetVars, openVars, evidenceVars, phase, permitVars>>

WriteVerified == RawEvidence[camera.firmware] = "WriteVerified"

\* Either check of the conversion profile is for a firmware that may be written.
MayConvert == OnPath("render") /\ WriteVerified

\* validate_raw_conversion_read_fingerprint: the live profile has the layout
\* the firmware's descriptor declares.
ReadFingerprint ==
    /\ MayConvert
    /\ \E bytes \in Spoilt(Envelope(camera.layout)) : IsEnvelopeOf(bytes, Layout)
    /\ permit' = [permit EXCEPT !.authorization.fingerprint = TRUE]
    /\ UNCHANGED <<camera, targetVars, openVars, evidenceVars, phase, active, nextId,
                   wire>>

\* validate_raw_conversion_profile
ValidateRawProfile ==
    /\ MayConvert /\ permit.authorization.fingerprint
    /\ \E bytes \in BytesFor("rawProfile") : Candidate("rawProfile", bytes)
    /\ permit' = [permit EXCEPT !.authorization.validated = TRUE]
    /\ UNCHANGED <<camera, targetVars, openVars, evidenceVars, phase, active, nextId,
                   wire>>

\* MutationAuthorization::validate, for a command that writes no property.
SendCommand(command) ==
    /\ command # "SetDevicePropValue" /\ command \in profile.commands
    /\ command \in Uploads => permit.authorization.validated
    /\ wire' = [command |-> command]

SendProperty(p, bytes) ==
    /\ "SetDevicePropValue" \in profile.commands
    /\ Candidate(p, bytes)
    /\ wire' = [command |-> "SetDevicePropValue", property |-> p, bytes |-> bytes]

\* send_mutating: a path of the session's operation sends one of its commands.
SendMutating ==
    /\ \E path \in DOMAIN Allowed :
          /\ OnPath(path)
          /\ \E command \in Sends[path] :
                /\ CommandRisk(command) = "StateChanging"
                /\ SendCommand(command)
    /\ UNCHANGED <<camera, targetVars, openVars, evidenceVars, phase, permitVars>>

\* set_prop_raw, set_prop and set_prop_for_operation
SetProperty ==
    /\ \E path \in DOMAIN Writes :
          /\ OnPath(path)
          /\ \E p \in Writes[path] : \E bytes \in BytesFor(p) : SendProperty(p, bytes)
    /\ UNCHANGED <<camera, targetVars, openVars, evidenceVars, phase, permitVars>>

Drop ==
    /\ phase = "open"
    /\ Close
    /\ UNCHANGED <<camera, targetVars, openVars, nextId>>

Next ==
    \/ Claim \/ CreatePtp \/ OpenSession \/ Release \/ ReadCamera \/ SendGeneric
    \/ Start \/ ReadInfo \/ ReadModeAndBattery \/ CollectDescriptor
    \/ Activate \/ PreflightFails
    \/ SendAuthorizedRead \/ ReadFingerprint \/ ValidateRawProfile
    \/ SendMutating \/ SetProperty \/ Drop

Spec == Init /\ [][Next]_vars

-----------------------------------------------------------------------------
(* What the promise below rests on: a camera says what its datasets have   *)
(* room for.  Of one that refuses to describe a property, the profile has  *)
(* to know how wide the value is, for a value that is a byte too long is   *)
(* not told from one of a wider type; and the layouts of the conversion    *)
(* profile differ by more than the byte that an answer may lose or gain.   *)

\* The profile's type for a value that is read without its descriptor.
Alike(pinned, type) ==
    \/ pinned = type
    \/ {pinned, type} \subseteq Scalars /\ pinned.width = type.width

ASSUME DatasetAssumption ==
    /\ \A c \in CameraSet : IsInfo(InfoOf(c))
    /\ \A p \in Properties : /\ Codes[p] \in Scale(Word)
                            /\ \A d \in Declared[p] : IsDescriptor(d)
    /\ \A f \in Profiles : \A p \in DOMAIN f.needs : \A d \in Declared[p] :
          f.needs[p].static # NoForm => f.needs[p].type = AnyType
                                        \/ Alike(f.needs[p].type, d.type)
    /\ \A layout \in Layouts :
          /\ IsLayout(layout)
          /\ /\ layout.count = Layout.count /\ layout.code = Layout.code
             /\ PayloadSize(layout) - PayloadSize(Layout) \in {-1, 0, 1}
             => layout = Layout

-----------------------------------------------------------------------------
(* Properties.                                                             *)

\* The profile covers the command for the camera that is really connected.
Covers(f) ==
    /\ f.product = camera.product /\ f.product = camera.reports
    /\ f.operation = operation /\ f.status = "Verified"
    /\ f.firmware = camera.firmware
    /\ camera.mode \in f.modes /\ camera.battery >= f.battery
    /\ wire.command \in f.commands

\* The bytes are read, to the last one, as a value that the form admits.
Reading(bytes, type) == Exact(bytes, ReadValue(bytes, 0, type))
Carries(bytes, form, type) ==
    Reading(bytes, type) # Malformed /\ Admits(form, type, Reading(bytes, type))

\* The bytes written suit the property as it really is: as the camera would
\* describe it or, if it never describes it, as the profile declares it for a
\* camera whose live value bears the declaration out.
Suits(f, p, bytes) ==
    LET x == truth[p].descriptor  need == f.needs[p] IN
    /\ need.writable
    /\ IF truth[p].describes
       THEN x.writable /\ Carries(bytes, x.form, x.type)
       ELSE /\ need.static # NoForm
            /\ Carries(bytes, need.static, need.type)
            /\ Carries(Encode(x.type, x.current), need.static, need.type)

\* A permit is there only while its session is open, and an interface is
\* claimed exactly while there is a handle.
PermitOfSession ==
    /\ phase # "open" => active = NoPermit /\ permit = NoPermit
    /\ (claim = "nobody") <=> (phase = "closed")

\* A command that changes the camera's state reaches only the body that the
\* user named, opened as what it is and with the model, firmware, mode and
\* battery of a verified profile for this very operation.  A property is
\* written only with a value that suits what the property really is, and a
\* RAW image is uploaded only to a camera whose live conversion profile has
\* the layout that was verified for writing.  No permit outlives the session
\* it was minted in, and no claimed interface the handle it was claimed by.
OnlyProvenMutations ==
    /\ PermitOfSession
    /\ wire # NoCommand =>
          /\ opened # NoCamera
          /\ Cardinality({s \in camera.settings : Complete(s)}) = 1
    /\ wire # NoCommand /\ wire.command \notin ReadOnlyCommands =>
          /\ opened.binding = "Native"
          /\ operation # "SimulationAccess" => camera.serial = named
          /\ operation = "SimulationAccess" =>
                wire.command = "SetDevicePropValue" /\ wire.property = "slot"
          /\ \E f \in Profiles :
                /\ Covers(f)
                /\ wire.command = "SetDevicePropValue" =>
                      Suits(f, wire.property, wire.bytes)
          /\ wire.command \in Uploads => WriteVerified /\ camera.layout = Layout
=============================================================================
