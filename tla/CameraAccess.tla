----------------------------- MODULE CameraAccess -----------------------------
(* Who may do what with a camera: how a USB device is resolved to a camera   *)
(* definition, which of its interfaces is spoken to, what the general policy *)
(* permits, and which risk a PTP command is.                                 *)
EXTENDS Integers, FiniteSets

CONSTANTS
    Products,  \* USB vendor and product identifiers
    Supported, \* those with a camera definition (SUPPORTED)
    NoProduct  \* the definition of an unknown camera

ASSUME AccessAssumption == Supported \subseteq Products /\ NoProduct \notin Products

\* CameraMode.  Reverse tools open a camera without a definition; --emulate
\* opens one with the definition of another.
CameraModes ==
    [kind : {"Supported", "Unknown"}] \cup
    [kind : {"Emulated"}, product : Products, acknowledged : BOOLEAN]

\* resolve_camera: may this mode open the product, and as what.
Resolvable(mode, product) ==
    \/ mode.kind = "Unknown"
    \/ /\ mode.kind \in {"Supported", "Emulated"} /\ product \in Supported
       /\ mode.kind = "Emulated" => mode.product \in Supported

Definition(mode, product) ==
    CASE mode.kind = "Supported" -> product
      [] mode.kind = "Emulated" -> mode.product
      [] mode.kind = "Unknown" -> NoProduct

Binding(mode) == IF mode.kind = "Supported" THEN "Native" ELSE mode.kind

Resolve(mode, product) ==
    [definition |-> Definition(mode, product), binding |-> Binding(mode),
     acknowledged |-> mode.kind = "Emulated" /\ mode.acknowledged]

\* An alternate setting with bulk endpoints both ways.
Complete(setting) == setting.in > 0 /\ setting.out > 0

\* select_ptp_usb_binding: one alternate setting is complete, and it has one
\* bulk endpoint each way.
Bindable(settings) ==
    \E s \in settings :
        /\ {t \in settings : Complete(t)} = {s}
        /\ s.in = 1 /\ s.out = 1

Risks == {"ReadOnly", "ReadWithTemporaryMutation", "PersistentSettingsWrite",
          "OpaqueRestore", "DestructiveRecoverySensitive", "EmulationForbidden"}

\* authorize: a native camera may only be read; what changes it needs a permit.
Authorized(binding, risk, acknowledged) ==
    \/ binding = "Native" /\ risk \in {"ReadOnly", "EmulationForbidden"}
    \/ binding = "Emulated" /\ risk = "ReadOnly"
    \/ binding = "Emulated" /\ risk = "ReadWithTemporaryMutation" /\ acknowledged

ReadOnlyCommands == {"GetDeviceInfo", "GetObjectHandles", "GetObjectInfo",
                     "GetObject", "GetDevicePropDesc", "GetDevicePropValue"}
SessionCommands == {"OpenSession", "CloseSession"}
Commands == {"SetDevicePropValue", "SendObjectInfo", "SendObject",
             "FujiSendObjectInfo", "FujiSendObject", "DeleteObject"}

\* command_risk
CommandRisk(command) ==
    IF command \in ReadOnlyCommands THEN "ReadOnly"
    ELSE IF command \in SessionCommands THEN "SessionControl"
    ELSE "StateChanging"
=============================================================================
