------------------------------- MODULE Discovery ------------------------------
(***************************************************************************)
(* fujicli-dev: the discover commands, beside the probe.  A command opens  *)
(* the camera it is told to, as no definition and so for reads alone,      *)
(* makes the reads of its plan in order, and prints what it found or saves *)
(* it as a new file.  A read that the plan can do without is noted as      *)
(* unavailable when it fails; once the session is lost, all of them are.   *)
(*                                                                         *)
(* The survey of the whole surface holds every value against the data type *)
(* that the compatibility profiles pin.  Codec is what a preflight makes   *)
(* of the same bytes.                                                      *)
(***************************************************************************)
EXTENDS NamespaceProbe, FiniteSets

CONSTANTS
    Base, MaxElements, LoneSurrogates, AnyType, Malformed, \* of the codec
    Advertised,    \* the properties that GetDeviceInfo lists, a sequence
    SettingReads,  \* the simulation properties, a sequence
    Answers,       \* what a camera may answer to a read
    PinSets,       \* profiles: sets of functions from properties to types
    Layout,        \* the conversion profile's layout in the definitions
    DiscoveryLimit, \* MAX_RAW_PROFILE_DISCOVERY_BYTES
    LongDescriptors, \* the descriptors that are longer than that
    Unavailable    \* the camera did not answer, or not in full

Codec == INSTANCE PtpCodec

VARIABLES
    command,   \* the command that runs
    profiles,  \* what the profiles of the connected model pin
    answers    \* what the reads of the plan so far gave

discoverVars == <<command, profiles, answers>>
toolVars == <<discoverVars, vars>>

-----------------------------------------------------------------------------
(* The plans.                                                              *)

Info == <<"info", "device">>
Descriptor(p) == <<"descriptor", p>>
Value(p) == <<"value", p>>

InfoPlan == <<Info, Value("usbMode"), Value("battery")>>
SimulationPlan == <<Value("slot")>> \o [i \in DOMAIN SettingReads |-> Value(SettingReads[i])]
PropertyPlan == <<Value("chosen")>>
BackupPlan == <<<<"objectInfo", "backup">>, <<"object", "backup">>>>
ProfilePlan == <<Info, Descriptor("rawProfile"), Value("rawProfile"), Value("usbMode")>>
SurfacePlan ==
    <<Info, Value("usbMode")>>
        \o FlattenSeq([i \in DOMAIN Advertised |->
                           <<Descriptor(Advertised[i]), Value(Advertised[i])>>])

Plan == [info |-> InfoPlan, simulation |-> SimulationPlan, property |-> PropertyPlan,
         backup |-> BackupPlan, renderProfile |-> ProfilePlan, surface |-> SurfacePlan]

\* The reads that a command cannot do without.
Strict == [info |-> {}, simulation |-> {}, property |-> {},
           backup |-> {1, 2}, renderProfile |-> {1, 3}, surface |-> {1}]

\* These only print, and fail if nothing could be read at all.
Probes == {"info", "simulation", "property"}

Answer(read) ==
    LET found == {i \in DOMAIN answers : Plan[command][i] = read}
    IN IF found = {} THEN Unavailable ELSE answers[CHOOSE i \in found : TRUE]

\* Values are bytes, and a profile pins a property to a type of the codec.
ASSUME DiscoveryAssumption ==
    /\ DiscoveryLimit \in Nat /\ Base \in Nat \ {0, 1}
    /\ \A p \in ToSet(Advertised) \cup {"rawProfile"} :
          Answers[Value(p)] \subseteq Seq(0 .. Base - 1)
    /\ \A pins \in PinSets :
          /\ IsFiniteSet(pins)
          /\ \A f \in pins : \A p \in DOMAIN f :
                f[p] # AnyType =>
                    /\ f[p].kind \in {"Scalar", "String", "Array"}
                    /\ f[p].kind = "Scalar" => f[p].width \in Nat \ {0}
    /\ AnyType \notin {Codec!ScalarOf(code) : code \in 1..10}
    /\ Malformed \notin Seq(Nat)

-----------------------------------------------------------------------------
(* What a saved artifact says.                                             *)

\* classify_value_shape: first by length, then by frame.
Framed(bytes) ==
    /\ Len(bytes) >= 3 /\ Len(bytes) = 1 + 2 * bytes[1]
    /\ bytes[Len(bytes) - 1] = 0 /\ bytes[Len(bytes)] = 0

Shape(bytes) ==
    CASE bytes = <<>> -> "empty"
      [] Len(bytes) \in {1, 2, 4, 8} -> "scalar"
      [] Len(bytes) \notin {0, 1, 2, 4, 8} /\ Framed(bytes) -> "string"
      [] OTHER -> "bytes"

\* A bug: whatever is no scalar gets a digest.
DigestUnlessShort(bytes) == Shape(bytes) \notin {"empty", "scalar"}

\* survey_value_digest
HasDigest(bytes) == Shape(bytes) = "string"

\* value_matches_data_type
Matches(bytes, type) ==
    CASE type.kind = "Scalar" -> Len(bytes) = type.width
      [] type.kind = "String" -> Shape(bytes) = "string"
      [] OTHER -> FALSE

Pinned(p) == {f[p] : f \in {f \in profiles : p \in DOMAIN f}} \ {AnyType}

\* A bug: a type that the profiles disagree on is declared all the same.
AnyDeclared(p) == Pinned(p) # {}

\* declared_property_data_types
Declared(p) == Cardinality(Pinned(p)) = 1

\* declaration_matches
Verdict(p) ==
    LET bytes == Answer(Value(p)) IN
    IF ~Declared(p) THEN "none"
    ELSE IF bytes = Unavailable THEN "unchecked"
    ELSE IF \E type \in Pinned(p) : Matches(bytes, type) THEN "matches"
    ELSE "contradicts"

\* inspect_envelope
FieldCount(bytes) ==
    IF Len(bytes) < 2 THEN Unavailable
    ELSE Codec!TwosComplement(Codec!Unsigned(bytes, 0, 2), 2)

ProfileCode(bytes) ==
    IF Len(bytes) < 3 \/ Len(bytes) < 3 + 2 * bytes[3] THEN Unavailable
    ELSE LET units == Codec!Elements(bytes, 3, Codec!Word, bytes[3])
         IN IF ToSet(units) \cap LoneSurrogates = {} THEN units ELSE Unavailable

-----------------------------------------------------------------------------
(* The commands.                                                           *)

ToolInit ==
    /\ command \in DOMAIN Plan \cup {"probe"}
    /\ InitAt(IF command = "probe" THEN "gates" ELSE "open")
    \* What the probe alone looks at.
    /\ command # "probe" =>
          ~named /\ ~logBefore /\ {slot, selector} = {CHOOSE s \in Slots : TRUE}
    /\ profiles \in IF command = "surface" THEN PinSets ELSE {{}}
    /\ answers = <<>>

UnchangedByDiscovery == <<runVars, latchVars, handlerVars, logVars>>

\* open: the device of this address, claimed and with a session.
Open ==
    /\ At("open")
    /\ Exit(1) \/ Goto("read")
    /\ UNCHANGED <<discoverVars, UnchangedByDiscovery, cameraVars, fileVars>>

\* One read of the plan.  A failed one costs the answer, or the command.
Read ==
    /\ At("read") /\ Len(answers) < Len(Plan[command])
    /\ \/ /\ ReadAnswered
          /\ \E x \in Answers[Plan[command][Len(answers) + 1]] :
                answers' = Append(answers, x)
          /\ Goto("read")
       \/ /\ ReadFails
          /\ answers' = Append(answers, Unavailable)
          /\ IF Len(answers') \in Strict[command] THEN Exit(1) ELSE Goto("read")
    /\ UNCHANGED <<command, profiles, UnchangedByDiscovery, UnchangedByRead, fileVars>>

\* from_observation: neither a capture nor a descriptor that is too long is
\* taken down.
TooLong ==
    /\ command = "renderProfile"
    /\ \/ Len(Answer(Value("rawProfile"))) > DiscoveryLimit
       \/ Answer(Descriptor("rawProfile")) \in LongDescriptors

\* ProbeSummary::finish, or the artifact is put together.
Finish ==
    /\ At("read") /\ Len(answers) = Len(Plan[command])
    /\ IF TooLong \/ (command \in Probes /\ ToSet(answers) = {Unavailable}) THEN Exit(1)
       ELSE IF command \in Probes THEN Exit(0) ELSE Goto("save")
    /\ UNCHANGED <<discoverVars, UnchangedByDiscovery, cameraVars, fileVars>>

SaveArtifact ==
    /\ At("save")
    /\ NewOutput
    /\ IF file' = "failed" THEN Exit(1)
       ELSE IF file' = "committed" THEN Exit(0) ELSE Goto("save")
    /\ UNCHANGED <<discoverVars, UnchangedByDiscovery, cameraVars>>

\* The probe's steps, the handler, the camera and the host.
ToolNext ==
    \/ Next /\ UNCHANGED discoverVars
    \/ Open \/ Read \/ Finish \/ SaveArtifact

ToolSpec == ToolInit /\ [][ToolNext]_toolVars

-----------------------------------------------------------------------------
(* Properties.                                                             *)

Saved(c) == command = c /\ path = "whole"

\* The code units of a text, without the null at its end.
Units(bytes) == Codec!Elements(bytes, 1, Codec!Word, bytes[1] - 1)

\* An artifact is at its path in full or not at all, whatever fails or quits
\* the command, and a command that ends well has left it there.  A survey's
\* verdict on a pinned type is what a preflight that has to make do with the
\* value would find, under every profile of the model that pins the property;
\* the two differ on the empty string, a single zero to the codec and a byte
\* to the survey, and on text that is no UTF-16, which the survey does not
\* read.  A digest is only taken of what no scalar type can be.  A captured
\* conversion profile whose layout the definitions know is reported with that
\* layout's field count and code.
ArtifactIsTrue ==
    /\ command # "probe" => path # "torn"
    /\ exit = 0 /\ command \in DOMAIN Plan \ Probes => Saved(command)
    /\ Saved("surface") => \A p \in ToSet(Advertised) :
          LET bytes == Answer(Value(p))
              Fits(type) == Codec!HasShape(bytes, type)
          IN bytes # Unavailable =>
                /\ Verdict(p) = "matches" =>
                      \A f \in profiles : p \in DOMAIN f /\ ~Fits(f[p]) =>
                          ToSet(Units(bytes)) \cap LoneSurrogates # {}
                /\ Verdict(p) = "contradicts" =>
                      \A f \in profiles : p \in DOMAIN f /\ Fits(f[p]) =>
                          bytes = <<0>> \/ f[p] = AnyType
                /\ HasDigest(bytes) =>
                      \A code \in 1..10 : ~Fits(Codec!ScalarOf(code))
    /\ Saved("renderProfile") =>
          LET bytes == Answer(Value("rawProfile")) IN
          Codec!IsEnvelopeOf(bytes, Layout) =>
              FieldCount(bytes) = Layout.count /\ ProfileCode(bytes) = Layout.code
=============================================================================
