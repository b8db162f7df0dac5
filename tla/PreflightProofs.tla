--------------------------- MODULE PreflightProofs ---------------------------
(***************************************************************************)
(* What a permit is worth, for all cameras, profiles and descriptors: no   *)
(* command that changes the camera goes out but in the session of a permit *)
(* that is alive, for the body, the operation and the state the preflight  *)
(* verified.  So much rests on nothing that the camera sends.  Then the    *)
(* codec is shown to read back what was written: whatever comes instead of *)
(* a dataset, it is decoded as that dataset or not at all.  So the camera  *)
(* is also the one the profile is for, and the bytes suit the property     *)
(* they are written to.  Last come the options whose values those are.     *)
(***************************************************************************)
EXTENDS Preflight, FiniteSetTheorems, NaturalsInduction, SequenceTheorems,
        WellFoundedInduction, TLAPS

Preflighted == phase \in {"mode", "descriptors", "open"}
Changing == wire # NoCommand /\ wire.command \notin ReadOnlyCommands

\* What each stage of the preflight has established and no later one undoes.
Verified ==
    /\ phase = "info" \/ Preflighted => Genuine
    /\ Preflighted =>
          /\ profile \in Profiles /\ profile.status = "Verified"
          /\ profile.product = opened.definition /\ profile.operation = operation
    /\ phase \in {"descriptors", "open"} => FitToWork /\ Bound(camera.serial)

\* A changing command belongs to the open session and to its profile.
Sent == Changing => phase = "open" /\ wire.command \in profile.commands

\* An upload has the mark that only a firmware verified for writing gives.
Evidence ==
    /\ phase = "open" =>
          /\ permit \in [id : {active}, authorization : [fingerprint : BOOLEAN,
                                                         validated : BOOLEAN]]
          /\ permit.authorization.validated => WriteVerified
    /\ Changing /\ wire.command \in Uploads => WriteVerified

Inv == PermitOfSession /\ Verified /\ Sent /\ Evidence

\* A command that changes the camera goes to the body that was opened, as
\* what it is, in the mode, with the battery and with the serial number that
\* were asked for, under a verified profile of the session's own operation
\* which has that command (run, AuthorizedPtp, validate_mutation_permit).
MutationsArePermitted ==
    Changing =>
        /\ phase = "open" /\ Genuine
        /\ profile.status = "Verified" /\ profile.product = camera.product
        /\ profile.operation = operation /\ wire.command \in profile.commands
        /\ FitToWork /\ Bound(camera.serial)

\* A RAW image is uploaded only to a camera whose firmware has been verified
\* for it (validate_raw_conversion_profile, MutationAuthorization::validate).
UploadsAreVerified == Changing /\ wire.command \in Uploads => WriteVerified

-----------------------------------------------------------------------------

\* Init: nothing is opened, granted or sent.
LEMMA InvInit == Init => Inv
<1> SUFFICES ASSUME Init PROVE Inv
  OBVIOUS
<1>1. phase = "closed" /\ claim = "nobody" /\ active = NoPermit /\ permit = NoPermit
      /\ wire = NoCommand
  BY DEF Init
<1>2. ~Changing
  BY <1>1 DEF Changing
<1>3. ~Preflighted /\ phase # "info" /\ phase # "open"
  BY <1>1 DEF Preflighted
<1> QED
  BY <1>1, <1>2, <1>3 DEF Inv, PermitOfSession, Verified, Sent, Evidence, Preflighted

\* The commands that need no permit are those that only read.
LEMMA SendableReads ==
  ASSUME NEW command, Sendable(command)
  PROVE  command \in ReadOnlyCommands
  BY DEF Sendable, CommandRisk

\* A step that changes nothing the invariant reads but the last command, which
\* only reads, leaves it true.
LEMMA ReadingStep ==
  ASSUME Inv, NEW command \in ReadOnlyCommands, wire' = [command |-> command],
         UNCHANGED <<camera, targetVars, openVars, evidenceVars, phase, permitVars>>
  PROVE  Inv'
<1>1. ~Changing'
  BY DEF Changing
<1>2. UNCHANGED <<camera, operation, named, opened, claim, profile, phase, active, permit>>
  BY DEF targetVars, openVars, evidenceVars, permitVars
<1>3. PermitOfSession' /\ Verified'
  BY <1>2 DEF Inv, PermitOfSession, Verified, Preflighted, Genuine, FitToWork, Bound
<1>4. Sent'
  BY <1>1 DEF Sent
<1>5. Evidence'
  BY <1>1, <1>2 DEF Inv, Evidence, WriteVerified
<1> QED
  BY <1>3, <1>4, <1>5 DEF Inv

\* When the session is closed, nothing of it is left.
LEMMA ClosingStep ==
  ASSUME Inv, Close, phase # "closed", UNCHANGED <<claim>>
  PROVE  Inv'
<1>1. ~Changing' /\ phase' = "idle" /\ active' = NoPermit /\ permit' = NoPermit
  BY DEF Close, Changing
<1>2. PermitOfSession'
  BY <1>1 DEF Inv, PermitOfSession
<1>3. Verified' /\ Sent' /\ Evidence'
  BY <1>1 DEF Verified, Preflighted, Sent, Evidence
<1> QED
  BY <1>2, <1>3 DEF Inv

-----------------------------------------------------------------------------

\* Opening a camera leaves nothing of a session behind, and a preflight starts
\* only on a body that is what it was opened as.
LEMMA InvOpening ==
  ASSUME Inv, Claim \/ CreatePtp \/ OpenSession \/ Release \/ Start
  PROVE  Inv'
<1> USE DEF targetVars, openVars, evidenceVars, permitVars
<1>1. CASE Claim
  <2>1. ~Changing'
    BY <1>1 DEF Claim, Inv, Sent, Changing
  <2>2. phase = "closed" /\ phase' = "claimed" /\ claim' = "guard"
        /\ UNCHANGED <<active, permit>>
    BY <1>1 DEF Claim
  <2> QED
    BY <2>1, <2>2 DEF Inv, PermitOfSession, Verified, Preflighted, Sent, Evidence
<1>2. CASE CreatePtp
  <2>1. ~Changing'
    BY <1>2 DEF CreatePtp, Inv, Sent, Changing
  <2>2. phase = "claimed" /\ phase' = "connected" /\ claim' = "Ptp"
        /\ UNCHANGED <<active, permit>>
    BY <1>2 DEF CreatePtp
  <2> QED
    BY <2>1, <2>2 DEF Inv, PermitOfSession, Verified, Preflighted, Sent, Evidence
<1>3. CASE OpenSession
  <2>1. ~Changing'
    BY <1>3 DEF OpenSession, Inv, Sent, Changing
  <2>2. phase = "connected" /\ phase' = "idle" /\ UNCHANGED <<claim, active, permit>>
    BY <1>3 DEF OpenSession
  <2> QED
    BY <2>1, <2>2 DEF Inv, PermitOfSession, Verified, Preflighted, Sent, Evidence
<1>4. CASE Release
  <2>1. ~Changing'
    BY <1>4 DEF Release, Changing
  <2>2. phase \in {"claimed", "connected", "idle"} /\ phase' = "closed"
        /\ claim' = "nobody" /\ UNCHANGED <<active, permit>>
    BY <1>4 DEF Release
  <2> QED
    BY <2>1, <2>2 DEF Inv, PermitOfSession, Verified, Preflighted, Sent, Evidence
<1>5. CASE Start
  <2>1. ~Changing'
    BY <1>5 DEF Start, Changing
  <2>2. phase = "idle" /\ phase' = "info" /\ active' = NoPermit
        /\ UNCHANGED <<claim, permit, opened, camera>> /\ Genuine
    BY <1>5 DEF Start
  <2> QED
    BY <2>1, <2>2
       DEF Inv, PermitOfSession, Verified, Preflighted, Genuine, Sent, Evidence
<1> QED
  BY <1>1, <1>2, <1>3, <1>4, <1>5

\* Every stage of the preflight adds what it has verified to what the earlier
\* ones have, and the permit is new when it is granted.
LEMMA InvPreflight ==
  ASSUME Inv, ReadInfo \/ ReadModeAndBattery \/ CollectDescriptor \/ Activate
  PROVE  Inv'
<1> USE DEF targetVars, openVars, evidenceVars, permitVars
<1>1. CASE ReadInfo
  <2>1. phase = "info" /\ phase' = "mode"
        /\ UNCHANGED <<camera, operation, named, opened, claim, active, permit, wire>>
    BY <1>1 DEF ReadInfo
  <2>2. PICK bytes \in Spoilt(EncodeInfo(InfoOf(camera))), f \in Profiles :
           /\ Matching(DecodeInfo(bytes).version) = {f}
           /\ f.status = "Verified" /\ profile' = f
    BY <1>1, Zenon DEF ReadInfo
  <2>3. f \in Matching(DecodeInfo(bytes).version)
    BY <2>2
  <2>4. f.product = opened.definition /\ f.operation = operation
    BY <2>3 DEF Matching
  <2>5. Verified'
    BY <2>1, <2>2, <2>4 DEF Inv, Verified, Preflighted, Genuine
  <2>6. ~Changing'
    BY <2>1 DEF Inv, Sent, Changing
  <2> QED
    BY <2>1, <2>5, <2>6 DEF Inv, PermitOfSession, Sent, Evidence
<1>2. CASE ReadModeAndBattery
  <2>1. phase = "mode" /\ phase' = "descriptors" /\ FitToWork /\ Bound(camera.serial)
        /\ UNCHANGED <<camera, operation, named, opened, claim, profile, active, permit,
                       wire>>
    BY <1>2 DEF ReadModeAndBattery
  <2>2. Verified'
    BY <2>1 DEF Inv, Verified, Preflighted, Genuine, FitToWork, Bound
  <2>3. ~Changing'
    BY <2>1 DEF Inv, Sent, Changing
  <2> QED
    BY <2>1, <2>2, <2>3 DEF Inv, PermitOfSession, Sent, Evidence
<1>3. CASE CollectDescriptor
  <2>1. phase = "descriptors"
        /\ UNCHANGED <<camera, operation, named, opened, claim, phase, profile, active,
                       permit, wire>>
    BY <1>3 DEF CollectDescriptor
  <2>2. Verified'
    BY <2>1 DEF Inv, Verified, Preflighted, Genuine, FitToWork, Bound
  <2>3. ~Changing'
    BY <2>1 DEF Inv, Sent, Changing
  <2> QED
    BY <2>1, <2>2, <2>3 DEF Inv, PermitOfSession, Sent, Evidence
<1>4. CASE Activate
  <2>1. phase = "descriptors" /\ phase' = "open" /\ active' = nextId
        /\ permit' = NewPermit(nextId)
        /\ UNCHANGED <<camera, operation, named, opened, claim, profile, wire>>
    BY <1>4 DEF Activate
  <2>2. Verified'
    BY <2>1 DEF Inv, Verified, Preflighted, Genuine, FitToWork, Bound
  <2>3. ~Changing'
    BY <2>1 DEF Inv, Sent, Changing
  <2>4. permit' \in [id : {active'}, authorization : [fingerprint : BOOLEAN,
                                                      validated : BOOLEAN]]
        /\ ~permit'.authorization.validated
    BY <2>1 DEF NewPermit, NewAuthorization
  <2>5. Evidence'
    BY <2>3, <2>4 DEF Evidence
  <2> QED
    BY <2>1, <2>2, <2>3, <2>5 DEF Inv, PermitOfSession, Sent
<1> QED
  BY <1>1, <1>2, <1>3, <1>4

\* In the session only the marks of the permit change, the second of them for
\* a firmware that is verified for writing, and a command is one of the
\* profile's.
LEMMA InvSession ==
  ASSUME Inv, ReadFingerprint \/ ValidateRawProfile \/ SendMutating \/ SetProperty
  PROVE  Inv'
<1> USE DEF targetVars, openVars, evidenceVars, permitVars
<1>1. phase = "open"
  BY DEF ReadFingerprint, ValidateRawProfile, SendMutating, SetProperty, MayConvert,
         OnPath, PermitActive
<1>2. UNCHANGED <<camera, operation, named, opened, claim, profile, phase, active>>
  BY DEF ReadFingerprint, ValidateRawProfile, SendMutating, SetProperty
<1>3. PermitOfSession' /\ Verified'
  BY <1>1, <1>2
     DEF Inv, PermitOfSession, Verified, Preflighted, Genuine, FitToWork, Bound
<1>4. permit \in [id : {active}, authorization : [fingerprint : BOOLEAN,
                                                  validated : BOOLEAN]]
      /\ (permit.authorization.validated => WriteVerified)
  BY <1>1 DEF Inv, Evidence
<1>5. WriteVerified' <=> WriteVerified
  BY <1>2 DEF WriteVerified
<1>6. CASE ReadFingerprint \/ ValidateRawProfile
  <2>1. WriteVerified /\ UNCHANGED wire
    BY <1>6 DEF ReadFingerprint, ValidateRawProfile, MayConvert
  <2>2. permit' \in [id : {active}, authorization : [fingerprint : BOOLEAN,
                                                     validated : BOOLEAN]]
    BY <1>4, <1>6, ZenonT(60) DEF ReadFingerprint, ValidateRawProfile
  <2>3. Sent' /\ Evidence'
    BY <1>2, <1>5, <2>1, <2>2 DEF Inv, Sent, Evidence, Changing
  <2> QED
    BY <1>3, <2>3 DEF Inv
<1>7. CASE SendMutating
  <2>1. PICK command : SendCommand(command)
    BY <1>7 DEF SendMutating
  <2>2. wire'.command = command /\ command \in profile.commands
    BY <2>1 DEF SendCommand
  <2>3. command \in Uploads => WriteVerified
    BY <1>4, <2>1 DEF SendCommand
  <2>4. UNCHANGED permit
    BY <1>7 DEF SendMutating
  <2>5. Sent'
    BY <1>1, <1>2, <2>2 DEF Sent
  <2>6. Evidence'
    BY <1>2, <1>4, <1>5, <2>2, <2>3, <2>4 DEF Evidence
  <2> QED
    BY <1>3, <2>5, <2>6 DEF Inv
<1>8. CASE SetProperty
  <2>1. PICK p, bytes : SendProperty(p, bytes)
    BY <1>8 DEF SetProperty
  <2>2. wire'.command = "SetDevicePropValue" /\ wire'.command \in profile.commands
    BY <2>1 DEF SendProperty
  <2>3. wire'.command \notin Uploads
    BY <2>2 DEF Uploads
  <2>4. UNCHANGED permit
    BY <1>8 DEF SetProperty
  <2>5. Sent'
    BY <1>1, <1>2, <2>2 DEF Sent
  <2>6. Evidence'
    BY <1>2, <1>4, <1>5, <2>3, <2>4 DEF Evidence
  <2> QED
    BY <1>3, <2>5, <2>6 DEF Inv
<1> QED
  BY <1>6, <1>7, <1>8

-----------------------------------------------------------------------------

\* Every step keeps the invariant: one step per action.
LEMMA InvNext == Inv /\ [Next]_vars => Inv'
<1> SUFFICES ASSUME Inv, [Next]_vars PROVE Inv'
  OBVIOUS
<1>1. CASE Claim \/ CreatePtp \/ OpenSession \/ Release \/ Start
  BY <1>1, InvOpening
<1>2. CASE ReadInfo \/ ReadModeAndBattery \/ CollectDescriptor \/ Activate
  BY <1>2, InvPreflight
<1>3. CASE ReadFingerprint \/ ValidateRawProfile \/ SendMutating \/ SetProperty
  BY <1>3, InvSession
<1>4. CASE ReadCamera
  <2>1. PICK risk \in DOMAIN Reads :
           \E command \in Reads[risk] : wire' = [command |-> command]
    BY <1>4 DEF ReadCamera
  <2>2. PICK command \in Reads[risk] : wire' = [command |-> command]
    BY <2>1
  <2>3. command \in ReadOnlyCommands
    BY <2>2 DEF Reads, ReadOnlyCommands
  <2>4. UNCHANGED <<camera, targetVars, openVars, evidenceVars, phase, permitVars>>
    BY <1>4 DEF ReadCamera
  <2> QED
    BY <2>2, <2>3, <2>4, ReadingStep
<1>5. CASE SendGeneric \/ SendAuthorizedRead
  <2>1. PICK command : Sendable(command) /\ wire' = [command |-> command]
    BY <1>5 DEF SendGeneric, SendAuthorizedRead
  <2>2. command \in ReadOnlyCommands
    BY <2>1, SendableReads
  <2>3. UNCHANGED <<camera, targetVars, openVars, evidenceVars, phase, permitVars>>
    BY <1>5 DEF SendGeneric, SendAuthorizedRead
  <2> QED
    BY <2>1, <2>2, <2>3, ReadingStep
<1>6. CASE PreflightFails \/ Drop
  <2>1. Close /\ phase # "closed" /\ UNCHANGED claim
    BY <1>6 DEF PreflightFails, Drop, openVars
  <2> QED
    BY <2>1, ClosingStep
<1>7. CASE UNCHANGED vars
  <2>1. UNCHANGED <<camera, operation, named, opened, claim, profile, phase, active,
                    permit, wire>>
    BY <1>7 DEF vars, targetVars, openVars, evidenceVars, permitVars
  <2> QED
    BY <2>1 DEF Inv, PermitOfSession, Verified, Preflighted, Genuine, FitToWork, Bound,
               Sent, Changing, Evidence, WriteVerified
<1> QED
  BY <1>1, <1>2, <1>3, <1>4, <1>5, <1>6, <1>7 DEF Next

\* The invariant holds throughout (open_with, run, Camera::drop of the permit).
LEMMA InvAlways == Spec => []Inv
  BY InvInit, InvNext, PTL DEF Spec

\* A permit is held only by the session it was minted for, and an interface
\* only by the handle it was claimed by (activate_mutation_permit,
\* clear_mutation_permit, the Drop of the guard and of Ptp).
THEOREM NoPermitOutlivesItsSession == Spec => []PermitOfSession
<1>1. Inv => PermitOfSession
  BY DEF Inv
<1> QED
  BY <1>1, InvAlways, PTL

\* MutationsArePermitted holds throughout, for all cameras, profiles,
\* descriptors and encodings (run, validate_mutation_permit, AuthorizedPtp).
THEOREM EveryMutationIsPermitted == Spec => []MutationsArePermitted
<1>1. Inv => MutationsArePermitted
  BY DEF Inv, Verified, Preflighted, Sent, Genuine, MutationsArePermitted
<1> QED
  BY <1>1, InvAlways, PTL

\* UploadsAreVerified holds throughout (validate_raw_conversion_profile,
\* MutationAuthorization::validate).
THEOREM EveryUploadIsVerified == Spec => []UploadsAreVerified
<1>1. Inv => UploadsAreVerified
  BY DEF Inv, Evidence, UploadsAreVerified
<1> QED
  BY <1>1, InvAlways, PTL

-----------------------------------------------------------------------------
(* The codec, read back.  What the program decodes of the bytes that come  *)
(* instead of a dataset is the dataset, if it decodes anything.  First,    *)
(* numbers and their digits.                                               *)

\* A set of numbers has a least one.
LEMMA LeastNat ==
  ASSUME NEW T, T \subseteq Nat, T # {}
  PROVE  \E x \in T : \A y \in T : x <= y
<1>1. PICK x \in T : \A y \in T : ~ (<<y, x>> \in OpToRel(<, Nat))
  BY NatLessThanWellFounded, WFMin
<1>2. ASSUME NEW y \in T PROVE x <= y
  <2>1. ~ (y < x)
    BY <1>1 DEF OpToRel
  <2> QED
    BY <2>1
<1> QED
  BY <1>2

\* So has what a number n has and some number before it has not.
IsPower(p, k) == p = [i \in 0..k |-> IF i = 0 THEN 1 ELSE Base * p[i - 1]]

\* The recursive function behind Power exists up to any exponent.
LEMMA PowersExist ==
  ASSUME NEW n \in Nat
  PROVE  \E p : IsPower(p, n)
<1> DEFINE T == {k \in Nat : ~ \E p : IsPower(p, k)}
<1> SUFFICES ASSUME n \in T PROVE FALSE
  OBVIOUS
<1>1. PICK m \in T : \A k \in T : m <= k
  <2>1. T \subseteq Nat /\ T # {}
    OBVIOUS
  <2> QED
    BY <2>1, LeastNat
<1>2. m \in Nat /\ ~ \E p : IsPower(p, m)
  BY <1>1
<1>3. CASE m = 0
  <2>1. IsPower([i \in 0..0 |-> 1], 0)
    BY DEF IsPower
  <2> QED
    BY <1>2, <1>3, <2>1
<1>4. CASE m # 0
  <2>1. m - 1 \in Nat /\ m - 1 \notin T
    BY <1>1, <1>2, <1>4
  <2>2. PICK p : IsPower(p, m - 1)
    BY <2>1
  <2> DEFINE q == [i \in 0..m |-> IF i < m THEN p[i] ELSE Base * p[m - 1]]
  <2>3. \A i \in 0..m : q[i] = IF i = 0 THEN 1 ELSE Base * q[i - 1]
    <3> TAKE i \in 0..m
    <3>1. CASE i = 0
      BY <1>2, <1>4, <2>2, <3>1 DEF IsPower
    <3>2. CASE i # 0 /\ i < m
      <4>1. p[i] = Base * p[i - 1]
        BY <2>1, <2>2, <3>2 DEF IsPower
      <4>2. q[i] = p[i] /\ q[i - 1] = p[i - 1]
        BY <1>2, <3>2
      <4> QED
        BY <3>2, <4>1, <4>2
    <3>3. CASE i = m
      BY <1>2, <1>4, <2>1, <3>3
    <3> QED
      BY <1>2, <3>1, <3>2, <3>3
  <2>4. q = [i \in 0..m |-> IF i = 0 THEN 1 ELSE Base * q[i - 1]]
    <3> DEFINE r == [i \in 0..m |-> IF i = 0 THEN 1 ELSE Base * q[i - 1]]
    <3>1. \A i \in 0..m : q[i] = r[i]
      BY <2>3
    <3>2. DOMAIN q = 0..m /\ DOMAIN r = 0..m
      OBVIOUS
    <3> QED
      BY <3>1, <3>2
  <2>5. IsPower(q, m)
    BY <2>4 DEF IsPower
  <2> QED
    BY <1>2, <2>5
<1> QED
  BY <1>3, <1>4

\* A power is Base times the one before it.
LEMMA PowerSteps ==
  /\ Power(0) = 1
  /\ \A i \in 0..15 : Power(i + 1) = Base * Power(i)
<1> DEFINE power == CHOOSE p : p = [i \in 0..16 |-> IF i = 0 THEN 1 ELSE Base * p[i - 1]]
<1>1. power = [i \in 0..16 |-> IF i = 0 THEN 1 ELSE Base * power[i - 1]]
  BY PowersExist, Zenon DEF IsPower
<1>2. \A n : Power(n) = power[n]
  BY DEF Power
<1> HIDE DEF power
<1>3. \A i \in 0..16 : power[i] = IF i = 0 THEN 1 ELSE Base * power[i - 1]
  <2> DEFINE r == [i \in 0..16 |-> IF i = 0 THEN 1 ELSE Base * power[i - 1]]
  <2>1. \A i \in 0..16 : r[i] = IF i = 0 THEN 1 ELSE Base * power[i - 1]
    OBVIOUS
  <2> QED
    BY <1>1, <2>1, Zenon
<1>4. power[0] = 1
  BY <1>3
<1>5. ASSUME NEW i \in 0..15 PROVE power[i + 1] = Base * power[i]
  BY <1>3
<1> QED
  BY <1>2, <1>4, <1>5, Zenon

\* A power is a positive number.
LEMMA PowerType ==
  ASSUME NEW n \in 0..16
  PROVE  Power(n) \in Nat \ {0}
<1> DEFINE T == {k \in 0..16 : Power(k) \notin Nat \ {0}}
<1> SUFFICES ASSUME n \in T PROVE FALSE
  OBVIOUS
<1>1. PICK m \in T : \A k \in T : m <= k
  <2>1. T \subseteq Nat /\ T # {}
    OBVIOUS
  <2> QED
    BY <2>1, LeastNat
<1>2. m # 0
  BY <1>1, PowerSteps
<1>3. m - 1 \in 0..15 /\ Power(m - 1) \in Nat \ {0}
  BY <1>1, <1>2
<1>4. Power(m) = Base * Power(m - 1)
  BY <1>3, PowerSteps
<1>5. Base * Power(m - 1) \in Nat \ {0}
  BY <1>3, CodecAssumption
<1> QED
  BY <1>1, <1>4, <1>5

\* Division by a product, digit by digit.
LEMMA DivDiv ==
  ASSUME NEW m \in Nat, NEW P \in Nat \ {0}, NEW B \in Nat \ {0}
  PROVE  /\ m \div P = ((m \div P) % B) + B * (m \div (B * P))
         /\ m \div P \in Nat
  OBVIOUS

\* The digits of a number add up to it.
LEMMA DigitsAddUp ==
  ASSUME NEW w \in 1..16, NEW m \in 0..(Power(w) - 1), NEW bytes, NEW at \in Nat,
         \A i \in 1..w : bytes[at + i] = (m \div Power(i - 1)) % Base
  PROVE  Unsigned(bytes, at, w) = m
<1> DEFINE IsSum(s) == s = [i \in 0..w |-> IF i = 0 THEN 0
                                           ELSE bytes[at + w + 1 - i] + Base * s[i - 1]]
           sum == CHOOSE s : IsSum(s)
           part == [i \in 0..w |-> m \div Power(w - i)]
<1>1. part[0] = 0 /\ part[w] = m
  <2>1. Power(w) \in Nat \ {0} /\ Power(w - w) = 1
    BY PowerType, PowerSteps
  <2>2. m \div Power(w) = 0 /\ m \div 1 = m
    BY <2>1
  <2> QED
    BY <2>1, <2>2
<1>2. ASSUME NEW i \in 1..w
      PROVE  part[i] = bytes[at + w + 1 - i] + Base * part[i - 1]
  <2>1. w - i \in 0..15 /\ (w - i) + 1 = w - (i - 1) /\ (w + 1 - i) - 1 = w - i
        /\ w + 1 - i \in 1..w /\ at + w + 1 - i = at + (w + 1 - i)
    OBVIOUS
  <2>2. Power(w - (i - 1)) = Base * Power(w - i) /\ Power(w - i) \in Nat \ {0}
    <3>1. w - i \in 0..16
      BY <2>1
    <3> QED
      BY <2>1, <3>1, PowerSteps, PowerType, Zenon
  <2>3. m \div Power(w - i) = ((m \div Power(w - i)) % Base)
                                + Base * (m \div (Base * Power(w - i)))
    <3>1. m \in Nat /\ Base \in Nat \ {0}
      BY PowerType, CodecAssumption
    <3> DEFINE P == Power(w - i)
    <3>2. P \in Nat \ {0}
      BY <2>2
    <3> HIDE DEF P
    <3>3. m \div P = ((m \div P) % Base) + Base * (m \div (Base * P))
      BY <3>1, <3>2, DivDiv
    <3> QED
      BY <3>3 DEF P
  <2>4. bytes[at + w + 1 - i] = (m \div Power(w - i)) % Base
    BY <2>1, Zenon
  <2> QED
    BY <2>1, <2>2, <2>3, <2>4
<1> HIDE DEF part
<1>3. IsSum(part)
  <2> DEFINE r == [i \in 0..w |-> IF i = 0 THEN 0
                                  ELSE bytes[at + w + 1 - i] + Base * part[i - 1]]
  <2>1. DOMAIN part = 0..w /\ part = [i \in 0..w |-> part[i]]
    BY DEF part
  <2>2. \A i \in 0..w : part[i] = r[i]
    BY <1>1, <1>2
  <2> QED
    BY <2>1, <2>2
<1>4. IsSum(sum)
  BY <1>3
<1>5. Unsigned(bytes, at, w) = sum[w]
  BY DEF Unsigned
<1> HIDE DEF sum
<1>6. \A i \in 0..w : sum[i] = part[i]
  <2> DEFINE T == {i \in 0..w : sum[i] # part[i]}
  <2> SUFFICES ASSUME NEW n \in T PROVE FALSE
    OBVIOUS
  <2>1. PICK i \in T : \A k \in T : i <= k
    <3>1. T \subseteq Nat /\ T # {}
      OBVIOUS
    <3> QED
      BY <3>1, LeastNat
  <2>2. i \in 0..w /\ sum[i] # part[i]
    BY <2>1
  <2>3. \A k \in 0..w : sum[k] = IF k = 0 THEN 0
                                 ELSE bytes[at + w + 1 - k] + Base * sum[k - 1]
    BY <1>4
  <2>4. i # 0
    BY <1>1, <2>2, <2>3
  <2>5. i \in 1..w /\ i - 1 \in 0..w /\ i - 1 \notin T
    BY <2>1, <2>2, <2>4
  <2>6. sum[i - 1] = part[i - 1]
    BY <2>5
  <2> QED
    BY <1>2, <2>2, <2>3, <2>4, <2>5, <2>6
<1> QED
  BY <1>1, <1>5, <1>6

-----------------------------------------------------------------------------
(* The bytes of a value.                                                   *)

\* The values of a byte.
Number == 0..(Base - 1)

\* As far as there are bytes, those after at are the ones of the encoding.
Agrees(bytes, at, enc) ==
    \A i \in 1..Len(enc) : at + i <= Len(bytes) => bytes[at + i] = enc[i]

\* The read of a value that is written as so many bytes: it is read in full,
\* or the bytes are used up.
Yields(read, bytes, end, v) ==
    IF end <= Len(bytes) THEN read = Got(v, end) ELSE read = Fails(bytes)

\* The same of a value that the decoder refuses unless it is legible.
YieldsIf(legible, read, bytes, end, v) ==
    IF legible /\ end <= Len(bytes) THEN read = Got(v, end) ELSE read = Fails(bytes)

IsUtf16(units) == ToSet(units) \cap LoneSurrogates = {}
FitsBudget(values) == Len(values) <= MaxElements

\* A text is legible if it is UTF-16, an array if it fits the budget.
Legible(type, v) ==
    /\ type.kind = "String" => IsUtf16(v)
    /\ type.kind = "Array" => FitsBudget(v)

\* What a scalar type is made of.
LEMMA ScalarTypes ==
  ASSUME NEW type \in Scalars
  PROVE  /\ type.kind = "Scalar" /\ type.signed \in BOOLEAN /\ type.width \in 1..16
         /\ type = Scalar(type.signed, type.width)
         /\ type.width \in {1, 2, 4, 8, 16}
<1>1. ToSet(Widths) = {1, 2, 4, 8, 16}
  <2>1. DOMAIN Widths = 1..5
    BY DEF Widths
  <2> QED
    BY <2>1 DEF ToSet, Widths
<1> QED
  BY <1>1 DEF Scalars, Scalar

\* A number is written as the digits of its remainder (to_le_bytes).
LEMMA ScalarWritten ==
  ASSUME NEW n \in Int, NEW w \in 1..16
  PROVE  /\ WriteScalar(n, w) \in Seq(Number)
         /\ Len(WriteScalar(n, w)) = w
         /\ \A i \in 1..w : WriteScalar(n, w)[i]
                              = ((n % Power(w)) \div Power(i - 1)) % Base
<1>1. Power(w) \in Nat \ {0}
  BY PowerType
<1>2. n % Power(w) \in 0..(Power(w) - 1)
  BY <1>1
<1>3. ASSUME NEW i \in 1..w
      PROVE  ((n % Power(w)) \div Power(i - 1)) % Base \in Number
  <2>1. Power(i - 1) \in Nat \ {0}
    BY PowerType
  <2>2. (n % Power(w)) \div Power(i - 1) \in Nat
    BY <1>2, <2>1
  <2> QED
    BY <2>2, CodecAssumption DEF Number
<1> QED
  BY <1>3 DEF WriteScalar

\* A number of a type is what its two's complement stands for.
LEMMA ComplementReadsBack ==
  ASSUME NEW type \in Scalars, NEW v \in Scale(type)
  PROVE  /\ v \in Int
         /\ v % Power(type.width) \in 0..(Power(type.width) - 1)
         /\ (IF type.signed THEN TwosComplement(v % Power(type.width), type.width)
             ELSE v % Power(type.width)) = v
<1>1. Power(type.width) \in Nat \ {0}
  BY PowerType, ScalarTypes
<1> DEFINE P == Power(type.width)
<1>2. CASE type.signed
  <2>1. v \in (P \div 2 - P)..(P \div 2 - 1)
    BY <1>2 DEF Scale
  <2>2. P \div 2 \in 0..P
    BY <1>1
  <2> HIDE DEF P
  <2>3. v >= 0 => v % P = v /\ v < P \div 2
    BY <1>1, <2>1, <2>2 DEF P
  <2>4. v < 0 => v % P = v + P /\ ~ (v + P < P \div 2)
    BY <1>1, <2>1, <2>2 DEF P
  <2> QED
    BY <1>1, <1>2, <2>1, <2>2, <2>3, <2>4 DEF TwosComplement, P
<1>3. CASE ~ type.signed
  BY <1>1, <1>3 DEF Scale
<1> QED
  BY <1>2, <1>3

\* A number is read back from the bytes it is written as, signed or unsigned
\* (read_u16, read_i16 and their like).
LEMMA ScalarReadsBack ==
  ASSUME NEW type \in Scalars, NEW v \in Scale(type),
         NEW bytes \in Seq(Number), NEW at \in Nat,
         Agrees(bytes, at, WriteScalar(v, type.width))
  PROVE  Yields(ReadScalar(bytes, at, type), bytes, at + type.width, v)
<1> DEFINE w == type.width
           m == v % Power(w)
<1>1. w \in 1..16 /\ v \in Int /\ m \in 0..(Power(w) - 1)
  BY ScalarTypes, ComplementReadsBack
<1>2. CASE at + w <= Len(bytes)
  <2>1. \A i \in 1..w : bytes[at + i] = (m \div Power(i - 1)) % Base
    <3> TAKE i \in 1..w
    <3>1. at + i <= Len(bytes)
      <4> HIDE DEF w, m
      <4> QED
        BY <1>1, <1>2
    <3> QED
      BY <1>1, <3>1, ScalarWritten DEF Agrees
  <2>2. Unsigned(bytes, at, w) = m
    <3> HIDE DEF m, w
    <3> QED
      BY <1>1, <2>1, DigitsAddUp
  <2>3. ~ (Left(bytes, at) < w)
    <3> HIDE DEF w, m
    <3> QED
      BY <1>1, <1>2 DEF Left
  <2> QED
    BY <1>2, <2>2, <2>3, ComplementReadsBack DEF Yields, ReadScalar
<1>3. CASE ~ (at + w <= Len(bytes))
  <2>1. Left(bytes, at) < w
    <3> HIDE DEF w, m
    <3> QED
      BY <1>1, <1>3 DEF Left
  <2> QED
    BY <1>3, <2>1 DEF Yields, ReadScalar, Fails, Got
<1> QED
  BY <1>2, <1>3

-----------------------------------------------------------------------------
(* One encoding after the other.                                           *)

\* f[i] is the first i sequences, one after the other.
Joins(f, seqs, n) ==
    /\ f[0] = <<>>
    /\ \A i \in 1..n : f[i] = f[i - 1] \o seqs[i]

\* Sequences that go together to one of them.
Monoid(Q) ==
    /\ <<>> \in Q
    /\ \A s \in Q, t \in Q : s \o t \in Q
    /\ \A s \in Q : <<>> \o s = s

\* Sequences of byte values go together to sequences of byte values.
LEMMA NumbersMonoid == Monoid(Seq(Number))
<1>1. \A s \in Seq(Number), t \in Seq(Number) : s \o t \in Seq(Number)
  OBVIOUS
<1>2. \A s \in Seq(Number) : <<>> \o s = s
  OBVIOUS
<1> QED
  BY <1>1, <1>2 DEF Monoid

\* There are partial sequences for any number of parts.
LEMMA PrefixesExist ==
  ASSUME NEW Q, Monoid(Q), NEW n \in Nat, NEW seqs, \A i \in 1..n : seqs[i] \in Q,
         NEW x \in 0..n
  PROVE  \E f \in [0..x -> Q] : Joins(f, seqs, x)
<1> DEFINE T == {k \in 0..n : ~ \E f \in [0..k -> Q] : Joins(f, seqs, k)}
<1> SUFFICES ASSUME x \in T PROVE FALSE
  OBVIOUS
<1>1. PICK m \in T : \A k \in T : m <= k
  <2>1. T \subseteq 0..n /\ T # {}
    BY Zenon
  <2> HIDE DEF T
  <2>2. T \subseteq Nat
    BY <2>1
  <2> QED
    BY <2>1, <2>2, LeastNat, Zenon
<1>2. m \in 0..n /\ ~ \E f \in [0..m -> Q] : Joins(f, seqs, m)
  BY <1>1
<1>3. CASE m = 0
  <2> DEFINE f == [i \in 0..0 |-> <<>>]
  <2>1. f \in [0..0 -> Q] /\ f[0] = <<>>
    BY DEF Monoid
  <2>2. Joins(f, seqs, 0)
    BY <2>1 DEF Joins
  <2> QED
    BY <1>2, <1>3, <2>1, <2>2
<1>4. CASE m # 0
  <2>1. m - 1 \in 0..n /\ m - 1 \notin T /\ m \in 1..n /\ m - 1 \in Nat
    BY <1>1, <1>2, <1>4
  <2>2. PICK f \in [0..(m - 1) -> Q] : Joins(f, seqs, m - 1)
    BY <2>1
  <2>3. seqs[m] \in Q /\ f[m - 1] \in Q
    BY <2>1, <2>2
  <2> DEFINE g == [i \in 0..m |-> IF i < m THEN f[i] ELSE f[m - 1] \o seqs[m]]
  <2>4. g \in [0..m -> Q]
    <3>1. f[m - 1] \o seqs[m] \in Q
      BY <2>3 DEF Monoid
    <3>2. \A i \in 0..m : i < m => f[i] \in Q
      BY <2>1, <2>2
    <3> QED
      BY <3>1, <3>2
  <2>5. g[0] = <<>>
    BY <1>2, <1>4, <2>2 DEF Joins
  <2>6. ASSUME NEW i \in 1..m PROVE g[i] = g[i - 1] \o seqs[i]
    <3>1. CASE i < m
      <4>1. g[i] = f[i] /\ g[i - 1] = f[i - 1] /\ i \in 1..(m - 1)
        BY <1>2, <3>1
      <4> QED
        BY <2>2, <4>1, Zenon DEF Joins
    <3>2. CASE i = m
      BY <1>2, <1>4, <3>2, SMTT(60)
    <3> QED
      BY <1>2, <3>1, <3>2
  <2>7. Joins(g, seqs, m)
    BY <2>5, <2>6 DEF Joins
  <2> QED
    BY <1>2, <2>4, <2>7
<1> QED
  BY <1>3, <1>4

\* FlattenSeq of parts is the last of their partial sequences.
LEMMA FlattenJoins ==
  ASSUME NEW Q, Monoid(Q), NEW seqs, NEW n \in Nat, Len(seqs) = n,
         n = 0 => seqs = <<>>, \A i \in 1..n : seqs[i] \in Q
  PROVE  \E f \in [0..n -> Q] : Joins(f, seqs, n) /\ FlattenSeq(seqs) = f[n]
<1>1. PICK f \in [0..n -> Q] : Joins(f, seqs, n)
  <2>1. n \in 0..n
    OBVIOUS
  <2> QED
    BY <2>1, PrefixesExist, Zenon
<1>2. CASE n = 0
  <2>1. seqs = <<>> /\ FlattenSeq(seqs) = seqs
    BY <1>2 DEF FlattenSeq
  <2> QED
    BY <1>1, <1>2, <2>1 DEF Joins
<1>3. CASE n # 0
  <2> DEFINE IsFlat(g) == g = [i \in 1..n |->
                                  IF i = 1 THEN seqs[i] ELSE g[i - 1] \o seqs[i]]
             flat == CHOOSE g : IsFlat(g)
             part == [i \in 1..n |-> f[i]]
  <2>1. IsFlat(part)
    <3> DEFINE r == [i \in 1..n |->
                        IF i = 1 THEN seqs[i] ELSE part[i - 1] \o seqs[i]]
    <3>1. ASSUME NEW i \in 1..n PROVE part[i] = r[i]
      <4>1. f[i] = f[i - 1] \o seqs[i]
        BY <1>1, Zenon DEF Joins
      <4>2. CASE i = 1
        <5>1. f[i - 1] = <<>>
          BY <1>1, <4>2 DEF Joins
        <5>2. <<>> \o seqs[i] = seqs[i]
          BY Zenon DEF Monoid
        <5> QED
          BY <4>1, <4>2, <5>1, <5>2
      <4>3. CASE i # 1
        <5>1. i - 1 \in 1..n
          BY <4>3
        <5> QED
          BY <4>1, <4>3, <5>1
      <4> QED
        BY <4>2, <4>3
    <3>2. DOMAIN part = 1..n /\ part = [i \in 1..n |-> part[i]]
      OBVIOUS
    <3> QED
      BY <3>1, <3>2
  <2>2. IsFlat(flat)
    BY <2>1
  <2>3. FlattenSeq(seqs) = flat[n]
    BY <1>3 DEF FlattenSeq
  <2> HIDE DEF flat
  <2>4. \A i \in 1..n : flat[i] = f[i]
    <3> DEFINE T == {i \in 1..n : flat[i] # f[i]}
    <3> SUFFICES ASSUME NEW x \in T PROVE FALSE
      OBVIOUS
    <3>1. PICK i \in T : \A k \in T : i <= k
      <4>1. T \subseteq Nat /\ T # {}
        OBVIOUS
      <4> QED
        BY <4>1, LeastNat
    <3>2. i \in 1..n /\ flat[i] # part[i]
      BY <3>1
    <3>3. \A k \in 1..n :
             flat[k] = IF k = 1 THEN seqs[k] ELSE flat[k - 1] \o seqs[k]
      BY <2>2
    <3>4. \A k \in 1..n :
             part[k] = IF k = 1 THEN seqs[k] ELSE part[k - 1] \o seqs[k]
      BY <2>1
    <3> HIDE DEF part
    <3>5. i # 1
      BY <3>2, <3>3, <3>4
    <3>6. i - 1 \in 1..n /\ i - 1 \notin T
      BY <3>1, <3>2, <3>5
    <3>7. flat[i - 1] = part[i - 1]
      BY <3>6 DEF part
    <3> QED
      BY <3>2, <3>3, <3>4, <3>5, <3>7
  <2> QED
    BY <1>1, <1>3, <2>3, <2>4
<1> QED
  BY <1>2, <1>3

\* Bytes that agree with two parts together agree with each of them.
LEMMA ConcatAgrees ==
  ASSUME NEW bytes \in Seq(Number), NEW at \in Nat,
         NEW s \in Seq(Number), NEW t \in Seq(Number), Agrees(bytes, at, s \o t)
  PROVE  Agrees(bytes, at, s) /\ Agrees(bytes, at + Len(s), t)
<1>1. /\ Len(s) \in Nat /\ Len(t) \in Nat /\ Len(s \o t) = Len(s) + Len(t)
      /\ \A i \in 1..Len(s) : (s \o t)[i] = s[i]
      /\ \A i \in 1..Len(t) : (s \o t)[Len(s) + i] = t[i]
  OBVIOUS
<1>2. ASSUME NEW i \in 1..Len(s), at + i <= Len(bytes) PROVE bytes[at + i] = s[i]
  <2>1. i \in 1..Len(s \o t)
    BY <1>1
  <2> QED
    BY <1>1, <1>2, <2>1 DEF Agrees
<1>3. ASSUME NEW i \in 1..Len(t), (at + Len(s)) + i <= Len(bytes)
      PROVE  bytes[(at + Len(s)) + i] = t[i]
  <2>1. Len(s) + i \in 1..Len(s \o t) /\ at + (Len(s) + i) = (at + Len(s)) + i
    BY <1>1
  <2>2. bytes[at + (Len(s) + i)] = (s \o t)[Len(s) + i]
    BY <1>3, <2>1 DEF Agrees
  <2> QED
    BY <1>1, <2>1, <2>2
<1> QED
  BY <1>2, <1>3 DEF Agrees

\* The lengths of two parts add up.
LEMMA LengthsAdd ==
  ASSUME NEW s \in Seq(Number), NEW t \in Seq(Number)
  PROVE  /\ Len(s \o t) = Len(s) + Len(t) /\ Len(s \o t) \in Nat
         /\ Len(s) \in Nat /\ Len(t) \in Nat
  OBVIOUS

\* Of lengths, one that is a part of another is no longer.
LEMMA PartIsShorter ==
  ASSUME NEW a \in Nat, NEW b \in Nat, NEW c \in Nat, c = a + b, NEW d \in Nat, c <= d
  PROVE  a <= d
  OBVIOUS

\* Each partial sequence is the one before it and one more part.
LEMMA PartsAdd ==
  ASSUME NEW n \in Nat, NEW seqs, \A i \in 1..n : seqs[i] \in Seq(Number),
         NEW f \in [0..n -> Seq(Number)], Joins(f, seqs, n), NEW i \in 1..n
  PROVE  /\ f[i] = f[i - 1] \o seqs[i]
         /\ f[i - 1] \in Seq(Number) /\ seqs[i] \in Seq(Number)
         /\ Len(f[i]) = Len(f[i - 1]) + Len(seqs[i])
         /\ Len(f[i]) \in Nat /\ Len(f[i - 1]) \in Nat /\ Len(seqs[i]) \in Nat
<1>1. f[i] = f[i - 1] \o seqs[i]
  BY Zenon DEF Joins
<1>2. f[i - 1] \in Seq(Number) /\ seqs[i] \in Seq(Number)
  <2>1. i - 1 \in 0..n
    OBVIOUS
  <2> QED
    BY <2>1, Zenon
<1>3. Len(f[i]) = Len(f[i - 1]) + Len(seqs[i])
      /\ Len(f[i]) \in Nat /\ Len(f[i - 1]) \in Nat /\ Len(seqs[i]) \in Nat
  BY <1>1, <1>2, LengthsAdd, Zenon
<1> QED
  BY <1>1, <1>2, <1>3, Zenon

\* Every part of what is joined is where the parts before it end.
LEMMA PartsAgree ==
  ASSUME NEW bytes \in Seq(Number), NEW at \in Nat, NEW n \in Nat, NEW seqs,
         \A i \in 1..n : seqs[i] \in Seq(Number),
         NEW f \in [0..n -> Seq(Number)], Joins(f, seqs, n),
         Agrees(bytes, at, f[n])
  PROVE  \A i \in 1..n :
            Len(f[i]) <= Len(f[n]) /\ Agrees(bytes, at + Len(f[i - 1]), seqs[i])
<1>1. ASSUME NEW i \in 1..n
      PROVE  /\ f[i] = f[i - 1] \o seqs[i]
             /\ f[i - 1] \in Seq(Number) /\ seqs[i] \in Seq(Number)
             /\ Len(f[i]) = Len(f[i - 1]) + Len(seqs[i])
             /\ Len(f[i]) \in Nat /\ Len(f[i - 1]) \in Nat /\ Len(seqs[i]) \in Nat
  BY PartsAdd, Zenon
<1>2. Len(f[n]) \in Nat
  <2>1. n \in 0..n
    OBVIOUS
  <2>2. f[n] \in Seq(Number)
    BY <2>1, Zenon
  <2> QED
    BY <2>2, LengthsAdd, Zenon
<1> DEFINE Fits(i) == Len(f[i]) <= Len(f[n]) /\ Agrees(bytes, at, f[i])
           T == {k \in 0..n : ~ Fits(n - k)}
<1>3. T = {}
  <2> SUFFICES ASSUME NEW x \in T PROVE FALSE
    OBVIOUS
  <2>1. PICK k \in T : \A y \in T : k <= y
    <3>1. T \subseteq 0..n /\ T # {}
      BY Zenon
    <3> HIDE DEF T
    <3>2. T \subseteq Nat
      BY <3>1
    <3> QED
      BY <3>1, <3>2, LeastNat, Zenon
  <2>2. k \in 0..n /\ ~ Fits(n - k)
    BY <2>1
  <2>3. k # 0
    <3>1. Fits(n)
      BY <1>2
    <3> QED
      BY <2>2, <3>1
  <2> DEFINE j == n - (k - 1)
  <2>4. k - 1 \in 0..n /\ j \in 1..n /\ j - 1 = n - k
    BY <2>2, <2>3
  <2>5. k - 1 \notin T
    <3>1. ~ (k <= k - 1)
      BY <2>2
    <3> QED
      BY <2>1, <3>1
  <2>6. Fits(j)
    BY <2>4, <2>5
  <2> HIDE DEF j
  <2>7. Agrees(bytes, at, f[j - 1])
    <3>1. Agrees(bytes, at, f[j - 1] \o seqs[j])
      BY <1>1, <2>4, <2>6, Zenon
    <3> QED
      BY <1>1, <2>4, <3>1, ConcatAgrees, Zenon
  <2>8. Len(f[j - 1]) <= Len(f[n])
    <3>1. Len(f[j]) = Len(f[j - 1]) + Len(seqs[j]) /\ Len(f[j]) \in Nat
          /\ Len(f[j - 1]) \in Nat /\ Len(seqs[j]) \in Nat
      BY <1>1, <2>4, Zenon
    <3>2. Len(f[j]) <= Len(f[n])
      BY <2>6
    <3> QED
      BY <1>2, <3>1, <3>2, PartIsShorter, Zenon
  <2> QED
    BY <2>2, <2>4, <2>7, <2>8
<1>4. ASSUME NEW i \in 1..n PROVE Fits(i)
  <2>1. n - i \in 0..n /\ n - (n - i) = i
    OBVIOUS
  <2>2. n - i \notin T
    BY <1>3, Zenon
  <2> HIDE DEF Fits
  <2> QED
    BY <2>1, <2>2
<1>5. ASSUME NEW i \in 1..n PROVE Agrees(bytes, at + Len(f[i - 1]), seqs[i])
  <2>1. Agrees(bytes, at, f[i - 1] \o seqs[i])
    BY <1>1, <1>4, Zenon
  <2> QED
    BY <1>1, <2>1, ConcatAgrees, Zenon
<1> QED
  BY <1>4, <1>5

\* Sequences over a set, as functions.
LEMMA Sequence ==
  ASSUME NEW S, NEW s \in Seq(S)
  PROVE  /\ Len(s) \in Nat /\ DOMAIN s = 1..Len(s)
         /\ \A i \in 1..Len(s) : s[i] \in S
         /\ Len(s) = 0 => s = <<>>
         /\ s = [i \in 1..Len(s) |-> s[i]]
  OBVIOUS

\* The length of a sequence that is given as a function.
LEMMA FunctionLength ==
  ASSUME NEW n \in Nat, NEW f, DOMAIN f = 1..n, f = [i \in 1..n |-> f[i]]
  PROVE  /\ Len(f) = n
         /\ n = 0 => f = <<>>
  OBVIOUS

\* The numbers of a type are integers.
LEMMA ScaleOfInts ==
  ASSUME NEW type \in Scalars
  PROVE  Scale(type) \subseteq Int
  BY ComplementReadsBack

\* FlattenJoins for sequences of byte values.
LEMMA NumbersFlatten ==
  ASSUME NEW n \in Nat, NEW seqs, Len(seqs) = n, n = 0 => seqs = <<>>,
         \A i \in 1..n : seqs[i] \in Seq(Number)
  PROVE  \E f \in [0..n -> Seq(Number)] : Joins(f, seqs, n) /\ FlattenSeq(seqs) = f[n]
<1> DEFINE Q == Seq(Number)
<1>1. Monoid(Q) /\ \A i \in 1..n : seqs[i] \in Q
  BY NumbersMonoid, Zenon
<1> HIDE DEF Q
<1>2. \E f \in [0..n -> Q] : Joins(f, seqs, n) /\ FlattenSeq(seqs) = f[n]
  BY <1>1, FlattenJoins
<1> QED
  BY <1>2, Zenon DEF Q

\* The numbers of one type, one after the other.
Row(f, seqs, values, n, w) ==
    /\ f \in [0..n -> Seq(Number)]
    /\ Joins(f, seqs, n)
    /\ \A i \in 1..n : seqs[i] = WriteScalar(values[i], w) /\ seqs[i] \in Seq(Number)
    /\ WriteAll(values, w) = f[n]
    /\ \A i \in 0..n : Len(f[i]) = i * w

\* What WriteAll writes is a row of numbers, each of the same width.
LEMMA AllWritten ==
  ASSUME NEW w \in 1..16, NEW values, NEW n \in Nat, DOMAIN values = 1..n,
         \A i \in 1..n : values[i] \in Int
  PROVE  \E f, seqs : Row(f, seqs, values, n, w)
<1> DEFINE seqs == [i \in DOMAIN values |-> WriteScalar(values[i], w)]
<1>1. DOMAIN seqs = 1..n /\ seqs = [i \in 1..n |-> seqs[i]]
  OBVIOUS
<1>2. \A i \in 1..n : seqs[i] = WriteScalar(values[i], w)
  OBVIOUS
<1>3. WriteAll(values, w) = FlattenSeq(seqs)
  BY Zenon DEF WriteAll
<1> HIDE DEF seqs
<1>4. Len(seqs) = n /\ (n = 0 => seqs = <<>>)
  BY <1>1, FunctionLength, Zenon
<1>5. \A i \in 1..n : seqs[i] \in Seq(Number)
  BY <1>2, ScalarWritten, Zenon
<1>6. PICK f \in [0..n -> Seq(Number)] : Joins(f, seqs, n) /\ FlattenSeq(seqs) = f[n]
  BY <1>4, <1>5, NumbersFlatten
<1>7. ASSUME NEW i \in 1..n PROVE Len(f[i]) = Len(f[i - 1]) + w
  <2>1. Len(f[i]) = Len(f[i - 1]) + Len(seqs[i])
    BY <1>5, <1>6, PartsAdd, Zenon
  <2>2. Len(seqs[i]) = w
    <3>1. seqs[i] = WriteScalar(values[i], w) /\ values[i] \in Int
      BY <1>2
    <3> QED
      BY <3>1, ScalarWritten
  <2> QED
    BY <2>1, <2>2
<1>8. \A i \in 0..n : Len(f[i]) = i * w
  <2> DEFINE T == {i \in 0..n : Len(f[i]) # i * w}
  <2> SUFFICES ASSUME NEW x \in T PROVE FALSE
    OBVIOUS
  <2>1. PICK i \in T : \A y \in T : i <= y
    <3>1. T \subseteq 0..n /\ T # {}
      BY Zenon
    <3> HIDE DEF T
    <3>2. T \subseteq Nat
      BY <3>1
    <3> QED
      BY <3>1, <3>2, LeastNat, Zenon
  <2>2. i \in 0..n /\ Len(f[i]) # i * w
    BY <2>1
  <2>3. i # 0
    <3>1. f[0] = <<>>
      BY <1>6, Zenon DEF Joins
    <3>2. Len(f[0]) = 0
      BY <3>1
    <3> QED
      BY <2>2, <3>2
  <2>4. i \in 1..n /\ i - 1 \in 0..n /\ i - 1 \notin T
    <3>1. ~ (i <= i - 1)
      BY <2>2
    <3>2. i - 1 \notin T
      BY <2>1, <3>1
    <3> QED
      BY <2>2, <2>3, <3>2
  <2>5. Len(f[i - 1]) = (i - 1) * w
    BY <2>4
  <2>6. (i - 1) * w + w = i * w
    BY <2>2
  <2> QED
    BY <1>7, <2>2, <2>4, <2>5, <2>6
<1> QED
  BY <1>2, <1>3, <1>5, <1>6, <1>8, Zenon DEF Row

\* Where element i of a row begins and ends.
LEMMA Multiples ==
  ASSUME NEW n \in Nat, NEW i \in 1..n, NEW w \in Nat, NEW at \in Nat, NEW end \in Nat,
         at + n * w <= end
  PROVE  /\ at + (i - 1) * w \in Nat
         /\ (at + (i - 1) * w) + w = at + i * w
         /\ at + i * w <= end
<1>1. (i - 1) * w + w = i * w /\ (i - 1) * w \in Nat
  OBVIOUS
<1>2. i * w + (n - i) * w = n * w /\ (n - i) * w \in Nat
  OBVIOUS
<1> QED
  BY <1>1, <1>2

\* n numbers of a type.
Numbers(values, n, type) ==
    n \in Nat /\ DOMAIN values = 1..n /\ \A i \in 1..n : values[i] \in Scale(type)

\* Each number of a row is read back from its place.
LEMMA ElementsReadBack ==
  ASSUME NEW bytes \in Seq(Number), NEW at \in Nat, NEW type \in Scalars,
         NEW values, NEW n, Numbers(values, n, type),
         Agrees(bytes, at, WriteAll(values, type.width)),
         at + n * type.width <= Len(bytes)
  PROVE  \A i \in 1..n :
            ReadScalar(bytes, at + (i - 1) * type.width, type)
              = Got(values[i], at + i * type.width)
<1>0. n \in Nat /\ DOMAIN values = 1..n /\ \A i \in 1..n : values[i] \in Scale(type)
  BY Zenon DEF Numbers
<1>1. type.width \in 1..16 /\ type.width \in Nat /\ Len(bytes) \in Nat
  BY ScalarTypes
<1>2. \A i \in 1..n : values[i] \in Int
  BY <1>0, ScaleOfInts
<1>3. \A i \in 1..n :
         /\ at + (i - 1) * type.width \in Nat
         /\ (at + (i - 1) * type.width) + type.width = at + i * type.width
         /\ at + i * type.width <= Len(bytes)
  BY <1>0, <1>1, Multiples, ZenonT(30)
<1>4. PICK f, seqs : Row(f, seqs, values, n, type.width)
  BY <1>0, <1>1, <1>2, AllWritten
<1>5. /\ f \in [0..n -> Seq(Number)] /\ Joins(f, seqs, n)
      /\ \A i \in 1..n : seqs[i] \in Seq(Number)
      /\ Agrees(bytes, at, f[n])
  BY <1>4, Zenon DEF Row
<1> TAKE i \in 1..n
<1>6. Len(f[i - 1]) = (i - 1) * type.width
  <2>1. i - 1 \in 0..n
    BY <1>0
  <2> QED
    BY <1>4, <2>1, Zenon DEF Row
<1>7. Agrees(bytes, at + (i - 1) * type.width, WriteScalar(values[i], type.width))
  <2>1. Agrees(bytes, at + Len(f[i - 1]), seqs[i])
    BY <1>0, <1>5, PartsAgree, Zenon
  <2>2. seqs[i] = WriteScalar(values[i], type.width)
    BY <1>4, Zenon DEF Row
  <2> QED
    BY <1>6, <2>1, <2>2, Zenon
<1>8. Yields(ReadScalar(bytes, at + (i - 1) * type.width, type), bytes,
            (at + (i - 1) * type.width) + type.width, values[i])
  BY <1>0, <1>3, <1>7, ScalarReadsBack, Zenon
<1> QED
  BY <1>3, <1>8, Zenon DEF Yields

\* A byte is written as it is.
LEMMA ByteWritten ==
  ASSUME NEW n \in Number
  PROVE  WriteScalar(n, 1) = <<n>> /\ n \in Scale(Byte)
<1>1. Power(0) = 1 /\ Power(1) = Base
  <2>1. Power(0 + 1) = Base * Power(0) /\ Power(0) = 1
    BY PowerSteps
  <2> QED
    BY <2>1, CodecAssumption
<1>2. n % Base = n /\ n \div 1 = n /\ n \in Int
  BY CodecAssumption DEF Number
<1>3. WriteScalar(n, 1) = [i \in 1..1 |-> ((n % Base) \div Power(i - 1)) % Base]
  BY <1>1 DEF WriteScalar
<1>4. \A i \in 1..1 : ((n % Base) \div Power(i - 1)) % Base = n
  BY <1>1, <1>2
<1>5. WriteScalar(n, 1) = <<n>>
  BY <1>3, <1>4
<1>6. n \in 0..(Power(1) - 1)
  BY <1>1 DEF Number
<1> QED
  BY <1>5, <1>6 DEF Scale, Byte, Scalar

\* The types that lengths, counts and code units are read as.
LEMMA UnitTypes ==
  /\ Byte \in Scalars /\ Word \in Scalars /\ Long \in Scalars
  /\ Byte.width = 1 /\ Word.width = 2 /\ Long.width = 4
  /\ ~ Byte.signed /\ ~ Word.signed /\ ~ Long.signed
  /\ 0 \in Scale(Word)
<1>1. \A signed \in BOOLEAN, width \in {1, 2, 4, 8, 16} : Scalar(signed, width) \in Scalars
  <2>1. ToSet(Widths) = {1, 2, 4, 8, 16}
    <3>1. DOMAIN Widths = 1..5
      BY DEF Widths
    <3> QED
      BY <3>1 DEF ToSet, Widths
  <2> QED
    BY <2>1 DEF Scalars
<1>2. Power(2) \in Nat \ {0}
  BY PowerType
<1>3. Byte \in Scalars /\ Word \in Scalars /\ Long \in Scalars
  BY <1>1, Zenon DEF Byte, Word, Long
<1>4. /\ Byte.width = 1 /\ Word.width = 2 /\ Long.width = 4
      /\ ~ Byte.signed /\ ~ Word.signed /\ ~ Long.signed
  BY DEF Byte, Word, Long, Scalar
<1>5. 0 \in Scale(Word)
  BY <1>2, <1>4 DEF Scale
<1> QED
  BY <1>3, <1>4, <1>5

\* What a read answers.
LEMMA GotFields ==
  \A v, at : Got(v, at).value = v /\ Got(v, at).at = at
  BY DEF Got

\* A row of numbers takes as many bytes as they have together.
LEMMA RowWritten ==
  ASSUME NEW w \in 1..16, NEW values \in Seq(Int)
  PROVE  /\ WriteAll(values, w) \in Seq(Number)
         /\ Len(WriteAll(values, w)) = Len(values) * w
<1> DEFINE n == Len(values)
<1>1. n \in Nat /\ DOMAIN values = 1..n /\ (\A i \in 1..n : values[i] \in Int)
  OBVIOUS
<1> HIDE DEF n
<1>2. PICK f, seqs : Row(f, seqs, values, n, w)
  BY <1>1, AllWritten
<1>3. n \in 0..n
  BY <1>1
<1>4. f[n] \in Seq(Number) /\ Len(f[n]) = n * w /\ WriteAll(values, w) = f[n]
  BY <1>2, <1>3, Zenon DEF Row
<1> QED
  BY <1>4, Zenon DEF n

\* A text or an array whose length cannot be read cannot be read either.
LEMMA LengthFails ==
  ASSUME NEW bytes \in Seq(Number)
  PROVE  /\ TerminatedUnits(bytes, Fails(bytes)) = Fails(bytes)
         /\ ExactUnits(bytes, Fails(bytes)) = Fails(bytes)
         /\ \A type \in Scalars : CountedElements(bytes, Fails(bytes), type) = Fails(bytes)
<1>1. Fails(bytes).value = 0 /\ Fails(bytes).at = Len(bytes) + 1 /\ Len(bytes) \in Nat
  BY DEF Fails, Got
<1>2. ~ (Fails(bytes).at <= Len(bytes)) /\ ~ (Fails(bytes).at + 2 * Fails(bytes).value <= Len(bytes))
  BY <1>1
<1>3. ASSUME NEW type \in Scalars
      PROVE  ~ (Fails(bytes).value * type.width <= Left(bytes, Fails(bytes).at))
  <2>1. type.width \in Nat
    BY ScalarTypes
  <2> QED
    BY <1>1, <2>1 DEF Left
<1> QED
  BY <1>2, <1>3, Zenon DEF TerminatedUnits, ExactUnits, CountedElements

\* The units of a text, and the length before them.
LEMMA UnitsReadBack ==
  ASSUME NEW bytes \in Seq(Number), NEW at \in Nat, NEW values \in Seq(Scale(Word)),
         Agrees(bytes, at, WriteAll(values, 2)), at + 2 * Len(values) <= Len(bytes)
  PROVE  \A i \in 1..Len(values) :
            ReadScalar(bytes, at + (i - 1) * Word.width, Word).value = values[i]
<1>1. Len(values) \in Nat /\ Numbers(values, Len(values), Word)
  BY Sequence DEF Numbers
<1>2. at + Len(values) * Word.width <= Len(bytes)
  BY <1>1, UnitTypes
<1>3. Word \in Scalars /\ Agrees(bytes, at, WriteAll(values, Word.width))
  BY UnitTypes
<1>4. \A i \in 1..Len(values) : ReadScalar(bytes, at + (i - 1) * Word.width, Word)
                                  = Got(values[i], at + i * Word.width)
  BY <1>1, <1>2, <1>3, ElementsReadBack
<1> QED
  BY <1>4, GotFields, Zenon

\* A length of one byte is read back.
LEMMA LengthReadsBack ==
  ASSUME NEW bytes \in Seq(Number), NEW at \in Nat, NEW n \in Number,
         Agrees(bytes, at, WriteScalar(n, 1))
  PROVE  Yields(ReadScalar(bytes, at, Byte), bytes, at + 1, n)
<1>1. Byte \in Scalars /\ Byte.width = 1 /\ n \in Scale(Byte)
  BY UnitTypes, ByteWritten
<1> QED
  BY <1>1, ScalarReadsBack

\* What a text is written as: its length with the null, its units, the null.
LEMMA TextWritten ==
  ASSUME NEW v, IsText(v), v # <<>>
  PROVE  /\ WriteString(v) = WriteScalar(Len(v) + 1, 1) \o WriteAll(Append(v, 0), 2)
         /\ WriteScalar(Len(v) + 1, 1) \in Seq(Number) /\ Len(WriteScalar(Len(v) + 1, 1)) = 1
         /\ WriteAll(Append(v, 0), 2) \in Seq(Number)
         /\ Len(WriteAll(Append(v, 0), 2)) = 2 * (Len(v) + 1)
         /\ WriteString(v) \in Seq(Number)
         /\ Len(WriteString(v)) = 1 + 2 * (Len(v) + 1)
         /\ Append(v, 0) \in Seq(Scale(Word)) /\ Len(Append(v, 0)) = Len(v) + 1
         /\ Len(v) + 1 \in Number /\ Len(v) \in Nat
<1>1. v \in Seq(Scale(Word)) /\ 0 \in Scale(Word) /\ Scale(Word) \subseteq Int
  BY UnitTypes, ScaleOfInts DEF IsText
<1> DEFINE S == Scale(Word)
<1>2. Append(v, 0) \in Seq(S) /\ Len(Append(v, 0)) = Len(v) + 1 /\ Len(v) \in Nat
      /\ Append(v, 0) \in Seq(Int)
  <2> HIDE DEF S
  <2> QED
    BY <1>1 DEF S
<1>3. Len(v) + 1 \in Number
  BY <1>2, CodecAssumption DEF IsText, Number
<1>4. WriteScalar(Len(v) + 1, 1) \in Seq(Number) /\ Len(WriteScalar(Len(v) + 1, 1)) = 1
  <2>1. 1 \in 1..16 /\ Len(v) + 1 \in Int
    BY <1>2
  <2> QED
    BY <2>1, ScalarWritten
<1>5. WriteAll(Append(v, 0), 2) \in Seq(Number)
      /\ Len(WriteAll(Append(v, 0), 2)) = Len(Append(v, 0)) * 2
  <2>1. 2 \in 1..16
    OBVIOUS
  <2> QED
    BY <1>2, <2>1, RowWritten, Zenon
<1>6. WriteString(v) = WriteScalar(Len(v) + 1, 1) \o WriteAll(Append(v, 0), 2)
  BY Zenon DEF WriteString
<1>7. WriteString(v) \in Seq(Number)
  BY <1>4, <1>5, <1>6, NumbersMonoid, Zenon DEF Monoid
<1>8. Len(WriteString(v)) = Len(WriteScalar(Len(v) + 1, 1)) + Len(WriteAll(Append(v, 0), 2))
  BY <1>4, <1>5, <1>6, LengthsAdd, Zenon
<1>9. Len(WriteAll(Append(v, 0), 2)) = 2 * (Len(v) + 1)
  BY <1>2, <1>5
<1>10. Len(WriteString(v)) = 1 + 2 * (Len(v) + 1)
  BY <1>4, <1>8, <1>9
<1> QED
  BY <1>2, <1>3, <1>4, <1>5, <1>6, <1>7, <1>9, <1>10, Zenon

\* A text is read back from the bytes it is written as, unless it is no UTF-16
\* (read_string).
LEMMA StringReadsBack ==
  ASSUME NEW v, IsText(v), NEW bytes \in Seq(Number), NEW at \in Nat,
         Agrees(bytes, at, WriteString(v))
  PROVE  /\ WriteString(v) \in Seq(Number) /\ Len(WriteString(v)) \in Nat \ {0}
         /\ YieldsIf(IsUtf16(v), ReadString(bytes, at), bytes, at + Len(WriteString(v)), v)
<1> DEFINE length == ReadScalar(bytes, at, Byte)
<1>1. ReadString(bytes, at) = TerminatedUnits(bytes, length)
  BY DEF ReadString
<1>2. CASE v = <<>>
  <2>1. WriteString(v) = <<0>> /\ 0 \in Number
    BY <1>2, CodecAssumption DEF WriteString, Number
  <2>2. WriteString(v) \in Seq(Number) /\ Len(WriteString(v)) = 1
    BY <2>1
  <2>3. Yields(length, bytes, at + 1, 0)
    <3>1. WriteScalar(0, 1) = <<0>>
      BY <2>1, ByteWritten
    <3>2. Agrees(bytes, at, WriteScalar(0, 1))
      BY <2>1, <3>1, Zenon
    <3> QED
      BY <2>1, <3>2, LengthReadsBack
  <2> HIDE DEF length
  <2>4. CASE at + 1 <= Len(bytes)
    <3>1. length = Got(0, at + 1)
      BY <2>3, <2>4, Zenon DEF Yields
    <3>2. TerminatedUnits(bytes, length) = Got(<<>>, at + 1)
      BY <2>4, <3>1 DEF TerminatedUnits, Got
    <3> QED
      <4>1. IsUtf16(v)
        BY <1>2 DEF IsUtf16, ToSet
      <4>2. YieldsIf(IsUtf16(v), ReadString(bytes, at), bytes, at + Len(WriteString(v)), v)
        BY <1>1, <1>2, <2>2, <2>4, <3>2, <4>1, Zenon DEF YieldsIf
      <4> QED
        BY <2>2, <4>2
  <2>5. CASE ~ (at + 1 <= Len(bytes))
    <3>1. length = Fails(bytes)
      BY <2>3, <2>5, Zenon DEF Yields
    <3> QED
      BY <1>1, <2>2, <2>5, <3>1, LengthFails DEF YieldsIf
  <2> QED
    BY <2>2, <2>4, <2>5
<1>3. CASE v # <<>>
  <2> DEFINE k == Len(v) + 1
             u == Append(v, 0)
  <2>1. /\ WriteString(v) = WriteScalar(k, 1) \o WriteAll(u, 2)
        /\ WriteScalar(k, 1) \in Seq(Number) /\ Len(WriteScalar(k, 1)) = 1
        /\ WriteAll(u, 2) \in Seq(Number)
        /\ WriteString(v) \in Seq(Number)
        /\ Len(WriteString(v)) = 1 + 2 * k
        /\ u \in Seq(Scale(Word)) /\ Len(u) = k
        /\ k \in Number /\ Len(v) \in Nat
    BY <1>3, TextWritten, Zenon
  <2>2. Agrees(bytes, at, WriteScalar(k, 1)) /\ Agrees(bytes, at + 1, WriteAll(u, 2))
    <3> HIDE DEF k, u
    <3>1. Agrees(bytes, at, WriteScalar(k, 1) \o WriteAll(u, 2))
      BY <2>1, Zenon
    <3>2. Agrees(bytes, at, WriteScalar(k, 1))
          /\ Agrees(bytes, at + Len(WriteScalar(k, 1)), WriteAll(u, 2))
      BY <2>1, <3>1, ConcatAgrees, Zenon
    <3> QED
      BY <2>1, <3>2, Zenon
  <2>3. Yields(length, bytes, at + 1, k)
    <3> HIDE DEF k
    <3> QED
      BY <2>1, <2>2, LengthReadsBack
  <2> HIDE DEF length
  <2>4. CASE ~ (at + 1 <= Len(bytes))
    <3>1. length = Fails(bytes)
      BY <2>3, <2>4, Zenon DEF Yields
    <3>2. ReadString(bytes, at) = Fails(bytes)
      BY <1>1, <3>1, LengthFails, Zenon
    <3>3. ~ (at + (1 + 2 * k) <= Len(bytes))
      BY <2>1, <2>4
    <3> QED
      BY <2>1, <3>2, <3>3 DEF YieldsIf
  <2>5. CASE at + 1 <= Len(bytes)
    <3>1. length = Got(k, at + 1)
      BY <2>3, <2>5, Zenon DEF Yields
    <3>2. length.value = k /\ length.at = at + 1
      BY <3>1 DEF Got
    <3> DEFINE end == (at + 1) + 2 * k
               units == Elements(bytes, at + 1, Word, k - 1)
    <3>3. TerminatedUnits(bytes, length)
            = IF /\ end <= Len(bytes)
                 /\ ReadScalar(bytes, end - 2, Word).value = 0
                 /\ ToSet(units) \cap LoneSurrogates = {}
              THEN Got(units, end) ELSE Fails(bytes)
      <4>1. k # 0
        BY <2>1
      <4> HIDE DEF k
      <4> QED
        BY <3>2, <4>1, Zenon DEF TerminatedUnits
    <3>4. CASE ~ (end <= Len(bytes))
      <4>1. TerminatedUnits(bytes, length) = Fails(bytes)
        BY <3>3, <3>4, Zenon
      <4>2. ~ (at + (1 + 2 * k) <= Len(bytes))
        BY <2>1, <3>4
      <4> QED
        BY <1>1, <2>1, <4>1, <4>2 DEF YieldsIf
    <3>5. CASE end <= Len(bytes)
      <4>1. \A i \in 1..k : ReadScalar(bytes, (at + 1) + (i - 1) * Word.width, Word).value = u[i]
        <5>1. (at + 1) + 2 * Len(u) <= Len(bytes) /\ at + 1 \in Nat
          BY <2>1, <3>5
        <5> HIDE DEF k, u
        <5> QED
          BY <2>1, <2>2, <5>1, UnitsReadBack, Zenon
      <4>2. ReadScalar(bytes, end - 2, Word).value = 0
        <5>1. (at + 1) + (k - 1) * Word.width = end - 2 /\ k \in 1..k
          BY <2>1, UnitTypes
        <5>2. u[k] = 0
          BY <2>1 DEF IsText
        <5> QED
          BY <4>1, <5>1, <5>2, Zenon
      <4>3. units = v
        <5>1. units = [i \in 1..(k - 1) |-> u[i]]
          <6>1. \A i \in 1..(k - 1) : i \in 1..k
            BY <2>1
          <6> HIDE DEF k, u
          <6> QED
            BY <4>1, <6>1 DEF Elements
        <5>2. v \in Seq(Scale(Word))
          BY DEF IsText
        <5>3. \A i \in 1..(k - 1) : u[i] = v[i]
          BY <2>1, <5>2
        <5>4. v = [i \in 1..(k - 1) |-> v[i]]
          BY <2>1, <5>2
        <5> QED
          BY <5>1, <5>3, <5>4
      <4>4. TerminatedUnits(bytes, length) = IF IsUtf16(v) THEN Got(v, end) ELSE Fails(bytes)
        BY <3>3, <3>5, <4>2, <4>3, Zenon DEF IsUtf16
      <4>5. at + (1 + 2 * k) = end
        BY <2>1
      <4> QED
        <5>1. YieldsIf(IsUtf16(v), ReadString(bytes, at), bytes, at + (1 + 2 * k), v)
          <6> HIDE DEF end, k
          <6> QED
            BY <1>1, <3>5, <4>4, <4>5, Zenon DEF YieldsIf
        <5>2. 1 + 2 * k \in Nat \ {0}
          BY <2>1
        <5> HIDE DEF k
        <5> QED
          BY <2>1, <5>1, <5>2, Zenon
    <3> QED
      BY <3>4, <3>5
  <2> QED
    BY <2>4, <2>5
<1> QED
  BY <1>2, <1>3

\* A sequence over a set is one over any larger set.
LEMMA WiderSequence ==
  ASSUME NEW S, NEW T, S \subseteq T, NEW s \in Seq(S)
  PROVE  s \in Seq(T) /\ Len(s) \in Nat
  OBVIOUS

\* What is written in two parts is as long as both, and they are found in it.
LEMMA Concatenated ==
  ASSUME NEW s \in Seq(Number), NEW t \in Seq(Number), NEW e, e = s \o t
  PROVE  e \in Seq(Number) /\ Len(e) = Len(s) + Len(t)
<1>1. s \o t \in Seq(Number) /\ Len(s \o t) = Len(s) + Len(t)
  BY LengthsAdd, NumbersMonoid, Zenon DEF Monoid
<1> QED
  BY <1>1, Zenon

\* ConcatAgrees for a sequence that is known to be two parts.
LEMMA ConcatenatedAgrees ==
  ASSUME NEW bytes \in Seq(Number), NEW at \in Nat,
         NEW s \in Seq(Number), NEW t \in Seq(Number), NEW e, e = s \o t,
         Agrees(bytes, at, e)
  PROVE  Agrees(bytes, at, s) /\ Agrees(bytes, at + Len(s), t)
<1>1. Agrees(bytes, at, s \o t)
  BY Zenon
<1> QED
  BY <1>1, ConcatAgrees, Zenon

\* The same of a text without a null (PtpExactString).
LEMMA ExactStringReadsBack ==
  ASSUME NEW v, IsText(v), NEW bytes \in Seq(Number), NEW at \in Nat,
         Agrees(bytes, at, WriteExactString(v))
  PROVE  /\ WriteExactString(v) \in Seq(Number)
         /\ Len(WriteExactString(v)) = 1 + 2 * Len(v) /\ Len(v) \in Nat
         /\ YieldsIf(IsUtf16(v), ReadExactString(bytes, at), bytes,
                    at + Len(WriteExactString(v)), v)
<1> DEFINE length == ReadScalar(bytes, at, Byte)
           k == Len(v)
<1>1. v \in Seq(Scale(Word)) /\ v \in Seq(Int) /\ k \in Nat /\ k \in Number
  <2>1. v \in Seq(Scale(Word)) /\ Scale(Word) \subseteq Int
    BY UnitTypes, ScaleOfInts DEF IsText
  <2> DEFINE S == Scale(Word)
  <2>2. v \in Seq(Int) /\ k \in Nat
    <3>1. v \in Seq(S) /\ S \subseteq Int
      BY <2>1
    <3> HIDE DEF S
    <3> QED
      BY <3>1, WiderSequence, Zenon
  <2>3. k \in Number
    BY <2>2, CodecAssumption DEF IsText, Number
  <2> QED
    BY <2>1, <2>2, <2>3
<1>2. WriteScalar(k, 1) \in Seq(Number) /\ Len(WriteScalar(k, 1)) = 1
      /\ WriteAll(v, 2) \in Seq(Number) /\ Len(WriteAll(v, 2)) = k * 2
  <2>1. 1 \in 1..16 /\ 2 \in 1..16 /\ k \in Int
    BY <1>1
  <2> QED
    BY <1>1, <2>1, ScalarWritten, RowWritten
<1>3. WriteExactString(v) = WriteScalar(k, 1) \o WriteAll(v, 2)
  BY Zenon DEF WriteExactString
<1> HIDE DEF k
<1>4. WriteExactString(v) \in Seq(Number)
      /\ Len(WriteExactString(v)) = Len(WriteScalar(k, 1)) + Len(WriteAll(v, 2))
  BY <1>2, <1>3, Concatenated, Zenon
<1>5. Len(WriteExactString(v)) = 1 + 2 * k
  <2>1. k \in Nat /\ Len(WriteScalar(k, 1)) = 1 /\ Len(WriteAll(v, 2)) = k * 2
        /\ Len(WriteExactString(v)) = Len(WriteScalar(k, 1)) + Len(WriteAll(v, 2))
    BY <1>1, <1>2, <1>4, Zenon
  <2>2. k * 2 = 2 * k /\ 2 * k \in Nat
    BY <2>1
  <2> DEFINE all == Len(WriteExactString(v))
             head == Len(WriteScalar(k, 1))
             rest == Len(WriteAll(v, 2))
  <2>3. all = head + rest /\ head = 1 /\ rest = 2 * k
    BY <2>1, <2>2, Zenon
  <2> HIDE DEF all, head, rest
  <2>4. all = 1 + 2 * k
    BY <2>2, <2>3
  <2> QED
    BY <2>4 DEF all
<1>6. Agrees(bytes, at, WriteScalar(k, 1)) /\ Agrees(bytes, at + 1, WriteAll(v, 2))
  <2>1. Agrees(bytes, at, WriteScalar(k, 1))
        /\ Agrees(bytes, at + Len(WriteScalar(k, 1)), WriteAll(v, 2))
    BY <1>2, <1>3, ConcatenatedAgrees, Zenon
  <2> QED
    BY <1>2, <2>1, Zenon
<1>7. Yields(length, bytes, at + 1, k)
  BY <1>1, <1>6, LengthReadsBack
<1>8. ReadExactString(bytes, at) = ExactUnits(bytes, length)
  BY Zenon DEF ReadExactString
<1> HIDE DEF length
<1> DEFINE end == (at + 1) + 2 * k
<1>9. at + Len(WriteExactString(v)) = end
  BY <1>1, <1>5
<1>10. CASE ~ (at + 1 <= Len(bytes))
  <2>1. ReadExactString(bytes, at) = Fails(bytes)
    BY <1>7, <1>8, <1>10, LengthFails, Zenon DEF Yields
  <2>2. ~ (end <= Len(bytes))
    BY <1>1, <1>10
  <2> HIDE DEF end
  <2>3. YieldsIf(IsUtf16(v), ReadExactString(bytes, at), bytes, end, v)
    BY <2>1, <2>2 DEF YieldsIf
  <2> QED
    BY <1>1, <1>4, <1>5, <1>9, <2>3, Zenon DEF k
<1>11. CASE at + 1 <= Len(bytes)
  <2>1. length.value = k /\ length.at = at + 1
    BY <1>7, <1>11, GotFields, Zenon DEF Yields
  <2> DEFINE units == Elements(bytes, at + 1, Word, k)
  <2>2. ReadExactString(bytes, at)
          = IF end <= Len(bytes) /\ ToSet(units) \cap LoneSurrogates = {}
            THEN Got(units, end) ELSE Fails(bytes)
    BY <1>8, <2>1, Zenon DEF ExactUnits
  <2>3. end <= Len(bytes) => units = v
    <3>1. ASSUME end <= Len(bytes)
          PROVE  \A i \in 1..k : ReadScalar(bytes, (at + 1) + (i - 1) * Word.width, Word).value = v[i]
      <4>1. at + 1 \in Nat
        OBVIOUS
      <4> QED
        BY <1>1, <1>6, <3>1, <4>1, UnitsReadBack, Zenon DEF k
    <3>2. v = [i \in 1..k |-> v[i]]
      BY <1>1, Sequence DEF k
    <3> QED
      BY <3>1, <3>2 DEF Elements
  <2> HIDE DEF units, end
  <2>5. YieldsIf(IsUtf16(v), ReadExactString(bytes, at), bytes, end, v)
    BY <2>2, <2>3 DEF YieldsIf, IsUtf16
  <2> QED
    BY <1>1, <1>4, <1>5, <1>9, <2>5, Zenon DEF k
<1> QED
  BY <1>10, <1>11

\* An array is read back from the bytes it is written as, unless it is larger
\* than the budget (read_vec).
LEMMA ListReadsBack ==
  ASSUME NEW type \in Scalars, NEW v, IsList(v, type),
         NEW bytes \in Seq(Number), NEW at \in Nat,
         Agrees(bytes, at, WriteArray(v, type.width))
  PROVE  /\ WriteArray(v, type.width) \in Seq(Number)
         /\ Len(WriteArray(v, type.width)) \in Nat \ {0}
         /\ YieldsIf(FitsBudget(v), ReadArray(bytes, at, type), bytes,
                    at + Len(WriteArray(v, type.width)), v)
<1> DEFINE count == ReadScalar(bytes, at, Long)
           k == Len(v)
           w == type.width
<1>1. /\ v \in Seq(Scale(type)) /\ v \in Seq(Int) /\ k \in Nat /\ k \in Scale(Long)
      /\ Numbers(v, k, type)
  <2>1. v \in Seq(Scale(type)) /\ Scale(type) \subseteq Int
    BY ScaleOfInts DEF IsList
  <2> DEFINE S == Scale(type)
  <2>2. v \in Seq(Int) /\ k \in Nat
    <3>1. v \in Seq(S) /\ S \subseteq Int
      BY <2>1
    <3> HIDE DEF S
    <3> QED
      BY <3>1, WiderSequence, Zenon
  <2>3. k \in Scale(Long)
    <3>1. Power(4) \in Nat
      BY PowerType
    <3>2. k \in 0..(Power(4) - 1)
      BY <2>2, <3>1 DEF IsList
    <3> QED
      BY <3>2, UnitTypes, Zenon DEF Scale
  <2>4. Numbers(v, k, type)
    <3> HIDE DEF S
    <3> QED
      BY <2>1, Sequence DEF Numbers
  <2> QED
    BY <2>1, <2>2, <2>3, <2>4
<1>2. w \in 1..16 /\ 4 \in 1..16 /\ k \in Int
  BY <1>1, ScalarTypes
<1>3. WriteScalar(k, 4) \in Seq(Number) /\ Len(WriteScalar(k, 4)) = 4
  BY <1>2, ScalarWritten
<1>4. WriteAll(v, w) \in Seq(Number) /\ Len(WriteAll(v, w)) = k * w
  <2> HIDE DEF w
  <2> QED
    BY <1>1, <1>2, RowWritten
<1>5. WriteArray(v, w) = WriteScalar(k, 4) \o WriteAll(v, w)
  BY Zenon DEF WriteArray
<1>6. count = ReadScalar(bytes, at, Long) /\ ReadArray(bytes, at, type) = CountedElements(bytes, count, type)
  BY Zenon DEF ReadArray
<1> HIDE DEF k, count
<1>7. WriteArray(v, w) \in Seq(Number)
      /\ Len(WriteArray(v, w)) = Len(WriteScalar(k, 4)) + Len(WriteAll(v, w))
  BY <1>3, <1>4, <1>5, Concatenated, Zenon
<1>8. k * w \in Nat
  BY <1>1, <1>2, SMTT(60)
<1>9. Len(WriteArray(v, w)) = 4 + k * w
  BY <1>3, <1>4, <1>7
<1>10. Agrees(bytes, at, WriteScalar(k, 4)) /\ Agrees(bytes, at + 4, WriteAll(v, w))
  <2>1. Agrees(bytes, at, WriteScalar(k, 4))
        /\ Agrees(bytes, at + Len(WriteScalar(k, 4)), WriteAll(v, w))
    BY <1>3, <1>4, <1>5, ConcatenatedAgrees, Zenon
  <2> QED
    BY <1>3, <2>1, Zenon
<1>11. Yields(count, bytes, at + 4, k)
  <2>1. Long \in Scalars /\ Long.width = 4
    BY UnitTypes
  <2> HIDE DEF w
  <2> QED
    BY <1>1, <1>6, <1>10, <2>1, ScalarReadsBack
<1> DEFINE size == k * w
           end == (at + 4) + size
<1>12. at + Len(WriteArray(v, w)) = end
  BY <1>8, <1>9
<1>15. 4 + k * w \in Nat \ {0}
  BY <1>8
<1>13. CASE ~ (at + 4 <= Len(bytes))
  <2>1. ReadArray(bytes, at, type) = Fails(bytes)
    BY <1>6, <1>11, <1>13, LengthFails, Zenon DEF Yields
  <2>2. ~ (end <= Len(bytes))
    BY <1>8, <1>13
  <2> HIDE DEF end
  <2>3. YieldsIf(FitsBudget(v), ReadArray(bytes, at, type), bytes, end, v)
    BY <2>1, <2>2, Zenon DEF YieldsIf
  <2> QED
    BY <2>3, <1>7, <1>9, <1>12, <1>15, Zenon
<1>14. CASE at + 4 <= Len(bytes)
  <2>1. count.value = k /\ count.at = at + 4
    BY <1>11, <1>14, GotFields, Zenon DEF Yields
  <2> DEFINE elements == Elements(bytes, at + 4, type, k)
  <2>2. ReadArray(bytes, at, type)
          = IF k <= MaxElements /\ size <= Left(bytes, at + 4)
            THEN Got(elements, end) ELSE Fails(bytes)
    BY <1>6, <2>1, Zenon DEF CountedElements
  <2>3. (k <= MaxElements <=> FitsBudget(v))
        /\ (size <= Left(bytes, at + 4) <=> end <= Len(bytes))
    <3>1. k <= MaxElements <=> FitsBudget(v)
      BY Zenon DEF FitsBudget, k
    <3>2. Len(bytes) \in Nat
      BY Sequence
    <3> HIDE DEF size
    <3> QED
      BY <1>8, <3>1, <3>2 DEF Left, size
  <2>4. end <= Len(bytes) => elements = v
    <3>1. ASSUME end <= Len(bytes)
          PROVE  \A i \in 1..k : ReadScalar(bytes, (at + 4) + (i - 1) * type.width, type)
                                    = Got(v[i], (at + 4) + i * type.width)
      <4>1. at + 4 \in Nat /\ (at + 4) + k * type.width <= Len(bytes)
        BY <3>1
      <4>2. Agrees(bytes, at + 4, WriteAll(v, type.width))
        BY <1>10
      <4> HIDE DEF end
      <4> QED
        BY <1>1, <4>1, <4>2, ElementsReadBack
    <3>2. v = [i \in 1..k |-> v[i]]
      BY <1>1, Sequence DEF k
    <3>3. ASSUME end <= Len(bytes)
          PROVE  \A i \in 1..k : ReadScalar(bytes, (at + 4) + (i - 1) * type.width, type).value = v[i]
      BY <3>1, <3>3, GotFields, Zenon
    <3> HIDE DEF end
    <3> QED
      BY <3>2, <3>3 DEF Elements
  <2> HIDE DEF elements, end, size
  <2>5. YieldsIf(FitsBudget(v), ReadArray(bytes, at, type), bytes, end, v)
    BY <2>2, <2>3, <2>4, Zenon DEF YieldsIf
  <2> QED
    BY <2>5, <1>7, <1>9, <1>12, <1>15, Zenon
<1> QED
  BY <1>13, <1>14

\* A type is a scalar, an array of scalars or the string type.
LEMMA TypeKinds ==
  ASSUME NEW type \in Types
  PROVE  \/ type \in Scalars /\ type.kind = "Scalar"
         \/ type.kind = "Array" /\ type.element \in Scalars /\ type = ArrayOf(type.element)
         \/ type = StringType /\ type.kind = "String"
<1>1. CASE type \in Scalars
  BY <1>1, ScalarTypes
<1>2. CASE type = StringType
  BY <1>2 DEF StringType
<1>3. ASSUME NEW t \in Scalars, type = ArrayOf(t)
      PROVE  type.kind = "Array" /\ type.element \in Scalars /\ type = ArrayOf(type.element)
  BY <1>3 DEF ArrayOf
<1> QED
  BY <1>1, <1>2, <1>3 DEF Types

\* What is written for a value, and wherever it is read back.
LEMMA ValueReadsBack ==
  ASSUME NEW type \in Types, NEW v, IsValue(type, v),
         NEW bytes \in Seq(Number), NEW at \in Nat, Agrees(bytes, at, Encode(type, v))
  PROVE  /\ Encode(type, v) \in Seq(Number)
         /\ Len(Encode(type, v)) \in Nat \ {0}
         /\ type.kind # "Array" => LeastWidth(type) <= Len(Encode(type, v))
         /\ YieldsIf(Legible(type, v), ReadValue(bytes, at, type), bytes,
                    at + Len(Encode(type, v)), v)
<1>1. CASE type \in Scalars /\ type.kind = "Scalar"
  <2>1. /\ Encode(type, v) = WriteScalar(v, type.width)
        /\ ReadValue(bytes, at, type) = ReadScalar(bytes, at, type)
        /\ LeastWidth(type) = type.width
    BY <1>1 DEF Encode, ReadValue, LeastWidth
  <2>2. v \in Scale(type) /\ type.width \in 1..16 /\ v \in Int
    BY <1>1, ScalarTypes, ScaleOfInts DEF IsValue
  <2>3. Encode(type, v) \in Seq(Number) /\ Len(Encode(type, v)) = type.width
    BY <2>1, <2>2, ScalarWritten
  <2>4. Yields(ReadScalar(bytes, at, type), bytes, at + type.width, v)
    BY <1>1, <2>1, <2>2, ScalarReadsBack
  <2>6. Legible(type, v)
    BY <1>1 DEF Legible
  <2>7. YieldsIf(Legible(type, v), ReadScalar(bytes, at, type), bytes, at + type.width, v)
    BY <2>4, <2>6, Zenon DEF Yields, YieldsIf
  <2>5. type.width \in Nat \ {0} /\ type.width <= type.width
    BY <2>2, SMTT(60)
  <2> QED
    BY <2>1, <2>3, <2>5, <2>7, Zenon
<1>2. CASE type.kind = "Array" /\ type.element \in Scalars
  <2>1. /\ Encode(type, v) = WriteArray(v, type.element.width)
        /\ ReadValue(bytes, at, type) = ReadArray(bytes, at, type.element)
    BY <1>2 DEF Encode, ReadValue
  <2>2. IsList(v, type.element)
    BY <1>2 DEF IsValue
  <2>3. Agrees(bytes, at, WriteArray(v, type.element.width))
    BY <2>1, Zenon
  <2>4. Legible(type, v) <=> FitsBudget(v)
    BY <1>2 DEF Legible
  <2>5. YieldsIf(Legible(type, v), ReadArray(bytes, at, type.element), bytes,
                at + Len(WriteArray(v, type.element.width)), v)
    <3>1. YieldsIf(FitsBudget(v), ReadArray(bytes, at, type.element), bytes,
                  at + Len(WriteArray(v, type.element.width)), v)
      BY <1>2, <2>2, <2>3, ListReadsBack, Zenon
    <3> QED
      BY <2>4, <3>1, Zenon DEF YieldsIf
  <2>6. WriteArray(v, type.element.width) \in Seq(Number)
        /\ Len(WriteArray(v, type.element.width)) \in Nat \ {0}
    BY <1>2, <2>2, <2>3, ListReadsBack, Zenon
  <2> QED
    BY <1>2, <2>1, <2>5, <2>6, Zenon
<1>3. CASE type.kind = "String"
  <2>1. /\ Encode(type, v) = WriteString(v)
        /\ ReadValue(bytes, at, type) = ReadString(bytes, at)
        /\ LeastWidth(type) = 1
    BY <1>3 DEF Encode, ReadValue, LeastWidth
  <2>2. IsText(v)
    BY <1>3 DEF IsValue
  <2>3. /\ Encode(type, v) \in Seq(Number) /\ Len(Encode(type, v)) \in Nat \ {0}
        /\ YieldsIf(IsUtf16(v), ReadValue(bytes, at, type), bytes,
                   at + Len(Encode(type, v)), v)
    BY <2>1, <2>2, StringReadsBack, Zenon
  <2>4. 1 <= Len(Encode(type, v))
    BY <2>3
  <2>5. Legible(type, v) <=> IsUtf16(v)
    BY <1>3 DEF Legible
  <2> QED
    BY <1>3, <2>1, <2>3, <2>4, <2>5, Zenon DEF YieldsIf
<1> QED
  BY <1>1, <1>2, <1>3, TypeKinds

-----------------------------------------------------------------------------
(* Values one after the other.                                             *)

\* r[i] is what is read of the first i types.
IsRead(r, bytes, at, types, k) ==
    r = [i \in 0..k |-> IF i = 0 THEN Got(<<>>, at) ELSE ReadNext(bytes, r[i - 1], types[i])]

\* The recursive function behind ReadAll exists for any number of types.
LEMMA ReadsExist ==
  ASSUME NEW bytes, NEW at, NEW types, NEW n \in Nat
  PROVE  \E r : IsRead(r, bytes, at, types, n)
<1> DEFINE T == {k \in Nat : ~ \E r : IsRead(r, bytes, at, types, k)}
<1> SUFFICES ASSUME n \in T PROVE FALSE
  OBVIOUS
<1>1. PICK m \in T : \A k \in T : m <= k
  <2>1. T \subseteq Nat /\ T # {}
    BY Zenon
  <2> HIDE DEF T
  <2> QED
    BY <2>1, LeastNat
<1>2. m \in Nat /\ ~ \E r : IsRead(r, bytes, at, types, m)
  BY <1>1
<1>3. CASE m = 0
  <2>1. IsRead([i \in 0..0 |-> Got(<<>>, at)], bytes, at, types, 0)
    BY DEF IsRead
  <2> QED
    BY <1>2, <1>3, <2>1
<1>4. CASE m # 0
  <2>1. m - 1 \in Nat /\ m - 1 \notin T
    BY <1>1, <1>2, <1>4
  <2>2. PICK r : IsRead(r, bytes, at, types, m - 1)
    BY <2>1
  <2> DEFINE q == [i \in 0..m |-> IF i < m THEN r[i] ELSE ReadNext(bytes, r[m - 1], types[m])]
             s == [i \in 0..m |-> IF i = 0 THEN Got(<<>>, at)
                                  ELSE ReadNext(bytes, q[i - 1], types[i])]
  <2>3. ASSUME NEW i \in 0..m PROVE q[i] = s[i]
    <3>1. CASE i = 0
      BY <1>2, <1>4, <2>2, <3>1 DEF IsRead
    <3>2. CASE i # 0 /\ i < m
      <4>1. r[i] = ReadNext(bytes, r[i - 1], types[i])
        BY <2>1, <2>2, <3>2 DEF IsRead
      <4>2. q[i] = r[i] /\ q[i - 1] = r[i - 1]
        BY <1>2, <3>2
      <4> QED
        BY <3>2, <4>1, <4>2
    <3>3. CASE i = m
      BY <1>2, <1>4, <2>1, <3>3
    <3> QED
      BY <1>2, <3>1, <3>2, <3>3
  <2>4. q = s
    BY <2>3
  <2>5. IsRead(q, bytes, at, types, m)
    BY <2>4, Zenon DEF IsRead
  <2> QED
    BY <1>2, <2>5
<1> QED
  BY <1>3, <1>4

\* read[i] is the read of the first i values.
StepsOf(read, bytes, at, types, n) ==
    /\ read[0] = Got(<<>>, at)
    /\ \A i \in 1..n : read[i] = ReadNext(bytes, read[i - 1], types[i])
    /\ ReadAll(bytes, at, types) = read[n]

\* ReadAll reads one value after the other.
LEMMA ReadSteps ==
  ASSUME NEW bytes, NEW at, NEW types, NEW n \in Nat, Len(types) = n
  PROVE  \E read : StepsOf(read, bytes, at, types, n)
<1> DEFINE read == CHOOSE r : r = [i \in 0..Len(types) |->
                                      IF i = 0 THEN Got(<<>>, at)
                                      ELSE ReadNext(bytes, r[i - 1], types[i])]
<1>1. read = [i \in 0..Len(types) |-> IF i = 0 THEN Got(<<>>, at)
                                      ELSE ReadNext(bytes, read[i - 1], types[i])]
  <2>1. \E r : IsRead(r, bytes, at, types, Len(types))
    BY ReadsExist
  <2> QED
    BY <2>1, Zenon DEF IsRead
<1>2. ReadAll(bytes, at, types) = read[Len(types)]
  BY Zenon DEF ReadAll
<1> HIDE DEF read
<1>3. \A i \in 0..n : read[i] = IF i = 0 THEN Got(<<>>, at)
                                ELSE ReadNext(bytes, read[i - 1], types[i])
  <2> DEFINE r == [i \in 0..n |-> IF i = 0 THEN Got(<<>>, at)
                                  ELSE ReadNext(bytes, read[i - 1], types[i])]
  <2>1. \A i \in 0..n : r[i] = IF i = 0 THEN Got(<<>>, at)
                               ELSE ReadNext(bytes, read[i - 1], types[i])
    BY Zenon
  <2>2. read = r
    BY <1>1
  <2> QED
    BY <2>1, <2>2, Zenon
<1>4. read[0] = Got(<<>>, at)
  BY <1>3
<1>5. \A i \in 1..n : read[i] = ReadNext(bytes, read[i - 1], types[i])
  BY <1>3
<1> QED
  BY <1>2, <1>4, <1>5, Zenon DEF StepsOf

\* What a read that fails answers.
LEMMA FailsFields ==
  \A bytes : Fails(bytes).value = 0 /\ Fails(bytes).at = Len(bytes) + 1
  BY GotFields, Zenon DEF Fails

\* Where a part begins and ends, from the length before it.
LEMMA Beyond ==
  ASSUME NEW at \in Nat, NEW x \in Nat, NEW y \in Nat, NEW z, z = x + y
  PROVE  at + x \in Nat /\ at + z \in Nat /\ at + z = (at + x) + y /\ at + x <= at + z
  OBVIOUS

\* The first values of a tuple, and one more.
LEMMA FirstValues ==
  ASSUME NEW i \in Nat, NEW values
  PROVE  Append([j \in 1..i |-> values[j]], values[i + 1]) = [j \in 1..(i + 1) |-> values[j]]
  OBVIOUS

\* A read that fails, or is of what was written.
YieldsAll(read, bytes, end, values, n) ==
    \/ read.at = Len(bytes) + 1
    \/ end <= Len(bytes) /\ read = Got([j \in 1..n |-> values[j]], end)

\* No value is read after the bytes are used up.
LEMMA PastTheEnd ==
  ASSUME NEW bytes \in Seq(Number), NEW type \in Types, NEW v, IsValue(type, v)
  PROVE  ReadValue(bytes, Len(bytes) + 1, type) = Fails(bytes)
<1>1. Len(bytes) + 1 \in Nat
  BY Sequence
<1>2. Agrees(bytes, Len(bytes) + 1, Encode(type, v))
  <2>1. \A i \in 1..Len(Encode(type, v)) : ~ ((Len(bytes) + 1) + i <= Len(bytes))
    <3>1. Len(bytes) \in Nat
      BY Sequence
    <3> QED
      BY <3>1
  <2> QED
    BY <2>1, Zenon DEF Agrees
<1>3. /\ Len(Encode(type, v)) \in Nat \ {0}
      /\ YieldsIf(Legible(type, v), ReadValue(bytes, Len(bytes) + 1, type), bytes,
                 (Len(bytes) + 1) + Len(Encode(type, v)), v)
  BY <1>1, <1>2, ValueReadsBack, Zenon
<1>4. ~ ((Len(bytes) + 1) + Len(Encode(type, v)) <= Len(bytes))
  BY <1>1, <1>3
<1> QED
  BY <1>3, <1>4, Zenon DEF YieldsIf

\* A series of values: of n types, with the encodings in seqs.
Series(types, values, seqs, n) ==
    /\ n \in Nat /\ Len(types) = n
    /\ \A i \in 1..n : /\ types[i] \in Types /\ IsValue(types[i], values[i])
                       /\ seqs[i] = Encode(types[i], values[i])
                       /\ seqs[i] \in Seq(Number)

\* Values are read back one after the other, or not all of them can be read.
LEMMA SeriesReadsBack ==
  ASSUME NEW types, NEW values, NEW seqs, NEW n, Series(types, values, seqs, n),
         NEW f \in [0..n -> Seq(Number)], Joins(f, seqs, n),
         NEW bytes \in Seq(Number), NEW at \in Nat, at <= Len(bytes) + 1,
         Agrees(bytes, at, f[n])
  PROVE  YieldsAll(ReadAll(bytes, at, types), bytes, at + Len(f[n]), values, n)
<1>1. n \in Nat /\ Len(types) = n /\ Len(bytes) \in Nat
      /\ \A i \in 1..n : seqs[i] \in Seq(Number)
  BY Sequence DEF Series
<1>2. \A i \in 1..n : /\ types[i] \in Types /\ IsValue(types[i], values[i])
                      /\ seqs[i] = Encode(types[i], values[i])
  BY Zenon DEF Series
<1>0. PICK read : StepsOf(read, bytes, at, types, n)
  BY <1>1, ReadSteps
<1>3. /\ read[0] = Got(<<>>, at)
      /\ \A i \in 1..n : read[i] = ReadNext(bytes, read[i - 1], types[i])
      /\ ReadAll(bytes, at, types) = read[n]
  BY <1>0, Zenon DEF StepsOf
<1>4. f[0] = <<>> /\ Len(f[0]) = 0
  BY DEF Joins
<1>5. ASSUME NEW i \in 1..n
      PROVE  /\ Len(f[i]) = Len(f[i - 1]) + Len(seqs[i])
             /\ Len(f[i]) \in Nat /\ Len(f[i - 1]) \in Nat /\ Len(seqs[i]) \in Nat
             /\ Agrees(bytes, at + Len(f[i - 1]), Encode(types[i], values[i]))
  <2>1. /\ Len(f[i]) = Len(f[i - 1]) + Len(seqs[i])
        /\ Len(f[i]) \in Nat /\ Len(f[i - 1]) \in Nat /\ Len(seqs[i]) \in Nat
    BY <1>1, PartsAdd, Zenon
  <2>2. Agrees(bytes, at + Len(f[i - 1]), seqs[i])
    BY <1>1, PartsAgree, Zenon
  <2> QED
    BY <1>2, <2>1, <2>2, Zenon
<1> DEFINE C(i) == YieldsAll(read[i], bytes, at + Len(f[i]), values, i)
<1>6. C(0)
  <2>1. [j \in 1..0 |-> values[j]] = <<>>
    OBVIOUS
  <2>2. at + Len(f[0]) = at
    BY <1>4
  <2>3. at <= Len(bytes) \/ at = Len(bytes) + 1
    BY <1>1
  <2>4. read[0].at = at
    <3>1. read[0] = Got(<<>>, at)
      BY <1>3, Zenon
    <3> QED
      BY <3>1, GotFields, ZenonT(60)
  <2>5. YieldsAll(read[0], bytes, at, values, 0)
    BY <1>3, <2>1, <2>3, <2>4, Zenon DEF YieldsAll
  <2> QED
    BY <2>2, <2>5, Zenon
<1>7. ASSUME NEW i \in 1..n, C(i - 1) PROVE C(i)
  <2> DEFINE a == at + Len(f[i - 1])
             b == at + Len(f[i])
             next == ReadValue(bytes, read[i - 1].at, types[i])
             first == [j \in 1..(i - 1) |-> values[j]]
  <2>1. a \in Nat /\ b \in Nat /\ b = a + Len(seqs[i]) /\ a <= b
    BY <1>5, Beyond, Zenon
  <2>2. read[i] = Got(Append(read[i - 1].value, next.value), next.at)
    BY <1>3, Zenon DEF ReadNext, Extend
  <2>3. types[i] \in Types /\ IsValue(types[i], values[i])
        /\ seqs[i] = Encode(types[i], values[i])
    BY <1>2
  <2>4. Agrees(bytes, a, Encode(types[i], values[i]))
    BY <1>5
  <2>5. read[i - 1].at = Len(bytes) + 1 \/ (a <= Len(bytes) /\ read[i - 1] = Got(first, a))
    BY <1>7, Zenon DEF YieldsAll
  <2> HIDE DEF next, a, b, first
  <2>6. ASSUME next = Fails(bytes) PROVE YieldsAll(read[i], bytes, b, values, i)
    <3>1. read[i].at = Len(bytes) + 1
      BY <2>2, <2>6, GotFields, FailsFields, ZenonT(60)
    <3> QED
      BY <3>1, Zenon DEF YieldsAll
  <2>7. CASE read[i - 1].at = Len(bytes) + 1
    <3>1. next = Fails(bytes)
      BY <2>3, <2>7, PastTheEnd, Zenon DEF next
    <3> QED
      BY <2>6, <3>1, Zenon DEF b
  <2>8. CASE a <= Len(bytes) /\ read[i - 1] = Got(first, a)
    <3>1. YieldsIf(Legible(types[i], values[i]), next, bytes, b, values[i])
      <4>1. YieldsIf(Legible(types[i], values[i]), ReadValue(bytes, a, types[i]), bytes,
                    a + Len(Encode(types[i], values[i])), values[i])
        BY <2>1, <2>3, <2>4, ValueReadsBack, Zenon
      <4>2. next = ReadValue(bytes, a, types[i])
        BY <2>8, GotFields, Zenon DEF next
      <4> QED
        BY <2>1, <2>3, <4>1, <4>2, Zenon
    <3>2. CASE b <= Len(bytes) /\ next = Got(values[i], b)
      <4>1. read[i] = Got(Append(first, values[i]), b)
        <5>1. read[i - 1].value = first
          BY <2>8, GotFields, Zenon
        <5>2. next.value = values[i] /\ next.at = b
          BY <3>2, GotFields, Zenon
        <5> QED
          BY <2>2, <5>1, <5>2, Zenon
      <4>2. Append(first, values[i]) = [j \in 1..i |-> values[j]]
        <5>1. i - 1 \in Nat /\ (i - 1) + 1 = i
          BY <1>1
        <5> QED
          BY <5>1, FirstValues, Zenon DEF first
      <4>3. YieldsAll(read[i], bytes, b, values, i)
        BY <3>2, <4>1, <4>2, Zenon DEF YieldsAll
      <4> QED
        BY <4>3, Zenon DEF b
    <3>3. CASE next = Fails(bytes)
      BY <2>6, <3>3, Zenon DEF b
    <3> QED
      BY <3>1, <3>2, <3>3, Zenon DEF YieldsIf
  <2> QED
    BY <2>5, <2>7, <2>8, Zenon
<1> DEFINE T == {i \in 0..n : ~ C(i)}
<1>8. T = {}
  <2> SUFFICES ASSUME NEW x \in T PROVE FALSE
    OBVIOUS
  <2>1. PICK i \in T : \A y \in T : i <= y
    <3>1. T \subseteq 0..n /\ T # {}
      BY Zenon
    <3> HIDE DEF T
    <3>2. T \subseteq Nat
      BY <1>1, <3>1
    <3> QED
      BY <3>1, <3>2, LeastNat, Zenon
  <2> HIDE DEF C
  <2>2. i \in 0..n /\ ~ C(i)
    BY <2>1
  <2>3. i # 0
    BY <1>6, <2>2
  <2>4. i \in 1..n /\ i - 1 \in 0..n /\ ~ (i <= i - 1)
    BY <1>1, <2>2, <2>3
  <2>5. i - 1 \notin T
    BY <2>1, <2>4
  <2>6. C(i - 1)
    BY <2>4, <2>5
  <2> QED
    BY <1>7, <2>2, <2>4, <2>6
<1>9. C(n)
  <2>1. n \in 0..n
    BY <1>1
  <2> HIDE DEF C
  <2> QED
    BY <1>8, <2>1
<1> QED
  BY <1>3, <1>9, Zenon

\* What is written for a value.
LEMMA EncodedType ==
  ASSUME NEW type \in Types, NEW v, IsValue(type, v)
  PROVE  /\ Encode(type, v) \in Seq(Number)
         /\ Len(Encode(type, v)) \in Nat \ {0}
         /\ type.kind # "Array" => LeastWidth(type) <= Len(Encode(type, v))
<1>1. <<>> \in Seq(Number) /\ 0 \in Nat /\ Len(<<>>) = 0
  OBVIOUS
<1> DEFINE e == Encode(type, v)
<1>2. \A i \in 1..Len(e) : ~ (0 + i <= 0)
  <2>1. \A k \in 1..Len(e) : k \in Int /\ k >= 1
    <3> HIDE DEF e
    <3> QED
      OBVIOUS
  <2> HIDE DEF e
  <2> QED
    BY <2>1
<1>3. Agrees(<<>>, 0, e)
  BY <1>1, <1>2, Zenon DEF Agrees
<1> QED
  BY <1>1, <1>3, ValueReadsBack, Zenon

\* Bytes that agree with two sequences agree with both together.
LEMMA Together ==
  ASSUME NEW bytes \in Seq(Number), NEW at \in Nat,
         NEW s \in Seq(Number), NEW t \in Seq(Number),
         Agrees(bytes, at, s), Agrees(bytes, at + Len(s), t)
  PROVE  Agrees(bytes, at, s \o t)
<1>1. Len(s) \in Nat /\ Len(t) \in Nat /\ Len(bytes) \in Nat /\ Len(s \o t) = Len(s) + Len(t)
  OBVIOUS
<1>2. SUFFICES ASSUME NEW i \in 1..Len(s \o t), at + i <= Len(bytes)
               PROVE  bytes[at + i] = (s \o t)[i]
  BY Zenon DEF Agrees
<1>3. i \in 1..(Len(s) + Len(t))
  BY <1>1, <1>2
<1>4. CASE i <= Len(s)
  <2>1. i \in 1..Len(s)
    BY <1>1, <1>3, <1>4
  <2>2. (s \o t)[i] = s[i]
    BY <2>1
  <2> QED
    BY <1>2, <2>1, <2>2, Zenon DEF Agrees
<1>5. CASE i > Len(s)
  <2> DEFINE j == i - Len(s)
  <2>1. j \in 1..Len(t) /\ at + i = (at + Len(s)) + j
    BY <1>1, <1>3, <1>5
  <2>2. (s \o t)[i] = t[j]
    BY <1>1, <1>3, <1>5
  <2> HIDE DEF j
  <2> QED
    BY <1>2, <2>1, <2>2, Zenon DEF Agrees
<1> QED
  BY <1>1, <1>3, <1>4, <1>5

\* The read of a whole tuple, or a failure.
Found(read, bytes, end, values) ==
    read.at = Len(bytes) + 1 \/ (end <= Len(bytes) /\ read = Got(values, end))

\* Two values, and three.
LEMMA TwoReadBack ==
  ASSUME NEW a \in Types, NEW b \in Types, NEW u, NEW v, IsValue(a, u), IsValue(b, v),
         NEW bytes \in Seq(Number), NEW at \in Nat, at <= Len(bytes) + 1,
         Agrees(bytes, at, Encode(a, u) \o Encode(b, v))
  PROVE  Found(ReadAll(bytes, at, <<a, b>>), bytes,
               at + Len(Encode(a, u) \o Encode(b, v)), <<u, v>>)
<1> DEFINE types == <<a, b>>  values == <<u, v>>  seqs == <<Encode(a, u), Encode(b, v)>>
<1>1. Encode(a, u) \in Seq(Number) /\ Encode(b, v) \in Seq(Number)
  BY EncodedType, Zenon
<1>2. Series(types, values, seqs, 2)
  <2>1. \A i \in 1..2 : i = 1 \/ i = 2
    OBVIOUS
  <2>2. types[1] = a /\ types[2] = b /\ values[1] = u /\ values[2] = v
        /\ seqs[1] = Encode(a, u) /\ seqs[2] = Encode(b, v) /\ Len(types) = 2 /\ 2 \in Nat
    OBVIOUS
  <2> HIDE DEF types, values, seqs
  <2> QED
    BY <1>1, <2>1, <2>2, Zenon DEF Series
<1>3. PICK f \in [0..2 -> Seq(Number)] : Joins(f, seqs, 2)
  <2>1. \A i \in 1..2 : seqs[i] \in Seq(Number)
    BY <1>2, Zenon DEF Series
  <2>2. 2 \in Nat /\ 2 \in 0..2
    OBVIOUS
  <2> HIDE DEF seqs
  <2> QED
    BY <2>1, <2>2, NumbersMonoid, PrefixesExist, Zenon
<1>4. f[2] = Encode(a, u) \o Encode(b, v)
  <2>1. f[0] = <<>> /\ f[1] = f[0] \o seqs[1] /\ f[2] = f[1] \o seqs[2]
    <3>1. 1 \in 1..2 /\ 2 \in 1..2 /\ 1 - 1 = 0 /\ 2 - 1 = 1
      OBVIOUS
    <3> HIDE DEF seqs
    <3> QED
      BY <1>3, <3>1 DEF Joins
  <2>2. <<>> \o Encode(a, u) = Encode(a, u)
    BY <1>1, NumbersMonoid, Zenon DEF Monoid
  <2>3. seqs[1] = Encode(a, u) /\ seqs[2] = Encode(b, v)
    OBVIOUS
  <2> HIDE DEF seqs
  <2> QED
    BY <2>1, <2>2, <2>3, Zenon
<1>5. YieldsAll(ReadAll(bytes, at, types), bytes, at + Len(f[2]), values, 2)
  <2>1. Agrees(bytes, at, f[2])
    BY <1>4, Zenon
  <2> HIDE DEF types, values, seqs
  <2> QED
    BY <1>2, <1>3, <2>1, SeriesReadsBack, Zenon
<1>6. [j \in 1..2 |-> values[j]] = <<u, v>>
  OBVIOUS
<1> HIDE DEF values
<1> QED
  BY <1>4, <1>5, <1>6, Zenon DEF YieldsAll, Found

\* Three values: the range of a descriptor.
LEMMA ThreeReadBack ==
  ASSUME NEW a \in Types, NEW b \in Types, NEW c \in Types, NEW u, NEW v, NEW w,
         IsValue(a, u), IsValue(b, v), IsValue(c, w),
         NEW bytes \in Seq(Number), NEW at \in Nat, at <= Len(bytes) + 1,
         Agrees(bytes, at, Encode(a, u) \o Encode(b, v) \o Encode(c, w))
  PROVE  Found(ReadAll(bytes, at, <<a, b, c>>), bytes,
               at + Len(Encode(a, u) \o Encode(b, v) \o Encode(c, w)), <<u, v, w>>)
<1> DEFINE types == <<a, b, c>>  values == <<u, v, w>>
           seqs == <<Encode(a, u), Encode(b, v), Encode(c, w)>>
<1>1. Encode(a, u) \in Seq(Number) /\ Encode(b, v) \in Seq(Number)
      /\ Encode(c, w) \in Seq(Number)
  BY EncodedType, Zenon
<1>2. Series(types, values, seqs, 3)
  <2>1. \A i \in 1..3 : i = 1 \/ i = 2 \/ i = 3
    OBVIOUS
  <2>2. types[1] = a /\ types[2] = b /\ types[3] = c
        /\ values[1] = u /\ values[2] = v /\ values[3] = w
        /\ seqs[1] = Encode(a, u) /\ seqs[2] = Encode(b, v) /\ seqs[3] = Encode(c, w)
        /\ Len(types) = 3 /\ 3 \in Nat
    OBVIOUS
  <2> HIDE DEF types, values, seqs
  <2> QED
    BY <1>1, <2>1, <2>2, Zenon DEF Series
<1>3. PICK f \in [0..3 -> Seq(Number)] : Joins(f, seqs, 3)
  <2>1. \A i \in 1..3 : seqs[i] \in Seq(Number)
    BY <1>2, Zenon DEF Series
  <2>2. 3 \in Nat /\ 3 \in 0..3
    OBVIOUS
  <2> HIDE DEF seqs
  <2> QED
    BY <2>1, <2>2, NumbersMonoid, PrefixesExist, Zenon
<1>4. f[3] = Encode(a, u) \o Encode(b, v) \o Encode(c, w)
  <2>1. f[0] = <<>> /\ f[1] = f[0] \o seqs[1] /\ f[2] = f[1] \o seqs[2]
        /\ f[3] = f[2] \o seqs[3]
    <3>1. 1 \in 1..3 /\ 2 \in 1..3 /\ 3 \in 1..3 /\ 1 - 1 = 0 /\ 2 - 1 = 1 /\ 3 - 1 = 2
      OBVIOUS
    <3> HIDE DEF seqs
    <3> QED
      BY <1>3, <3>1 DEF Joins
  <2>2. <<>> \o Encode(a, u) = Encode(a, u)
    BY <1>1, NumbersMonoid, Zenon DEF Monoid
  <2>3. seqs[1] = Encode(a, u) /\ seqs[2] = Encode(b, v) /\ seqs[3] = Encode(c, w)
    OBVIOUS
  <2> HIDE DEF seqs
  <2> QED
    BY <2>1, <2>2, <2>3, Zenon
<1>5. YieldsAll(ReadAll(bytes, at, types), bytes, at + Len(f[3]), values, 3)
  <2>1. Agrees(bytes, at, f[3])
    BY <1>4, Zenon
  <2> HIDE DEF types, values, seqs
  <2> QED
    BY <1>2, <1>3, <2>1, SeriesReadsBack, Zenon
<1>6. [j \in 1..3 |-> values[j]] = <<u, v, w>>
  OBVIOUS
<1> HIDE DEF values
<1> QED
  BY <1>4, <1>5, <1>6, Zenon DEF YieldsAll, Found

-----------------------------------------------------------------------------
(* Descriptors: their types, their head and their form.                    *)

\* What comes instead of a dataset agrees with it as far as it goes.
LEMMA SpoiltAgrees ==
  ASSUME NEW e \in Seq(Number), NEW bytes \in Spoilt(e), Len(e) \in Nat \ {0}
  PROVE  /\ bytes \in Seq(Number) /\ Len(bytes) \in Nat
         /\ Len(bytes) \in {Len(e) - 1, Len(e), Len(e) + 1}
         /\ Agrees(bytes, 0, e)
         /\ Len(bytes) = Len(e) => bytes = e
<1>1. 0 \in Number
  BY CodecAssumption DEF Number
<1>2. CASE bytes = e
  <2>1. Agrees(e, 0, e)
    <3>1. \A i \in 1..Len(e) : 0 + i = i
      OBVIOUS
    <3> QED
      BY <3>1, Zenon DEF Agrees
  <2> QED
    BY <1>2, <2>1
<1>3. CASE bytes = Front(e)
  <2> DEFINE n == Len(e) - 1
  <2>0. n \in Int /\ 1 \in Int /\ n >= 0 /\ \A i \in 1..n : i \in 1..Len(e)
    OBVIOUS
  <2>1. bytes = SubSeq(e, 1, n)
    BY <1>3 DEF Front
  <2>4. \A i \in 1..n : e[i] \in Number
    BY <2>0, Sequence, Zenon
  <2> HIDE DEF n
  <2>5. /\ SubSeq(e, 1, n) \in Seq(Number)
        /\ Len(SubSeq(e, 1, n)) = IF 1 <= n THEN n - 1 + 1 ELSE 0
        /\ \A i \in 1..(n - 1 + 1) : SubSeq(e, 1, n)[i] = e[1 + i - 1]
    BY <2>0, <2>4, SubSeqProperties
  <2>6. Len(bytes) = n
    BY <2>0, <2>1, <2>5
  <2>2. bytes \in Seq(Number) /\ Len(bytes) = Len(e) - 1
    BY <2>1, <2>5, <2>6 DEF n
  <2>3. ASSUME NEW i \in 1..Len(e), 0 + i <= Len(bytes) PROVE bytes[0 + i] = e[i]
    <3>1. i \in 1..(n - 1 + 1) /\ 1 + i - 1 = i /\ 0 + i = i
      BY <2>0, <2>3, <2>6
    <3> QED
      BY <2>1, <2>5, <3>1, Zenon
  <2> QED
    BY <2>2, <2>3 DEF Agrees
<1>4. CASE bytes = Append(e, 0)
  <2>1. bytes \in Seq(Number) /\ Len(bytes) = Len(e) + 1
    BY <1>1, <1>4
  <2>2. \A i \in 1..Len(e) : bytes[0 + i] = e[i]
    BY <1>1, <1>4
  <2> QED
    BY <2>1, <2>2 DEF Agrees
<1> QED
  BY <1>2, <1>3, <1>4 DEF Spoilt

\* The ten codes of the scalars.
LEMMA ScalarCodes ==
  /\ \A type \in Scalars : \E code \in 1..10 : ScalarOf(code) = type
  /\ \A code \in 1..10 : ScalarOf(code) \in Scalars
<1>1. /\ ScalarOf(1) = Scalar(TRUE, 1)
      /\ ScalarOf(2) = Scalar(FALSE, 1)
      /\ ScalarOf(3) = Scalar(TRUE, 2)
      /\ ScalarOf(4) = Scalar(FALSE, 2)
      /\ ScalarOf(5) = Scalar(TRUE, 4)
      /\ ScalarOf(6) = Scalar(FALSE, 4)
      /\ ScalarOf(7) = Scalar(TRUE, 8)
      /\ ScalarOf(8) = Scalar(FALSE, 8)
      /\ ScalarOf(9) = Scalar(TRUE, 16)
      /\ ScalarOf(10) = Scalar(FALSE, 16)
  <2>1. Widths[1] = 1 /\ Widths[2] = 2 /\ Widths[3] = 4 /\ Widths[4] = 8 /\ Widths[5] = 16
    BY DEF Widths
  <2>2. /\ \A code \in {1, 3, 5, 7, 9} : (code % 2 = 1) = TRUE
        /\ \A code \in {2, 4, 6, 8, 10} : (code % 2 = 1) = FALSE
    OBVIOUS
  <2>3. /\ (1 + 1) \div 2 = 1 /\ (2 + 1) \div 2 = 1 /\ (3 + 1) \div 2 = 2
        /\ (4 + 1) \div 2 = 2 /\ (5 + 1) \div 2 = 3 /\ (6 + 1) \div 2 = 3
        /\ (7 + 1) \div 2 = 4 /\ (8 + 1) \div 2 = 4 /\ (9 + 1) \div 2 = 5
        /\ (10 + 1) \div 2 = 5
    OBVIOUS
  <2> QED
    BY <2>1, <2>2, <2>3, Zenon DEF ScalarOf
<1>2. ASSUME NEW signed \in BOOLEAN, NEW width \in {1, 2, 4, 8, 16}
      PROVE  Scalar(signed, width) \in Scalars
  <2>1. DOMAIN Widths = 1..5
    BY DEF Widths
  <2>2. ToSet(Widths) = {1, 2, 4, 8, 16}
    BY <2>1 DEF ToSet, Widths
  <2> QED
    BY <1>2, <2>2 DEF Scalars
<1>3. ASSUME NEW code \in 1..10 PROVE ScalarOf(code) \in Scalars
  <2>1. code \in {1, 2, 3, 4, 5, 6, 7, 8, 9, 10}
    OBVIOUS
  <2> QED
    BY <1>1, <1>2, <2>1
<1>4. ASSUME NEW type \in Scalars PROVE \E code \in 1..10 : ScalarOf(code) = type
  <2>1. /\ type.signed \in {TRUE, FALSE} /\ type.width \in {1, 2, 4, 8, 16}
        /\ type = Scalar(type.signed, type.width)
    BY ScalarTypes, Zenon
  <2>2. /\ 1 \in 1..10 /\ 2 \in 1..10 /\ 3 \in 1..10 /\ 4 \in 1..10 /\ 5 \in 1..10
        /\ 6 \in 1..10 /\ 7 \in 1..10 /\ 8 \in 1..10 /\ 9 \in 1..10 /\ 10 \in 1..10
    OBVIOUS
  <2>3. CASE type.signed = TRUE
    BY <1>1, <2>1, <2>2, <2>3, Zenon
  <2>4. CASE type.signed = FALSE
    BY <1>1, <2>1, <2>2, <2>4, Zenon
  <2> QED
    BY <2>1, <2>3, <2>4
<1> QED
  BY <1>3, <1>4

\* The codes of scalars, arrays and strings are apart, and words.
LEMMA CodesApart ==
  /\ ArrayFlag \in Nat /\ ArrayFlag >= 16 /\ StringCode \in Nat /\ StringCode > ArrayFlag + 10
  /\ \A code \in 0..StringCode : code \in Scale(Word)
<1>1. Base \in Nat /\ Base >= 8
  BY CodecAssumption
<1>2. Base * Base \in Nat /\ Base * Base >= 64
  BY <1>1
<1> DEFINE square == Base * Base
<1>3. Power(2) = square
  <2>1. Power(0) = 1 /\ Power(1) = Base * Power(0) /\ Power(2) = Base * Power(1)
    <3>1. 0 \in 0..15 /\ 1 \in 0..15 /\ 0 + 1 = 1 /\ 1 + 1 = 2
      OBVIOUS
    <3> QED
      BY <3>1, PowerSteps, Zenon
  <2>2. Base * 1 = Base
    BY <1>1
  <2> QED
    BY <2>1, <2>2, Zenon
<1>4. Scale(Word) = 0..(Power(2) - 1)
  BY UnitTypes DEF Scale
<1>5. square \in Nat /\ square >= 64
  BY <1>2
<1>6. ArrayFlag = square \div 4 /\ StringCode = square - 1
  BY DEF ArrayFlag, StringCode
<1> HIDE DEF square
<1>7. ArrayFlag \in Nat /\ ArrayFlag >= 16 /\ StringCode \in Nat /\ StringCode > ArrayFlag + 10
  BY <1>5, <1>6
<1> QED
  BY <1>3, <1>4, <1>6, <1>7

\* A type is known by its code (from_code, code).
LEMMA CodesReadBack ==
  ASSUME NEW type \in Types
  PROVE  TypeOf(CodeOf(type)) = type /\ CodeOf(type) \in Scale(Word)
<1>1. /\ ArrayFlag \in Nat /\ ArrayFlag >= 16 /\ StringCode \in Nat
      /\ StringCode > ArrayFlag + 10
      /\ \A code \in 0..StringCode : code \in Scale(Word)
  BY CodesApart
<1>2. CASE type \in Scalars /\ type.kind = "Scalar"
  <2> DEFINE c == CHOOSE code \in 1..10 : ScalarOf(code) = type
  <2>1. CodeOf(type) = c
    BY <1>2 DEF CodeOf
  <2>2. c \in 1..10 /\ ScalarOf(c) = type
    BY <1>2, ScalarCodes, Zenon
  <2> HIDE DEF c
  <2>3. c - ArrayFlag \notin 1..10 /\ c # StringCode /\ c \in 0..StringCode
    BY <1>1, <2>2
  <2>4. TypeOf(c) = type
    BY <2>2, <2>3, Zenon DEF TypeOf
  <2> QED
    BY <1>1, <2>1, <2>3, <2>4, Zenon
<1>3. CASE type.kind = "Array" /\ type.element \in Scalars /\ type = ArrayOf(type.element)
  <2> DEFINE c == CHOOSE code \in 1..10 : ScalarOf(code) = type.element
  <2>1. CodeOf(type) = ArrayFlag + c
    BY <1>3 DEF CodeOf
  <2>2. c \in 1..10 /\ ScalarOf(c) = type.element
    BY <1>3, ScalarCodes, Zenon
  <2> HIDE DEF c
  <2> DEFINE k == ArrayFlag + c
  <2>3. k \notin 1..10 /\ k - ArrayFlag = c /\ k # StringCode /\ k \in 0..StringCode
    BY <1>1, <2>2
  <2> HIDE DEF k
  <2>4. TypeOf(k) = ArrayOf(ScalarOf(c))
    BY <2>2, <2>3, Zenon DEF TypeOf
  <2>5. TypeOf(k) = type
    BY <1>3, <2>2, <2>4, Zenon
  <2> QED
    BY <1>1, <2>1, <2>3, <2>5, Zenon DEF k
<1>4. CASE type = StringType /\ type.kind = "String"
  <2>1. CodeOf(type) = StringCode
    BY <1>4 DEF CodeOf
  <2>2. StringCode \notin 1..10 /\ StringCode - ArrayFlag \notin 1..10
        /\ StringCode \in 0..StringCode
    BY <1>1
  <2>3. TypeOf(StringCode) = StringType
    BY <2>2, Zenon DEF TypeOf
  <2> QED
    BY <1>1, <1>4, <2>1, <2>2, <2>3, Zenon
<1> QED
  BY <1>2, <1>3, <1>4, TypeKinds

\* A read past the last byte is one past the last byte.
LEMMA ByteFails ==
  ASSUME NEW bytes \in Seq(Number), NEW type \in Scalars
  PROVE  ReadScalar(bytes, Len(bytes) + 1, type) = Fails(bytes)
<1>1. Len(bytes) \in Nat /\ type.width \in 1..16
  BY Sequence, ScalarTypes
<1>2. Left(bytes, Len(bytes) + 1) < type.width
  BY <1>1 DEF Left
<1> QED
  BY <1>2, Zenon DEF ReadScalar

\* What is read of a form: a failure, or the form and nothing else.
FormRead(read, bytes, form) == read.at = Len(bytes) + 1 \/ read.value = form

\* When that is known.
LEMMA FormGot ==
  ASSUME NEW bytes, NEW read, NEW form, NEW x, NEW end,
         read = Got(form, end) \/ read = Got(x, Len(bytes) + 1)
  PROVE  FormRead(read, bytes, form)
<1>1. CASE read = Got(form, end)
  <2>1. read.value = form
    BY <1>1, GotFields, Zenon
  <2> QED
    BY <2>1, Zenon DEF FormRead
<1>2. CASE read = Got(x, Len(bytes) + 1)
  <2>1. read.at = Len(bytes) + 1
    BY <1>2, GotFields, Zenon
  <2> QED
    BY <2>1, Zenon DEF FormRead
<1> QED
  BY <1>1, <1>2

\* So is that of a form after a failure.
LEMMA FormFails ==
  ASSUME NEW bytes \in Seq(Number), NEW type
  PROVE  ReadForm(bytes, Len(bytes) + 1, type) = Got([kind |-> "None"], Len(bytes) + 1)
<1>1. Byte \in Scalars
  BY UnitTypes
<1>2. ReadForm(bytes, Len(bytes) + 1, type) = FormAfter(bytes, Fails(bytes), type)
  BY <1>1, ByteFails, Zenon DEF ReadForm
<1>3. FormAfter(bytes, Fails(bytes), type) = Got([kind |-> "None"], Len(bytes) + 1)
  <2>1. Fails(bytes).value = 0 /\ Fails(bytes).at = Len(bytes) + 1
    BY FailsFields, Zenon
  <2> DEFINE kind == Fails(bytes)
  <2>2. kind.value = 0 /\ kind.at = Len(bytes) + 1 /\ kind.value # 1 /\ kind.value # 2
    BY <2>1
  <2> HIDE DEF kind
  <2>3. FormAfter(bytes, kind, type) = Got([kind |-> "None"], Len(bytes) + 1)
    BY <2>2, Zenon DEF FormAfter
  <2> QED
    BY <2>3, Zenon DEF kind
<1> QED
  BY <1>2, <1>3, Zenon

\* The byte before a form.
LEMMA KindReadsBack ==
  ASSUME NEW bytes \in Seq(Number), NEW at \in Nat, NEW n \in {0, 1, 2},
         Agrees(bytes, at, <<n>>), at <= Len(bytes) + 1
  PROVE  \/ ReadScalar(bytes, at, Byte) = Fails(bytes)
         \/ at + 1 <= Len(bytes) /\ ReadScalar(bytes, at, Byte) = Got(n, at + 1)
<1>1. n \in Number
  BY CodecAssumption DEF Number
<1>2. WriteScalar(n, 1) = <<n>>
  BY <1>1, ByteWritten
<1>3. Yields(ReadScalar(bytes, at, Byte), bytes, at + 1, n)
  BY <1>1, <1>2, LengthReadsBack, Zenon
<1> QED
  BY <1>3, Zenon DEF Yields

\* No form is read back as no form.
LEMMA NoFormReadsBack ==
  ASSUME NEW bytes \in Seq(Number), NEW at \in Nat, at <= Len(bytes) + 1, NEW type,
         Agrees(bytes, at, << 0 >>)
  PROVE  FormRead(ReadForm(bytes, at, type), bytes, [kind |-> "None"])
<1> DEFINE kind == ReadScalar(bytes, at, Byte)
<1>1. kind.value = 0
  <2>1. kind = Fails(bytes) \/ kind = Got(0, at + 1)
    BY KindReadsBack
  <2> HIDE DEF kind
  <2> QED
    BY <2>1, FailsFields, GotFields, Zenon
<1>2. ReadForm(bytes, at, type) = FormAfter(bytes, kind, type)
  BY Zenon DEF ReadForm
<1> HIDE DEF kind
<1>3. kind.value # 1 /\ kind.value # 2
  BY <1>1
<1>4. FormAfter(bytes, kind, type) = Got([kind |-> "None"], kind.at)
  BY <1>1, <1>3, Zenon DEF FormAfter
<1> QED
  BY <1>2, <1>4, FormGot, Zenon

\* A range is read back as it is (decode_form).
LEMMA RangeReadsBack ==
  ASSUME NEW bytes \in Seq(Number), NEW at \in Nat, at <= Len(bytes) + 1, NEW type \in Types,
         NEW a, NEW b, NEW c, IsValue(type, a), IsValue(type, b), IsValue(type, c),
         Agrees(bytes, at, << 1 >> \o Encode(type, a) \o Encode(type, b) \o Encode(type, c))
  PROVE  FormRead(ReadForm(bytes, at, type), bytes,
                  [kind |-> "Range", minimum |-> a, maximum |-> b, step |-> c])
<1> DEFINE kind == ReadScalar(bytes, at, Byte)
           ea == Encode(type, a)  eb == Encode(type, b)  ec == Encode(type, c)
           one == <<1>>
<1>1. /\ ea \in Seq(Number) /\ eb \in Seq(Number) /\ ec \in Seq(Number)
      /\ one \in Seq(Number) /\ Len(one) = 1
  <2>1. ea \in Seq(Number) /\ eb \in Seq(Number) /\ ec \in Seq(Number)
    BY EncodedType, Zenon
  <2>2. 1 \in Number
    BY CodecAssumption DEF Number
  <2> HIDE DEF ea, eb, ec
  <2> QED
    BY <2>1, <2>2
<1>2. ReadForm(bytes, at, type) = FormAfter(bytes, kind, type)
  BY Zenon DEF ReadForm
<1>3. Agrees(bytes, at, one) /\ Agrees(bytes, at + 1, ea \o eb \o ec)
  <2> HIDE DEF ea, eb, ec, one
  <2>1. Agrees(bytes, at, one \o ea \o eb \o ec)
    BY DEF ea, eb, ec, one
  <2>2. /\ one \o ea \in Seq(Number) /\ one \o ea \o eb \in Seq(Number)
        /\ ea \o eb \in Seq(Number)
    BY <1>1, NumbersMonoid, Zenon DEF Monoid
  <2>3. Agrees(bytes, at, one \o ea \o eb) /\ Agrees(bytes, at + Len(one \o ea \o eb), ec)
    BY <1>1, <2>1, <2>2, ConcatAgrees, Zenon
  <2>4. Agrees(bytes, at, one \o ea) /\ Agrees(bytes, at + Len(one \o ea), eb)
    BY <1>1, <2>2, <2>3, ConcatAgrees, Zenon
  <2>5. Agrees(bytes, at, one) /\ Agrees(bytes, at + Len(one), ea)
    BY <1>1, <2>4, ConcatAgrees, Zenon
  <2>6. /\ Len(one \o ea) = 1 + Len(ea) /\ Len(one \o ea \o eb) = 1 + Len(ea) + Len(eb)
        /\ Len(ea \o eb) = Len(ea) + Len(eb) /\ Len(ea) \in Nat /\ Len(eb) \in Nat
    <3>1. Len(one \o ea) = Len(one) + Len(ea) /\ Len(one \o ea \o eb) = Len(one \o ea) + Len(eb)
          /\ Len(ea \o eb) = Len(ea) + Len(eb) /\ Len(ea) \in Nat /\ Len(eb) \in Nat
      BY <1>1, <2>2, LengthsAdd, Zenon
    <3> QED
      BY <1>1, <3>1, Zenon
  <2>7. /\ at + Len(one) = at + 1 /\ at + Len(one \o ea) = (at + 1) + Len(ea)
        /\ at + Len(one \o ea \o eb) = (at + 1) + Len(ea \o eb) /\ at + 1 \in Nat
    BY <1>1, <2>6
  <2>8. Agrees(bytes, at + 1, ea \o eb)
    BY <1>1, <2>4, <2>5, <2>7, Together, Zenon
  <2>9. Agrees(bytes, at + 1, ea \o eb \o ec)
    BY <1>1, <2>2, <2>3, <2>7, <2>8, Together, Zenon
  <2> QED
    BY <2>5, <2>9
<1>4. kind = Fails(bytes) \/ (at + 1 <= Len(bytes) /\ kind = Got(1, at + 1))
  BY <1>3, KindReadsBack
<1> HIDE DEF kind
<1>5. CASE kind = Fails(bytes)
  <2>1. kind.value = 0 /\ kind.at = Len(bytes) + 1
    BY <1>5, FailsFields, Zenon
  <2>2. kind.value # 1 /\ kind.value # 2
    BY <2>1
  <2>3. FormAfter(bytes, kind, type) = Got([kind |-> "None"], kind.at)
    BY <2>1, <2>2, Zenon DEF FormAfter
  <2> QED
    BY <1>2, <2>1, <2>3, FormGot, Zenon
<1>6. CASE at + 1 <= Len(bytes) /\ kind = Got(1, at + 1)
  <2> DEFINE read == ReadAll(bytes, at + 1, <<type, type, type>>)
  <2>1. kind.value = 1 /\ kind.at = at + 1
    BY <1>6, GotFields, Zenon
  <2>2. kind.value # 0 /\ kind.value # 2
    BY <2>1
  <2>3. FormAfter(bytes, kind, type) = RangeOf(read)
    BY <2>1, <2>2, Zenon DEF FormAfter
  <2>4. at + 1 \in Nat /\ at + 1 <= Len(bytes) + 1
    BY <1>6, Sequence
  <2>5. Found(read, bytes, (at + 1) + Len(ea \o eb \o ec), <<a, b, c>>)
    BY <1>3, <2>4, ThreeReadBack, Zenon
  <2> HIDE DEF read
  <2>6. CASE read.at = Len(bytes) + 1
    <3>1. \E x : RangeOf(read) = Got(x, Len(bytes) + 1)
      BY <2>6, Zenon DEF RangeOf
    <3> QED
      BY <1>2, <2>3, <3>1, FormGot, Zenon
  <2>7. ASSUME NEW end, read = Got(<<a, b, c>>, end)
        PROVE  FormRead(ReadForm(bytes, at, type), bytes,
                        [kind |-> "Range", minimum |-> a, maximum |-> b, step |-> c])
    <3>1. read.value = <<a, b, c>> /\ read.at = end
      BY <2>7, GotFields, Zenon
    <3>2. read.value[1] = a /\ read.value[2] = b /\ read.value[3] = c
      BY <3>1
    <3>3. RangeOf(read) = Got([kind |-> "Range", minimum |-> a, maximum |-> b, step |-> c], end)
      BY <3>1, <3>2, Zenon DEF RangeOf
    <3> QED
      BY <1>2, <2>3, <3>3, FormGot, Zenon
  <2> QED
    BY <2>5, <2>6, <2>7, Zenon DEF Found
<1> QED
  BY <1>4, <1>5, <1>6

\* What an enumeration is written as.
LEMMA EnumerationWritten ==
  ASSUME NEW type \in Types, NEW values, values \in Seq(ToSet(values)), Len(values) < Power(2),
         \A v \in ToSet(values) : IsValue(type, v)
  PROVE  /\ Len(values) \in Nat /\ Len(values) \in Scale(Word)
         /\ values = [i \in 1..Len(values) |-> values[i]]
         /\ \E f \in [0..Len(values) -> Seq(Number)] : \E seqs :
               /\ Series([i \in 1..Len(values) |-> type], values, seqs, Len(values))
               /\ Joins(f, seqs, Len(values))
               /\ FlattenSeq([i \in DOMAIN values |-> Encode(type, values[i])])
                    = f[Len(values)]
<1> DEFINE n == Len(values)
           seqs == [i \in DOMAIN values |-> Encode(type, values[i])]
           types == [i \in 1..n |-> type]
<1>1. /\ n \in Nat /\ DOMAIN values = 1..n
      /\ \A i \in 1..n : values[i] \in ToSet(values)
      /\ values = [i \in 1..n |-> values[i]]
  BY Sequence, Zenon
<1>2. n \in Scale(Word)
  <2>1. Power(2) \in Nat /\ Scale(Word) = 0..(Power(2) - 1)
    BY PowerType, UnitTypes DEF Scale
  <2> QED
    BY <1>1, <2>1
<1> HIDE DEF n
<1>3. \A i \in 1..n : IsValue(type, values[i]) /\ Encode(type, values[i]) \in Seq(Number)
  BY <1>1, EncodedType, Zenon
<1>4. DOMAIN seqs = 1..n /\ seqs = [i \in 1..n |-> seqs[i]]
      /\ \A i \in 1..n : seqs[i] = Encode(type, values[i]) /\ seqs[i] \in Seq(Number)
  BY <1>1, <1>3, Zenon
<1>5. DOMAIN types = 1..n /\ types = [i \in 1..n |-> types[i]] /\ \A i \in 1..n : types[i] = type
  BY Zenon
<1>6. FlattenSeq([i \in DOMAIN values |-> Encode(type, values[i])]) = FlattenSeq(seqs)
  OBVIOUS
<1> HIDE DEF seqs, types
<1>7. Len(seqs) = n /\ (n = 0 => seqs = <<>>) /\ Len(types) = n
  BY <1>1, <1>4, <1>5, FunctionLength, Zenon
<1>8. PICK f \in [0..n -> Seq(Number)] : Joins(f, seqs, n) /\ FlattenSeq(seqs) = f[n]
  BY <1>1, <1>4, <1>7, NumbersFlatten, Zenon
<1>9. Series(types, values, seqs, n)
  BY <1>1, <1>3, <1>4, <1>5, <1>7, Zenon DEF Series
<1> QED
  BY <1>1, <1>2, <1>6, <1>8, <1>9, Zenon DEF n, types

\* No value is enumerated after a failure.
LEMMA CountFails ==
  ASSUME NEW bytes \in Seq(Number), NEW type \in Types
  PROVE  CountedValues(bytes, Fails(bytes), type) = Fails(bytes)
<1>1. Fails(bytes).value = 0 /\ Fails(bytes).at = Len(bytes) + 1 /\ Len(bytes) \in Nat
  BY FailsFields, Sequence, Zenon
<1>2. type.kind # "Array" => LeastWidth(type) \in Nat
  BY TypeKinds, ScalarTypes DEF LeastWidth
<1>3. type.kind # "Array" => ~ (0 * LeastWidth(type) <= Left(bytes, Len(bytes) + 1))
  <2> DEFINE w == LeastWidth(type)
  <2>1. ASSUME w \in Nat PROVE ~ (0 * w <= Left(bytes, Len(bytes) + 1))
    <3> HIDE DEF w
    <3> QED
      BY <1>1, <2>1 DEF Left
  <2> QED
    BY <1>2, <2>1
<1> QED
  BY <1>1, <1>3, Zenon DEF CountedValues

\* An enumeration is read back as it is, or the descriptor cannot be read.
LEMMA EnumerationReadsBack ==
  ASSUME NEW bytes \in Seq(Number), NEW at \in Nat, at <= Len(bytes) + 1, NEW type \in Types,
         NEW values, values \in Seq(ToSet(values)), Len(values) < Power(2),
         \A v \in ToSet(values) : IsValue(type, v),
         Agrees(bytes, at, << 2 >> \o WriteScalar(Len(values), 2)
                             \o FlattenSeq([i \in DOMAIN values |-> Encode(type, values[i])]))
  PROVE  FormRead(ReadForm(bytes, at, type), bytes,
                  [kind |-> "Enumeration", values |-> values])
<1> DEFINE n == Len(values)
           kind == ReadScalar(bytes, at, Byte)
           count == ReadScalar(bytes, at + 1, Word)
           types == [i \in 1..n |-> type]
           two == <<2>>
           counted == WriteScalar(n, 2)
           flat == FlattenSeq([i \in DOMAIN values |-> Encode(type, values[i])])
           form == [kind |-> "Enumeration", values |-> values]
<1>1. n \in Nat /\ n \in Scale(Word) /\ values = [i \in 1..n |-> values[i]]
  BY EnumerationWritten, Zenon
<1>2. PICK f \in [0..n -> Seq(Number)] : \E seqs :
         Series(types, values, seqs, n) /\ Joins(f, seqs, n) /\ flat = f[n]
  BY EnumerationWritten, Zenon
<1>11. PICK seqs :
         Series(types, values, seqs, n) /\ Joins(f, seqs, n) /\ flat = f[n]
  BY <1>2
<1>3. two \in Seq(Number) /\ Len(two) = 1 /\ counted \in Seq(Number) /\ Len(counted) = 2
      /\ flat \in Seq(Number)
  <2>1. 2 \in Number /\ 2 \in 1..16 /\ n \in Int
    BY <1>1, CodecAssumption DEF Number
  <2>2. counted \in Seq(Number) /\ Len(counted) = 2
    <3> HIDE DEF n
    <3> QED
      BY <2>1, ScalarWritten
  <2>3. two \in Seq(Number) /\ Len(two) = 1
    BY <2>1
  <2>4. flat \in Seq(Number)
    <3>1. n \in 0..n
      BY <1>1
    <3> HIDE DEF flat, n
    <3> QED
      BY <1>11, <3>1
  <2> QED
    BY <2>2, <2>3, <2>4
<1>4. Agrees(bytes, at, two) /\ Agrees(bytes, at + 1, counted) /\ Agrees(bytes, at + 3, flat)
  <2>1. Agrees(bytes, at, two \o counted \o flat)
    OBVIOUS
  <2> HIDE DEF two, counted, flat
  <2>2. two \o counted \in Seq(Number) /\ Len(two \o counted) = 3
    <3>1. two \o counted \in Seq(Number) /\ Len(two \o counted) = Len(two) + Len(counted)
      BY <1>3, Concatenated, Zenon
    <3> QED
      BY <1>3, <3>1
  <2>3. Agrees(bytes, at, two \o counted) /\ Agrees(bytes, at + Len(two \o counted), flat)
    BY <1>3, <2>1, <2>2, ConcatAgrees, Zenon
  <2>4. Agrees(bytes, at, two) /\ Agrees(bytes, at + Len(two), counted)
    BY <1>3, <2>3, ConcatAgrees, Zenon
  <2> QED
    BY <1>3, <2>2, <2>3, <2>4, Zenon
<1>5. kind = Fails(bytes) \/ (at + 1 <= Len(bytes) /\ kind = Got(2, at + 1))
  BY <1>4, KindReadsBack
<1>6. ReadForm(bytes, at, type) = FormAfter(bytes, kind, type)
  BY Zenon DEF ReadForm
<1>7. Yields(count, bytes, at + 3, n)
  <2>1. Word \in Scalars /\ Word.width = 2 /\ at + 1 \in Nat /\ (at + 1) + 2 = at + 3
    BY UnitTypes
  <2> HIDE DEF n
  <2>2. Agrees(bytes, at + 1, WriteScalar(n, Word.width))
    BY <1>4, <2>1, Zenon
  <2>3. Yields(count, bytes, (at + 1) + Word.width, n)
    BY <1>1, <2>1, <2>2, ScalarReadsBack, Zenon
  <2> QED
    BY <2>1, <2>3, Zenon
<1>8. ReadEnumeration(bytes, at + 1, type) = CountedValues(bytes, count, type)
  BY Zenon DEF ReadEnumeration
<1> HIDE DEF kind, count, n, form
<1>9. CASE kind = Fails(bytes)
  <2>1. kind.value = 0 /\ kind.at = Len(bytes) + 1
    BY <1>9, FailsFields, Zenon
  <2>2. kind.value # 1 /\ kind.value # 2
    BY <2>1
  <2>3. FormAfter(bytes, kind, type) = Got([kind |-> "None"], kind.at)
    BY <2>1, <2>2, Zenon DEF FormAfter
  <2> QED
    BY <1>6, <2>1, <2>3, FormGot, Zenon DEF form
<1>10. CASE at + 1 <= Len(bytes) /\ kind = Got(2, at + 1)
  <2> DEFINE read == CountedValues(bytes, count, type)
  <2>1. kind.value = 2 /\ kind.at = at + 1
    BY <1>10, GotFields, Zenon
  <2>2. kind.value # 0 /\ kind.value # 1
    BY <2>1
  <2>3. ReadForm(bytes, at, type) = Got([kind |-> "Enumeration", values |-> read.value], read.at)
    BY <1>6, <1>8, <2>1, <2>2, Zenon DEF FormAfter, EnumerationOf
  <2> HIDE DEF read
  <2>4. CASE read.at = Len(bytes) + 1
    BY <2>3, <2>4, FormGot, Zenon DEF form
  <2>5. CASE read.value = values
    BY <2>3, <2>5, FormGot, Zenon DEF form
  <2>6. CASE count = Fails(bytes)
    <3>1. read = Fails(bytes)
      BY <2>6, CountFails, Zenon DEF read
    <3> QED
      BY <2>4, <3>1, FailsFields, Zenon
  <2>7. CASE at + 3 <= Len(bytes) /\ count = Got(n, at + 3)
    <3>1. count.value = n /\ count.at = at + 3
      BY <2>7, GotFields, Zenon
    <3>2. read = ReadAll(bytes, at + 3, types) \/ read = Fails(bytes)
      BY <3>1, Zenon DEF read, CountedValues
    <3>3. at + 3 \in Nat /\ at + 3 <= Len(bytes) + 1
      BY <2>7, Sequence
    <3>4. Agrees(bytes, at + 3, f[n])
      BY <1>11, <1>4, Zenon
    <3> HIDE DEF types, flat
    <3>5. YieldsAll(ReadAll(bytes, at + 3, types), bytes, (at + 3) + Len(f[n]), values, n)
      BY <1>11, <3>3, <3>4, SeriesReadsBack, Zenon
    <3>6. read = ReadAll(bytes, at + 3, types) => read.at = Len(bytes) + 1 \/ read.value = values
      BY <1>1, <3>5, GotFields, ZenonT(60) DEF YieldsAll
    <3> QED
      BY <2>4, <2>5, <3>2, <3>6, FailsFields, Zenon
  <2> QED
    BY <1>7, <2>6, <2>7, Zenon DEF Yields
<1> QED
  BY <1>5, <1>9, <1>10, Zenon DEF form

\* A form of a descriptor, or a failure.
LEMMA FormReadsBack ==
  ASSUME NEW bytes \in Seq(Number), NEW at \in Nat, at <= Len(bytes) + 1, NEW type \in Types,
         NEW form, IsForm(type, form), Agrees(bytes, at, EncodeForm(form, type))
  PROVE  FormRead(ReadForm(bytes, at, type), bytes, form)
<1>1. CASE form = [kind |-> "None"]
  <2>1. EncodeForm(form, type) = <<0>>
    BY <1>1 DEF EncodeForm
  <2> QED
    BY <1>1, <2>1, NoFormReadsBack, Zenon
<1>2. CASE /\ form.kind = "Range"
           /\ form = [kind |-> "Range", minimum |-> form.minimum,
                      maximum |-> form.maximum, step |-> form.step]
           /\ \A v \in {form.minimum, form.maximum, form.step} : IsValue(type, v)
  <2>1. EncodeForm(form, type)
          = <<1>> \o Encode(type, form.minimum) \o Encode(type, form.maximum)
                  \o Encode(type, form.step)
    BY <1>2 DEF EncodeForm
  <2> DEFINE a == form.minimum  b == form.maximum  c == form.step
  <2>2. IsValue(type, a) /\ IsValue(type, b) /\ IsValue(type, c)
    BY <1>2
  <2>3. form = [kind |-> "Range", minimum |-> a, maximum |-> b, step |-> c]
        /\ Agrees(bytes, at, << 1 >> \o Encode(type, a) \o Encode(type, b) \o Encode(type, c))
    BY <1>2, <2>1, Zenon
  <2> HIDE DEF a, b, c
  <2> QED
    BY <2>2, <2>3, RangeReadsBack, Zenon
<1>3. CASE /\ form.kind = "Enumeration"
           /\ form = [kind |-> "Enumeration", values |-> form.values]
           /\ form.values \in Seq(ToSet(form.values)) /\ Len(form.values) < Power(2)
           /\ \A v \in ToSet(form.values) : IsValue(type, v)
  <2>1. EncodeForm(form, type)
          = <<2>> \o WriteScalar(Len(form.values), 2)
                  \o FlattenSeq([i \in DOMAIN form.values |-> Encode(type, form.values[i])])
    BY <1>3 DEF EncodeForm
  <2> DEFINE vs == form.values
  <2>2. /\ form = [kind |-> "Enumeration", values |-> vs]
        /\ vs \in Seq(ToSet(vs)) /\ Len(vs) < Power(2) /\ \A v \in ToSet(vs) : IsValue(type, v)
        /\ Agrees(bytes, at, << 2 >> \o WriteScalar(Len(vs), 2)
                               \o FlattenSeq([i \in DOMAIN vs |-> Encode(type, vs[i])]))
    BY <1>3, <2>1, Zenon
  <2> HIDE DEF vs
  <2> QED
    BY <2>2, EnumerationReadsBack, Zenon
<1> QED
  BY <1>1, <1>2, <1>3, Zenon DEF IsForm

\* What a form is written as.
LEMMA FormWritten ==
  ASSUME NEW type \in Types, NEW form, IsForm(type, form)
  PROVE  EncodeForm(form, type) \in Seq(Number) /\ Len(EncodeForm(form, type)) \in Nat \ {0}
<1>1. \A n \in {0, 1, 2} : <<n>> \in Seq(Number) /\ Len(<<n>>) = 1
  BY CodecAssumption DEF Number
<1>2. ASSUME NEW n \in {0, 1, 2}, NEW rest \in Seq(Number), NEW e, e = <<n>> \o rest
      PROVE  e \in Seq(Number) /\ Len(e) \in Nat \ {0}
  <2>1. e \in Seq(Number) /\ Len(e) = Len(<<n>>) + Len(rest) /\ Len(rest) \in Nat
    BY <1>1, <1>2, Concatenated, Sequence, Zenon
  <2> QED
    BY <1>1, <2>1
<1>3. CASE form = [kind |-> "None"]
  <2>1. EncodeForm(form, type) = <<0>>
    BY <1>3 DEF EncodeForm
  <2> QED
    BY <1>1, <2>1
<1>4. CASE /\ form.kind = "Range"
           /\ \A v \in {form.minimum, form.maximum, form.step} : IsValue(type, v)
  <2> DEFINE a == Encode(type, form.minimum)  b == Encode(type, form.maximum)
             c == Encode(type, form.step)  one == <<1>>
  <2>1. EncodeForm(form, type) = one \o a \o b \o c
    BY <1>4 DEF EncodeForm
  <2>2. a \in Seq(Number) /\ b \in Seq(Number) /\ c \in Seq(Number)
    BY <1>4, EncodedType, Zenon
  <2>3. one \in Seq(Number) /\ Len(one) = 1
    BY <1>1
  <2> HIDE DEF a, b, c, one
  <2>4. /\ one \o a \in Seq(Number) /\ Len(one \o a) = 1 + Len(a) /\ Len(a) \in Nat
    BY <2>2, <2>3, LengthsAdd, NumbersMonoid, Zenon DEF Monoid
  <2>5. /\ one \o a \o b \in Seq(Number) /\ Len(one \o a \o b) = Len(one \o a) + Len(b)
        /\ Len(b) \in Nat
    BY <2>2, <2>4, LengthsAdd, NumbersMonoid, Zenon DEF Monoid
  <2>6. /\ one \o a \o b \o c \in Seq(Number)
        /\ Len(one \o a \o b \o c) = Len(one \o a \o b) + Len(c) /\ Len(c) \in Nat
    BY <2>2, <2>5, LengthsAdd, NumbersMonoid, Zenon DEF Monoid
  <2>7. Len(one \o a \o b \o c) \in Nat \ {0}
    BY <2>4, <2>5, <2>6
  <2> QED
    BY <2>1, <2>6, <2>7, Zenon
<1>5. CASE /\ form.kind = "Enumeration"
           /\ form.values \in Seq(ToSet(form.values)) /\ Len(form.values) < Power(2)
           /\ \A v \in ToSet(form.values) : IsValue(type, v)
  <2> DEFINE values == form.values  two == <<2>>  counted == WriteScalar(Len(values), 2)
             flat == FlattenSeq([i \in DOMAIN values |-> Encode(type, values[i])])
  <2>1. EncodeForm(form, type) = two \o counted \o flat
    BY <1>5 DEF EncodeForm
  <2>2. Len(values) \in Nat /\ flat \in Seq(Number)
    <3>1. values \in Seq(ToSet(values)) /\ Len(values) < Power(2)
          /\ \A v \in ToSet(values) : IsValue(type, v)
      BY <1>5
    <3> HIDE DEF values
    <3>2. Len(values) \in Nat
      BY <3>1, EnumerationWritten, Zenon
    <3>3. PICK f \in [0..Len(values) -> Seq(Number)] : flat = f[Len(values)]
      BY <3>1, EnumerationWritten, Zenon
    <3>4. Len(values) \in 0..Len(values)
      BY <3>2
    <3> HIDE DEF flat
    <3> QED
      BY <3>2, <3>3, <3>4
  <2>3. counted \in Seq(Number) /\ Len(counted) = 2
    <3>1. Len(values) \in Int /\ 2 \in 1..16
      BY <2>2
    <3> HIDE DEF values
    <3> QED
      BY <3>1, ScalarWritten
  <2>4. two \in Seq(Number) /\ Len(two) = 1
    BY <1>1
  <2> HIDE DEF values, two, counted, flat
  <2>5. two \o counted \in Seq(Number) /\ Len(two \o counted) = Len(two) + Len(counted)
    BY <2>3, <2>4, LengthsAdd, NumbersMonoid, Zenon DEF Monoid
  <2>6. /\ two \o counted \o flat \in Seq(Number)
        /\ Len(two \o counted \o flat) = Len(two \o counted) + Len(flat) /\ Len(flat) \in Nat
    BY <2>2, <2>5, LengthsAdd, NumbersMonoid, Zenon DEF Monoid
  <2>7. Len(two \o counted \o flat) \in Nat \ {0}
    BY <2>3, <2>4, <2>5, <2>6
  <2> QED
    BY <2>1, <2>6, <2>7, Zenon
<1> QED
  BY <1>3, <1>4, <1>5, Zenon DEF IsForm

\* The code, the type and the access of a descriptor are read as scalars.
LEMMA HeadReadsBack ==
  ASSUME NEW bytes \in Seq(Number), 5 <= Len(bytes),
         NEW code \in Scale(Word), NEW type \in Scale(Word), NEW access \in {0, 1},
         Agrees(bytes, 0, WriteScalar(code, 2)), Agrees(bytes, 2, WriteScalar(type, 2)),
         Agrees(bytes, 4, <<access>>)
  PROVE  ReadAll(bytes, 0, <<Word, Word, Byte>>) = Got(<<code, type, access>>, 5)
<1>1. Len(bytes) \in Nat /\ access \in Number
  BY Sequence, CodecAssumption DEF Number
<1>2. ReadScalar(bytes, 0, Word) = Got(code, 2) /\ ReadScalar(bytes, 2, Word) = Got(type, 4)
  <2>1. Word \in Scalars /\ Word.width = 2
    BY UnitTypes
  <2>2. 0 \in Nat /\ 2 \in Nat /\ 0 + 2 = 2 /\ 2 + 2 = 4 /\ 2 <= Len(bytes) /\ 4 <= Len(bytes)
    BY <1>1
  <2>3. Yields(ReadScalar(bytes, 0, Word), bytes, 0 + Word.width, code)
        /\ Yields(ReadScalar(bytes, 2, Word), bytes, 2 + Word.width, type)
    BY <2>1, <2>2, ScalarReadsBack, Zenon
  <2> QED
    BY <2>1, <2>2, <2>3, Zenon DEF Yields
<1>3. ReadScalar(bytes, 4, Byte) = Got(access, 5)
  <2>1. 4 \in Nat /\ 4 + 1 = 5
    OBVIOUS
  <2>2. Agrees(bytes, 4, WriteScalar(access, 1))
    BY <1>1, ByteWritten, Zenon
  <2>3. Yields(ReadScalar(bytes, 4, Byte), bytes, 4 + 1, access)
    BY <1>1, <2>1, <2>2, LengthReadsBack, Zenon
  <2> QED
    BY <2>1, <2>3, Zenon DEF Yields
<1>4. ASSUME NEW at, NEW t \in Scalars PROVE ReadValue(bytes, at, t) = ReadScalar(bytes, at, t)
  <2>1. t.kind = "Scalar"
    BY ScalarTypes
  <2> QED
    BY <2>1 DEF ReadValue
<1> DEFINE types == <<Word, Word, Byte>>
<1>5. Len(types) = 3 /\ types[1] = Word /\ types[2] = Word /\ types[3] = Byte
      /\ Word \in Scalars /\ Byte \in Scalars
  BY UnitTypes
<1> HIDE DEF types
<1>6. PICK read : StepsOf(read, bytes, 0, types, 3)
  BY <1>5, ReadSteps
<1>7. /\ read[0] = Got(<<>>, 0) /\ ReadAll(bytes, 0, types) = read[3]
      /\ read[1] = ReadNext(bytes, read[0], Word) /\ read[2] = ReadNext(bytes, read[1], Word)
      /\ read[3] = ReadNext(bytes, read[2], Byte)
  <2>1. 1 \in 1..3 /\ 2 \in 1..3 /\ 3 \in 1..3 /\ 1 - 1 = 0 /\ 2 - 1 = 1 /\ 3 - 1 = 2
    OBVIOUS
  <2> QED
    BY <1>5, <1>6, <2>1, Zenon DEF StepsOf
<1> DEFINE Scans(at, t, v, end) == ReadScalar(bytes, at, t) = Got(v, end)
<1>8. ASSUME NEW values, NEW at, NEW t \in Scalars, NEW v, NEW end, Scans(at, t, v, end)
      PROVE  ReadNext(bytes, Got(values, at), t) = Got(Append(values, v), end)
  <2> DEFINE r == Got(values, at)
             next == ReadValue(bytes, r.at, t)
  <2>1. r.value = values /\ r.at = at
    BY GotFields, Zenon
  <2>2. next = Got(v, end)
    BY <1>4, <1>8, <2>1, Zenon
  <2>3. ReadNext(bytes, r, t) = Got(Append(r.value, next.value), next.at)
    BY Zenon DEF ReadNext, Extend
  <2> HIDE DEF next, r
  <2>4. next.value = v /\ next.at = end
    BY <2>2, GotFields, Zenon
  <2>5. ReadNext(bytes, r, t) = Got(Append(values, v), end)
    BY <2>1, <2>3, <2>4, Zenon
  <2> QED
    BY <2>5 DEF r
<1>13. /\ Scans(0, Word, code, 2) /\ Scans(2, Word, type, 4) /\ Scans(4, Byte, access, 5)
  BY <1>2, <1>3
<1> HIDE DEF Scans
<1> DEFINE s0 == <<>>
           s1 == Append(s0, code)
           s2 == Append(s1, type)
           s3 == Append(s2, access)
<1>14. read[0] = Got(s0, 0)
  BY <1>7
<1> HIDE DEF s0
<1>9. read[1] = Got(s1, 2)
  <2>1. ReadNext(bytes, Got(s0, 0), Word) = Got(s1, 2)
    BY <1>5, <1>8, <1>13
  <2> HIDE DEF s1
  <2> QED
    BY <1>7, <1>14, <2>1
<1> HIDE DEF s1
<1>10. read[2] = Got(s2, 4)
  <2>1. ReadNext(bytes, Got(s1, 2), Word) = Got(s2, 4)
    BY <1>5, <1>8, <1>13
  <2> HIDE DEF s2
  <2> QED
    BY <1>7, <1>9, <2>1
<1> HIDE DEF s2
<1>11. read[3] = Got(s3, 5)
  <2>1. ReadNext(bytes, Got(s2, 4), Byte) = Got(s3, 5)
    BY <1>5, <1>8, <1>13
  <2> HIDE DEF s3
  <2>2. ReadNext(bytes, read[2], Byte) = Got(s3, 5)
    BY <1>10, <2>1, Zenon
  <2> QED
    BY <1>7, <2>2, Zenon
<1>12. s3 = <<code, type, access>>
  <2> DEFINE values == <<code, type, access>>
             First(i) == [j \in 1..i |-> values[j]]
  <2>1. values[1] = code /\ values[2] = type /\ values[3] = access
    OBVIOUS
  <2>2. First(0) = <<>> /\ First(3) = values
    OBVIOUS
  <2> HIDE DEF values
  <2>3. \A i \in Nat : Append(First(i), values[i + 1]) = First(i + 1)
    BY FirstValues, Zenon
  <2> HIDE DEF First
  <2>4. /\ Append(First(0), values[1]) = First(1) /\ Append(First(1), values[2]) = First(2)
        /\ Append(First(2), values[3]) = First(3)
    <3>1. 0 \in Nat /\ 1 \in Nat /\ 2 \in Nat /\ 0 + 1 = 1 /\ 1 + 1 = 2 /\ 2 + 1 = 3
      OBVIOUS
    <3> QED
      BY <2>3, <3>1, Zenon
  <2>5. s3 = values
    BY <2>1, <2>2, <2>4, Zenon DEF s0, s1, s2
  <2> QED
    BY <2>5 DEF values
<1> QED
  BY <1>7, <1>11, <1>12, Zenon DEF types

\* The parts of a descriptor, in the bytes that come instead of it.
LEMMA DescriptorParts ==
  ASSUME NEW q \in Properties, NEW d, IsDescriptor(d), Codes[q] \in Scale(Word),
         NEW bytes \in Spoilt(EncodeDescriptor(q, d))
  PROVE  /\ bytes \in Seq(Number) /\ 5 <= Len(bytes) /\ Len(bytes) \in Nat
         /\ Agrees(bytes, 0, WriteScalar(Codes[q], 2))
         /\ Agrees(bytes, 2, WriteScalar(CodeOf(d.type), 2))
         /\ Agrees(bytes, 4, <<IF d.writable THEN 1 ELSE 0>>)
         /\ Agrees(bytes, 5, Encode(d.type, d.default) \o Encode(d.type, d.current))
         /\ Agrees(bytes, 5 + Len(Encode(d.type, d.default) \o Encode(d.type, d.current)),
                   EncodeForm(d.form, d.type))
         /\ 5 + Len(Encode(d.type, d.default) \o Encode(d.type, d.current)) \in Nat
<1> DEFINE c == WriteScalar(Codes[q], 2)
           t == WriteScalar(CodeOf(d.type), 2)
           w == <<IF d.writable THEN 1 ELSE 0>>
           a == Encode(d.type, d.default)
           b == Encode(d.type, d.current)
           f == EncodeForm(d.form, d.type)
           e == c \o t \o w \o a \o b \o f
<1>1. d.type \in Types /\ IsValue(d.type, d.default) /\ IsValue(d.type, d.current)
      /\ IsForm(d.type, d.form)
  BY Zenon DEF IsDescriptor
<1>2. /\ c \in Seq(Number) /\ Len(c) = 2 /\ t \in Seq(Number) /\ Len(t) = 2
      /\ w \in Seq(Number) /\ Len(w) = 1
  <2>1. Codes[q] \in Int /\ CodeOf(d.type) \in Int /\ 2 \in 1..16
    BY <1>1, CodesReadBack, UnitTypes, ScaleOfInts
  <2>2. c \in Seq(Number) /\ Len(c) = 2 /\ t \in Seq(Number) /\ Len(t) = 2
    <3> DEFINE x == Codes[q]  y == CodeOf(d.type)
    <3>1. x \in Int /\ y \in Int
      BY <2>1
    <3> HIDE DEF x, y
    <3>2. /\ WriteScalar(x, 2) \in Seq(Number) /\ Len(WriteScalar(x, 2)) = 2
          /\ WriteScalar(y, 2) \in Seq(Number) /\ Len(WriteScalar(y, 2)) = 2
      BY <2>1, <3>1, ScalarWritten, Zenon
    <3> QED
      BY <3>2 DEF x, y
  <2>3. w \in Seq(Number) /\ Len(w) = 1
    BY CodecAssumption DEF Number
  <2> QED
    BY <2>2, <2>3
<1>3. /\ a \in Seq(Number) /\ Len(a) \in Nat \ {0} /\ b \in Seq(Number) /\ Len(b) \in Nat \ {0}
      /\ f \in Seq(Number) /\ Len(f) \in Nat \ {0}
  BY <1>1, EncodedType, FormWritten, Zenon
<1>4. EncodeDescriptor(q, d) = e
  BY Zenon DEF EncodeDescriptor
<1> HIDE DEF c, t, w, a, b, f
<1>5. /\ c \o t \in Seq(Number) /\ c \o t \o w \in Seq(Number) /\ a \o b \in Seq(Number)
      /\ c \o t \o w \o a \in Seq(Number) /\ c \o t \o w \o a \o b \in Seq(Number)
      /\ e \in Seq(Number)
  BY <1>2, <1>3, NumbersMonoid, Zenon DEF Monoid
<1>6. /\ Len(c \o t) = Len(c) + Len(t) /\ Len(c \o t \o w) = Len(c \o t) + Len(w)
      /\ Len(c \o t \o w \o a) = Len(c \o t \o w) + Len(a)
      /\ Len(c \o t \o w \o a \o b) = Len(c \o t \o w \o a) + Len(b)
      /\ Len(e) = Len(c \o t \o w \o a \o b) + Len(f)
      /\ Len(a \o b) = Len(a) + Len(b)
  BY <1>2, <1>3, <1>5, LengthsAdd, Zenon
<1> DEFINE na == Len(a)  nb == Len(b)  nf == Len(f)
<1>7. /\ Len(c \o t) = 4 /\ Len(c \o t \o w) = 5 /\ Len(c \o t \o w \o a) = 5 + na
      /\ Len(c \o t \o w \o a \o b) = 5 + na + nb /\ Len(e) = 5 + na + nb + nf
      /\ Len(a \o b) = na + nb
  <2>1. Len(c \o t) = 4 /\ Len(c \o t \o w) = 5
    BY <1>2, <1>6
  <2> QED
    BY <1>6, <2>1, Zenon
<1>8. na \in Nat \ {0} /\ nb \in Nat \ {0} /\ nf \in Nat \ {0}
  BY <1>3
<1>9. Len(e) \in Nat \ {0} /\ Len(e) >= 8
  <2> HIDE DEF e, na, nb, nf
  <2> QED
    BY <1>7, <1>8
<1>10. /\ bytes \in Seq(Number) /\ Len(bytes) \in Nat /\ Agrees(bytes, 0, e)
       /\ Len(bytes) \in {Len(e) - 1, Len(e), Len(e) + 1}
  <2>1. bytes \in Spoilt(e)
    BY <1>4
  <2> HIDE DEF e
  <2> QED
    BY <1>5, <1>9, <2>1, SpoiltAgrees, Zenon
<1>11. 5 <= Len(bytes)
  <2> HIDE DEF e
  <2> QED
    BY <1>9, <1>10
<1>12. /\ Agrees(bytes, 0, c \o t \o w \o a \o b)
       /\ Agrees(bytes, 0 + Len(c \o t \o w \o a \o b), f)
  BY <1>3, <1>5, <1>10, ConcatAgrees, Zenon
<1>13. /\ Agrees(bytes, 0, c \o t \o w \o a) /\ Agrees(bytes, 0 + Len(c \o t \o w \o a), b)
  BY <1>3, <1>5, <1>10, <1>12, ConcatAgrees, Zenon
<1>14. /\ Agrees(bytes, 0, c \o t \o w) /\ Agrees(bytes, 0 + Len(c \o t \o w), a)
  BY <1>3, <1>5, <1>10, <1>13, ConcatAgrees, Zenon
<1>15. /\ Agrees(bytes, 0, c \o t) /\ Agrees(bytes, 0 + Len(c \o t), w)
  BY <1>2, <1>5, <1>10, <1>14, ConcatAgrees, Zenon
<1>16. /\ Agrees(bytes, 0, c) /\ Agrees(bytes, 0 + Len(c), t)
  BY <1>2, <1>5, <1>10, <1>15, ConcatAgrees, Zenon
<1>17. /\ 0 + Len(c) = 2 /\ 0 + Len(c \o t) = 4 /\ 0 + Len(c \o t \o w) = 5
       /\ 0 + Len(c \o t \o w \o a) = 5 + Len(a)
       /\ 0 + Len(c \o t \o w \o a \o b) = 5 + Len(a \o b) /\ 5 + Len(a \o b) \in Nat
  BY <1>2, <1>7, <1>8
<1>18. Agrees(bytes, 5, a) /\ Agrees(bytes, 5 + Len(a), b)
  BY <1>13, <1>14, <1>17, Zenon
<1>19. Agrees(bytes, 5, a \o b)
  <2>1. 5 \in Nat
    OBVIOUS
  <2> QED
    BY <1>3, <1>10, <1>18, <2>1, Together, Zenon
<1>20. Agrees(bytes, 5 + Len(a \o b), f) /\ Agrees(bytes, 4, w) /\ Agrees(bytes, 2, t)
  BY <1>12, <1>15, <1>16, <1>17, Zenon
<1> QED
  BY <1>10, <1>11, <1>16, <1>17, <1>19, <1>20 DEF a, b, c, f, t, w

\* What is decoded of a descriptor is what was sent (DevicePropDesc::decode).
LEMMA DescriptorReadsBack ==
  ASSUME NEW q \in Properties, NEW d, IsDescriptor(d), Codes[q] \in Scale(Word),
         NEW bytes \in Spoilt(EncodeDescriptor(q, d)), DecodeDescriptor(bytes) # Malformed
  PROVE  DecodeDescriptor(bytes) = [code |-> Codes[q], type |-> d.type,
             writable |-> d.writable, default |-> d.default, current |-> d.current,
             form |-> d.form]
<1> DEFINE access == IF d.writable THEN 1 ELSE 0
           code == CodeOf(d.type)
           type == d.type
           a == Encode(type, d.default)
           b == Encode(type, d.current)
           head == <<Codes[q], code, access>>
           pair == ReadAll(bytes, 5, <<type, type>>)
           end == 5 + Len(a \o b)
           form == ReadForm(bytes, pair.at, type)
<1>1. type \in Types /\ IsValue(type, d.default) /\ IsValue(type, d.current)
      /\ IsForm(type, d.form) /\ d.writable \in BOOLEAN
  BY Zenon DEF IsDescriptor
<1>2. /\ bytes \in Seq(Number) /\ 5 <= Len(bytes) /\ Len(bytes) \in Nat
      /\ Agrees(bytes, 0, WriteScalar(Codes[q], 2)) /\ Agrees(bytes, 2, WriteScalar(code, 2))
      /\ Agrees(bytes, 4, <<access>>) /\ Agrees(bytes, 5, a \o b)
      /\ Agrees(bytes, end, EncodeForm(d.form, type)) /\ end \in Nat
  BY DescriptorParts, Zenon
<1>3. TypeOf(code) = type /\ code \in Scale(Word)
  BY <1>1, CodesReadBack, Zenon
<1>4. access \in {0, 1} /\ (access = 1) = d.writable
  BY <1>1
<1> HIDE DEF access, code, type, a, b
<1>5. ReadAll(bytes, 0, <<Word, Word, Byte>>) = Got(head, 5)
  BY <1>2, <1>3, <1>4, HeadReadsBack, Zenon
<1>6. head[1] = Codes[q] /\ head[2] = code /\ head[3] = access
  OBVIOUS
<1> HIDE DEF head
<1>7. DecodeDescriptor(bytes) = Accept(bytes, head, type, pair.value, form)
  <2>1. Got(head, 5).value = head /\ Got(head, 5).at = 5
    BY GotFields, Zenon
  <2>2. DecodeDescriptor(bytes) = ReadTyped(bytes, Got(head, 5), type)
    BY <1>3, <1>5, <1>6, <2>1, Zenon DEF DecodeDescriptor, ReadHead
  <2>3. type # Malformed /\ DecodeDescriptor(bytes) = ReadBody(bytes, head, type, pair)
    BY <2>1, <2>2, Zenon DEF ReadTyped
  <2> QED
    BY <2>3, Zenon DEF ReadBody
<1>8. /\ form.at = Len(bytes)
      /\ DecodeDescriptor(bytes) = Assemble(head, type, pair.value, form.value)
  <2> HIDE DEF pair, form
  <2> QED
    BY <1>7, Zenon DEF Accept
<1>9. Found(pair, bytes, end, <<d.default, d.current>>)
  <2>1. 5 \in Nat /\ 5 <= Len(bytes) + 1
    BY <1>2
  <2> QED
    BY <1>1, <1>2, <2>1, TwoReadBack, Zenon DEF a, b
<1> HIDE DEF pair, end
<1>10. pair.at # Len(bytes) + 1
  <2>1. ASSUME pair.at = Len(bytes) + 1 PROVE form.at = Len(bytes) + 1
    <3>1. form = Got([kind |-> "None"], Len(bytes) + 1)
      BY <1>2, <2>1, FormFails, Zenon
    <3> HIDE DEF form
    <3> QED
      BY <3>1, GotFields, Zenon
  <2> HIDE DEF form
  <2> QED
    BY <1>2, <1>8, <2>1
<1>11. end <= Len(bytes) /\ pair.value = <<d.default, d.current>> /\ pair.at = end
  <2>1. end <= Len(bytes) /\ pair = Got(<<d.default, d.current>>, end)
    BY <1>9, <1>10, Zenon DEF Found
  <2> QED
    BY <2>1, GotFields, Zenon
<1>12. FormRead(form, bytes, d.form)
  <2>1. end <= Len(bytes) + 1
    BY <1>2, <1>11
  <2> QED
    BY <1>1, <1>2, <1>11, <2>1, FormReadsBack, Zenon
<1> HIDE DEF form
<1>13. form.value = d.form
  <2>1. form.at # Len(bytes) + 1
    BY <1>2, <1>8
  <2> QED
    BY <1>12, <2>1, Zenon DEF FormRead
<1>14. pair.value[1] = d.default /\ pair.value[2] = d.current
  BY <1>11
<1> QED
  BY <1>4, <1>6, <1>8, <1>13, <1>14 DEF Assemble, type

-----------------------------------------------------------------------------
(* The datasets of a preflight, and the live values.                       *)

\* A whole value, read from all the bytes there are.
LEMMA ReadToTheEnd ==
  ASSUME NEW bytes \in Seq(Number), NEW read, NEW v, NEW n \in Nat, NEW legible,
         YieldsIf(legible, read, bytes, n, v), Exact(bytes, read) # Malformed
  PROVE  Len(bytes) = n /\ read = Got(v, n)
<1>1. Len(bytes) \in Nat
  BY Sequence
<1>2. read.at = Len(bytes)
  BY Zenon DEF Exact
<1>3. read # Fails(bytes)
  <2>1. Fails(bytes).at = Len(bytes) + 1
    BY FailsFields, Zenon
  <2>2. Len(bytes) # Len(bytes) + 1
    BY <1>1
  <2> QED
    BY <1>2, <2>1, <2>2, Zenon
<1>4. read = Got(v, n)
  BY <1>3, Zenon DEF YieldsIf
<1>5. read.at = n
  BY <1>4, GotFields, Zenon
<1> QED
  BY <1>2, <1>4, <1>5, Zenon

\* A live value that is read without its descriptor has come as it is: a byte
\* less or more would be missed or left over (Exact, decode_exact).
LEMMA LiveReadsBack ==
  ASSUME NEW type \in Types, NEW v, IsValue(type, v), NEW pinned, Alike(pinned, type),
         pinned.kind \in {"Scalar", "String"}, NEW bytes \in Spoilt(Encode(type, v)),
         Reading(bytes, pinned) # Malformed
  PROVE  bytes = Encode(type, v)
<1> DEFINE e == Encode(type, v)
<1>1. e \in Seq(Number) /\ Len(e) \in Nat \ {0}
  BY EncodedType, Zenon
<1>2. /\ bytes \in Seq(Number) /\ Len(bytes) \in Nat /\ Agrees(bytes, 0, e)
      /\ Len(bytes) = Len(e) => bytes = e
  <2> HIDE DEF e
  <2> QED
    BY <1>1, SpoiltAgrees, Zenon DEF e
<1>3. CASE pinned.kind = "Scalar"
  <2>1. pinned \in Scalars /\ type \in Scalars /\ pinned.width = type.width
    BY <1>3, TypeKinds, Zenon DEF Alike
  <2>2. Len(e) = type.width
    <3>1. type.kind = "Scalar" /\ type.width \in 1..16 /\ v \in Int
      BY <2>1, ScalarTypes, ComplementReadsBack DEF IsValue
    <3>2. e = WriteScalar(v, type.width)
      BY <3>1 DEF Encode
    <3> DEFINE w == type.width
    <3>3. w \in 1..16
      BY <3>1
    <3> HIDE DEF w
    <3>4. Len(WriteScalar(v, w)) = w
      BY <3>1, <3>3, ScalarWritten, Zenon
    <3> QED
      BY <3>2, <3>4 DEF w
  <2>3. Reading(bytes, pinned) = Exact(bytes, ReadScalar(bytes, 0, pinned))
    BY <1>3, Zenon DEF Reading, ReadValue
  <2>4. \E u : YieldsIf(TRUE, ReadScalar(bytes, 0, pinned), bytes, pinned.width, u)
    <3> DEFINE w == pinned.width
    <3>1. w \in 1..16
      BY <2>1, ScalarTypes
    <3>2. CASE Len(bytes) < w
      <4>1. Left(bytes, 0) < w
        <5> HIDE DEF w
        <5> QED
          BY <1>2, <3>2 DEF Left
      <4>2. ReadScalar(bytes, 0, pinned) = Fails(bytes)
        BY <4>1, Zenon DEF ReadScalar
      <4>3. ~ (w <= Len(bytes))
        <5> HIDE DEF w
        <5> QED
          BY <1>2, <3>1, <3>2
      <4> QED
        BY <4>2, <4>3, Zenon DEF YieldsIf
    <3>3. CASE Len(bytes) >= w
      <4>1. ~ (Left(bytes, 0) < w) /\ 0 + w = w /\ w <= Len(bytes)
        <5> HIDE DEF w
        <5> QED
          BY <1>2, <3>1, <3>3 DEF Left
      <4>2. \E u : ReadScalar(bytes, 0, pinned) = Got(u, 0 + w)
        BY <4>1, Zenon DEF ReadScalar
      <4> QED
        BY <4>1, <4>2, Zenon DEF YieldsIf
    <3>4. Len(bytes) < w \/ Len(bytes) >= w
      <4> HIDE DEF w
      <4> QED
        BY <1>2, <3>1
    <3> QED
      BY <3>2, <3>3, <3>4, Zenon
  <2>5. Len(bytes) = pinned.width
    <3>1. pinned.width \in Nat
      BY <2>1, ScalarTypes
    <3> QED
      BY <1>2, <2>3, <2>4, <3>1, ReadToTheEnd, Zenon
  <2> QED
    BY <1>2, <2>1, <2>2, <2>5
<1>4. CASE pinned.kind = "String"
  <2>1. type = pinned /\ type.kind = "String" /\ IsText(v)
    BY <1>4, ScalarTypes DEF Alike, IsValue
  <2>2. e = WriteString(v)
    BY <2>1 DEF Encode
  <2>3. Reading(bytes, pinned) = Exact(bytes, ReadString(bytes, 0))
    BY <1>4 DEF Reading, ReadValue
  <2>4. YieldsIf(IsUtf16(v), ReadString(bytes, 0), bytes, Len(e), v)
    <3>1. 0 \in Nat /\ 0 + Len(e) = Len(e)
      <4> HIDE DEF e
      <4> QED
        BY <1>1
    <3> QED
      BY <1>2, <2>1, <2>2, <3>1, StringReadsBack, Zenon
  <2>5. Len(bytes) = Len(e)
    <3> HIDE DEF e
    <3> QED
      BY <1>1, <1>2, <2>3, <2>4, ReadToTheEnd, Zenon
  <2> QED
    BY <1>2, <2>5
<1> QED
  BY <1>3, <1>4

\* What is encoded is read back (encode, decode_exact), if the decoder takes it
\* at all: a text of UTF-16, an array within the budget.
THEOREM EncodedReadsBack ==
  ASSUME NEW type \in Types, NEW v, IsValue(type, v), Legible(type, v)
  PROVE  Reading(Encode(type, v), type) = v
<1> DEFINE e == Encode(type, v)
<1>1. e \in Seq(Number) /\ Len(e) \in Nat \ {0}
  BY EncodedType, Zenon
<1> HIDE DEF e
<1>2. Agrees(e, 0, e) /\ 0 \in Nat /\ 0 + Len(e) = Len(e) /\ Len(e) <= Len(e)
  BY <1>1 DEF Agrees
<1>3. YieldsIf(Legible(type, v), ReadValue(e, 0, type), e, Len(e), v)
  BY <1>1, <1>2, ValueReadsBack, Zenon DEF e
<1>4. ReadValue(e, 0, type) = Got(v, Len(e))
  BY <1>2, <1>3, Zenon DEF YieldsIf
<1>5. ReadValue(e, 0, type).value = v /\ ReadValue(e, 0, type).at = Len(e)
  BY <1>4, GotFields, Zenon
<1>6. Reading(e, type) = v
  BY <1>5, Zenon DEF Reading, Exact
<1> QED
  BY <1>6 DEF e

\* The five fields of device information, one encoding after the other.
LEMMA InfoFields ==
  ASSUME NEW info, IsInfo(info)
  PROVE  \E seqs, f : 
            /\ f \in [0..5 -> Seq(Number)]
            /\ Series(InfoTypes, <<info.operations, info.properties, info.model,
                                   info.version, info.serial>>, seqs, 5)
            /\ Joins(f, seqs, 5)
            /\ f[5] = EncodeInfo(info) /\ Len(f[5]) \in Nat \ {0}
<1> DEFINE o == WriteArray(info.operations, 2)  p == WriteArray(info.properties, 2)
           m == WriteString(info.model)  v == WriteString(info.version)
           s == WriteString(info.serial)
           seqs == <<o, p, m, v, s>>
           values == <<info.operations, info.properties, info.model,
                       info.version, info.serial>>
           words == ArrayOf(Word)
<1>1. /\ words \in Types /\ words.kind = "Array" /\ words.element = Word
      /\ StringType \in Types /\ StringType.kind = "String" /\ Word.width = 2
  BY UnitTypes DEF ArrayOf, StringType, Types
<1>2. /\ IsValue(words, info.operations) /\ IsValue(words, info.properties)
      /\ IsValue(StringType, info.model) /\ IsValue(StringType, info.version)
      /\ IsValue(StringType, info.serial)
  BY <1>1, Zenon DEF IsInfo, IsValue
<1>3. ASSUME NEW x PROVE Encode(words, x) = WriteArray(x, 2) /\ Encode(StringType, x) = WriteString(x)
  BY <1>1 DEF Encode
<1>4. /\ o = Encode(words, info.operations) /\ p = Encode(words, info.properties)
      /\ m = Encode(StringType, info.model) /\ v = Encode(StringType, info.version)
      /\ s = Encode(StringType, info.serial)
  BY <1>3, Zenon
<1>5. /\ o \in Seq(Number) /\ p \in Seq(Number) /\ m \in Seq(Number) /\ v \in Seq(Number)
      /\ s \in Seq(Number) /\ Len(s) \in Nat \ {0}
  BY <1>1, <1>2, <1>4, EncodedType, Zenon
<1>6. EncodeInfo(info) = o \o p \o m \o v \o s
  BY Zenon DEF EncodeInfo
<1>7. /\ InfoTypes[1] = words /\ InfoTypes[2] = words /\ InfoTypes[3] = StringType
      /\ InfoTypes[4] = StringType /\ InfoTypes[5] = StringType /\ Len(InfoTypes) = 5
      /\ values[1] = info.operations /\ values[2] = info.properties
      /\ values[3] = info.model /\ values[4] = info.version /\ values[5] = info.serial
      /\ seqs[1] = o /\ seqs[2] = p /\ seqs[3] = m /\ seqs[4] = v /\ seqs[5] = s
  <2> HIDE DEF words, o, p, m, v, s
  <2> QED
    BY DEF InfoTypes, words
<1> HIDE DEF words, o, p, m, v, s, values, seqs
<1>8. Series(InfoTypes, values, seqs, 5)
  <2>1. /\ \A i \in 1..5 : i = 1 \/ i = 2 \/ i = 3 \/ i = 4 \/ i = 5
        /\ 5 \in Nat
    OBVIOUS
  <2> QED
    BY <1>1, <1>2, <1>4, <1>5, <1>7, <2>1, Zenon DEF Series
<1>9. PICK f \in [0..5 -> Seq(Number)] : Joins(f, seqs, 5)
  <2>1. \A i \in 1..5 : seqs[i] \in Seq(Number)
    BY <1>8, Zenon DEF Series
  <2>2. 5 \in Nat /\ 5 \in 0..5
    OBVIOUS
  <2> QED
    BY <2>1, <2>2, NumbersMonoid, PrefixesExist, Zenon
<1>10. f[5] = o \o p \o m \o v \o s
  <2>1. f[0] = <<>> /\ f[1] = f[0] \o seqs[1] /\ f[2] = f[1] \o seqs[2]
        /\ f[3] = f[2] \o seqs[3] /\ f[4] = f[3] \o seqs[4] /\ f[5] = f[4] \o seqs[5]
    <3>1. 1 \in 1..5 /\ 2 \in 1..5 /\ 3 \in 1..5 /\ 4 \in 1..5 /\ 5 \in 1..5
          /\ 1 - 1 = 0 /\ 2 - 1 = 1 /\ 3 - 1 = 2 /\ 4 - 1 = 3 /\ 5 - 1 = 4
      OBVIOUS
    <3> QED
      BY <1>9, <3>1, Zenon DEF Joins
  <2>2. <<>> \o o = o
    BY <1>5, NumbersMonoid, Zenon DEF Monoid
  <2> QED
    BY <1>7, <2>1, <2>2, Zenon
<1>11. Len(f[5]) \in Nat \ {0}
  <2>1. /\ o \o p \in Seq(Number) /\ o \o p \o m \in Seq(Number)
        /\ o \o p \o m \o v \in Seq(Number)
    BY <1>5, NumbersMonoid, Zenon DEF Monoid
  <2>2. Len(f[5]) = Len(o \o p \o m \o v) + Len(s) /\ Len(o \o p \o m \o v) \in Nat
    BY <1>5, <1>10, <2>1, LengthsAdd, Zenon
  <2> QED
    BY <1>5, <2>2
<1> QED
  BY <1>6, <1>8, <1>9, <1>10, <1>11, Zenon DEF values

\* What is decoded of device information is what was sent (DeviceInfo).
LEMMA InfoReadsBack ==
  ASSUME NEW info, IsInfo(info), NEW bytes \in Spoilt(EncodeInfo(info)),
         DecodeInfo(bytes) # Malformed
  PROVE  /\ DecodeInfo(bytes).model = info.model
         /\ DecodeInfo(bytes).version = info.version
         /\ DecodeInfo(bytes).serial = info.serial
<1> DEFINE values == <<info.operations, info.properties, info.model,
                       info.version, info.serial>>
           read == ReadAll(bytes, 0, InfoTypes)
           first == [j \in 1..5 |-> values[j]]
<1>1. PICK seqs, f :
         /\ f \in [0..5 -> Seq(Number)] /\ Series(InfoTypes, values, seqs, 5)
         /\ Joins(f, seqs, 5) /\ f[5] = EncodeInfo(info) /\ Len(f[5]) \in Nat \ {0}
  BY InfoFields, Zenon
<1>2. bytes \in Seq(Number) /\ Len(bytes) \in Nat /\ Agrees(bytes, 0, f[5])
  <2>1. f[5] \in Seq(Number)
    <3>1. 5 \in 0..5
      OBVIOUS
    <3> QED
      BY <1>1, <3>1, Zenon
  <2> QED
    BY <1>1, <2>1, SpoiltAgrees, Zenon
<1>3. DecodeInfo(bytes) = InfoFrom(read.value) /\ read.at = Len(bytes)
  BY Zenon DEF DecodeInfo, InfoOfAll
<1>4. YieldsAll(read, bytes, 0 + Len(f[5]), values, 5)
  <2>1. 0 \in Nat /\ 0 <= Len(bytes) + 1
    BY <1>2
  <2> HIDE DEF values
  <2> QED
    BY <1>1, <1>2, <2>1, SeriesReadsBack, Zenon
<1> HIDE DEF read
<1>5. read.value = first
  <2>1. read.at # Len(bytes) + 1
    BY <1>2, <1>3
  <2>2. \E end : read = Got(first, end)
    BY <1>4, <2>1, Zenon DEF YieldsAll
  <2> QED
    BY <2>2, GotFields, Zenon
<1>6. first[3] = info.model /\ first[4] = info.version /\ first[5] = info.serial
  OBVIOUS
<1> HIDE DEF first
<1> QED
  BY <1>3, <1>5, <1>6 DEF InfoFrom

\* The number of fields is a signed number of two bytes.
LEMMA CountType == Scalar(TRUE, 2) \in Scalars /\ Scalar(TRUE, 2).width = 2
<1>1. DOMAIN Widths = 1..5
  BY DEF Widths
<1>2. ToSet(Widths) = {1, 2, 4, 8, 16}
  BY <1>1 DEF ToSet, Widths
<1>3. \A signed \in BOOLEAN : Scalar(signed, 2) \in Scalars
  BY <1>2 DEF Scalars
<1>4. \A signed : Scalar(signed, 2).width = 2
  BY DEF Scalar
<1> QED
  BY <1>3, <1>4, Zenon

\* The parts of a conversion profile, in the bytes that come instead of it.
LEMMA EnvelopeParts ==
  ASSUME NEW layout, IsLayout(layout), NEW bytes \in Spoilt(Envelope(layout))
  PROVE  /\ bytes \in Seq(Number) /\ Len(bytes) \in Nat
         /\ Agrees(bytes, 0, WriteScalar(layout.count, 2))
         /\ Agrees(bytes, 2, WriteExactString(layout.code))
         /\ Len(WriteExactString(layout.code)) \in Nat /\ PayloadSize(layout) \in Nat
         /\ Len(bytes) - (2 + Len(WriteExactString(layout.code)) + PayloadSize(layout))
              \in {-1, 0, 1}
<1> DEFINE c == WriteScalar(layout.count, 2)
           t == WriteExactString(layout.code)
           n == PayloadSize(layout)
           z == [i \in 1..n |-> 0]
           e == c \o t \o z
<1>1. c \in Seq(Number) /\ Len(c) = 2
  <2>1. Scalar(TRUE, 2) \in Scalars
    BY CountType, Zenon
  <2>2. layout.count \in Int /\ 2 \in 1..16
    <3>1. layout.count \in Scale(Scalar(TRUE, 2))
      BY Zenon DEF IsLayout
    <3>2. layout.count \in Int
      BY <2>1, <3>1, ScaleOfInts, Zenon DEF IsLayout
    <3> QED
      BY <3>2
  <2> DEFINE x == layout.count
  <2>3. x \in Int
    BY <2>2
  <2> HIDE DEF x
  <2>4. WriteScalar(x, 2) \in Seq(Number) /\ Len(WriteScalar(x, 2)) = 2
    BY <2>2, <2>3, ScalarWritten, Zenon
  <2> QED
    BY <2>4 DEF x
<1>2. t \in Seq(Number) /\ Len(t) \in Nat
  <2>1. <<>> \in Seq(Number) /\ 0 \in Nat /\ IsText(layout.code)
    BY DEF IsLayout
  <2> HIDE DEF t
  <2>2. Agrees(<<>>, 0, t)
    <3>1. \A i \in 1..Len(t) : ~ (0 + i <= Len(<<>>))
      OBVIOUS
    <3> QED
      BY <3>1, Zenon DEF Agrees
  <2>3. t \in Seq(Number)
    BY <2>1, <2>2, ExactStringReadsBack, Zenon DEF t
  <2> QED
    BY <2>3, Sequence
<1>3. n \in Nat
  <2>1. layout.padding \in Nat /\ layout.slots \in Nat
    BY DEF IsLayout
  <2> QED
    BY <2>1 DEF PayloadSize
<1> HIDE DEF n
<1>4. z \in Seq(Number) /\ Len(z) = n
  <2>1. 0 \in Number
    BY CodecAssumption DEF Number
  <2> QED
    BY <1>3, <2>1
<1>5. Envelope(layout) = e
  BY Zenon DEF Envelope, n
<1> HIDE DEF c, t, z
<1>6. c \o t \in Seq(Number) /\ e \in Seq(Number)
  BY <1>1, <1>2, <1>4, NumbersMonoid, Zenon DEF Monoid
<1>7. Len(c \o t) = Len(c) + Len(t) /\ Len(e) = Len(c \o t) + Len(z)
  BY <1>1, <1>2, <1>4, <1>6, LengthsAdd, Zenon
<1>8. Len(e) = 2 + Len(t) + n
  BY <1>1, <1>4, <1>7, Zenon
<1> DEFINE k == Len(t)
<1>9. k \in Nat
  BY <1>2
<1>10. /\ bytes \in Seq(Number) /\ Len(bytes) \in Nat /\ Agrees(bytes, 0, e)
       /\ Len(bytes) \in {Len(e) - 1, Len(e), Len(e) + 1}
  <2>1. Len(e) \in Nat \ {0}
    <3> HIDE DEF e, k
    <3> QED
      BY <1>3, <1>8, <1>9 DEF k
  <2>2. bytes \in Spoilt(e)
    BY <1>5
  <2> HIDE DEF e
  <2> QED
    BY <1>6, <2>1, <2>2, SpoiltAgrees, Zenon
<1>11. Agrees(bytes, 0, c) /\ Agrees(bytes, 2, t)
  <2>1. Agrees(bytes, 0, c \o t)
    BY <1>4, <1>6, <1>10, ConcatAgrees, Zenon
  <2>2. Agrees(bytes, 0, c) /\ Agrees(bytes, 0 + Len(c), t)
    BY <1>1, <1>2, <1>10, <2>1, ConcatAgrees, Zenon
  <2>3. 0 + Len(c) = 2
    BY <1>1
  <2> QED
    BY <2>2, <2>3, Zenon
<1>12. Len(bytes) - (2 + k + n) \in {-1, 0, 1}
  <2> DEFINE size == Len(bytes)
  <2>1. size \in {(2 + k + n) - 1, 2 + k + n, (2 + k + n) + 1}
    BY <1>8, <1>10, Zenon
  <2> HIDE DEF size, k
  <2>2. size - (2 + k + n) \in {-1, 0, 1}
    BY <1>3, <1>9, <2>1
  <2> QED
    BY <2>2 DEF size
<1> QED
  BY <1>3, <1>9, <1>10, <1>11, <1>12 DEF c, t, n

\* The head of a conversion profile is what was sent, and it is followed by as
\* many bytes, but for the one that may be missing or left over
\* (validate_raw_conversion_live_envelope).
LEMMA LayoutReadsBack ==
  ASSUME NEW layout, IsLayout(layout), NEW bytes \in Spoilt(Envelope(layout)),
         NEW pinned, IsEnvelopeOf(bytes, pinned)
  PROVE  /\ layout.count = pinned.count /\ layout.code = pinned.code
         /\ PayloadSize(layout) - PayloadSize(pinned) \in {-1, 0, 1}
<1> DEFINE short == Scalar(TRUE, 2)
           t == WriteExactString(layout.code)
           count == ReadScalar(bytes, 0, short)
           code == ReadExactString(bytes, count.at)
<1>1. /\ bytes \in Seq(Number) /\ Len(bytes) \in Nat
      /\ Agrees(bytes, 0, WriteScalar(layout.count, 2)) /\ Agrees(bytes, 2, t)
      /\ Len(t) \in Nat /\ PayloadSize(layout) \in Nat
      /\ Len(bytes) - (2 + Len(t) + PayloadSize(layout)) \in {-1, 0, 1}
  BY EnvelopeParts, Zenon
<1>2. /\ code.at <= Len(bytes) /\ count.value = pinned.count /\ code.value = pinned.code
      /\ Left(bytes, code.at) = PayloadSize(pinned)
  BY Zenon DEF IsEnvelopeOf, CountFits, HeadFits
<1>3. short \in Scalars /\ short.width = 2
  BY CountType, Zenon
<1>4. Yields(count, bytes, 2, layout.count)
  <2>1. layout.count \in Scale(short) /\ 0 \in Nat /\ 0 + 2 = 2
    <3>1. layout.count \in Scale(short)
      BY Zenon DEF IsLayout
    <3>2. 0 \in Nat /\ 0 + 2 = 2
      OBVIOUS
    <3> QED
      BY <3>1, <3>2, Zenon
  <2> HIDE DEF short
  <2>2. Agrees(bytes, 0, WriteScalar(layout.count, short.width))
    BY <1>1, <1>3, Zenon
  <2>3. Yields(count, bytes, 0 + short.width, layout.count)
    BY <1>1, <1>3, <2>1, <2>2, ScalarReadsBack, Zenon
  <2> QED
    BY <1>3, <2>1, <2>3, Zenon
<1> HIDE DEF short, count, t
<1>5. code # Fails(bytes)
  <2>1. Fails(bytes).at = Len(bytes) + 1
    BY FailsFields, Zenon
  <2>2. ~ (Len(bytes) + 1 <= Len(bytes))
    BY <1>1
  <2> QED
    BY <1>2, <2>1, <2>2, Zenon
<1>6. count # Fails(bytes)
  <2>1. SUFFICES ASSUME count = Fails(bytes) PROVE code = Fails(bytes)
    BY <1>5
  <2>2. count.at = Len(bytes) + 1
    BY <2>1, FailsFields, Zenon
  <2>3. ReadScalar(bytes, Len(bytes) + 1, Byte) = Fails(bytes)
    BY <1>1, UnitTypes, ByteFails, Zenon
  <2>4. ReadExactString(bytes, Len(bytes) + 1) = ExactUnits(bytes, Fails(bytes))
    BY <2>3, Zenon DEF ReadExactString
  <2> QED
    BY <1>1, <2>2, <2>4, LengthFails, Zenon
<1>7. count.value = layout.count /\ count.at = 2
  <2>1. count = Got(layout.count, 2)
    BY <1>4, <1>6, Zenon DEF Yields
  <2> QED
    BY <2>1, GotFields, Zenon
<1>8. YieldsIf(IsUtf16(layout.code), code, bytes, 2 + Len(t), layout.code)
  <2>1. IsText(layout.code) /\ 2 \in Nat
    BY DEF IsLayout
  <2> QED
    BY <1>1, <1>7, <2>1, ExactStringReadsBack, Zenon DEF t
<1> HIDE DEF code
<1>9. code.value = layout.code /\ code.at = 2 + Len(t)
  <2>1. code = Got(layout.code, 2 + Len(t))
    BY <1>5, <1>8, Zenon DEF YieldsIf
  <2> QED
    BY <2>1, GotFields, Zenon
<1>10. PayloadSize(layout) - PayloadSize(pinned) \in {-1, 0, 1}
  <2> DEFINE size == Len(bytes)  k == Len(t)  n == PayloadSize(layout)  m == PayloadSize(pinned)
  <2>1. size - (2 + k) = m
    BY <1>2, <1>9, Zenon DEF Left
  <2>2. size \in Nat /\ k \in Nat /\ n \in Nat /\ size - (2 + k + n) \in {-1, 0, 1}
    BY <1>1
  <2> HIDE DEF size, k, n, m
  <2>3. n - m \in {-1, 0, 1}
    BY <2>1, <2>2
  <2> QED
    BY <2>3 DEF n, m
<1> QED
  BY <1>2, <1>7, <1>9, <1>10, Zenon

-----------------------------------------------------------------------------
(* The bytes that are written, and the camera they are written to.         *)

\* A claimed camera was opened as something, and one of its settings is spoken
\* to.
Opened ==
    /\ camera \in CameraSet
    /\ phase # "closed" => opened # NoCamera /\ Bindable(camera.settings)
    /\ wire # NoCommand => phase # "closed"

\* The profile is for the model and firmware that the camera reports, and the
\* serial number is one unless the operation is bound to none.
Identified ==
    /\ Preflighted => profile.product = camera.reports /\ profile.firmware = camera.firmware
    /\ (phase = "info" \/ Preflighted) /\ operation # "SimulationAccess" => named \in Serials

\* What is known of p is what the camera would say of it or, if it says
\* nothing, what the profile declares and the live value bears out.
Known(p) ==
    LET x == truth[p].descriptor  need == profile.needs[p]  d == learned[p] IN
    /\ p \in Required /\ x \in Declared[p] /\ truth[p].describes \in BOOLEAN
    /\ IF truth[p].describes
       THEN /\ d.type = x.type /\ d.writable = x.writable /\ d.form = x.form
            /\ need.type \in {AnyType, x.type}
       ELSE /\ need.static # NoForm /\ need.type # AnyType
            /\ d.type = need.type /\ d.form = need.static
            /\ Carries(Encode(x.type, x.current), need.static, need.type)

Learned ==
    /\ phase \notin {"descriptors", "open"} => learned = NothingRead
    /\ DOMAIN truth = Properties /\ DOMAIN learned = Properties
    /\ \A p \in Properties : learned[p] \notin {Unread, ShapeOnly} => Known(p)

\* The permit's marks tell of the camera's layout.
Marked ==
    phase = "open" =>
        /\ permit.authorization.fingerprint => camera.layout = Layout
        /\ permit.authorization.validated => permit.authorization.fingerprint

\* A changing command is one that the operation may send, with bytes that suit
\* the property they are for, to a camera of the layout.
Suited ==
    Changing =>
        /\ operation = "SimulationAccess" =>
              wire.command = "SetDevicePropValue" /\ wire.property = "slot"
        /\ wire.command = "SetDevicePropValue" => Suits(profile, wire.property, wire.bytes)
        /\ wire.command \in Uploads => camera.layout = Layout

Proven == Opened /\ Identified /\ Learned /\ Marked /\ Suited

\* Init: no camera is opened and nothing is known of it.
LEMMA ProvenInit == Init => Proven
<1> SUFFICES ASSUME Init PROVE Proven
  OBVIOUS
<1>1. camera \in CameraSet /\ phase = "closed" /\ wire = NoCommand
      /\ truth = NothingRead /\ learned = NothingRead
  BY DEF Init
<1>2. Opened /\ Marked
  BY <1>1 DEF Opened, Marked
<1>3. Identified
  BY <1>1 DEF Identified, Preflighted
<1>4. Learned
  BY <1>1 DEF Learned, NothingRead
<1>5. Suited
  BY <1>1 DEF Suited, Changing
<1> QED
  BY <1>2, <1>3, <1>4, <1>5 DEF Proven

\* What most steps leave alone, and where they may start and end.
LEMMA Frame ==
  ASSUME Next
  PROVE  /\ UNCHANGED camera
         /\ Claim \/ Release \/ UNCHANGED opened
         /\ Start \/ UNCHANGED <<operation, named>>
         /\ ReadInfo \/ Close \/ UNCHANGED profile
         /\ CollectDescriptor \/ Close \/ UNCHANGED <<truth, learned>>
         /\ Claim \/ phase # "closed"
         /\ Release \/ phase' # "closed"
  BY DEF Next, Claim, CreatePtp, OpenSession, Release, ReadCamera, SendGeneric, Start,
     ReadInfo, ReadModeAndBattery, CollectDescriptor, Activate, PreflightFails,
     SendAuthorizedRead, ReadFingerprint, ValidateRawProfile, SendMutating, SetProperty, Drop,
     Close, MayConvert, OnPath, PermitActive, targetVars, openVars, evidenceVars

\* A camera is opened as something, on the one setting it can be opened on.
LEMMA OpenedNext ==
  ASSUME Opened, Next
  PROVE  Opened'
<1>1. camera' \in CameraSet
  BY Frame DEF Opened
<1>2. CASE Claim
  <2>1. PICK mode \in CameraModes : opened' = Resolve(mode, camera.product)
    BY <1>2 DEF Claim
  <2>2. camera.product \in Products
    BY DEF Opened, CameraSet
  <2>3. opened' # NoCamera
    BY <2>1, <2>2, PreflightAssumption
  <2>4. Bindable(camera.settings) /\ phase' = "claimed"
    BY <1>2 DEF Claim
  <2> QED
    BY <1>1, <2>3, <2>4, Frame DEF Opened
<1>3. CASE Release
  BY <1>1, <1>3 DEF Release, Opened
<1>4. CASE ~Claim /\ ~Release
  BY <1>1, <1>4, Frame DEF Opened
<1> QED
  BY <1>2, <1>3, <1>4

\* The profile that is selected is for the model and firmware of the answer,
\* which are the camera's.
LEMMA IdentifiedNext ==
  ASSUME Inv, Opened, Identified, Next
  PROVE  Identified'
<1>1. CASE Start
  BY <1>1 DEF Start, SerialBinding, Identified, Preflighted
<1>2. CASE ReadInfo
  <2>1. phase = "info" /\ phase' = "mode" /\ Genuine
        /\ UNCHANGED <<camera, operation, named, opened>>
    BY <1>2 DEF ReadInfo, Inv, Verified, targetVars, openVars
  <2>2. PICK bytes \in Spoilt(EncodeInfo(InfoOf(camera))), f \in Profiles :
           /\ DecodeInfo(bytes) # Malformed
           /\ Matching(DecodeInfo(bytes).version) = {f}
           /\ ReportsAll(DecodeInfo(bytes), f)
           /\ profile' = f
    BY <1>2, Zenon DEF ReadInfo
  <2>3. DecodeInfo(bytes).model = <<Codes[camera.reports]>>
        /\ DecodeInfo(bytes).version = camera.firmware
    <3> DEFINE info == InfoOf(camera)
    <3>1. camera \in CameraSet
      BY DEF Opened
    <3>2. IsInfo(info)
      BY <3>1, DatasetAssumption, Zenon
    <3>3. info.model = <<Codes[camera.reports]>> /\ info.version = camera.firmware
      BY DEF InfoOf
    <3> HIDE DEF info
    <3>4. DecodeInfo(bytes).model = info.model /\ DecodeInfo(bytes).version = info.version
      BY <2>2, <3>2, InfoReadsBack, Zenon DEF info
    <3> QED
      BY <3>3, <3>4, Zenon
  <2>4. f \in Matching(DecodeInfo(bytes).version)
    BY <2>2
  <2>5. f.firmware = camera.firmware /\ f.product = opened.definition
    BY <2>3, <2>4 DEF Matching
  <2>6. <<Codes[opened.definition]>> = <<Codes[camera.reports]>>
    BY <2>2, <2>3 DEF ReportsAll
  <2>7. Codes[opened.definition] = Codes[camera.reports]
    BY <2>6
  <2>8. opened.definition \in Products /\ camera.reports \in Products
    BY <2>1 DEF Genuine, Opened, CameraSet
  <2>9. opened.definition = camera.reports
    BY <2>7, <2>8, PreflightAssumption
  <2> QED
    BY <2>1, <2>2, <2>5, <2>9 DEF Identified
<1>3. CASE Close
  BY <1>3 DEF Close, Identified, Preflighted
<1>4. CASE ~Start /\ ~ReadInfo /\ ~Close
  <2>1. UNCHANGED <<camera, operation, named, profile>>
    BY <1>4, Frame
  <2>2. phase' \in {"info", "mode", "descriptors", "open"} => phase \in {"info"} \/ Preflighted
    BY <1>4 DEF Next, Claim, CreatePtp, OpenSession, Release, ReadCamera, SendGeneric,
       ReadModeAndBattery, CollectDescriptor, Activate, PreflightFails, Preflighted,
       SendAuthorizedRead, ReadFingerprint, ValidateRawProfile, SendMutating, SetProperty, Drop
  <2>3. Preflighted' => Preflighted
    BY <1>4 DEF Next, Claim, CreatePtp, OpenSession, Release, ReadCamera, SendGeneric,
       ReadModeAndBattery, CollectDescriptor, Activate, PreflightFails, Preflighted,
       SendAuthorizedRead, ReadFingerprint, ValidateRawProfile, SendMutating, SetProperty, Drop
  <2> QED
    BY <2>1, <2>2, <2>3 DEF Identified, Preflighted
<1> QED
  BY <1>1, <1>2, <1>3, <1>4

\* A descriptor that is accepted says what the camera would.
LEMMA DescribedIsKnown ==
  ASSUME Inv, Preflighted, NEW p \in Required, NEW x \in PropertiesOf(p),
         x.describes, NEW bytes \in DatasetsFor(x), Described(p, bytes), p \in DOMAIN learned,
         truth' = [truth EXCEPT ![p] = x], p \in DOMAIN truth, UNCHANGED profile
  PROVE  Known(p)'
<1> DEFINE d == DescriptorOf(p, bytes)  need == profile.needs[p]
<1>1. x.describes = TRUE /\ x.descriptor \in Declared[p]
  BY DEF PropertiesOf
<1>2. p \in Properties
  BY PreflightAssumption DEF Inv, Verified, Required
<1>3. PICK q \in Properties : bytes \in Spoilt(EncodeDescriptor(q, x.descriptor))
  BY DEF DatasetsFor
<1>4. d # Malformed /\ need.type \in {AnyType, d.type} /\ learned'[p] = d
  BY DEF Described
<1>5. d.type = x.descriptor.type /\ d.writable = x.descriptor.writable
      /\ d.form = x.descriptor.form
  <2> DEFINE e == x.descriptor  decoded == DecodeDescriptor(bytes)
  <2>1. IsDescriptor(e) /\ Codes[q] \in Scale(Word)
    BY <1>1, <1>2, DatasetAssumption, Zenon
  <2>2. d = decoded /\ decoded # Malformed
    BY <1>4 DEF DescriptorOf
  <2> HIDE DEF d, decoded, e
  <2>3. decoded = [code |-> Codes[q], type |-> e.type, writable |-> e.writable,
                   default |-> e.default, current |-> e.current, form |-> e.form]
    BY <1>3, <2>1, <2>2, DescriptorReadsBack, Zenon DEF decoded, e
  <2>4. decoded.type = e.type /\ decoded.writable = e.writable /\ decoded.form = e.form
    BY <2>3
  <2> QED
    BY <2>2, <2>4, Zenon DEF e
<1>6. truth'[p] = x /\ need' = need /\ (p \in Required)'
  BY DEF Required
<1> HIDE DEF d
<1> QED
  BY <1>1, <1>4, <1>5, <1>6 DEF Known

\* A static descriptor that is accepted is borne out by the live value.
LEMMA RefusedIsKnown ==
  ASSUME Inv, Preflighted, NEW p \in Required, NEW x \in PropertiesOf(p),
         ~x.describes, NEW bytes \in Spoilt(Encode(x.descriptor.type, x.descriptor.current)),
         Refused(p, bytes), p \in DOMAIN learned, learned'[p] # ShapeOnly,
         truth' = [truth EXCEPT ![p] = x], p \in DOMAIN truth, UNCHANGED profile
  PROVE  Known(p)'
<1> DEFINE need == profile.needs[p]  d == StaticOf(p, bytes)
           live == Encode(x.descriptor.type, x.descriptor.current)
           v == Reading(bytes, need.type)
<1>1. x.describes = FALSE /\ x.descriptor \in Declared[p]
  BY DEF PropertiesOf
<1>2. profile \in Profiles /\ p \in DOMAIN profile.needs
  BY DEF Inv, Verified, Required
<1>3. need.static # NoForm /\ d # Malformed /\ learned'[p] = d
  BY DEF Refused
<1>4. need.type # AnyType /\ d = FromStatic(Codes[p], need.type, need.static, bytes)
  BY <1>3 DEF StaticOf
<1>5. /\ v # Malformed
      /\ d.type = need.type /\ d.form = need.static
      /\ Admits(need.static, need.type, v)
  BY <1>3, <1>4 DEF FromStatic, Reading, Consistent
<1>6. bytes = live
  <2> DEFINE e == x.descriptor
  <2>1. Alike(need.type, e.type) /\ IsDescriptor(e)
    <3>1. p \in Properties
      BY <1>2, PreflightAssumption
    <3> HIDE DEF need
    <3>2. need.type = AnyType \/ Alike(need.type, e.type)
      BY <1>1, <1>2, <1>3, DatasetAssumption, Zenon DEF need
    <3> QED
      BY <1>1, <1>4, <3>1, <3>2, DatasetAssumption, Zenon
  <2>2. need.type.kind \in {"Scalar", "String"}
    BY <1>3, <1>4 DEF FromStatic
  <2>3. e.type \in Types /\ IsValue(e.type, e.current)
    BY <2>1 DEF IsDescriptor
  <2> HIDE DEF need, d, e
  <2>4. bytes = Encode(e.type, e.current)
    BY <1>5, <2>1, <2>2, <2>3, LiveReadsBack, Zenon DEF v, e
  <2> QED
    BY <2>4 DEF e
<1>8. Carries(live, need.static, need.type)
  <2> HIDE DEF live, need
  <2> QED
    BY <1>5, <1>6, Zenon DEF Carries, v
<1>9. truth'[p] = x /\ need' = need /\ (p \in Required)'
  BY DEF Required
<1> HIDE DEF d, live, v
<1>10. Carries(Encode(x.descriptor.type, x.descriptor.current), need.static, need.type)
  BY <1>8 DEF live
<1> QED
  BY <1>1, <1>3, <1>4, <1>5, <1>9, <1>10 DEF Known

\* What is learned of a property is what it is.
LEMMA LearnedNext ==
  ASSUME Inv, Learned, Next
  PROVE  Learned'
<1>1. CASE Close
  BY <1>1 DEF Close, Learned, NothingRead
<1>2. CASE CollectDescriptor
  <2>0. PICK p \in Required : \E x \in PropertiesOf(p) :
           /\ truth' = [truth EXCEPT ![p] = x]
           /\ \E answer \in AnswersFor(x) :
                 \/ /\ answer = "Descriptor"
                    /\ \E bytes \in DatasetsFor(x) : Described(p, bytes)
                 \/ /\ CameraRefused(answer)
                    /\ \E bytes \in Spoilt(Encode(x.descriptor.type, x.descriptor.current)) :
                          Refused(p, bytes)
    BY <1>2, Zenon DEF CollectDescriptor
  <2>1. PICK x \in PropertiesOf(p) :
           /\ truth' = [truth EXCEPT ![p] = x]
           /\ \E answer \in AnswersFor(x) :
                 \/ /\ answer = "Descriptor"
                    /\ \E bytes \in DatasetsFor(x) : Described(p, bytes)
                 \/ /\ CameraRefused(answer)
                    /\ \E bytes \in Spoilt(Encode(x.descriptor.type, x.descriptor.current)) :
                          Refused(p, bytes)
    BY <2>0, Zenon
  <2>2. phase = "descriptors" /\ phase' = "descriptors" /\ UNCHANGED profile /\ Preflighted
    BY <1>2 DEF CollectDescriptor, Preflighted
  <2>3. p \in Properties
    BY <2>2, PreflightAssumption DEF Inv, Verified, Required
  <2>4. DOMAIN truth = Properties /\ DOMAIN learned = Properties
    BY DEF Learned
  <2>5. \E d : learned' = [learned EXCEPT ![p] = d]
    BY <2>1, Zenon DEF Described, Refused
  <2>6. learned'[p] # ShapeOnly => Known(p)'
    <3>1. ASSUME NEW bytes \in DatasetsFor(x), Described(p, bytes), "Descriptor" \in AnswersFor(x)
          PROVE  Known(p)'
      <4>1. x.describes
        BY <3>1 DEF AnswersFor
      <4> QED
        BY <2>1, <2>2, <2>3, <2>4, <3>1, <4>1, DescribedIsKnown
    <3>2. ASSUME NEW bytes \in Spoilt(Encode(x.descriptor.type, x.descriptor.current)),
                 Refused(p, bytes), "GeneralError" \in AnswersFor(x), learned'[p] # ShapeOnly
          PROVE  Known(p)'
      <4>1. ~x.describes
        BY <3>2 DEF AnswersFor
      <4> QED
        BY <2>1, <2>2, <2>3, <2>4, <3>2, <4>1, RefusedIsKnown
    <3> QED
      BY <2>1, <3>1, <3>2 DEF CameraRefused
  <2>7. \A q \in Properties \ {p} : learned'[q] = learned[q] /\ truth'[q] = truth[q]
    BY <2>1, <2>4, <2>5
  <2>8. DOMAIN truth' = Properties /\ DOMAIN learned' = Properties
    BY <2>1, <2>4, <2>5
  <2>9. ASSUME NEW q \in Properties \ {p}, learned'[q] \notin {Unread, ShapeOnly}
        PROVE  Known(q)'
    <3>1. Known(q) /\ learned'[q] = learned[q] /\ truth'[q] = truth[q]
      BY <2>7, <2>9 DEF Learned
    <3> QED
      BY <2>2, <3>1 DEF Known, Required
  <2> QED
    BY <2>2, <2>6, <2>8, <2>9 DEF Learned
<1>3. CASE ReadInfo
  <2>1. learned = NothingRead /\ UNCHANGED <<truth, learned>> /\ phase' = "mode"
    BY <1>3 DEF ReadInfo, Learned
  <2> QED
    BY <2>1 DEF Learned, NothingRead
<1>4. CASE ~Close /\ ~CollectDescriptor /\ ~ReadInfo
  <2>1. UNCHANGED <<profile, truth, learned>>
    BY <1>4, Frame
  <2>2. phase' \notin {"descriptors", "open"} => phase \notin {"descriptors", "open"}
    BY <1>4 DEF Next, Claim, CreatePtp, OpenSession, Release, ReadCamera, SendGeneric, Start,
       ReadModeAndBattery, CollectDescriptor, Activate, PreflightFails,
       SendAuthorizedRead, ReadFingerprint, ValidateRawProfile, SendMutating, SetProperty, Drop
  <2>3. \A p \in Properties : Known(p)' <=> Known(p)
    BY <2>1 DEF Known, Required
  <2> QED
    BY <2>1, <2>2, <2>3 DEF Learned
<1> QED
  BY <1>1, <1>2, <1>3, <1>4

\* The fingerprint is only taken of a camera of the layout, and the profile to
\* be written is only validated after it.
LEMMA MarkedNext ==
  ASSUME Inv, Opened, Marked, Next
  PROVE  Marked'
<1> SUFFICES ASSUME phase' = "open" PROVE Marked'
  BY DEF Marked
<1>1. UNCHANGED camera /\ camera.layout \in Layouts
  BY Frame DEF Opened, CameraSet
<1>2. CASE Activate
  BY <1>2 DEF Activate, NewPermit, NewAuthorization, Marked
<1>3. CASE ~Activate
  <2>1. phase = "open"
    BY <1>3 DEF Next, Claim, CreatePtp, OpenSession, Release, ReadCamera, SendGeneric, Start,
       ReadInfo, ReadModeAndBattery, CollectDescriptor, PreflightFails, Close,
       SendAuthorizedRead, ReadFingerprint, ValidateRawProfile, SendMutating, SetProperty, Drop
  <2>2. permit \in [id : {active}, authorization : [fingerprint : BOOLEAN,
                                                    validated : BOOLEAN]]
    BY <2>1 DEF Inv, Evidence
  <2>3. CASE ReadFingerprint
    <3>1. camera.layout = Layout
      <4> DEFINE layout == camera.layout
      <4>1. PICK bytes \in Spoilt(Envelope(layout)) : IsEnvelopeOf(bytes, Layout)
        BY <2>3, Zenon DEF ReadFingerprint
      <4>2. layout \in Layouts
        BY <1>1
      <4> HIDE DEF layout
      <4>3. /\ layout.count = Layout.count /\ layout.code = Layout.code
            /\ PayloadSize(layout) - PayloadSize(Layout) \in {-1, 0, 1}
        BY <4>1, <4>2, DatasetAssumption, LayoutReadsBack, Zenon
      <4>4. layout = Layout
        BY <4>2, <4>3, DatasetAssumption, Zenon
      <4> QED
        BY <1>1, <4>4, Zenon DEF layout
    <3>2. permit' = [permit EXCEPT !.authorization.fingerprint = TRUE]
      BY <2>3 DEF ReadFingerprint
    <3>3. permit'.authorization.fingerprint = TRUE
      BY <2>2, <3>2
    <3> QED
      BY <1>1, <3>1, <3>3 DEF Marked
  <2>4. CASE ValidateRawProfile
    <3>1. /\ permit.authorization.fingerprint
          /\ permit' = [permit EXCEPT !.authorization.validated = TRUE]
      BY <2>4 DEF ValidateRawProfile
    <3>2. permit'.authorization.fingerprint = permit.authorization.fingerprint
      BY <2>2, <3>1
    <3> QED
      BY <1>1, <2>1, <3>1, <3>2 DEF Marked
  <2>5. CASE ~ReadFingerprint /\ ~ValidateRawProfile
    <3>1. UNCHANGED permit
      BY <1>3, <2>1, <2>5 DEF Next, Claim, CreatePtp, OpenSession, Release, ReadCamera,
         SendGeneric, Start, ReadInfo, ReadModeAndBattery, CollectDescriptor, PreflightFails,
         Close, SendAuthorizedRead, SendMutating, SetProperty, Drop, permitVars
    <3> QED
      BY <1>1, <2>1, <3>1 DEF Marked
  <2> QED
    BY <2>3, <2>4, <2>5
<1> QED
  BY <1>2, <1>3

\* Bytes that the descriptor admits suit the property.
LEMMA CandidateSuits ==
  ASSUME profile \in Profiles, NEW p, Known(p), NEW bytes, Candidate(p, bytes)
  PROVE  Suits(profile, p, bytes)
<1> DEFINE x == truth[p].descriptor  need == profile.needs[p]  d == learned[p]
<1>1. need.writable
  BY DEF Candidate
<1>2. d.writable /\ Carries(bytes, d.form, d.type)
  BY DEF Candidate, AdmitsBytes, Reading, Carries
<1>3. CASE truth[p].describes
  <2>1. d.type = x.type /\ d.writable = x.writable /\ d.form = x.form
    BY <1>3 DEF Known
  <2> QED
    BY <1>1, <1>2, <1>3, <2>1 DEF Suits
<1>4. CASE ~truth[p].describes
  <2>1. /\ need.static # NoForm /\ d.type = need.type /\ d.form = need.static
        /\ Carries(Encode(x.type, x.current), need.static, need.type)
    BY <1>4 DEF Known
  <2> QED
    BY <1>1, <1>2, <1>4, <2>1 DEF Suits
<1> QED
  BY <1>3, <1>4

\* What is sent suits the operation, the property and the camera.
LEMMA SuitedNext ==
  ASSUME Inv, Proven, Next
  PROVE  Suited'
<1> SUFFICES ASSUME Changing' PROVE Suited'
  BY DEF Suited
<1>1. \A command \in ReadOnlyCommands : wire' # [command |-> command]
  BY DEF Changing
<1>2. wire' # NoCommand
  BY DEF Changing
<1>3. CASE SendMutating
  <2>1. PICK path \in DOMAIN Allowed : \E command \in Sends[path] :
           /\ OnPath(path) /\ CommandRisk(command) = "StateChanging" /\ SendCommand(command)
    BY <1>3 DEF SendMutating
  <2>2. PICK command \in Sends[path] : OnPath(path) /\ SendCommand(command)
    BY <2>1
  <2>3. UNCHANGED <<camera, operation, profile>> /\ phase = "open"
    BY <1>3, <2>2 DEF SendMutating, OnPath, PermitActive, targetVars, evidenceVars
  <2>4. wire'.command = command /\ command # "SetDevicePropValue"
    BY <2>2 DEF SendCommand
  <2>5. operation # "SimulationAccess"
    <3> SUFFICES ASSUME operation = "SimulationAccess" PROVE FALSE
      OBVIOUS
    <3>1. path = "readSimulation"
      BY <2>2 DEF OnPath, Opens, Methods
    <3> QED
      BY <2>4, <3>1 DEF Sends
  <2>6. command \in Uploads => camera.layout = Layout
    BY <2>2, <2>3 DEF SendCommand, Proven, Marked
  <2> QED
    BY <2>3, <2>4, <2>5, <2>6 DEF Suited
<1>4. CASE SetProperty
  <2>1. PICK path \in DOMAIN Writes : OnPath(path) /\
           \E p \in Writes[path] : \E bytes \in BytesFor(p) : SendProperty(p, bytes)
    BY <1>4 DEF SetProperty
  <2>2. PICK p \in Writes[path] : \E bytes \in BytesFor(p) : SendProperty(p, bytes)
    BY <2>1
  <2>3. PICK bytes \in BytesFor(p) : SendProperty(p, bytes)
    BY <2>2
  <2>4. /\ UNCHANGED <<camera, operation, profile, truth, learned>>
        /\ phase = "open" /\ profile \in Profiles
    BY <1>4, <2>1
       DEF SetProperty, OnPath, PermitActive, targetVars, evidenceVars, Inv, Verified, Preflighted
  <2>5. /\ wire'.command = "SetDevicePropValue" /\ wire'.property = p /\ wire'.bytes = bytes
        /\ Candidate(p, bytes)
    BY <2>3 DEF SendProperty
  <2>6. operation = "SimulationAccess" => p = "slot"
    BY <2>1, <2>2 DEF OnPath, Opens, Methods, Writes
  <2>7. p \in Properties
    BY <2>4, <2>5, PreflightAssumption DEF Candidate, Required
  <2>8. Known(p)
    BY <2>5, <2>7 DEF Candidate, Proven, Learned
  <2>9. Suits(profile, p, bytes)
    BY <2>3, <2>4, <2>5, <2>8, CandidateSuits
  <2>10. Suits(profile, p, bytes)' <=> Suits(profile, p, bytes)
    BY <2>4 DEF Suits
  <2>11. wire'.command \notin Uploads
    BY <2>5 DEF Uploads
  <2>12. Suits(profile, wire.property, wire.bytes)'
    BY <2>5, <2>9, <2>10
  <2> QED
    BY <2>4, <2>5, <2>6, <2>11, <2>12 DEF Suited
<1>5. CASE ReadFingerprint \/ ValidateRawProfile
  <2>1. UNCHANGED <<camera, operation, profile, truth, wire>>
    BY <1>5 DEF ReadFingerprint, ValidateRawProfile, targetVars, evidenceVars
  <2> QED
    BY <2>1 DEF Proven, Suited, Changing, Suits
<1>6. CASE ~SendMutating /\ ~SetProperty /\ ~ReadFingerprint /\ ~ValidateRawProfile
  <2>1. CASE ReadCamera
    BY <1>1, <2>1 DEF ReadCamera, Reads, ReadOnlyCommands
  <2>2. CASE SendGeneric \/ SendAuthorizedRead
    BY <1>1, <2>2, SendableReads DEF SendGeneric, SendAuthorizedRead
  <2>3. CASE Release \/ Start \/ PreflightFails \/ Drop
    BY <1>2, <2>3 DEF Release, Start, PreflightFails, Drop, Close
  <2>4. CASE Claim \/ CreatePtp \/ OpenSession \/ ReadInfo \/ ReadModeAndBattery
             \/ CollectDescriptor \/ Activate
    <3>1. UNCHANGED wire /\ phase # "open"
      BY <2>4 DEF Claim, CreatePtp, OpenSession, ReadInfo, ReadModeAndBattery,
         CollectDescriptor, Activate
    <3> QED
      BY <3>1 DEF Inv, Sent, Changing
  <2> QED
    BY <1>6, <2>1, <2>2, <2>3, <2>4 DEF Next
<1> QED
  BY <1>3, <1>4, <1>5, <1>6

\* Every step keeps what is proven.
LEMMA ProvenNext ==
  ASSUME Inv, Proven, [Next]_vars
  PROVE  Proven'
<1>1. CASE Next
  BY <1>1, OpenedNext, IdentifiedNext, LearnedNext, MarkedNext, SuitedNext DEF Proven
<1>2. CASE UNCHANGED vars
  <2>1. UNCHANGED <<camera, truth, phase, opened, operation, named, profile, learned, permit,
                    wire>>
    BY <1>2 DEF vars, targetVars, openVars, evidenceVars, permitVars
  <2>2. Opened' /\ Identified' /\ Marked'
    BY <2>1 DEF Proven, Opened, Identified, Marked, Preflighted
  <2>3. Learned'
    BY <2>1 DEF Proven, Learned, Known, Required
  <2>4. Suited'
    BY <2>1 DEF Proven, Suited, Changing, Suits
  <2> QED
    BY <2>2, <2>3, <2>4 DEF Proven
<1> QED
  BY <1>1, <1>2

\* A command that changes the camera reaches only the body it is meant for,
\* under a profile that was verified for it, with bytes that suit the property
\* as it really is, whatever comes instead of the camera's datasets (open_with,
\* run, validate_property_candidate, validate_raw_conversion_profile,
\* AuthorizedPtp).
THEOREM MutationsProven == Spec => []OnlyProvenMutations
<1>1. ASSUME Inv, Proven
      PROVE  OnlyProvenMutations
  <2>1. wire # NoCommand =>
           opened # NoCamera /\ Cardinality({s \in camera.settings : Complete(s)}) = 1
    BY <1>1, FS_Singleton DEF Proven, Opened, Bindable
  <2>2. ASSUME Changing
        PROVE  /\ phase = "open" /\ Preflighted /\ Genuine /\ FitToWork /\ Bound(camera.serial)
               /\ profile \in Profiles /\ Covers(profile)
    <3>1. phase = "open" /\ Preflighted /\ wire.command \in profile.commands
      BY <1>1, <2>2 DEF Inv, Sent, Preflighted
    <3>2. /\ Genuine /\ FitToWork /\ Bound(camera.serial)
          /\ profile \in Profiles /\ profile.status = "Verified"
          /\ profile.product = opened.definition /\ profile.operation = operation
      BY <1>1, <3>1 DEF Inv, Verified
    <3>3. profile.product = camera.reports /\ profile.firmware = camera.firmware
      BY <1>1, <3>1 DEF Proven, Identified
    <3> QED
      BY <3>1, <3>2, <3>3 DEF Covers, Genuine, FitToWork
  <2>3. ASSUME Changing, operation # "SimulationAccess"
        PROVE  camera.serial = named
    <3>1. named \in Serials /\ named \in {NoSerial, camera.serial}
      BY <1>1, <2>2, <2>3 DEF Proven, Identified, Bound
    <3> QED
      BY <3>1, PreflightAssumption
  <2>4. Changing /\ wire.command \in Uploads => WriteVerified /\ camera.layout = Layout
    BY <1>1 DEF Inv, Evidence, Proven, Suited
  <2>5. Changing => /\ opened.binding = "Native"
                    /\ operation = "SimulationAccess" =>
                          wire.command = "SetDevicePropValue" /\ wire.property = "slot"
                    /\ wire.command = "SetDevicePropValue" =>
                          Suits(profile, wire.property, wire.bytes)
    BY <1>1, <2>2 DEF Genuine, Proven, Suited
  <2>6. Changing => \E f \in Profiles :
           /\ Covers(f)
           /\ wire.command = "SetDevicePropValue" => Suits(f, wire.property, wire.bytes)
    BY <2>2, <2>5
  <2>7. PermitOfSession
    BY <1>1 DEF Inv
  <2> QED
    BY <2>1, <2>3, <2>4, <2>5, <2>6, <2>7, Zenon DEF OnlyProvenMutations, Changing
<1>2. Inv /\ Proven /\ [Next]_vars => Proven'
  BY ProvenNext
<1>3. Spec => []Proven
  BY <1>2, ProvenInit, InvAlways, PTL DEF Spec
<1>4. Inv /\ Proven => OnlyProvenMutations
  BY <1>1
<1> QED
  BY <1>3, <1>4, InvAlways, PTL

-----------------------------------------------------------------------------
(* From the settings to the words on the wire: the codecs of the options,  *)
(* which the definition compiler makes and whose values the descriptors    *)
(* above admit or refuse.                                                  *)

Option == INSTANCE OptionCodec WITH Invalid <- Malformed

\* A product of whole words is taken for what it is, rounded or truncated, and
\* neither passes a whole word on its way.
LEMMA WholeWords ==
  ASSUME NEW q \in Int, NEW a \in Int, NEW p \in Nat \ {0}
  PROVE  /\ Option!Truncated(q * p, p) = q /\ Option!Rounded(q * p, p) = q
         /\ q * p <= a => q <= Option!Truncated(a, p) /\ q <= Option!Rounded(a, p)
<1>1. ASSUME NEW x \in Int, NEW y \in Nat, NEW d \in Nat \ {0}
      PROVE  /\ x * d <= y => x <= y \div d
             /\ y <= x * d => y \div d <= x
             /\ y \div d \in Nat
  OBVIOUS
<1>2. ASSUME NEW x \in Nat, NEW d \in Nat \ {0}
      PROVE  (x * d) \div d = x /\ (2 * (x * d) + d) \div (2 * d) = x
  <2>1. (x * d) \div d = x
    OBVIOUS
  <2>2. (2 * (x * d) + d) \div (2 * d) = x
    OBVIOUS
  <2> QED
    BY <2>1, <2>2
<1>3. Option!Truncated(q * p, p) = q /\ Option!Rounded(q * p, p) = q
  <2>1. CASE q >= 0
    <3>1. q * p \in Nat
      BY <2>1
    <3>2. /\ Option!Truncated(q * p, p) = (q * p) \div p
          /\ Option!Rounded(q * p, p) = (2 * (q * p) + p) \div (2 * p)
      <4> DEFINE n == q * p
      <4>1. n \in Nat
        BY <3>1
      <4> HIDE DEF n
      <4>2. Option!Truncated(n, p) = n \div p /\ Option!Rounded(n, p) = (2 * n + p) \div (2 * p)
        BY <4>1 DEF Option!Truncated, Option!Rounded
      <4> QED
        BY <4>2 DEF n
    <3> QED
      BY <1>2, <2>1, <3>2
  <2>2. CASE q < 0
    <3> DEFINE n == q * p  x == -q
    <3>1. n \in Int /\ n < 0 /\ -n = x * p /\ x \in Nat /\ q = -x
      BY <2>2
    <3> HIDE DEF n, x
    <3>2. /\ Option!Truncated(n, p) = -((-n) \div p)
          /\ Option!Rounded(n, p) = -((2 * (-n) + p) \div (2 * p))
      BY <3>1 DEF Option!Truncated, Option!Rounded
    <3>3. (-n) \div p = x /\ (2 * (-n) + p) \div (2 * p) = x
      BY <1>2, <3>1
    <3>4. Option!Truncated(n, p) = q /\ Option!Rounded(n, p) = q
      BY <3>1, <3>2, <3>3
    <3> QED
      BY <3>4 DEF n
  <2> QED
    BY <2>1, <2>2
<1>4. ASSUME q * p <= a PROVE q <= Option!Truncated(a, p) /\ q <= Option!Rounded(a, p)
  <2>1. CASE a >= 0
    <3>1. /\ Option!Truncated(a, p) = a \div p
          /\ Option!Rounded(a, p) = (2 * a + p) \div (2 * p)
      BY <2>1 DEF Option!Truncated, Option!Rounded
    <3>2. q <= a \div p
      BY <1>1, <1>4, <2>1
    <3>3. q * (2 * p) <= 2 * a + p /\ 2 * a + p \in Nat /\ 2 * p \in Nat \ {0}
      <4>1. q * (2 * p) = 2 * (q * p) /\ q * p \in Int
        OBVIOUS
      <4> QED
        BY <1>4, <2>1, <4>1
    <3>4. q <= (2 * a + p) \div (2 * p)
      BY <1>1, <3>3
    <3> QED
      BY <3>1, <3>2, <3>4
  <2>2. CASE a < 0
    <3> DEFINE x == -q
    <3>1. x \in Int /\ q = -x /\ -a <= x * p /\ -a \in Nat
      <4>1. x * p = -(q * p) /\ q * p \in Int
        OBVIOUS
      <4> QED
        BY <1>4, <2>2, <4>1
    <3> HIDE DEF x
    <3>2. /\ Option!Truncated(a, p) = -((-a) \div p)
          /\ Option!Rounded(a, p) = -((2 * (-a) + p) \div (2 * p))
      BY <2>2 DEF Option!Truncated, Option!Rounded
    <3>3. (-a) \div p <= x /\ (-a) \div p \in Nat
      BY <1>1, <3>1
    <3>4. (2 * (-a) + p) \div (2 * p) <= x /\ (2 * (-a) + p) \div (2 * p) \in Nat
      <4> DEFINE b == -a  top == 2 * b + p  bottom == 2 * p
      <4>1. b \in Nat /\ bottom \in Nat \ {0} /\ top \in Nat /\ b <= x * p
        BY <3>1
      <4>2. top < (x + 1) * bottom
        <5>1. (x + 1) * bottom = 2 * (x * p) + 2 * p /\ x * p \in Int
          BY <3>1
        <5> QED
          BY <4>1, <5>1
      <4> HIDE DEF top, bottom
      <4>3. top \div bottom < x + 1 /\ top \div bottom \in Nat
        BY <3>1, <4>1, <4>2
      <4>4. top \div bottom <= x
        BY <3>1, <4>3
      <4> QED
        BY <4>3, <4>4 DEF top, bottom
    <3> QED
      BY <3>1, <3>2, <3>3, <3>4
  <2> QED
    BY <2>1, <2>2
<1> QED
  BY <1>3, <1>4

\* What a number is divided by without a rest counts it.
LEMMA WholeQuotient ==
  ASSUME NEW a \in Int, NEW p \in Nat \ {0}, a % p = 0
  PROVE  \E k \in Int : a = k * p
<1>1. a = (a \div p) * p + (a % p)
  OBVIOUS
<1> QED
  BY <1>1

\* What describes a scaled option whose least value and step are whole words
\* (crates/codegen, options: ints and floats).
ExactScale(c) ==
    /\ c.float \in BOOLEAN /\ c.min \in Int /\ c.max \in Int /\ c.scale \in Int
    /\ c.step \in Nat \ {0} /\ c.per \in Nat \ {0} /\ (~c.float => c.per = 1)
    /\ (c.min * c.scale) % c.per = 0 /\ (c.step * c.scale) % c.per = 0

\* A value on the steps of an option has a word on the steps of its words.
LEMMA StepsScale ==
  ASSUME NEW c, ExactScale(c), NEW n \in Int, c.min <= n, n <= c.max, (n - c.min) % c.step = 0,
         NEW m \in Int, c.min * c.scale = m * c.per, NEW s \in Int,
         c.step * c.scale = s * c.per, s > 0
  PROVE  \E k \in Nat :
            /\ n * c.scale = (m + k * s) * c.per /\ (m + k * s) * c.per <= c.max * c.scale
            /\ m + k * s \in Int /\ m <= m + k * s /\ ((m + k * s) - m) % s = 0
<1> DEFINE least == c.min  greatest == c.max  step == c.step  scale == c.scale  p == c.per
<1>1. /\ least \in Int /\ greatest \in Int /\ step \in Nat \ {0} /\ scale \in Int
      /\ p \in Nat \ {0} /\ least <= n /\ n <= greatest /\ (n - least) % step = 0
      /\ least * scale = m * p /\ step * scale = s * p
  BY DEF ExactScale
<1> HIDE DEF least, greatest, step, scale, p
<1> DEFINE k == (n - least) \div step
<1>2. k \in Nat /\ n = least + k * step
  <2>1. n - least = k * step + ((n - least) % step)
    BY <1>1
  <2>2. k \in Nat
    BY <1>1
  <2> HIDE DEF k
  <2> QED
    BY <1>1, <2>1, <2>2
<1> HIDE DEF k
<1>3. scale > 0
  <2>1. s * p > 0
    BY <1>1
  <2> QED
    BY <1>1, <2>1
<1>4. n * scale <= greatest * scale
  BY <1>1, <1>3
<1>5. n * scale = (m + k * s) * p
  <2>1. n * scale = least * scale + k * (step * scale)
    BY <1>1, <1>2
  <2>2. n * scale = m * p + k * (s * p)
    BY <1>1, <2>1
  <2> QED
    BY <1>1, <1>2, <2>2
<1>6. k * s \in Nat /\ (k * s) % s = 0
  BY <1>2
<1>7. m + k * s \in Int /\ m <= m + k * s /\ (m + k * s) - m = k * s
  BY <1>6
<1>8. ((m + k * s) - m) % s = 0
  BY <1>6, <1>7
<1>9. (m + k * s) * p <= greatest * scale
  BY <1>4, <1>5
<1> QED
  BY <1>2, <1>5, <1>7, <1>8, <1>9 DEF greatest, scale, p

\* What a user may set of such an option is read back as itself: the bounds and
\* steps of the words admit the word that was written.  Nor does the descriptor
\* that stands in for the camera's own, which the build works out from the option
\* a second time, refuse it.
THEOREM ScaledTravels ==
  ASSUME NEW c, ExactScale(c), Option!ScaledBuildable(c),
         NEW n \in Int, Option!ScaledParse(c, n) # Malformed
  PROVE  /\ Option!ScaledDecode(c, Option!ScaledParse(c, n)) = Option!ScaledParse(c, n)
         /\ \A form : /\ c.kind = "scaled" /\ Option!StaticBuildable(c, form)
                      /\ Option!IsRange(form)
                      => Option!Admits(form, Option!ScaledParse(c, n))
<1> DEFINE word == Option!Scaled(c, n)
           p == c.per  least == c.min * c.scale  step == c.step * c.scale
           greatest == c.max * c.scale
<1>1. /\ c.min <= n /\ n <= c.max /\ (n - c.min) % c.step = 0
      /\ Option!ScaledParse(c, n) = word
  BY DEF Option!ScaledParse, ExactScale
<1>2. /\ p \in Nat \ {0} /\ least \in Int /\ step \in Int /\ greatest \in Int
      /\ least % p = 0 /\ step % p = 0
  BY DEF ExactScale
<1>3. PICK m \in Int : least = m * p
  BY <1>2, WholeQuotient, Zenon
<1>4. PICK s \in Int : step = s * p
  BY <1>2, WholeQuotient, Zenon
<1>5. Option!RawMin(c) = m /\ Option!RawStep(c) = s
  <2>1. Option!RawMin(c) = Option!Truncated(m * p, p)
        /\ Option!RawStep(c) = Option!Truncated(s * p, p)
    BY <1>3, <1>4, Zenon DEF Option!RawMin, Option!RawStep
  <2> QED
    BY <1>2, <2>1, WholeWords
<1>6. s > 0
  BY <1>5 DEF Option!ScaledBuildable
<1>7. PICK k \in Nat : /\ n * c.scale = (m + k * s) * p /\ (m + k * s) * p <= greatest
                       /\ m + k * s \in Int /\ m <= m + k * s
                       /\ ((m + k * s) - m) % s = 0
  <2>1. c.min * c.scale = m * c.per /\ c.step * c.scale = s * c.per
    BY <1>3, <1>4
  <2> HIDE DEF word
  <2> QED
    BY <1>1, <1>6, <2>1, StepsScale
<1>8. word = m + k * s
  <2>1. word = Option!Rounded((m + k * s) * p, p)
    BY <1>7, Zenon DEF Option!Scaled
  <2> QED
    BY <1>2, <1>7, <2>1, WholeWords
<1>9. /\ word \in Int /\ m <= word /\ (word - m) % s = 0 /\ word * p <= greatest
  BY <1>7, <1>8
<1> HIDE DEF word
<1>10. Option!ScaledDecode(c, word) = word
  <2>1. Option!RawMax(c) = Option!Truncated(greatest, p)
    BY Zenon DEF Option!RawMax
  <2>2. word <= Option!RawMax(c) /\ Option!RawMax(c) \in Int
    <3>1. word <= Option!Truncated(greatest, p)
      BY <1>2, <1>9, WholeWords
    <3>2. Option!Truncated(greatest, p) \in Int
      <4> HIDE DEF greatest, p
      <4> QED
        BY <1>2 DEF Option!Truncated
    <3> QED
      BY <2>1, <3>1, <3>2
  <2> QED
    BY <1>3, <1>5, <1>9, <2>2 DEF Option!ScaledDecode, Option!Aligned
<1>11. ASSUME NEW form, c.kind = "scaled", Option!StaticBuildable(c, form), Option!IsRange(form)
       PROVE  Option!Admits(form, word)
  <2>1. /\ Option!OptionScaled(c, c.min) = m /\ Option!OptionScaled(c, c.step) = s
        /\ word <= Option!OptionScaled(c, c.max) /\ Option!OptionScaled(c, c.max) \in Int
    <3>1. CASE c.float
      <4>1. /\ Option!OptionScaled(c, c.min) = Option!Rounded(m * p, p)
            /\ Option!OptionScaled(c, c.step) = Option!Rounded(s * p, p)
            /\ Option!OptionScaled(c, c.max) = Option!Rounded(greatest, p)
        BY <1>3, <1>4, <3>1, Zenon DEF Option!OptionScaled
      <4>2. Option!Rounded(m * p, p) = m /\ Option!Rounded(s * p, p) = s
        BY <1>2, WholeWords
      <4>3. word <= Option!Rounded(greatest, p)
        BY <1>2, <1>9, WholeWords
      <4>4. Option!Rounded(greatest, p) \in Int
        <5> HIDE DEF greatest, p
        <5> QED
          BY <1>2 DEF Option!Rounded
      <4> QED
        BY <4>1, <4>2, <4>3, <4>4
    <3>2. CASE ~c.float
      <4>1. p = 1 /\ m * p = m /\ s * p = s /\ word * p = word
        BY <1>9, <3>2 DEF ExactScale
      <4>2. /\ Option!OptionScaled(c, c.min) = least /\ Option!OptionScaled(c, c.step) = step
            /\ Option!OptionScaled(c, c.max) = greatest
        BY <3>2, Zenon DEF Option!OptionScaled
      <4> HIDE DEF least, step, greatest, p
      <4> QED
        BY <1>2, <1>3, <1>4, <1>9, <4>1, <4>2
    <3> QED
      BY <3>1, <3>2
  <2>2. form = [minimum |-> m, maximum |-> Option!OptionScaled(c, c.max), step |-> s]
    BY <1>11, <2>1, Zenon DEF Option!StaticBuildable, Option!WireRange
  <2>3. /\ form.minimum = m /\ form.maximum = Option!OptionScaled(c, c.max) /\ form.step = s
    BY <2>2
  <2>4. /\ word \in form.minimum .. form.maximum
        /\ (word - form.minimum) % form.step = 0
    BY <1>9, <2>1, <2>3
  <2>5. form # Malformed
    BY <1>11, Zenon DEF Option!IsRange
  <2> QED
    BY <1>11, <2>4, <2>5, Zenon DEF Option!Admits
<1> QED
  BY <1>1, <1>10, <1>11, Zenon

\* Where no word belongs to two numbers, the number of a lookup is read back as
\* itself (from_wire, to_wire), and a text within the numbers is taken for the
\* nearest one, the lesser of two that are as near.
THEOREM LookupTravels ==
  ASSUME NEW c, DOMAIN c.words \subseteq Int,
         \A v \in DOMAIN c.words : c.words[v] \in Seq(Int) /\ c.words[v] # <<>>
  PROVE  /\ \A v \in DOMAIN c.words :
               (\A u \in DOMAIN c.words \ {v} :
                   ToSet(c.words[v]) \cap ToSet(c.words[u]) = {})
               => Option!LookupDecode(c, Option!LookupEncode(c, v)) = v
         /\ \A n \in Int :
               (\E least, greatest \in DOMAIN c.words : n \in least .. greatest)
               => LET v == Option!LookupText(c, n) IN
                  /\ v \in DOMAIN c.words
                  /\ \A u \in DOMAIN c.words :
                        \/ Option!Distance(v, n) < Option!Distance(u, n)
                        \/ Option!Distance(v, n) = Option!Distance(u, n) /\ v <= u
<1>1. ASSUME NEW v \in DOMAIN c.words,
             \A u \in DOMAIN c.words \ {v} : ToSet(c.words[v]) \cap ToSet(c.words[u]) = {}
      PROVE  Option!LookupDecode(c, Option!LookupEncode(c, v)) = v
  <2> DEFINE word == c.words[v][1]
             hits == {u \in DOMAIN c.words : word \in ToSet(c.words[u])}
  <2>1. word \in ToSet(c.words[v])
    <3> DEFINE s == c.words[v]
    <3>1. s \in Seq(Int) /\ s # <<>>
      OBVIOUS
    <3> HIDE DEF s
    <3>2. 1 \in DOMAIN s
      BY <3>1
    <3>3. s[1] \in ToSet(s)
      BY <3>2, Zenon DEF ToSet
    <3> QED
      BY <3>3 DEF s
  <2>2. hits = {v}
    <3> HIDE DEF word
    <3>1. \A u \in DOMAIN c.words : word \in ToSet(c.words[u]) => u = v
      BY <1>1, <2>1, Zenon
    <3> QED
      BY <2>1, <3>1, Zenon
  <2>3. Option!LookupDecode(c, word) = IF hits = {} THEN Malformed ELSE Option!Min(hits)
    BY Zenon DEF Option!LookupDecode, Option!ToSet, ToSet
  <2>4. Option!Min({v}) = v
    <3>1. v <= v
      OBVIOUS
    <3> QED
      BY <3>1, Zenon DEF Option!Min
  <2> HIDE DEF hits
  <2> QED
    BY <2>2, <2>3, <2>4, Zenon DEF Option!LookupEncode, word
<1>2. ASSUME NEW n \in Int, NEW least \in DOMAIN c.words, NEW greatest \in DOMAIN c.words,
             n \in least .. greatest
      PROVE  LET v == Option!LookupText(c, n) IN
             /\ v \in DOMAIN c.words
             /\ \A u \in DOMAIN c.words :
                   \/ Option!Distance(v, n) < Option!Distance(u, n)
                   \/ Option!Distance(v, n) = Option!Distance(u, n) /\ v <= u
  <2> DEFINE numbers == DOMAIN c.words
             Near(v) == \A u \in numbers :
                           \/ Option!Distance(v, n) < Option!Distance(u, n)
                           \/ Option!Distance(v, n) = Option!Distance(u, n) /\ v <= u
             far == {d \in Nat : \E v \in numbers : Option!Distance(v, n) = d}
  <2>1. \A v \in numbers : Option!Distance(v, n) \in Nat
    BY DEF Option!Distance
  <2>2. far # {} /\ far \subseteq Nat
    BY <1>2, <2>1, Zenon
  <2>3. PICK d \in far : \A e \in far : d <= e
    <3> HIDE DEF far
    <3> QED
      BY <2>2, LeastNat, Zenon
  <2>4. \A u \in numbers : d <= Option!Distance(u, n)
    BY <2>1, <2>3, Zenon
  <2>5. d \in Nat /\ numbers \subseteq Int
    BY <2>2, <2>3
  <2>6. \E v \in numbers : Near(v)
    <3>1. PICK w \in numbers : Option!Distance(w, n) = d
      BY <2>3
    <3>2. CASE n - d \in numbers
      <4> DEFINE v == n - d
      <4>1. v \in Int /\ Option!Distance(v, n) = d
        BY <2>5 DEF Option!Distance
      <4>2. \A u \in numbers : Option!Distance(u, n) = d => v <= u
        BY <2>5 DEF Option!Distance
      <4>3. Near(v)
        <5> HIDE DEF v
        <5> QED
          BY <2>1, <2>4, <2>5, <4>1, <4>2
      <4> QED
        BY <3>2, <4>3
    <3>3. CASE n - d \notin numbers
      <4>1. ASSUME NEW u \in numbers, Option!Distance(u, n) = d PROVE u = n + d
        <5>1. u \in Int /\ u # n - d
          BY <2>5, <3>3, Zenon
        <5> HIDE DEF numbers, far
        <5> QED
          BY <2>5, <4>1, <5>1 DEF Option!Distance
      <4>2. \A u \in numbers : Option!Distance(u, n) = d => w <= u
        BY <2>5, <3>1, <4>1
      <4>3. Near(w)
        BY <2>1, <2>4, <2>5, <3>1, <4>2
      <4> QED
        BY <4>3
    <3> QED
      BY <3>2, <3>3
  <2>7. Option!LookupText(c, n) = CHOOSE v \in numbers : Near(v)
    <3>1. \E a, b \in DOMAIN c.words : n \in a .. b
      BY <1>2
    <3>2. Option!LookupText(c, n) = Option!Nearest(c, n)
      BY <3>1, Zenon DEF Option!LookupText
    <3> QED
      BY <3>2, Zenon DEF Option!Nearest
  <2> DEFINE taken == CHOOSE v \in numbers : Near(v)
  <2>8. taken \in numbers /\ Near(taken)
    BY <2>6, Zenon
  <2> QED
    BY <2>7, <2>8, Zenon
<1> QED
  BY <1>1, <1>2

\* What a firmware's capabilities allow is read back as itself under the same
\* capabilities (write_wire_value, read_logical_value), and so is a variant that
\* the option knows when it is encoded and decoded.
THEOREM EnumTravels ==
  ASSUME NEW c, Option!CapabilitiesBuildable(c),
         \A v \in Option!Allowed(c) : Option!FirmwareWords(c, v) \in Seq(Int)
  PROVE  /\ \A v \in Option!Allowed(c) :
               Option!ReadValue(c, Option!WriteWord(c, v)) = v
         /\ \A v \in DOMAIN c.words, wide \in BOOLEAN :
               Option!EnumEncode(c, v, wide) # Malformed
               => Option!EnumDecode(c, Option!EnumEncode(c, v, wide)) = v
<1>1. ASSUME NEW v \in Option!Allowed(c)
      PROVE  Option!ReadValue(c, Option!WriteWord(c, v)) = v
  <2> DEFINE words == Option!FirmwareWords(c, v)
             hits == {u \in Option!Allowed(c) : words[1] \in ToSet(Option!FirmwareWords(c, u))}
  <2>1. words \in Seq(Int) /\ words # <<>>
    BY Zenon DEF Option!CapabilitiesBuildable
  <2>2. \A u \in Option!Allowed(c) \ {v} : ToSet(words) \cap ToSet(Option!FirmwareWords(c, u)) = {}
    BY DEF Option!CapabilitiesBuildable, Option!ToSet, ToSet
  <2>3. Option!WriteWord(c, v) = words[1]
    BY <2>1, Zenon DEF Option!WriteWord
  <2>4. words[1] \in ToSet(words)
    <3> HIDE DEF words
    <3>1. 1 \in DOMAIN words
      BY <2>1
    <3> QED
      BY <3>1, Zenon DEF ToSet
  <2>5. hits = {v}
    <3> DEFINE word == words[1]
    <3> HIDE DEF word
    <3>1. \A u \in Option!Allowed(c) : word \in ToSet(Option!FirmwareWords(c, u)) => u = v
      BY <2>2, <2>4, Zenon DEF word
    <3> QED
      BY <2>4, <3>1, Zenon DEF word
  <2>6. Option!ReadValue(c, words[1]) = IF hits = {} THEN Malformed ELSE CHOOSE u \in hits : TRUE
    BY Zenon DEF Option!ReadValue, Option!ToSet, ToSet
  <2> HIDE DEF hits
  <2>7. Option!ReadValue(c, words[1]) = v
    BY <2>5, <2>6, Zenon
  <2> QED
    BY <2>3, <2>7, Zenon
<1>2. ASSUME NEW v \in DOMAIN c.words, NEW wide \in BOOLEAN,
             Option!EnumEncode(c, v, wide) # Malformed
      PROVE  Option!EnumDecode(c, Option!EnumEncode(c, v, wide)) = v
  <2>1. /\ Option!EnumEncode(c, v, wide) = Option!WriteWord(c, v)
        /\ Option!WriteWord(c, v) # Malformed
    BY <1>2, Zenon DEF Option!EnumEncode
  <2>2. v \in Option!Allowed(c)
    BY <2>1, Zenon DEF Option!WriteWord
  <2>3. Option!ReadValue(c, Option!WriteWord(c, v)) = v
    BY <1>1, <2>2, Zenon
  <2> QED
    BY <2>1, <2>3, Zenon DEF Option!EnumDecode
<1> QED
  BY <1>1, <1>2
=============================================================================
