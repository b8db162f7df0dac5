----------------------- MODULE SimulationCommandProofs -----------------------
(***************************************************************************)
(* What the simulation commands say is true, for any number of slots,      *)
(* settings, values and selector turns: the profiles shown, the report of  *)
(* a write, the exit status and the exported artifact.                     *)
(***************************************************************************)
EXTENDS SimulationCommand, WellFoundedInduction, TLAPS

\* The values of all variables.
CommandTypeOK ==
    /\ IoTypeOK /\ FileTypeOK /\ WriteTypeOK
    /\ command \in Reading \cup Writing /\ toStdout \in BOOLEAN
    /\ phase \in IF command \in Reading THEN Phases
                ELSE {"begin", "open", "report", "done"} \cup WriteRegion
    /\ todo \subseteq Slots
    /\ index \in 0..NumSettings
    /\ staged \in Profile
    /\ profiles \in [Slots -> Profile \cup {NotRead}]
    /\ snapshot \in Slots \cup {NoSlot}
    /\ failed \in BOOLEAN /\ pressed \in BOOLEAN /\ back \in BOOLEAN
    /\ stream \in {"none", "part", "full"}
    /\ exit \in {0, 1, 3, 130}

\* The settings before i that apply were read, and no other.
PulledUpTo(b, f, i) ==
    \A k \in Settings : f[k] = IF k < i /\ k \in PresentIn(f) THEN b[k] ELSE Absent

\* Reading the setting at index of the target, those before it being read.
\* An answer is trusted when the selector was seen on the target after it.
PullKept ==
    phase = "pull" =>
        /\ command \in Reading
        /\ step # "idle" /\ index \in Settings
        /\ request.kind = "get" /\ request.setting = index
        /\ index \in PresentIn(staged)
        /\ ~blind => PulledUpTo(bank[target], staged, index)
        /\ step = "check" /\ ~astray => value = bank[target][index]
        /\ reply = "ok" => step = "answered" /\ (~blind => value = bank[target][index])

\* The profiles that were read are true, and a write shows none.
ShownKept ==
    \A s \in Slots :
        /\ command \in Writing => profiles[s] = NotRead
        /\ ~blind /\ profiles[s] # NotRead => Shows(bank[s], profiles[s])

\* The selector is back: nobody but the user has turned it since.
InPlace == snapshot # NoSlot /\ turns = 0 => active = snapshot

SelectorKept ==
    /\ phase \in {"begin", "open", "snapshot", "write"} => snapshot = NoSlot
    /\ phase \in {"pull", "restore", "confirmRestore"} => snapshot # NoSlot
    /\ back => phase \in {"endRegion", "output", "done", "dark"} /\ InPlace
    /\ command \in Reading /\ phase \in {"output", "done"} =>
          ~SelectorUnknown \/ (phase = "done" /\ exit = 3)
    /\ command \in Writing => InPlace \/ (phase = "done" /\ exit = 3)

\* What a completed write has done to the slots.
Delivered ==
    /\ Shows(bank[target], wanted)
    /\ Changes(before[target], ShownBy(bank[target])) \subseteq written
    /\ \A s \in Slots \ {target} : bank[s] = before[s]

\* What is known of a write in each phase.
WriteKept ==
    command \in Writing =>
        /\ phase \in {"begin", "open", "write"} => outcome = "none" /\ ~sent
        /\ phase = "report" => outcome \in Completed
        /\ outcome \in Completed => sent \/ (phase = "done" /\ exit = 3)
        /\ phase = "done" /\ exit # 3 =>
              /\ outcome # "CameraStateUnknown"
              /\ exit = 0 => outcome \in Completed
              /\ exit = 130 => outcome = "none"
        /\ ~blind /\ ~(phase = "done" /\ exit = 3) =>
              /\ outcome \in Completed => Delivered
              /\ outcome \in Known \cup {"none"} => bank = before

\* A file gets its name only when its bytes are synced, and a name that was
\* synced stays.
FileKept ==
    /\ file \in {"written", "synced", "renamed", "committed"} => content = "full"
    /\ file \in {"synced", "renamed", "committed"} => synced
    /\ "whole" \in onDisk => synced
    /\ "torn" \notin onDisk /\ path \in onDisk
    /\ file = "renamed" /\ phase # "dark" => path = "whole"
    /\ file = "committed" => path = "whole" /\ onDisk = {"whole"}
    /\ path = "nothing" => onDisk = {"nothing"}
    /\ policy = "Deny" /\ path = "whole" => onDisk \subseteq {"nothing", "whole"}

\* An export succeeds only with its whole output delivered.
ExportKept ==
    command = "export" /\ exit = 0 /\ phase = "done" =>
        IF toStdout THEN stream = "full" ELSE file = "committed"

CommandInv ==
    /\ CommandTypeOK /\ PullKept /\ ShownKept /\ SelectorKept /\ WriteKept
    /\ FileKept /\ ExportKept

-----------------------------------------------------------------------------
(* Profiles.                                                               *)

\* A set of numbers has a least one.
LEMMA LeastNat ==
  ASSUME NEW T, T \subseteq Nat, T # {}
  PROVE  \E x \in T : \A y \in T : x <= y
<1>1. PICK x \in T : \A y \in T : ~ (<<y, x>> \in OpToRel(<, Nat))
  BY NatLessThanWellFounded, WFMin
<1>2. ASSUME NEW y \in T PROVE x <= y
  <2>1. ~ (y < x)
    BY <1>1 DEF OpToRel
  <2> QED
    BY <2>1
<1> QED
  BY <1>2

\* A slot shows one profile: of two, the first setting in which they differ
\* would apply in both or in neither.
LEMMA OneProfile ==
  ASSUME NEW b \in Bank, NEW f \in Profile, NEW g \in Profile, Shows(b, f), Shows(b, g)
  PROVE  f = g
<1> DEFINE Differ == {i \in Settings : f[i] # g[i]}
<1>1. CASE Differ = {}
  BY <1>1 DEF Profile
<1>2. CASE Differ # {}
  <2>1. PICK i \in Differ : \A j \in Differ : i <= j
    <3>1. Differ \subseteq Nat
      BY DEF Settings
    <3> HIDE DEF Differ
    <3> QED
      BY <1>2, <3>1, LeastNat
  <2>2. \A j \in 1..(i - 1) : f[j] = g[j]
    <3> SUFFICES ASSUME NEW j \in 1..(i - 1), f[j] # g[j] PROVE FALSE
      OBVIOUS
    <3>1. j \in Settings /\ j < i
      BY <2>1, CountsAssumption DEF Settings
    <3> QED
      BY <2>1, <3>1, CountsAssumption DEF Settings
  <2>3. Present(i, f) = Present(i, g)
    BY <2>1, <2>2, PresenceAssumption
  <2> QED
    BY <2>1, <2>3 DEF Shows
<1> QED
  BY <1>1, <1>2

LEMMA ShownByIt ==
  ASSUME NEW b \in Bank, NEW f \in Profile, Shows(b, f)
  PROVE  ShownBy(b) = f
<1>1. ShownBy(b) \in Profile /\ Shows(b, ShownBy(b))
  BY DEF ShownBy
<1> QED
  BY <1>1, OneProfile

\* Whether a setting applies is decided by those before it.
LEMMA PresenceDepends ==
  ASSUME NEW f \in Profile, NEW g \in Profile, NEW k \in Settings,
         \A m \in 1..(k - 1) : f[m] = g[m]
  PROVE  k \in PresentIn(f) <=> k \in PresentIn(g)
<1>1. Present(k, f) = Present(k, g)
  BY PresenceAssumption
<1> QED
  BY <1>1, Zenon DEF PresentIn

\* Reading setting i takes the pull to the next setting that applies.
LEMMA PulledGrows ==
  ASSUME NEW b \in Bank, NEW f \in Profile, NEW i \in Settings,
         i \in PresentIn(f), PulledUpTo(b, f, i), NEW g, g = [f EXCEPT ![i] = b[i]],
         NEW j \in Nat, IsNext(i, j, PresentIn(g))
  PROVE  g \in Profile /\ PulledUpTo(b, g, j)
<1>1. g \in Profile /\ g[i] = b[i] /\ \A k \in Settings : k # i => g[k] = f[k]
  BY DEF Profile, Bank
<1>2. ASSUME NEW k \in Settings, k <= i PROVE k \in PresentIn(g) <=> k \in PresentIn(f)
  <2>1. \A m \in 1..(k - 1) : g[m] = f[m]
    BY <1>1, <1>2, CountsAssumption DEF Settings
  <2> QED
    BY <1>1, <2>1, PresenceDepends
<1>3. i < j /\ \A k \in Settings : i < k /\ k < j => k \notin PresentIn(g)
  <2>1. NumSettings \in Nat /\ i \in Nat
    BY CountsAssumption DEF Settings
  <2>2. i < j
    BY <2>1 DEF IsNext
  <2>3. ASSUME NEW k \in Settings, i < k, k < j PROVE k \notin PresentIn(g)
    <3>1. k \in (i + 1)..(j - 1)
      BY <2>1, <2>3 DEF Settings
    <3> QED
      BY <3>1 DEF IsNext
  <2> QED
    BY <2>2, <2>3
<1>4. ASSUME NEW k \in Settings
      PROVE  g[k] = IF k < j /\ k \in PresentIn(g) THEN b[k] ELSE Absent
  <2>1. f[k] = IF k < i /\ k \in PresentIn(f) THEN b[k] ELSE Absent
    BY DEF PulledUpTo
  <2>2. CASE k < i
    <3>1. k <= i /\ k # i /\ k < j
      BY <1>3, <2>2 DEF Settings
    <3> QED
      BY <1>1, <1>2, <2>1, <2>2, <3>1, Zenon
  <2>3. CASE k = i
    <3>1. k <= i /\ k < j
      BY <1>3, <2>3 DEF Settings
    <3> QED
      BY <1>1, <1>2, <2>3, <3>1, Zenon
  <2>4. CASE i < k
    <3>1. ~(k < i) /\ k # i
      BY <2>4 DEF Settings
    <3> QED
      BY <1>1, <1>3, <2>1, <2>4, <3>1, Zenon
  <2> QED
    BY <2>2, <2>3, <2>4, CountsAssumption DEF Settings
<1> QED
  BY <1>1, <1>4 DEF PulledUpTo

\* Past the last setting, the profile is what the slot shows.
LEMMA PulledAll ==
  ASSUME NEW b \in Bank, NEW f \in Profile, PulledUpTo(b, f, NumSettings + 1)
  PROVE  Shows(b, f)
<1>1. \A k \in Settings : f[k] = IF k \in PresentIn(f) THEN b[k] ELSE Absent
  BY CountsAssumption DEF PulledUpTo, Settings
<1> QED
  BY <1>1, Zenon DEF PresentIn, Shows

-----------------------------------------------------------------------------
(* The output file.                                                        *)

\* A file step keeps the types and what is known of the file.
LEMMA FileStepKeeps ==
  ASSUME FileTypeOK, FileKept, FileStep, phase # "dark", NEW p, phase' = p
  PROVE  FileTypeOK' /\ FileKept'
<1> USE DEF FileTypeOK, FileKept, Names, contentVars
<1>1. CASE BeginWrite
  BY <1>1, ZenonT(60) DEF BeginWrite, DropFile
<1>2. CASE WriteAll
  BY <1>2 DEF WriteAll
<1>3. CASE SyncAll
  <2>1. CASE DropFile
    BY <1>3, <2>1 DEF SyncAll, DropFile
  <2>2. CASE file' = "synced" /\ synced' = TRUE /\ UNCHANGED <<policy, path, onDisk, content>>
    <3>1. synced' /\ synced' \in BOOLEAN
      BY <2>2, Zenon
    <3> QED
      BY <1>3, <2>2, <3>1 DEF SyncAll
  <2> QED
    BY <1>3, <2>1, <2>2 DEF SyncAll
<1>4. CASE Persist
  BY <1>4 DEF Persist, MayRename, DropFile, Artifact
<1>5. CASE SyncDirectory
  BY <1>5 DEF SyncDirectory, DropFile
<1> QED
  BY <1>1, <1>2, <1>3, <1>4, <1>5 DEF FileStep

\* The steps that touch the file.
LEMMA FileNext == CommandInv /\ CommandNext => FileTypeOK' /\ FileKept'
<1> SUFFICES ASSUME CommandInv, CommandNext PROVE FileTypeOK' /\ FileKept'
  OBVIOUS
<1>1. FileTypeOK /\ FileKept
  BY DEF CommandInv, CommandTypeOK
<1>2. \/ phase # "dark" /\ UNCHANGED fileVars
      \/ phase # "dark" /\ FileStep
      \/ Rival
      \/ Crash
  <2>1. CASE Begin \/ WriteArtifact
    BY <2>1 DEF Begin, WriteArtifact, FileStep
  <2>2. CASE \/ Open \/ SnapshotSelector \/ Access \/ ContinuePull \/ FinishPull \/ FailPull
             \/ RestoreSelector \/ EndRegion \/ ShowResult \/ Interrupt \/ TurnDial
    BY <2>2 DEF Open, SnapshotSelector, Access, ContinuePull, FinishPull, FailPull,
                RestoreSelector, EndRegion, ShowResult, Interrupt, TurnDial, Silent
  <2>3. CASE WriteStep \/ InterruptWrite
    BY <2>3 DEF WriteStep, ReadInput, OpenToWrite, WriteSlot, EndWrite, Report,
                InterruptWrite, At, Quiet, WriteRegion, CommandInv, CommandTypeOK, Writing,
                Reading
  <2> QED
    BY <2>1, <2>2, <2>3 DEF CommandNext, Next, HostStep
<1>3. CASE phase # "dark" /\ UNCHANGED fileVars
  BY <1>1, <1>3 DEF fileVars, FileTypeOK, FileKept
<1>4. CASE phase # "dark" /\ FileStep
  BY <1>1, <1>4, FileStepKeeps
<1>5. CASE Rival
  BY <1>1, <1>5 DEF Rival, RivalCreates, contentVars, FileTypeOK, FileKept, Names, readVars
<1>6. CASE Crash
  BY <1>1, <1>6 DEF Crash, PowerLoss, contentVars, FileTypeOK, FileKept, Names
<1> QED
  BY <1>2, <1>3, <1>4, <1>5, <1>6

-----------------------------------------------------------------------------
(* The types.                                                              *)

\* The variables that no step changes.
LEMMA InputNext == CommandNext => UNCHANGED <<command, toStdout, wanted, before>>
  BY DEF CommandNext, writeVars, readVars, Next, HostStep, Begin, Open, SnapshotSelector,
         Access, ContinuePull,
         FinishPull, FailPull, RestoreSelector, EndRegion, ShowResult, WriteArtifact,
         Interrupt, TurnDial, Rival, Crash, WriteStep, ReadInput, OpenToWrite, WriteSlot,
         EndWrite, Report, InterruptWrite, Quiet, Silent

\* What a step of the access adapter does while a setting is read.
AccessFrame ==
    /\ step' \in {"confirm", "access", "check", "answered"}
    /\ active' \in {active, target}
    /\ value' \in {value, bank[active][request.setting]}
    /\ reply' \in Replies
    /\ UNCHANGED <<bank, turns, target, request>>

LEMMA AccessStep ==
  ASSUME AdapterStep, IoTypeOK, request.kind = "get"
  PROVE  AccessFrame
  BY DEF AdapterStep, SelectSlot, ConfirmSlot, ReadSetting, WriteSetting, CheckSlot, Answer,
         AccessFrame, Accepted, Rejected, Lost, IoTypeOK, Replies, CheckFailure

\* The flags stay flags.
LEMMA AccessFlags ==
  ASSUME AdapterStep, IoTypeOK
  PROVE  /\ selected' \in BOOLEAN /\ healthy' \in BOOLEAN
         /\ fault' \in BOOLEAN /\ astray' \in BOOLEAN /\ blind' \in BOOLEAN
         /\ blind => blind'
  BY Zenon DEF AdapterStep, SelectSlot, ConfirmSlot, ReadSetting, WriteSetting, CheckSlot,
         Accepted, Rejected, Lost, IoTypeOK


\* What a step of a command that reads may do.
LEMMA ReadNext ==
  ASSUME CommandInv, CommandNext, command \in Reading
  PROVE  /\ HostStep \/ Interrupt \/ TurnDial \/ Rival \/ Crash
         /\ UNCHANGED <<bank, writeVars>>
         /\ blind => blind'
<1>1. command \notin Writing
  BY DEF Reading, Writing
<1>2. (HostStep \/ Interrupt \/ TurnDial \/ Rival \/ Crash) /\ UNCHANGED writeVars
  BY <1>1 DEF CommandNext, Next, WriteStep, ReadInput, OpenToWrite, WriteSlot, EndWrite, Report,
              InterruptWrite, At
<1>3. CASE Access
  <2>1. AccessFrame /\ (blind => blind')
    BY <1>3, AccessStep, AccessFlags DEF Access, CommandInv, CommandTypeOK, PullKept
  <2> QED
    BY <1>2, <2>1 DEF AccessFrame
<1>4. CASE ~Access
  <2>1. UNCHANGED <<bank, blind>>
    BY <1>2, <1>4 DEF HostStep, Begin, Open, SnapshotSelector, ContinuePull, FinishPull,
           FailPull, RestoreSelector, EndRegion, ShowResult, WriteArtifact, Interrupt,
           TurnDial, TurnSelector, Rival, Crash, ioVars, Silent
  <2> QED
    BY <1>2, <2>1
<1> QED
  BY <1>3, <1>4

\* A command that reads keeps the types of the camera and of its adapter.
LEMMA ReadIoTypes ==
  ASSUME CommandInv, CommandNext, command \in Reading
  PROVE  IoTypeOK'
<1>1. (HostStep \/ Interrupt \/ TurnDial \/ Rival \/ Crash) /\ UNCHANGED bank
  BY ReadNext
<1>2. IoTypeOK /\ snapshot \in Slots \cup {NoSlot} /\ todo \subseteq Slots
  BY DEF CommandInv, CommandTypeOK
<1>3. ASSUME NEW j \in Settings
      PROVE  [kind |-> "get", setting |-> j, value |-> Absent] \in Requests
  BY DEF Requests
<1>4. 1 \in Settings
  BY CountsAssumption DEF Settings
<1>5. CASE Access
  <2>1. AccessFrame
    BY <1>2, <1>5, AccessStep DEF Access, CommandInv, PullKept
  <2>2. request \in Requests /\ bank[active][request.setting] \in Values
    BY <1>2, <1>5 DEF Access, IoTypeOK, Requests, Bank, CommandInv, PullKept, Steps
  <2>3. /\ selected' \in BOOLEAN /\ healthy' \in BOOLEAN
        /\ fault' \in BOOLEAN /\ astray' \in BOOLEAN /\ blind' \in BOOLEAN
    BY <1>2, <1>5, AccessFlags DEF Access
  <2> QED
    BY <1>1, <1>2, <2>1, <2>2, <2>3 DEF AccessFrame, IoTypeOK, Steps
<1>6. ASSUME UNCHANGED ioVars PROVE IoTypeOK'
  BY <1>2, <1>6 DEF ioVars, IoTypeOK
<1>7. CASE TurnDial
  BY <1>2, <1>7, CountsAssumption DEF TurnDial, TurnSelector, IoTypeOK
<1>8. CASE SnapshotSelector \/ RestoreSelector
  <2>1. healthy' \in BOOLEAN /\ fault' \in BOOLEAN
    BY <1>2, <1>8, Zenon DEF SnapshotSelector, RestoreSelector, SelectorRead, SelectorUnread,
           SelectorWritten, SelectorNotWritten, Accepted, Rejected, Lost, IoTypeOK
  <2>2. active' \in Slots
    BY <1>2, <1>8 DEF SnapshotSelector, RestoreSelector, SelectorRead, SelectorUnread,
           SelectorWritten, SelectorNotWritten, IoTypeOK, CommandInv, SelectorKept
  <2>3. /\ selected' \in BOOLEAN /\ target' \in Slots /\ step' \in Steps /\ reply' \in Replies
        /\ (step' \in {"select", "confirm", "access", "check", "answered"} =>
              request' \in Requests)
        /\ request' \in Requests \cup {NoRequest}
    <3>1. \/ UNCHANGED <<selected, target, step, reply, request>>
          \/ \E s \in todo : StartSlot(s)
      BY <1>8 DEF SnapshotSelector, RestoreSelector, adapterVars
    <3>2. ASSUME NEW s \in todo, StartSlot(s)
          PROVE  /\ ~selected' /\ selected' \in BOOLEAN /\ target' \in Slots
                 /\ step' = "select" /\ reply' = "none" /\ request' \in Requests
      <4>1. ~selected' /\ selected' \in BOOLEAN
        BY <3>2, Zenon DEF StartSlot
      <4> QED
        BY <1>2, <1>3, <1>4, <3>2, <4>1 DEF StartSlot
    <3> QED
      BY <1>2, <3>1, <3>2 DEF IoTypeOK, Steps, Replies
  <2>4. UNCHANGED <<bank, turns, value, astray, blind>>
    BY <1>8 DEF SnapshotSelector, RestoreSelector, adapterVars
  <2> QED
    BY <1>2, <2>1, <2>2, <2>3, <2>4 DEF IoTypeOK
<1>9. CASE ContinuePull \/ FinishPull \/ FailPull
  <2>1. UNCHANGED <<active, bank, turns, healthy, fault, astray, blind, value>>
    BY <1>9 DEF ContinuePull, FinishPull, FailPull, Silent
  <2>2. \/ UNCHANGED <<selected, target>> /\ \E j \in Settings : AskGet(j)
        \/ \E s \in todo : StartSlot(s)
        \/ UNCHANGED target /\ Leave
    BY <1>9 DEF ContinuePull, FinishPull, FailPull, AskGet, Ask
  <2>3. CASE UNCHANGED <<selected, target>> /\ \E j \in Settings : AskGet(j)
    BY <1>2, <1>3, <2>1, <2>3 DEF AskGet, Ask, IoTypeOK, Steps, Replies
  <2>4. CASE \E s \in todo : StartSlot(s)
    <3>1. ~selected' /\ selected' \in BOOLEAN
      BY <2>4, Zenon DEF StartSlot
    <3> QED
      BY <1>2, <1>3, <1>4, <2>1, <2>4, <3>1 DEF StartSlot, IoTypeOK, Steps, Replies
  <2>5. CASE UNCHANGED target /\ Leave
    BY <1>2, <2>1, <2>5 DEF Leave, IoTypeOK, Steps, Replies
  <2> QED
    BY <2>2, <2>3, <2>4, <2>5
<1> QED
  BY <1>1, <1>5, <1>6, <1>7, <1>8, <1>9
     DEF HostStep, Begin, Open, EndRegion, ShowResult, WriteArtifact, Interrupt, Rival, Crash

\* What was pulled so far, with the setting just read.
LEMMA PulledIsProfile == CommandTypeOK => Pulled \in Profile
  BY DEF CommandTypeOK, IoTypeOK, Pulled, Profile

\* A command that reads keeps the types.
LEMMA ReadTypes ==
  ASSUME CommandInv, CommandNext, command \in Reading
  PROVE  CommandTypeOK'
<1> USE DEF Goto, Exit
<1>1. /\ HostStep \/ Interrupt \/ TurnDial \/ Rival \/ Crash
      /\ UNCHANGED <<wanted, before, outcome, written, sent, command, toStdout>>
  BY ReadNext, InputNext DEF writeVars
<1>2. CommandTypeOK /\ IoTypeOK' /\ FileTypeOK'
  BY ReadIoTypes, FileNext DEF CommandInv
<1>3. WriteTypeOK'
  BY <1>1, <1>2 DEF CommandTypeOK, WriteTypeOK
<1>4. phase' \in Phases
  BY <1>1, <1>2 DEF CommandTypeOK, HostStep, Begin, Open, SnapshotSelector, Access, ContinuePull,
         FinishPull, FailPull, RestoreSelector, EndRegion, ShowResult, WriteArtifact, StartSlot,
         AfterRead, Interrupt, TurnDial, Rival, Crash, readVars, Silent, Phases, Region
<1>5. exit' \in {0, 1, 3, 130} /\ stream' \in {"none", "part", "full"}
  BY <1>1, <1>2 DEF CommandTypeOK, HostStep, Begin, Open, SnapshotSelector, Access, ContinuePull,
         FinishPull, FailPull, RestoreSelector, EndRegion, ShowResult, WriteArtifact, StartSlot,
         PipeStatus, Interrupt, TurnDial, Rival, Crash, readVars, Silent
<1>6. index' \in 0..NumSettings /\ todo' \subseteq Slots
  <2>1. \/ index' \in {index, 1} \/ index' \in Settings
    BY <1>1 DEF HostStep, Begin, Open, SnapshotSelector, Access, ContinuePull,
         FinishPull, FailPull, RestoreSelector, EndRegion, ShowResult, WriteArtifact, StartSlot,
         Interrupt, TurnDial, Rival, Crash, readVars, Silent
  <2>2. todo' \subseteq todo
    BY <1>1 DEF HostStep, Begin, Open, SnapshotSelector, Access, ContinuePull,
         FinishPull, FailPull, RestoreSelector, EndRegion, ShowResult, WriteArtifact, StartSlot,
         Interrupt, TurnDial, Rival, Crash, readVars, Silent
  <2> QED
    BY <1>2, <2>1, <2>2, CountsAssumption DEF CommandTypeOK, Settings
<1>7. staged' \in Profile
  <2>1. staged' \in {staged, Pulled, Nothing}
    BY <1>1 DEF HostStep, Begin, Open, SnapshotSelector, Access, ContinuePull,
         FinishPull, FailPull, RestoreSelector, EndRegion, ShowResult, WriteArtifact, StartSlot,
         Interrupt, TurnDial, Rival, Crash, readVars, Silent
  <2>2. Nothing \in Profile
    BY DEF Nothing, Profile
  <2> QED
    BY <1>2, <2>1, <2>2, PulledIsProfile DEF CommandTypeOK
<1>8. profiles' \in [Slots -> Profile \cup {NotRead}]
  <2>1. UNCHANGED profiles \/ profiles' = [profiles EXCEPT ![target] = Pulled]
    BY <1>1 DEF HostStep, Begin, Open, SnapshotSelector, Access, ContinuePull,
         FinishPull, FailPull, RestoreSelector, EndRegion, ShowResult, WriteArtifact,
         Interrupt, TurnDial, Rival, Crash, readVars, Silent
  <2> QED
    BY <1>2, <2>1, PulledIsProfile DEF CommandTypeOK
<1>9. snapshot' \in Slots \cup {NoSlot}
  BY <1>1, <1>2 DEF CommandTypeOK, IoTypeOK, HostStep, Begin, Open, SnapshotSelector, Access,
         ContinuePull, FinishPull, FailPull, RestoreSelector, EndRegion, ShowResult,
         WriteArtifact, Interrupt, TurnDial, Rival, Crash, readVars, Silent
<1>10. failed' \in BOOLEAN
  <2>1. UNCHANGED failed \/ failed' = TRUE
    BY <1>1 DEF HostStep, Begin, Open, SnapshotSelector, Access,
         ContinuePull, FinishPull, FailPull, RestoreSelector, EndRegion, ShowResult,
         WriteArtifact, Interrupt, TurnDial, Rival, Crash, readVars, Silent
  <2> QED
    BY <1>2, <2>1, Zenon DEF CommandTypeOK
<1>11. pressed' \in BOOLEAN
  <2>1. UNCHANGED pressed \/ pressed' = TRUE \/ pressed' = FALSE
    BY <1>1 DEF HostStep, Begin, Open, SnapshotSelector, Access,
         ContinuePull, FinishPull, FailPull, RestoreSelector, EndRegion, ShowResult,
         WriteArtifact, Interrupt, TurnDial, Rival, Crash, readVars, Silent
  <2> QED
    BY <1>2, <2>1, Zenon DEF CommandTypeOK
<1>12. back' \in BOOLEAN
  <2>1. CASE RestoreSelector
    BY <1>2, <2>1, Zenon DEF RestoreSelector, CommandTypeOK
  <2>2. CASE ~RestoreSelector
    BY <1>1, <1>2, <2>2 DEF HostStep, Begin, Open, SnapshotSelector, Access,
         ContinuePull, FinishPull, FailPull, EndRegion, ShowResult,
         WriteArtifact, Interrupt, TurnDial, Rival, Crash, readVars, Silent, CommandTypeOK
  <2> QED
    BY <2>1, <2>2
<1> QED
  BY <1>1, <1>2, <1>3, <1>4, <1>5, <1>6, <1>7, <1>8, <1>9, <1>10, <1>11, <1>12
     DEF CommandTypeOK

-----------------------------------------------------------------------------
(* What a command that reads knows.                                        *)

\* Starting with a slot, nothing is read.
LEMMA StartSlotPulls ==
  ASSUME CommandInv, NEW s \in todo, StartSlot(s), UNCHANGED <<bank, command>>,
         command \in Reading
  PROVE  PullKept'
<1>1. 1 \in Settings /\ NumSettings \in Nat
  BY CountsAssumption DEF Settings
<1>2. Nothing \in Profile
  BY DEF Nothing, Profile
<1>3. 1 \in PresentIn(Nothing)
  <2>1. Present(1, Nothing)
    BY <1>2, PresenceAssumption
  <2> QED
    BY <1>1, <2>1, Zenon DEF PresentIn
<1>4. PulledUpTo(bank[s], Nothing, 1)
  BY <1>1 DEF PulledUpTo, Nothing, Settings
<1>5. /\ command' \in Reading /\ bank' = bank /\ target' = s /\ index' = 1 /\ staged' = Nothing
      /\ request' = [kind |-> "get", setting |-> 1, value |-> Absent]
      /\ step' = "select" /\ reply' = "none"
  BY DEF StartSlot
<1>6. PulledUpTo(bank'[target'], staged', index')
  BY <1>4, <1>5
<1> QED
  BY <1>1, <1>3, <1>5, <1>6 DEF PullKept

\* The setting just read is that of the slot, and so is the profile so far.
LEMMA PulledTrue ==
  ASSUME CommandTypeOK, PullKept, phase = "pull", reply = "ok", ~blind,
         NEW j \in Nat, IsNext(index, j, PresentIn(Pulled))
  PROVE  PulledUpTo(bank[target], Pulled, j)
<1>1. /\ index \in Settings /\ index \in PresentIn(staged)
      /\ PulledUpTo(bank[target], staged, index)
      /\ value = bank[target][index]
      /\ bank[target] \in Bank /\ staged \in Profile
  BY DEF PullKept, CommandTypeOK, IoTypeOK
<1>2. Pulled = [staged EXCEPT ![index] = bank[target][index]]
  BY <1>1 DEF Pulled
<1> QED
  BY <1>1, <1>2, PulledGrows

\* Every step keeps what is known of the slot being read.
LEMMA PullNext ==
  ASSUME CommandInv, CommandNext, command \in Reading
  PROVE  PullKept'
<1>1. /\ HostStep \/ Interrupt \/ TurnDial \/ Rival \/ Crash
      /\ UNCHANGED <<bank, command>> /\ (blind => blind')
  BY ReadNext, InputNext
<1>2. CommandTypeOK /\ PullKept
  BY DEF CommandInv
<1>3. ASSUME NEW s \in todo, StartSlot(s) PROVE PullKept'
  BY <1>1, <1>3, StartSlotPulls
<1>4. CASE \/ Begin \/ Open \/ FailPull \/ RestoreSelector \/ EndRegion \/ ShowResult
           \/ WriteArtifact \/ Crash
  <2>1. phase' # "pull"
    BY <1>4 DEF Begin, Open, FailPull, AfterRead, RestoreSelector, EndRegion, ShowResult,
                WriteArtifact, Crash, Goto, Exit
  <2> QED
    BY <2>1 DEF PullKept
<1>5. CASE Interrupt \/ TurnDial \/ Rival
  <2>1. /\ phase' = "pull" => phase = "pull"
        /\ UNCHANGED <<step, index, request, staged, target, value, reply, astray, blind>>
    BY <1>5 DEF Interrupt, TurnDial, TurnSelector, Rival, readVars, ioVars, Goto, Exit
  <2> QED
    BY <1>1, <1>2, <2>1 DEF PullKept, PulledUpTo
<1>6. CASE SnapshotSelector
  BY <1>3, <1>6 DEF SnapshotSelector, Goto, PullKept
<1>7. CASE Access
  <2>1. /\ AccessFrame /\ phase = "pull" /\ UNCHANGED <<phase, index, staged>>
        /\ IoTypeOK
    BY <1>2, <1>7, AccessStep DEF Access, CommandTypeOK, PullKept, readVars
  <2>2. step' = "check" /\ ~astray' => value' = bank[target][index]
    BY <1>2, <1>7, <2>1 DEF Access, AdapterStep, SelectSlot, ConfirmSlot, ReadSetting,
           WriteSetting, CheckSlot, Answer, PullKept, IoTypeOK
  <2>3. reply' = "ok" => step' = "answered" /\ (~blind' => value' = bank[target][index])
    BY <1>2, <1>7, <2>1 DEF Access, AdapterStep, SelectSlot, ConfirmSlot, ReadSetting,
           WriteSetting, CheckSlot, Answer, PullKept, IoTypeOK, CheckFailure
  <2> QED
    BY <1>1, <1>2, <2>1, <2>2, <2>3 DEF PullKept, AccessFrame
<1>8. CASE ContinuePull
  <2>1. PICK j \in Settings : IsNext(index, j, PresentIn(Pulled)) /\ index' = j /\ AskGet(j)
    BY <1>8 DEF ContinuePull
  <2>2. /\ phase = "pull" /\ step = "answered" /\ reply = "ok" /\ staged' = Pulled
        /\ UNCHANGED <<phase, blind, target>>
    BY <1>8 DEF ContinuePull, Silent
  <2>3. /\ request' = [kind |-> "get", setting |-> j, value |-> Absent]
        /\ reply' = "none" /\ step' \in {"access", "select"}
    BY <2>1 DEF AskGet, Ask
  <2>4. j \in PresentIn(staged')
    BY <2>1, <2>2 DEF IsNext, Settings
  <2>5. ~blind' => PulledUpTo(bank'[target'], staged', index')
    <3> SUFFICES ASSUME ~blind' PROVE PulledUpTo(bank'[target'], staged', index')
      OBVIOUS
    <3>1. j \in Nat
      BY CountsAssumption DEF Settings
    <3>2. PulledUpTo(bank[target], Pulled, j)
      BY <1>2, <2>1, <2>2, <3>1, PulledTrue DEF CommandTypeOK
    <3> QED
      BY <1>1, <2>1, <2>2, <3>2
  <2> QED
    BY <1>1, <1>2, <2>1, <2>2, <2>3, <2>4, <2>5 DEF PullKept
<1>9. CASE FinishPull
  <2>1. (\E s \in todo : StartSlot(s)) \/ phase' # "pull"
    BY <1>9 DEF FinishPull, AfterRead, Goto
  <2> QED
    BY <1>3, <2>1 DEF PullKept
<1> QED
  BY <1>1, <1>4, <1>5, <1>6, <1>7, <1>8, <1>9 DEF HostStep

\* Every step keeps the profiles true.
LEMMA ShownNext ==
  ASSUME CommandInv, CommandNext, command \in Reading
  PROVE  ShownKept'
<1>1. /\ HostStep \/ Interrupt \/ TurnDial \/ Rival \/ Crash
      /\ UNCHANGED <<bank, command>> /\ (blind => blind')
      /\ command \notin Writing
  BY ReadNext, InputNext DEF Reading, Writing
<1>2. CASE FinishPull
  <2> SUFFICES ASSUME ~blind', NEW s \in Slots, profiles'[s] # NotRead
               PROVE  Shows(bank[s], profiles'[s])
    BY <1>1 DEF ShownKept
  <2>1. /\ ~blind /\ phase = "pull" /\ reply = "ok"
        /\ IsNext(index, NumSettings + 1, PresentIn(Pulled))
        /\ profiles' = [profiles EXCEPT ![target] = Pulled]
    BY <1>2 DEF FinishPull, Silent
  <2>2. CommandTypeOK /\ target \in Slots /\ bank[target] \in Bank /\ PullKept
        /\ profiles \in [Slots -> Profile \cup {NotRead}]
    BY DEF CommandInv, CommandTypeOK, IoTypeOK
  <2>3. CASE s = target
    <3>1. NumSettings + 1 \in Nat
      BY CountsAssumption
    <3>2. PulledUpTo(bank[target], Pulled, NumSettings + 1)
      BY <2>1, <2>2, <3>1, PulledTrue
    <3>3. Shows(bank[target], Pulled)
      BY <2>2, <3>2, PulledIsProfile, PulledAll
    <3> QED
      BY <2>1, <2>2, <2>3, <3>3
  <2>4. CASE s # target
    <3>1. profiles'[s] = profiles[s]
      BY <2>1, <2>2, <2>4
    <3> QED
      BY <2>1, <3>1 DEF CommandInv, ShownKept
  <2> QED
    BY <2>3, <2>4
<1>3. CASE ~FinishPull
  <2>1. UNCHANGED profiles
    BY <1>1, <1>3 DEF HostStep, Begin, Open, SnapshotSelector, Access, ContinuePull,
         FailPull, RestoreSelector, EndRegion, ShowResult, WriteArtifact,
         Interrupt, TurnDial, Rival, Crash, readVars, Silent
  <2> QED
    BY <1>1, <2>1 DEF CommandInv, ShownKept
<1> QED
  BY <1>2, <1>3

\* Every step keeps what is known of the selector.
LEMMA SelectorNext ==
  ASSUME CommandInv, CommandNext, command \in Reading
  PROVE  SelectorKept'
<1> USE DEF Goto, Exit
<1>1. /\ HostStep \/ Interrupt \/ TurnDial \/ Rival \/ Crash
      /\ UNCHANGED <<bank, command>>
      /\ command \notin Writing
  BY ReadNext, InputNext DEF Reading, Writing
<1>2. /\ SelectorKept /\ phase \in Phases /\ back \in BOOLEAN /\ turns \in Nat
      /\ active \in Slots /\ NoSlot \notin Slots
  BY SlotsAssumption, CountsAssumption DEF CommandInv, CommandTypeOK, IoTypeOK
<1>3. CASE Begin \/ Open
  <2>1. /\ phase \in {"begin", "open"} /\ phase' \in {"open", "snapshot", "done"}
        /\ UNCHANGED <<snapshot, back>>
    BY <1>3 DEF Begin, Open
  <2> QED
    BY <1>1, <1>2, <2>1 DEF SelectorKept, SelectorUnknown
<1>4. CASE SnapshotSelector
  <2>1. /\ phase = "snapshot" /\ phase' \in {"pull", "endRegion"} /\ UNCHANGED back
        /\ phase' = "pull" => snapshot' = active
    BY <1>4 DEF SnapshotSelector, StartSlot
  <2> QED
    BY <1>1, <1>2, <2>1 DEF SelectorKept
<1>5. CASE Access \/ ContinuePull \/ FinishPull \/ FailPull
  <2>1. /\ phase = "pull" /\ phase' \in {"pull", "restore", "endRegion"}
        /\ UNCHANGED <<snapshot, back>>
    BY <1>5 DEF Access, ContinuePull, FinishPull, FailPull, StartSlot, AfterRead, Silent,
                readVars
  <2> QED
    BY <1>1, <1>2, <2>1 DEF SelectorKept
<1>6. CASE RestoreSelector
  <2>1. /\ phase \in {"restore", "confirmRestore"}
        /\ phase' \in {"confirmRestore", "endRegion"}
        /\ UNCHANGED snapshot
    BY <1>6 DEF RestoreSelector
  <2>2. back' => phase' = "endRegion" /\ active' = snapshot
    BY <1>2, <1>6 DEF RestoreSelector, SelectorRead, SeenBack, SelectorKept
  <2> QED
    BY <1>1, <1>2, <2>1, <2>2 DEF SelectorKept, InPlace
<1>7. CASE EndRegion
  <2>1. /\ phase = "endRegion" /\ phase' \in {"output", "done"}
        /\ UNCHANGED <<snapshot, back, active, turns>>
        /\ ~SelectorUnknown \/ (phase' = "done" /\ exit' = 3)
    BY <1>7 DEF EndRegion, ioVars
  <2> QED
    BY <1>1, <1>2, <2>1 DEF SelectorKept, InPlace, SelectorUnknown
<1>8. CASE ShowResult \/ WriteArtifact
  <2>1. /\ phase = "output" /\ phase' \in {"output", "done"}
        /\ UNCHANGED <<snapshot, back, active, turns>>
    BY <1>8 DEF ShowResult, WriteArtifact, ioVars
  <2> QED
    BY <1>1, <1>2, <2>1 DEF SelectorKept, InPlace, SelectorUnknown
<1>9. CASE Interrupt
  <2>1. /\ phase \notin {"done", "dark"} /\ UNCHANGED <<snapshot, back, active, turns>>
        /\ \/ UNCHANGED <<phase, exit>>
           \/ phase' = "done" /\ exit' = 3
           \/ phase' = "done" /\ phase \notin Region
    BY <1>9 DEF Interrupt, ioVars
  <2> QED
    BY <1>1, <1>2, <2>1 DEF SelectorKept, InPlace, SelectorUnknown, Phases, Region
<1>10. CASE TurnDial
  <2>1. phase \notin {"done", "dark"} /\ UNCHANGED <<snapshot, back, phase, exit>> /\ turns' # 0
    BY <1>2, <1>10 DEF TurnDial, TurnSelector, readVars
  <2> QED
    BY <1>1, <1>2, <2>1 DEF SelectorKept, InPlace, SelectorUnknown
<1>11. CASE Rival
  BY <1>1, <1>2, <1>11 DEF Rival, ioVars, readVars, SelectorKept, InPlace, SelectorUnknown
<1>12. CASE Crash
  BY <1>1, <1>2, <1>12 DEF Crash, ioVars, SelectorKept, InPlace, SelectorUnknown
<1> QED
  BY <1>1, <1>3, <1>4, <1>5, <1>6, <1>7, <1>8, <1>9, <1>10, <1>11, <1>12 DEF HostStep

\* Every step keeps the output of an export whole.
LEMMA ExportNext == CommandInv /\ CommandNext => ExportKept'
<1> SUFFICES ASSUME CommandInv, CommandNext, command = "export", exit' = 0, phase' = "done"
             PROVE  IF toStdout' THEN stream' = "full" ELSE file' = "committed"
  BY InputNext DEF ExportKept
<1>1. HostStep \/ Interrupt \/ TurnDial \/ Rival \/ Crash
  BY ReadNext DEF Reading
<1>2. CASE ShowResult \/ WriteArtifact
  BY <1>2 DEF ShowResult, WriteArtifact, PipeStatus, Exit, Goto
<1>3. CASE ~ShowResult /\ ~WriteArtifact
  <2>1. phase = "done" /\ UNCHANGED <<exit, toStdout, stream, file>>
    BY <1>1, <1>3 DEF HostStep, Begin, Open, SnapshotSelector, Access, ContinuePull,
         FinishPull, FailPull, RestoreSelector, EndRegion, StartSlot, AfterRead,
         Interrupt, TurnDial, Rival, RivalCreates, Crash, readVars, fileVars, Silent, Goto, Exit
  <2> QED
    BY <2>1 DEF CommandInv, ExportKept
<1> QED
  BY <1>2, <1>3

-----------------------------------------------------------------------------
(* What a command that writes knows.                                       *)

\* What a step of a command that writes may do, and what it leaves alone.
LEMMA WriteFrame ==
  ASSUME CommandInv, CommandNext, command \in Writing
  PROVE  /\ (TurnDial /\ UNCHANGED writeVars) \/ WriteStep \/ InterruptWrite
         /\ UNCHANGED <<command, toStdout, wanted, before, healthy, target, adapterVars,
                        fault, astray, fileVars, todo, index, staged, profiles, failed, back>>
         /\ phase \in {"begin", "open", "report"} \cup WriteRegion
         /\ phase' \in {"begin", "open", "report", "done"} \cup WriteRegion
<1>1. command \notin Reading
  BY DEF Reading, Writing
<1>2. (TurnDial /\ UNCHANGED writeVars) \/ WriteStep \/ InterruptWrite
  BY <1>1 DEF CommandNext
<1>3. UNCHANGED <<command, toStdout, wanted, before, healthy, target, adapterVars,
                  fault, astray, fileVars, todo, index, staged, profiles, failed, back>>
  BY <1>2 DEF TurnDial, TurnSelector, readVars, writeVars, WriteStep, ReadInput, OpenToWrite,
              WriteSlot, EndWrite, Report, InterruptWrite, Quiet, ioVars, adapterVars
<1>4. phase \in {"begin", "open", "report"} \cup WriteRegion
  BY <1>1, <1>2 DEF TurnDial, WriteStep, ReadInput, OpenToWrite, WriteSlot, EndWrite, Report,
              InterruptWrite, At, WriteRegion, CommandInv, CommandTypeOK
<1>5. phase' \in {"begin", "open", "report", "done"} \cup WriteRegion
  BY <1>2, <1>4 DEF TurnDial, readVars, WriteStep, ReadInput, OpenToWrite, WriteSlot, EndWrite,
              Report, InterruptWrite, Goto, Exit, WriteRegion
<1> QED
  BY <1>2, <1>3, <1>4, <1>5

\* A write leaves every slot with settings and the selector on a slot.
LEMMA WriteSlotTypes ==
  ASSUME CommandInv, WriteSlot \/ InterruptWrite
  PROVE  /\ bank' \in [Slots -> Bank] /\ active' \in Slots
         /\ sent' \in BOOLEAN /\ blind' \in BOOLEAN
         /\ snapshot' \in Slots \cup {NoSlot}
<1>1. /\ bank \in [Slots -> Bank] /\ active \in Slots /\ target \in Slots
      /\ sent \in BOOLEAN /\ blind \in BOOLEAN /\ snapshot \in Slots \cup {NoSlot}
  BY DEF CommandInv, CommandTypeOK, IoTypeOK, WriteTypeOK
<1>2. ASSUME Spoil PROVE bank' \in [Slots -> Bank] /\ active' \in Slots /\ sent' \in BOOLEAN
  BY <1>1, <1>2 DEF Spoil
<1>3. CASE WriteSlot
  <2>1. CASE Apply
    <3>1. sent' \in BOOLEAN
      BY <2>1, Zenon DEF Apply
    <3> QED
      BY <1>1, <2>1, <3>1 DEF Apply
  <2>2. CASE ChangeNothing
    <3>1. sent' \in BOOLEAN
      BY <2>2, Zenon DEF ChangeNothing
    <3> QED
      BY <1>1, <2>2, <3>1 DEF ChangeNothing
  <2>3. CASE LoseTrack
    BY <1>1, <1>2, <2>3 DEF LoseTrack
  <2>4. CASE Deceived
    <3>1. blind' \in BOOLEAN
      BY <2>4, Zenon DEF Deceived
    <3> QED
      BY <1>1, <1>2, <2>4, <3>1 DEF Deceived
  <2> QED
    BY <1>3, <2>1, <2>2, <2>3, <2>4 DEF WriteSlot
<1>4. CASE InterruptWrite
  BY <1>1, <1>2, <1>4 DEF InterruptWrite
<1> QED
  BY <1>3, <1>4

\* A command that writes keeps the types.
LEMMA WriteTypes ==
  ASSUME CommandInv, CommandNext, command \in Writing
  PROVE  CommandTypeOK'
<1> USE DEF Goto, Exit
<1>1. /\ (TurnDial /\ UNCHANGED writeVars) \/ WriteStep \/ InterruptWrite
      /\ UNCHANGED <<command, toStdout, wanted, before, healthy, target, selected, step,
                     request, value, reply, fault, astray, todo, index, staged, profiles,
                     failed, back>>
      /\ phase' \in {"begin", "open", "report", "done"} \cup WriteRegion
      /\ command \notin Reading
  BY WriteFrame DEF adapterVars, Reading, Writing
<1>2. CommandTypeOK /\ FileTypeOK'
  BY FileNext DEF CommandInv
<1>3. turns' \in 0..MaxTurns
  <2>1. UNCHANGED turns \/ (turns < MaxTurns /\ turns' = turns + 1)
    BY <1>1 DEF TurnDial, TurnSelector, WriteStep, ReadInput, OpenToWrite, WriteSlot, EndWrite,
           Report, InterruptWrite, Quiet, ioVars
  <2> QED
    BY <1>2, <2>1, CountsAssumption DEF CommandTypeOK, IoTypeOK
<1>4. /\ bank' \in [Slots -> Bank] /\ active' \in Slots
      /\ sent' \in BOOLEAN /\ blind' \in BOOLEAN
      /\ snapshot' \in Slots \cup {NoSlot}
  <2>1. CASE WriteSlot \/ InterruptWrite
    BY <2>1, WriteSlotTypes
  <2>2. CASE TurnDial /\ UNCHANGED writeVars
    BY <1>2, <2>2 DEF TurnDial, TurnSelector, writeVars, readVars, CommandTypeOK, IoTypeOK,
           WriteTypeOK
  <2>3. CASE ReadInput \/ OpenToWrite \/ EndWrite \/ Report
    BY <1>2, <2>3 DEF ReadInput, OpenToWrite, EndWrite, Report, Quiet, ioVars, CommandTypeOK,
           IoTypeOK, WriteTypeOK
  <2> QED
    BY <1>1, <2>1, <2>2, <2>3 DEF WriteStep
<1>5. outcome' \in Outcomes \cup {"none"} /\ written' \subseteq Settings
  BY <1>1, <1>2 DEF TurnDial, writeVars, WriteStep, ReadInput, OpenToWrite, WriteSlot, EndWrite,
         Report, InterruptWrite, Apply, ChangeNothing, LoseTrack, Deceived, Outcomes, Completed,
         Known, Changes, CommandTypeOK, WriteTypeOK
<1>6. pressed' \in BOOLEAN
  <2>1. UNCHANGED pressed \/ pressed' = TRUE \/ pressed' = FALSE
    BY <1>1 DEF TurnDial, readVars, WriteStep, ReadInput, OpenToWrite, WriteSlot, EndWrite,
           Report, InterruptWrite
  <2> QED
    BY <1>2, <2>1, Zenon DEF CommandTypeOK
<1>7. exit' \in {0, 1, 3, 130} /\ stream' \in {"none", "part", "full"}
  BY <1>1, <1>2 DEF TurnDial, readVars, WriteStep, ReadInput, OpenToWrite, WriteSlot, EndWrite,
         Report, InterruptWrite, PipeStatus, UnknownStatus, CommandTypeOK
<1>8. IoTypeOK'
  BY <1>1, <1>2, <1>3, <1>4 DEF CommandTypeOK, IoTypeOK
<1>9. WriteTypeOK'
  BY <1>1, <1>2, <1>4, <1>5 DEF CommandTypeOK, WriteTypeOK
<1> QED
  BY <1>1, <1>2, <1>4, <1>6, <1>7, <1>8, <1>9 DEF CommandTypeOK

\* A write shows no profile and reads none with this module's pull.
LEMMA WriteShowsNone ==
  ASSUME CommandInv, CommandNext, command \in Writing
  PROVE  PullKept' /\ ShownKept'
  BY WriteFrame DEF PullKept, ShownKept, WriteRegion, CommandInv

\* Every step keeps the selector in place, or says that it is not.
LEMMA WriteSelectorNext ==
  ASSUME CommandInv, CommandNext, command \in Writing
  PROVE  SelectorKept'
<1> USE DEF Goto, Exit
<1>1. /\ (TurnDial /\ UNCHANGED writeVars) \/ WriteStep \/ InterruptWrite
      /\ UNCHANGED <<command, back>>
      /\ phase \in {"begin", "open", "report"} \cup WriteRegion
      /\ phase' \in {"begin", "open", "report", "done"} \cup WriteRegion
      /\ command \notin Reading
  BY WriteFrame DEF Reading, Writing
<1>2. SelectorKept /\ turns \in Nat /\ ~back
  BY <1>1, CountsAssumption DEF CommandInv, CommandTypeOK, IoTypeOK, SelectorKept, WriteRegion
<1>3. InPlace
  BY <1>1, <1>2 DEF SelectorKept, WriteRegion
<1>4. CASE TurnDial
  <2>1. turns' # 0 /\ UNCHANGED <<phase, snapshot, exit>>
    BY <1>2, <1>4 DEF TurnDial, TurnSelector, readVars
  <2> QED
    BY <1>1, <1>2, <2>1 DEF SelectorKept, InPlace, WriteRegion
<1>5. CASE WriteSlot
  <2>1. /\ phase = "write" /\ phase' = "endWrite" /\ snapshot = NoSlot
        /\ UNCHANGED turns
        /\ snapshot' # NoSlot => active' = snapshot'
    BY <1>2, <1>5 DEF WriteSlot, Apply, ChangeNothing, LoseTrack, Deceived, At, SelectorKept
  <2> QED
    BY <1>1, <1>2, <2>1 DEF SelectorKept, InPlace
<1>6. CASE ReadInput \/ OpenToWrite \/ EndWrite \/ Report
  <2>1. /\ UNCHANGED <<active, turns, snapshot>>
        /\ phase' = "open" => phase = "begin"
        /\ phase' = "write" => phase = "open"
        /\ phase' # "begin"
    BY <1>6 DEF ReadInput, OpenToWrite, EndWrite, Report, Quiet, ioVars, At
  <2> QED
    BY <1>1, <1>2, <1>3, <2>1 DEF SelectorKept, InPlace, WriteRegion
<1>7. CASE InterruptWrite
  <2>1. /\ UNCHANGED <<turns, snapshot>>
        /\ UNCHANGED <<phase, active>> \/ phase' = "done"
        /\ UNCHANGED active \/ exit' = 3
    BY <1>7 DEF InterruptWrite
  <2> QED
    BY <1>1, <1>2, <1>3, <2>1 DEF SelectorKept, InPlace, WriteRegion
<1> QED
  BY <1>1, <1>4, <1>5, <1>6, <1>7 DEF WriteStep

\* What the transaction answers is true of the slots.
LEMMA AnswerDelivers ==
  ASSUME CommandInv, WriteSlot, ~blind', bank = before
  PROVE  /\ outcome' \in Completed => Delivered' /\ sent'
         /\ outcome' \in Known \cup {"none"} => bank' = before
<1> USE DEF Completed, Known
<1>1. /\ bank \in [Slots -> Bank] /\ target \in Slots /\ wanted \in Profile
      /\ UNCHANGED <<target, wanted, before>>
  BY DEF WriteSlot, CommandInv, CommandTypeOK, IoTypeOK, WriteTypeOK
<1>2. CASE Apply
  <2>1. PICK b \in Bank : Shows(b, wanted) /\ bank' = [bank EXCEPT ![target] = b]
    BY <1>2 DEF Apply
  <2>2. bank'[target] = b /\ \A s \in Slots \ {target} : bank'[s] = bank[s]
    BY <1>1, <2>1
  <2>3. ShownBy(bank'[target]) = wanted
    BY <1>1, <2>1, <2>2, ShownByIt
  <2>4. outcome' = "AppliedAndVerified" /\ written' = Changes(before[target], wanted)
    BY <1>2 DEF Apply
  <2>5. sent'
    BY <1>2, Zenon DEF Apply
  <2>6. Delivered'
    BY <1>1, <2>1, <2>2, <2>3, <2>4 DEF Delivered
  <2> QED
    BY <2>4, <2>5, <2>6
<1>3. CASE ChangeNothing
  <2>1. /\ UNCHANGED bank /\ written' = {}
        /\ outcome' # "RejectedWithoutChange" => sent'
        /\ outcome' # "none"
        /\ outcome' \in Completed => Shows(bank[target], wanted)
    BY <1>3 DEF ChangeNothing
  <2>2. ASSUME outcome' \in Completed PROVE Delivered' /\ sent'
    <3>1. bank[target] \in Bank /\ Shows(bank[target], wanted)
      BY <1>1, <2>1, <2>2
    <3>2. ShownBy(bank[target]) = wanted
      BY <1>1, <3>1, ShownByIt
    <3>3. Changes(before[target], ShownBy(bank[target])) = {}
      BY <3>2 DEF Changes
    <3>4. Changes(before'[target'], ShownBy(bank'[target'])) \subseteq written'
      BY <1>1, <2>1, <3>3
    <3>5. Shows(bank'[target'], wanted') /\ \A s \in Slots \ {target'} : bank'[s] = before'[s]
      BY <1>1, <2>1, <3>1
    <3> QED
      BY <2>1, <2>2, <3>4, <3>5 DEF Delivered
  <2> QED
    BY <2>1, <2>2
<1>4. CASE LoseTrack
  BY <1>4 DEF LoseTrack
<1>5. CASE Deceived
  <2>1. blind'
    BY <1>5, Zenon DEF Deceived
  <2> QED
    BY <2>1
<1> QED
  BY <1>2, <1>3, <1>4, <1>5 DEF WriteSlot

\* Every step keeps what is known of the write.
LEMMA WriteNext ==
  ASSUME CommandInv, CommandNext, command \in Writing
  PROVE  WriteKept'
<1> USE DEF Goto, Exit, Completed, Known
<1>1. /\ (TurnDial /\ UNCHANGED writeVars) \/ WriteStep \/ InterruptWrite
      /\ UNCHANGED <<command, wanted, before, target>>
      /\ phase \in {"begin", "open", "report"} \cup WriteRegion
  BY WriteFrame
<1>2. WriteKept /\ outcome \in Outcomes \cup {"none"}
  BY DEF CommandInv, CommandTypeOK, WriteTypeOK
<1>3. ASSUME UNCHANGED <<bank, written>> PROVE Delivered' <=> Delivered
  BY <1>1, <1>3 DEF Delivered
<1>4. CASE WriteSlot
  <2>1. /\ phase = "write" /\ phase' = "endWrite"
        /\ outcome = "none" /\ (~blind' => ~blind)
        /\ outcome' \in Outcomes
    BY <1>1, <1>2, <1>4 DEF WriteSlot, Apply, ChangeNothing, LoseTrack, Deceived, At, WriteKept,
           Outcomes
  <2>2. ~blind => bank = before
    BY <1>1, <1>2, <2>1 DEF WriteKept
  <2>3. outcome' \in Completed => sent'
    BY <1>4, Zenon DEF WriteSlot, Apply, ChangeNothing, LoseTrack, Deceived
  <2> QED
    BY <1>1, <2>1, <2>2, <2>3, <1>4, AnswerDelivers DEF WriteKept
<1>5. CASE \/ TurnDial /\ UNCHANGED writeVars
           \/ ReadInput \/ OpenToWrite
  <2>1. /\ UNCHANGED <<bank, written, outcome, sent, blind>>
        /\ UNCHANGED <<phase, exit>> \/ (phase \in {"begin", "open"} /\ phase' \in {"open", "write"})
             \/ (phase \in {"begin", "open"} /\ phase' = "done" /\ exit' = 1)
    BY <1>5 DEF TurnDial, TurnSelector, writeVars, readVars, ReadInput, OpenToWrite, Quiet,
           ioVars, At
  <2> QED
    BY <1>1, <1>2, <1>3, <2>1 DEF WriteKept
<1>6. CASE EndWrite \/ Report
  <2>1. /\ UNCHANGED <<bank, written, outcome, sent, blind>>
        /\ phase \in {"endWrite", "report"}
        /\ phase' = "report" => outcome \in Completed
        /\ phase' \in {"report", "done"}
        /\ phase' = "done" => \/ exit' = 3
                              \/ exit' = 1 /\ outcome # "CameraStateUnknown"
                              \/ exit' = 0 /\ outcome \in Completed
    BY <1>1, <1>2, <1>6 DEF EndWrite, Report, Quiet, ioVars, At, UnknownStatus, PipeStatus,
           WriteKept, Writing
  <2> QED
    BY <1>1, <1>2, <1>3, <2>1 DEF WriteKept
<1>7. CASE InterruptWrite
  <2>1. \/ phase' = "done" /\ exit' = 3 /\ UNCHANGED outcome
        \/ UNCHANGED <<phase, exit, bank, written, outcome, sent, blind>>
        \/ /\ UNCHANGED <<bank, written, outcome, sent, blind>> /\ ~sent
           /\ phase' = "done" /\ exit' = 130 /\ phase \notin WriteRegion
    BY <1>7 DEF InterruptWrite
  <2>2. ~sent /\ phase \notin WriteRegion => outcome = "none"
    BY <1>1, <1>2 DEF WriteKept, WriteRegion
  <2> QED
    BY <1>1, <1>2, <1>3, <2>1, <2>2 DEF WriteKept
<1> QED
  BY <1>1, <1>4, <1>5, <1>6, <1>7 DEF WriteStep

-----------------------------------------------------------------------------
(* The theorems.                                                           *)

\* It holds at the start.
LEMMA InvInit == CommandInit => CommandInv
<1> SUFFICES ASSUME CommandInit PROVE CommandInv
  OBVIOUS
<1>1. FileTypeOK /\ FileKept
  <2>1. synced \in BOOLEAN
    BY Zenon DEF CommandInit, InitOf, FileInit
  <2> QED
    BY <2>1 DEF CommandInit, InitOf, FileInit, FileTypeOK, FileKept, Names
<1>2. IoTypeOK
  <2>1. /\ healthy \in BOOLEAN /\ selected \in BOOLEAN /\ fault \in BOOLEAN
        /\ astray \in BOOLEAN /\ blind \in BOOLEAN
    BY Zenon DEF CommandInit, InitOf, IoInit
  <2> QED
    BY <2>1, CountsAssumption DEF CommandInit, InitOf, IoInit, IoTypeOK, Steps, Replies
<1>3. failed \in BOOLEAN /\ pressed \in BOOLEAN /\ back \in BOOLEAN /\ sent \in BOOLEAN
  BY Zenon DEF CommandInit, InitOf
<1>4. Nothing \in Profile /\ wanted \in Profile
  BY DEF Nothing, Profile, CommandInit
<1>5. WriteTypeOK
  BY <1>2, <1>3, <1>4 DEF CommandInit, WriteTypeOK, IoTypeOK
<1>6. toStdout \in BOOLEAN /\ command \in Reading \cup Writing /\ todo \subseteq Slots
  BY <1>2 DEF CommandInit, InitOf, IoTypeOK
<1>7. CommandTypeOK
  BY <1>1, <1>2, <1>3, <1>4, <1>5, <1>6, CountsAssumption
     DEF CommandInit, InitOf, CommandTypeOK, Phases, Region
<1>8. PullKept /\ ShownKept /\ SelectorKept /\ ExportKept
  BY DEF CommandInit, InitOf, PullKept, ShownKept, SelectorKept, InPlace, ExportKept
<1>9. WriteKept
  BY DEF CommandInit, InitOf, WriteKept, Completed, Known
<1> QED
  BY <1>1, <1>7, <1>8, <1>9 DEF CommandInv

\* Every step keeps it, also one that changes nothing.
LEMMA InvNext == CommandInv /\ [CommandNext]_commandVars => CommandInv'
<1> SUFFICES ASSUME CommandInv, [CommandNext]_commandVars PROVE CommandInv'
  OBVIOUS
<1>1. CASE CommandNext
  <2>1. command \in Reading \cup Writing
    BY DEF CommandInv, CommandTypeOK
  <2>2. CASE command \in Reading
    <3>1. WriteKept'
      BY <1>1, <2>2, InputNext DEF WriteKept, Reading, Writing
    <3> QED
      BY <1>1, <2>2, <3>1, ReadTypes, PullNext, ShownNext, SelectorNext, FileNext, ExportNext
         DEF CommandInv
  <2>3. CASE command \in Writing
    BY <1>1, <2>3, WriteTypes, WriteShowsNone, WriteSelectorNext, WriteNext, FileNext,
       ExportNext DEF CommandInv
  <2> QED
    BY <2>1, <2>2, <2>3
<1>2. CASE UNCHANGED commandVars
  BY <1>2 DEF commandVars, vars, writeVars, readVars, ioVars, fileVars, CommandInv, CommandTypeOK,
     IoTypeOK, FileTypeOK, WriteTypeOK, PullKept, PulledUpTo, ShownKept, SelectorKept, InPlace,
     SelectorUnknown, WriteKept, Delivered, FileKept, ExportKept
<1> QED
  BY <1>1, <1>2

\* What a command knows of the slots, the selector and its output is true at
\* every step (cli/simulation).
THEOREM Invariance == CommandSpec => []CommandInv
  BY InvInit, InvNext, PTL DEF CommandSpec

\* The values of all variables stay in their types.
THEOREM TypeCorrect == CommandSpec => []CommandTypeOK
<1>1. CommandInv => CommandTypeOK
  BY DEF CommandInv
<1> QED
  BY <1>1, Invariance, PTL

\* A profile that is shown is that of its slot, and a write that succeeds has
\* changed its slot alone, to what was asked for, and reports every setting
\* that shows another value (report_simulation_write).
THEOREM AnswersTrue == CommandSpec => []AnswerIsTrue
<1>1. ASSUME CommandInv PROVE AnswerIsTrue
  <2>1. ShownProfileIsTrue
    BY <1>1 DEF CommandInv, ShownKept, ShownProfileIsTrue
  <2>2. command \in Writing /\ phase = "done" /\ exit = 0 /\ ~blind => Delivered
    BY <1>1 DEF CommandInv, WriteKept
  <2> QED
    BY <2>1, <2>2 DEF AnswerIsTrue, Delivered
<1> QED
  BY <1>1, Invariance, PTL

\* A status other than 3 says that the selector is where it was found, 130
\* that no slot has changed, and so does 1 unless the write was completed
\* (exit-codes.md, critical_camera_write, error_exit_code).
THEOREM StatusTrue == CommandSpec => []StatusAccounts
<1>1. ASSUME CommandInv PROVE StatusAccounts
  <2>1. SelectorAccounted
    BY <1>1 DEF CommandInv, CommandTypeOK, SelectorKept, SelectorUnknown, InPlace,
       SelectorAccounted
  <2>2. command \in Writing /\ phase = "done" /\ ~blind =>
          /\ exit = 130 => bank = before
          /\ exit = 1 /\ outcome \notin Completed => bank = before
    BY <1>1 DEF CommandInv, CommandTypeOK, WriteTypeOK, WriteKept, Outcomes
  <2> QED
    BY <2>1, <2>2 DEF StatusAccounts
<1> QED
  BY <1>1, Invariance, PTL

\* An export that succeeds has delivered the whole artifact, which a loss of
\* power does not take away; half of one is never in place, and no file is
\* replaced without being asked to (OutputTransaction).
THEOREM OutputWhole == CommandSpec => []OutputIsWhole
<1>1. CommandInv => OutputIsWhole
  BY DEF CommandInv, FileKept, ExportKept, OutputIsWhole
<1> QED
  BY <1>1, Invariance, PTL
=============================================================================
