-------------------- MODULE SimulationTransactionProofs --------------------
(***************************************************************************)
(* Theorems about the simulation write transaction, for every number of    *)
(* slots, settings, values and selector turns.                             *)
(***************************************************************************)
EXTENDS SimulationTransaction, WellFoundedInduction, TLAPS

(* What an executor step decides about its continuation.                   *)
ControlOK ==
    /\ phase \in Phases
    /\ index \in Nat
    /\ staged \in Profile
    /\ outcome \in Outcomes \cup {"none"}
    /\ selected \in BOOLEAN
    /\ step \in Steps
    /\ request \in Requests \cup {NoRequest}
    /\ value \in Values \cup {Absent}
    /\ reply \in Replies
    /\ step \in {"select", "confirm", "access", "check", "answered"}
          => request \in Requests
    /\ phase \in AccessPhases <=> step # "idle"
    /\ phase \in PullPhases \cup {"apply", "verify"} => index \in Settings
    /\ phase \in {"undo", "undoVerify"} => index \in 1..Len(journal)

(* The rest of TypeOK.                                                     *)
DataOK ==
    /\ active \in Slots
    /\ bank \in [Slots -> Bank]
    /\ turns \in 0..MaxTurns
    /\ healthy \in BOOLEAN
    /\ target \in Slots
    /\ fault \in BOOLEAN /\ astray \in BOOLEAN /\ blind \in BOOLEAN
    /\ snapshot \in Slots \cup {NoSlot}
    /\ original \in Profile /\ candidate \in Profile
    /\ journal \in Seq(Settings) /\ undone \in Seq(Settings)
    /\ bindingUncertain \in BOOLEAN
    /\ readbackError \in BOOLEAN
    /\ before \in [Slots -> Bank]

LEMMA TypeParts ==
    /\ TypeOK <=> ControlOK /\ DataOK
    /\ TypeOK' <=> ControlOK' /\ DataOK'
  BY DEF TypeOK, IoTypeOK, ControlOK, DataOK

LEMMA NothingIsProfile == Nothing \in Profile
  BY DEF Nothing, Profile

LEMMA AskGood ==
  ASSUME TypeOK, NEW k \in {"get", "set"}, NEW i \in Settings,
         NEW v \in Values \cup {Absent}, Ask(k, i, v)
  PROVE  /\ selected' \in BOOLEAN /\ value' \in Values \cup {Absent}
         /\ step' \in {"select", "access"}
         /\ request' \in Requests
         /\ reply' = "none"
  BY DEF Ask, TypeOK, IoTypeOK, Requests

LEMMA ConcludeGood ==
  ASSUME TypeOK, NEW a \in Outcomes, Conclude(a)
  PROVE  ControlOK'
  BY DEF Conclude, Leave, TypeOK, IoTypeOK, ControlOK, Phases, AccessPhases,
         PullPhases, Outcomes, Successes, Failures, Steps, Replies

LEMMA StartPullGood ==
  ASSUME TypeOK, NEW p \in PullPhases, StartPull(p)
  PROVE  ControlOK'
<1>1. 1 \in Settings
  BY CountsAssumption DEF Settings
<1>2. /\ selected' \in BOOLEAN /\ value' \in Values \cup {Absent}
      /\ step' \in {"select", "access"}
      /\ request' \in Requests
      /\ reply' = "none"
  BY <1>1, AskGood DEF StartPull, AskGet
<1>3. phase' = p /\ index' = 1 /\ staged' = Nothing /\ outcome' = outcome
  BY DEF StartPull
<1> QED
  BY <1>1, <1>2, <1>3, NothingIsProfile
  DEF TypeOK, ControlOK, Phases, AccessPhases, PullPhases, Steps, Replies

LEMMA WriteApplyGood ==
  ASSUME TypeOK, NEW j \in Settings, NEW f \in Profile,
         Write("apply", j, j, f)
  PROVE  ControlOK'
<1>1. f[j] \in Values \cup {Absent}
  BY DEF Profile
<1>2. /\ selected' \in BOOLEAN /\ value' \in Values \cup {Absent}
      /\ step' \in {"select", "access"}
      /\ request' \in Requests
      /\ reply' = "none"
  BY <1>1, AskGood DEF Write
<1>3. phase' = "apply" /\ index' = j /\ staged' = staged /\ outcome' = outcome
  BY DEF Write
<1>4. j \in Nat
  BY CountsAssumption DEF Settings
<1> QED
  BY <1>2, <1>3, <1>4
  DEF TypeOK, ControlOK, Phases, AccessPhases, PullPhases, Steps, Replies

LEMMA WriteUndoGood ==
  ASSUME TypeOK, NEW js \in Seq(Settings), journal' = js,
         NEW m \in 1..Len(js), Write("undo", m, js[m], original)
  PROVE  ControlOK'
<1>1. js[m] \in Settings
  OBVIOUS
<1>2. original[js[m]] \in Values \cup {Absent}
  BY <1>1 DEF TypeOK, Profile
<1>3. /\ selected' \in BOOLEAN /\ value' \in Values \cup {Absent}
      /\ step' \in {"select", "access"}
      /\ request' \in Requests
      /\ reply' = "none"
  BY <1>1, <1>2, AskGood DEF Write
<1>4. phase' = "undo" /\ index' = m /\ staged' = staged /\ outcome' = outcome
  BY DEF Write
<1>5. index' \in Nat /\ index' \in 1..Len(journal')
  BY <1>4
<1> QED
  BY <1>3, <1>4, <1>5
  DEF TypeOK, ControlOK, Phases, AccessPhases, PullPhases, Steps, Replies

LEMMA ContinueApplyGood ==
  ASSUME TypeOK, NEW i, NEW c \in Profile, NEW o \in Profile,
         ContinueApply(i, c, o)
  PROVE  ControlOK'
  BY WriteApplyGood, StartPullGood DEF ContinueApply, PullPhases

LEMMA ContinueUndoGood ==
  ASSUME TypeOK, NEW js \in Seq(Settings), journal' = js,
         NEW k \in 1..(Len(js) + 1), ContinueUndo(js, k)
  PROVE  ControlOK'
<1>1. CASE \E m \in 1..(k - 1) :
              IsNextUndo(js, k, m) /\ Write("undo", m, js[m], original)
  BY <1>1, WriteUndoGood
<1>2. CASE StartPull("rollbackPull")
  BY <1>2, StartPullGood DEF PullPhases
<1> QED
  BY <1>1, <1>2 DEF ContinueUndo

LEMMA RecoverGood ==
  ASSUME TypeOK, NEW js \in Seq(Settings), journal' = js, Recover(js)
  PROVE  ControlOK'
<1>1. CASE Conclude("CameraStateUnknown")
  BY <1>1, ConcludeGood DEF Outcomes, Failures
<1>2. CASE StartPull("rejectPull")
  BY <1>2, StartPullGood DEF PullPhases
<1>3. CASE ContinueUndo(js, Len(js) + 1)
  BY <1>3, ContinueUndoGood
<1> QED
  BY <1>1, <1>2, <1>3 DEF Recover

LEMMA ReadBackGood ==
  ASSUME TypeOK, phase \in {"apply", "undo"}, step = "answered",
         NEW p \in {"verify", "undoVerify"},
         p = "verify" => phase = "apply", p = "undoVerify" => phase = "undo",
         Len(journal') >= Len(journal), Len(journal) \in Nat,
         Len(journal') \in Nat, ReadBack(p)
  PROVE  ControlOK'
<1>1. request \in Requests /\ request.setting \in Settings
  BY DEF TypeOK, IoTypeOK, Requests
<1>2. /\ selected' \in BOOLEAN /\ value' \in Values \cup {Absent}
      /\ step' \in {"select", "access"}
      /\ request' \in Requests
      /\ reply' = "none"
  BY <1>1, AskGood DEF ReadBack, AskGet
<1>3. /\ phase' = p /\ index' = index /\ staged' = staged
      /\ outcome' = outcome
  BY DEF ReadBack
<1>4. p = "verify" => index' \in Settings
  BY <1>3 DEF TypeOK
<1>5. p = "undoVerify" => index' \in 1..Len(journal')
  BY <1>3 DEF TypeOK
<1> QED
  BY <1>2, <1>3, <1>4, <1>5
  DEF TypeOK, ControlOK, Phases, AccessPhases, PullPhases, Steps, Replies

LEMMA PulledIsProfile == TypeOK => Pulled \in Profile
  BY DEF TypeOK, IoTypeOK, Pulled, Profile

(* The adapter only moves between the steps of one access.                 *)
LEMMA TransactionGood ==
  ASSUME healthy \in BOOLEAN, fault \in BOOLEAN,
         (\E b \in BOOLEAN : Accepted(b)) \/ Rejected \/ Lost
  PROVE  healthy' \in BOOLEAN /\ fault' \in BOOLEAN
  BY DEF Accepted, Rejected, Lost

LEMMA AdapterKeepsIoType ==
  ASSUME IoTypeOK, AdapterStep
  PROVE  IoTypeOK' /\ step # "idle" /\ step' # "idle"
<1> USE DEF Steps, Replies
<1>1. CASE SelectSlot
  <2>1. (\E b \in BOOLEAN : Accepted(b)) \/ Rejected \/ Lost
    <3>1. (active' = target) \in BOOLEAN
      OBVIOUS
    <3> QED
      BY <1>1, <3>1 DEF SelectSlot
  <2>2. active' \in Slots /\ step' \in {"confirm", "answered"}
    BY <1>1 DEF SelectSlot, Answer, IoTypeOK
  <2>3. /\ step = "select" /\ reply' \in Replies
        /\ UNCHANGED <<bank, turns, target, selected, value, astray, blind,
                       request>>
    BY <1>1 DEF SelectSlot, Answer, IoTypeOK
  <2> QED
    BY <2>1, <2>2, <2>3, TransactionGood DEF IoTypeOK
<1>2. CASE ConfirmSlot
  <2>1. (\E b \in BOOLEAN : Accepted(b)) \/ Rejected \/ Lost
    BY <1>2 DEF ConfirmSlot
  <2>2. /\ step = "confirm" /\ step' \in {"access", "answered"}
        /\ selected' \in BOOLEAN
        /\ reply' \in Replies
    BY <1>2 DEF ConfirmSlot, Answer, IoTypeOK
  <2>3. UNCHANGED <<active, bank, turns, target, value, astray, blind, request>>
    BY <1>2 DEF ConfirmSlot, Answer
  <2> QED
    BY <2>1, <2>2, <2>3, TransactionGood DEF IoTypeOK
<1>3. CASE ReadSetting
  <2>1. request \in Requests /\ request.setting \in Settings
    BY <1>3 DEF ReadSetting, IoTypeOK, Requests
  <2>2. bank[active][request.setting] \in Values
    BY <2>1 DEF IoTypeOK, Bank
  <2>3. (\E b \in BOOLEAN : Accepted(b)) \/ Rejected \/ Lost
    BY <1>3 DEF ReadSetting
  <2>4. /\ step = "access" /\ step' \in {"check", "answered"}
        /\ value' \in Values \cup {Absent}
        /\ reply' \in Replies
        /\ astray' \in BOOLEAN
    BY <1>3, <2>2 DEF ReadSetting, Answer, IoTypeOK
  <2>5. UNCHANGED <<active, bank, turns, target, selected, blind, request>>
    BY <1>3 DEF ReadSetting, Answer
  <2> QED
    BY <2>3, <2>4, <2>5, TransactionGood DEF IoTypeOK
<1>4. CASE WriteSetting
  <2>1. request \in Requests /\ request.setting \in Settings
    BY <1>4 DEF WriteSetting, IoTypeOK, Requests
  <2>2. \/ UNCHANGED bank
        \/ \E v \in Values :
              bank' = [bank EXCEPT ![active][request.setting] = v]
    BY <1>4 DEF WriteSetting
  <2>3. ASSUME NEW v \in Values,
               bank' = [bank EXCEPT ![active][request.setting] = v]
        PROVE  bank' \in [Slots -> Bank]
    <3>1. [bank[active] EXCEPT ![request.setting] = v] \in Bank
      BY <2>1 DEF IoTypeOK, Bank
    <3> QED
      BY <2>3, <3>1 DEF IoTypeOK
  <2>4. bank' \in [Slots -> Bank]
    BY <2>2, <2>3 DEF IoTypeOK
  <2>5. (\E b \in BOOLEAN : Accepted(b)) \/ Rejected \/ Lost
    <3>1. \A v : (v = request.value) \in BOOLEAN
      OBVIOUS
    <3> QED
      BY <1>4, <3>1 DEF WriteSetting
  <2>6. /\ step = "access" /\ step' \in {"check", "answered"}
        /\ reply' \in Replies
        /\ astray' \in BOOLEAN
    BY <1>4 DEF WriteSetting, Answer, IoTypeOK
  <2>7. UNCHANGED <<active, turns, target, selected, value, blind, request>>
    BY <1>4 DEF WriteSetting, Answer
  <2> QED
    BY <2>4, <2>5, <2>6, <2>7, TransactionGood DEF IoTypeOK
<1>5. CASE CheckSlot
  <2>1. (\E b \in BOOLEAN : Accepted(b)) \/ Rejected \/ Lost
    BY <1>5 DEF CheckSlot
  <2>2. /\ step = "check" /\ step' = "answered"
        /\ selected' \in BOOLEAN /\ blind' \in BOOLEAN
        /\ reply' \in Replies
    BY <1>5 DEF CheckSlot, CheckFailure, Answer, IoTypeOK
  <2>3. UNCHANGED <<active, bank, turns, target, value, astray, request>>
    BY <1>5 DEF CheckSlot, Answer
  <2> QED
    BY <2>1, <2>2, <2>3, TransactionGood DEF IoTypeOK
<1> QED
  BY <1>1, <1>2, <1>3, <1>4, <1>5 DEF AdapterStep

LEMMA AdapterKeepsType ==
  ASSUME TypeOK, AdapterStep, UNCHANGED execVars
  PROVE  TypeOK'
<1>1. IoTypeOK' /\ step # "idle" /\ step' # "idle"
  BY AdapterKeepsIoType DEF TypeOK
<1> QED
  BY <1>1 DEF TypeOK, execVars

(* A step without PTP traffic leaves the camera's half of DataOK alone.     *)
LEMMA NoIoKeepsData ==
  ASSUME DataOK, NoIo,
         snapshot' \in Slots \cup {NoSlot},
         original' \in Profile, candidate' \in Profile,
         journal' \in Seq(Settings), undone' \in Seq(Settings),
         bindingUncertain' \in BOOLEAN, readbackError' \in BOOLEAN,
         before' = before
  PROVE  DataOK'
  BY DEF DataOK, NoIo, cameraVars, historyVars

LEMMA PullAsks ==
  ASSUME TypeOK, phase \in PullPhases, reply = "ok"
  PROVE  Pulled \in Profile /\ request \in Requests
  BY PulledIsProfile DEF TypeOK, IoTypeOK, AccessPhases, Steps

LEMMA AnsweredWrite ==
  ASSUME TypeOK, step = "answered"
  PROVE  request \in Requests /\ request.setting \in Settings
  BY DEF TypeOK, IoTypeOK, Requests

LEMMA RefuseRequestType ==
  ASSUME TypeOK, RefuseRequest PROVE TypeOK'
<1>1. PreparationFailure \in Outcomes
  BY DEF PreparationFailure, Outcomes, Failures
<1>2. phase' = "done" /\ step = "idle" /\ step' = "idle" /\ UNCHANGED ioVars
  BY DEF RefuseRequest, TypeOK, Phases, AccessPhases, PullPhases, ioVars
<1>3. IoTypeOK'
  BY <1>2 DEF TypeOK, IoTypeOK, ioVars
<1> QED
  BY <1>1, <1>2, <1>3
  DEF RefuseRequest, TypeOK, Phases, AccessPhases, PullPhases

LEMMA SnapshotSelectorType ==
  ASSUME TypeOK, SnapshotSelector PROVE TypeOK'
<1>1. step = "idle"
  BY DEF SnapshotSelector, TypeOK, AccessPhases, PullPhases
<1>2. (\E b \in BOOLEAN : Accepted(b)) \/ Rejected \/ Lost
  BY DEF SnapshotSelector, SelectorRead, SelectorUnread
<1>3. /\ active' = active /\ snapshot' \in Slots \cup {NoSlot}
      /\ UNCHANGED <<bank, turns, target, astray, blind, original, candidate,
                     journal, undone, bindingUncertain, readbackError, before>>
  BY DEF SnapshotSelector, SelectorRead, SelectorUnread, TypeOK, IoTypeOK
<1>4. DataOK'
  BY <1>2, <1>3, TransactionGood, TypeParts DEF DataOK
<1>5. CASE StartPull("pullOriginal")
  BY <1>4, <1>5, StartPullGood, TypeParts DEF PullPhases
<1>6. CASE /\ phase' = "done"
           /\ outcome' \in Outcomes
           /\ UNCHANGED <<index, staged, adapterVars>>
  <2>1. ControlOK'
    BY <1>1, <1>6, TypeParts
    DEF ControlOK, adapterVars, Phases, AccessPhases, PullPhases, Steps
  <2> QED
    BY <1>4, <2>1, TypeParts
<1> QED
  BY <1>5, <1>6 DEF SnapshotSelector, Outcomes, Failures

LEMMA ContinuePullType ==
  ASSUME TypeOK, ContinuePull PROVE TypeOK'
<1>1. PICK j \in Settings : index' = j /\ AskGet(j)
  BY DEF ContinuePull
<1>2. /\ selected' \in BOOLEAN /\ value' \in Values \cup {Absent}
      /\ step' \in {"select", "access"}
      /\ request' \in Requests
      /\ reply' = "none"
  BY <1>1, AskGood DEF AskGet
<1>3. staged' \in Profile
  BY PulledIsProfile DEF ContinuePull
<1>4. /\ phase \in PullPhases /\ phase' = phase /\ outcome' = outcome
      /\ journal' = journal
  BY DEF ContinuePull
<1>5. ControlOK'
  <2>1. index' \in Settings /\ index' \in Nat
    BY <1>1, CountsAssumption DEF Settings
  <2> QED
    BY <1>2, <1>3, <1>4, <2>1, TypeParts
    DEF ControlOK, Phases, AccessPhases, PullPhases, Steps, Replies
<1>6. DataOK'
  BY NoIoKeepsData, TypeParts DEF ContinuePull, DataOK
<1> QED
  BY <1>5, <1>6, TypeParts

LEMMA PrepareCandidateType ==
  ASSUME TypeOK, PrepareCandidate PROVE TypeOK'
<1>1. Pulled \in Profile
  BY PullAsks DEF PrepareCandidate, PullEnds
<1>2. DataOK'
  BY <1>1, NoIoKeepsData, TypeParts DEF PrepareCandidate, DataOK
<1>3. CASE Conclude(PreparationFailure)
  BY <1>2, <1>3, ConcludeGood, TypeParts
  DEF PreparationFailure, Outcomes, Failures
<1>4. CASE StartPull("noChangePull")
  BY <1>2, <1>4, StartPullGood, TypeParts DEF PullPhases
<1>5. ASSUME NEW c \in Profile, ContinueApply(0, c, Pulled) PROVE TypeOK'
  BY <1>1, <1>2, <1>5, ContinueApplyGood, TypeParts
<1> QED
  BY <1>3, <1>4, <1>5 DEF PrepareCandidate

LEMMA JudgesType ==
  ASSUME TypeOK, \/ JudgeNoChange \/ JudgeRejected \/ JudgeRolledBack
  PROVE  TypeOK'
<1>1. DataOK'
  BY NoIoKeepsData, TypeParts
  DEF JudgeNoChange, JudgeRejected, JudgeRolledBack, DataOK
<1>2. \E a \in Outcomes : Conclude(a)
  BY DEF JudgeNoChange, JudgeRejected, JudgeRolledBack, Outcomes, Successes,
         Failures
<1> QED
  BY <1>1, <1>2, ConcludeGood, TypeParts

LEMMA ChangeWrittenType ==
  ASSUME TypeOK, ChangeWritten PROVE TypeOK'
<1>1. request \in Requests /\ request.setting \in Settings
  BY AnsweredWrite DEF ChangeWritten
<1>2. /\ Append(journal, request.setting) \in Seq(Settings)
      /\ Len(Append(journal, request.setting)) = Len(journal) + 1
      /\ Len(journal) \in Nat
  BY <1>1 DEF TypeOK
<1>3. DataOK'
  BY <1>2, NoIoKeepsData, TypeParts DEF ChangeWritten, DataOK
<1>4. CASE /\ reply = "ok"
           /\ journal' = Append(journal, request.setting)
           /\ ReadBack("verify")
  <2>1. ControlOK'
    BY <1>2, <1>4, ReadBackGood DEF ChangeWritten
  <2> QED
    BY <1>3, <2>1, TypeParts
<1>5. CASE journal' = journal /\ Recover(journal)
  BY <1>3, <1>5, RecoverGood, TypeParts DEF TypeOK
<1>6. CASE /\ journal' = Append(journal, request.setting)
           /\ Recover(Append(journal, request.setting))
  BY <1>2, <1>3, <1>6, RecoverGood, TypeParts
<1> QED
  BY <1>4, <1>5, <1>6 DEF ChangeWritten

LEMMA ChangeReadBackType ==
  ASSUME TypeOK, ChangeReadBack PROVE TypeOK'
<1>1. DataOK' /\ journal' = journal
  BY NoIoKeepsData, TypeParts DEF ChangeReadBack, DataOK
<1>2. CASE ContinueApply(index, candidate, original)
  <2>1. ControlOK'
    BY <1>2, ContinueApplyGood DEF TypeOK
  <2> QED
    BY <1>1, <2>1, TypeParts
<1>3. CASE Recover(journal)
  BY <1>1, <1>3, RecoverGood, TypeParts DEF TypeOK
<1> QED
  BY <1>2, <1>3 DEF ChangeReadBack

LEMMA JudgeAppliedType ==
  ASSUME TypeOK, JudgeApplied PROVE TypeOK'
<1>1. DataOK' /\ journal' = journal
  BY NoIoKeepsData, TypeParts DEF JudgeApplied, DataOK
<1>2. CASE Conclude("AppliedAndVerified")
  BY <1>1, <1>2, ConcludeGood, TypeParts DEF Outcomes, Successes
<1>3. CASE Recover(journal)
  BY <1>1, <1>3, RecoverGood, TypeParts DEF TypeOK
<1> QED
  BY <1>2, <1>3 DEF JudgeApplied

LEMMA UndoOrStopGood ==
  ASSUME TypeOK, phase \in {"undo", "undoVerify"}, journal' = journal,
         UndoOrStop \/ ContinueUndo(journal, index)
  PROVE  ControlOK'
<1>1. /\ journal \in Seq(Settings) /\ index \in 1..(Len(journal) + 1)
  BY DEF TypeOK
<1>2. CASE ContinueUndo(journal, index)
  BY <1>1, <1>2, ContinueUndoGood
<1>3. CASE Conclude("CameraStateUnknown")
  BY <1>3, ConcludeGood DEF Outcomes, Failures
<1> QED
  BY <1>2, <1>3 DEF UndoOrStop

LEMMA UndoWrittenType ==
  ASSUME TypeOK, UndoWritten PROVE TypeOK'
<1>1. request \in Requests /\ request.setting \in Settings
  BY AnsweredWrite DEF UndoWritten
<1>2. /\ Append(undone, request.setting) \in Seq(Settings)
      /\ Len(journal) \in Nat /\ journal' = journal
  BY <1>1 DEF TypeOK, UndoWritten
<1>3. DataOK'
  BY <1>2, NoIoKeepsData, TypeParts DEF UndoWritten, DataOK
<1>4. CASE ReadBack("undoVerify")
  <2>1. ControlOK'
    BY <1>2, <1>4, ReadBackGood DEF UndoWritten
  <2> QED
    BY <1>3, <2>1, TypeParts
<1>5. CASE UndoOrStop
  BY <1>2, <1>3, <1>5, UndoOrStopGood, TypeParts DEF UndoWritten
<1> QED
  BY <1>4, <1>5 DEF UndoWritten

LEMMA UndoReadBackType ==
  ASSUME TypeOK, UndoReadBack PROVE TypeOK'
<1>1. DataOK' /\ journal' = journal
  BY NoIoKeepsData, TypeParts DEF UndoReadBack, DataOK
<1>2. UndoOrStop \/ ContinueUndo(journal, index)
  BY DEF UndoReadBack
<1> QED
  BY <1>1, <1>2, UndoOrStopGood, TypeParts DEF UndoReadBack

LEMMA PullFailedType ==
  ASSUME TypeOK, PullFailed PROVE TypeOK'
<1>1. DataOK' /\ journal' = journal
  BY NoIoKeepsData, TypeParts DEF PullFailed, DataOK
<1>2. CASE Recover(journal)
  BY <1>1, <1>2, RecoverGood, TypeParts DEF TypeOK
<1>3. CASE \E a \in Outcomes : Conclude(a)
  BY <1>1, <1>3, ConcludeGood, TypeParts
<1> QED
  BY <1>2, <1>3 DEF PullFailed, PreparationFailure, Outcomes, Failures

LEMMA RestoreType ==
  ASSUME TypeOK, snapshot \in Slots, RestoreSelector \/ ConfirmRestore
  PROVE  TypeOK'
<1>1. step = "idle"
  BY DEF RestoreSelector, ConfirmRestore, TypeOK, AccessPhases, PullPhases
<1>2. (\E b \in BOOLEAN : Accepted(b)) \/ Rejected \/ Lost
  <2>1. (active' = snapshot) \in BOOLEAN
    OBVIOUS
  <2> QED
    BY <2>1 DEF RestoreSelector, ConfirmRestore, SelectorRead, SelectorUnread,
                SelectorWritten, SelectorNotWritten
<1>3. /\ active' \in Slots
      /\ phase' \in {"confirmRestore", "done"}
      /\ outcome' \in Outcomes \cup {"none"}
  BY DEF RestoreSelector, ConfirmRestore, SelectorRead, SelectorUnread,
         SelectorWritten, SelectorNotWritten, TypeOK, IoTypeOK, Outcomes,
         Failures
<1>4. UNCHANGED <<bank, turns, target, adapterVars, astray, blind, index,
                 snapshot, original, candidate, staged, journal, undone,
                 bindingUncertain, readbackError, before>>
  BY DEF RestoreSelector, ConfirmRestore
<1>5. DataOK'
  BY <1>2, <1>3, <1>4, TransactionGood, TypeParts DEF DataOK
<1>6. ControlOK'
  BY <1>1, <1>3, <1>4, TypeParts
  DEF ControlOK, adapterVars, Phases, AccessPhases, PullPhases
<1> QED
  BY <1>5, <1>6, TypeParts

-----------------------------------------------------------------------------
(* The inductive invariant.                                                *)

\* An access has been answered exactly when there is a reply to it.
AnswerFresh == reply # "none" <=> step = "answered"

\* Writes are asked for in the two writing phases only.
KindOfPhase ==
    step # "idle" => (request.kind = "set" <=> phase \in {"apply", "undo"})

\* Only a write can be confirmed on an uncertain slot.
UncertainIsWrite == reply = "uncertain" => request.kind = "set"

\* A poisoned session has been noticed: the answer is not a success.
PoisonSeen ==
    ~healthy => phase = "done" \/ (step = "answered" /\ reply # "ok")

SnapshotKept ==
    /\ phase = "snapshot" => snapshot = NoSlot
    /\ phase \in AccessPhases \cup {"restore", "confirmRestore"}
          => snapshot \in Slots

\* An uncertain binding is remembered and ends in "unknown".
BindingKept ==
    bindingUncertain =>
        \/ phase \in {"undo", "undoVerify", "rollbackPull"}
        \/ /\ phase \in {"restore", "confirmRestore", "done"}
           /\ outcome = "CameraStateUnknown"

OthersUntouched ==
    \A s \in Slots \ {target} : bank[s] = before[s]

\* A write astray is pending, being reported, or remembered.
StrayKnown ==
    \/ blind \/ bindingUncertain \/ ~healthy
    \/ step = "check" /\ astray /\ request.kind = "set"
    \/ step = "answered" /\ reply = "uncertain"

OthersKept ==
    /\ phase \in AccessPhases \cup {"snapshot"}
          => OthersUntouched \/ StrayKnown
    /\ phase \in {"restore", "confirmRestore", "done"}
          => OthersUntouched \/ blind \/ outcome = "CameraStateUnknown"

UndoesJournal ==
    phase = "undo" => request.setting = journal[index]

Journaled(i) == \E n \in 1..Len(journal) : journal[n] = i

\* The write executed but not yet journaled.
InFlight(i) ==
    /\ phase = "apply" /\ request.setting = i
    /\ step = "check" \/ (step = "answered" /\ reply \in {"ok", "uncertain"})

JournalCovers ==
    healthy => \A s \in Slots, i \in Settings :
                  bank[s][i] # before[s][i] => Journaled(i) \/ InFlight(i)

Control ==
    /\ AnswerFresh
    /\ KindOfPhase
    /\ UncertainIsWrite
    /\ PoisonSeen
    /\ SnapshotKept
    /\ BindingKept
    /\ UndoesJournal

Inv ==
    /\ TypeOK
    /\ Control
    /\ SelectorPutBack
    /\ OthersKept
    /\ JournalCovers

-----------------------------------------------------------------------------
(* What the executor's decisions have in common: they follow an answer, do *)
(* no I/O, and either ask for one more access or conclude.                 *)

Decision ==
    \/ ContinuePull \/ PrepareCandidate \/ JudgeNoChange \/ ChangeWritten
    \/ ChangeReadBack \/ JudgeApplied \/ JudgeRejected \/ UndoWritten
    \/ UndoReadBack \/ JudgeRolledBack \/ PullFailed

Asked(p, kind) ==
    /\ phase' = p
    /\ step' \in {"select", "access"}
    /\ reply' = "none"
    /\ request'.kind = kind
    /\ outcome' = outcome

AsksNext ==
    \/ \E p \in PullPhases \cup {"verify", "undoVerify"} : Asked(p, "get")
    \/ Asked("apply", "set")
    \/ Asked("undo", "set") /\ request'.setting = journal'[index']

Concluded ==
    /\ step' = "idle" /\ reply' = "none" /\ request' = NoRequest
    /\ \/ healthy /\ phase' = "restore"
       \/ ~healthy /\ phase' = "done" /\ outcome' = "CameraStateUnknown"

JournalGrows ==
    \/ journal' = journal /\ (phase = "apply" => reply = "unconfirmed")
    \/ phase = "apply" /\ journal' = Append(journal, request.setting)

Decided ==
    /\ phase \in AccessPhases /\ step = "answered"
    /\ NoIo /\ snapshot' = snapshot /\ before' = before
    /\ (healthy /\ AsksNext) \/ Concluded
    /\ JournalGrows
    /\ bindingUncertain \/ reply = "uncertain" => bindingUncertain'
    /\ BindingKept'

LEMMA AskShape ==
  ASSUME NEW k, NEW i, NEW v, Ask(k, i, v)
  PROVE  /\ step' \in {"select", "access"} /\ reply' = "none"
         /\ request'.kind = k /\ request'.setting = i
  BY DEF Ask

LEMMA ConcludeShape ==
  ASSUME NEW a, Conclude(a)
  PROVE  /\ Concluded
         /\ phase' \in {"restore", "done"}
         /\ a = "CameraStateUnknown" => outcome' = a
  BY DEF Conclude, Leave, Concluded

LEMMA StartPullShape ==
  ASSUME NEW p \in PullPhases, StartPull(p)
  PROVE  AsksNext /\ phase' = p
<1>1. Asked(p, "get")
  BY AskShape DEF StartPull, AskGet, Asked
<1> QED
  BY <1>1 DEF AsksNext, Asked

LEMMA ContinueApplyShape ==
  ASSUME NEW i, NEW c, NEW o, ContinueApply(i, c, o)
  PROVE  AsksNext
<1>1. ASSUME NEW j \in Settings, Write("apply", j, j, c) PROVE AsksNext
  BY <1>1, AskShape DEF Write, Asked, AsksNext
<1>2. CASE StartPull("finalPull")
  BY <1>2, StartPullShape DEF PullPhases
<1> QED
  BY <1>1, <1>2 DEF ContinueApply

LEMMA ContinueUndoShape ==
  ASSUME NEW js, NEW k, journal' = js, ContinueUndo(js, k)
  PROVE  AsksNext /\ phase' \in {"undo", "rollbackPull"}
<1>1. ASSUME NEW m \in 1..(k - 1), Write("undo", m, js[m], original)
      PROVE  AsksNext /\ phase' \in {"undo", "rollbackPull"}
  <2>1. /\ Asked("undo", "set") /\ index' = m
        /\ request'.setting = js[m]
    BY <1>1, AskShape DEF Write, Asked
  <2> QED
    BY <2>1 DEF AsksNext, Asked
<1>2. CASE StartPull("rollbackPull")
  BY <1>2, StartPullShape DEF PullPhases
<1> QED
  BY <1>1, <1>2 DEF ContinueUndo

LEMMA RecoverShape ==
  ASSUME NEW js, journal' = js, Recover(js)
  PROVE  /\ (healthy /\ AsksNext) \/ Concluded
         /\ js # <<>> => \/ phase' \in {"undo", "rollbackPull"}
                         \/ /\ phase' \in {"restore", "done"}
                            /\ outcome' = "CameraStateUnknown"
<1>1. CASE ~healthy /\ Conclude("CameraStateUnknown")
  BY <1>1, ConcludeShape
<1>2. CASE healthy /\ js = <<>> /\ StartPull("rejectPull")
  BY <1>2, StartPullShape DEF PullPhases
<1>3. CASE healthy /\ ContinueUndo(js, Len(js) + 1)
  BY <1>3, ContinueUndoShape
<1> QED
  BY <1>1, <1>2, <1>3 DEF Recover

LEMMA UndoOrStopShape ==
  ASSUME journal' = journal, UndoOrStop
  PROVE  /\ (healthy /\ AsksNext) \/ Concluded
         /\ \/ phase' \in {"undo", "rollbackPull"}
            \/ /\ phase' \in {"restore", "done"}
               /\ outcome' = "CameraStateUnknown"
<1>1. CASE healthy /\ ContinueUndo(journal, index)
  BY <1>1, ContinueUndoShape
<1>2. CASE ~healthy /\ Conclude("CameraStateUnknown")
  BY <1>2, ConcludeShape
<1> QED
  BY <1>1, <1>2 DEF UndoOrStop

\* A successful answer came over a working session.
LEMMA OkIsHealthy ==
  ASSUME TypeOK, Control, phase \in AccessPhases, reply = "ok"
  PROVE  healthy /\ step = "answered"
  BY DEF Control, PoisonSeen, AnswerFresh, AccessPhases, PullPhases

\* The answer to a read is never an uncertain write.
LEMMA ReadIsCertain ==
  ASSUME TypeOK, Control, phase \in AccessPhases \ {"apply", "undo"}
  PROVE  reply # "uncertain"
<1>1. step # "idle"
  BY DEF TypeOK
<1> QED
  BY <1>1 DEF Control, UncertainIsWrite, KindOfPhase

\* Decisions that end a pull or go on with it leave bindingUncertain alone.
LEMMA PullDecided ==
  ASSUME TypeOK, Control, phase \in PullPhases, step = "answered", NoIo,
         UNCHANGED <<snapshot, before, journal, bindingUncertain>>,
         (healthy /\ AsksNext) \/ Concluded,
         phase = "rollbackPull" =>
            \/ phase' = "rollbackPull"
            \/ /\ phase' \in {"restore", "done"}
               /\ bindingUncertain => outcome' = "CameraStateUnknown"
  PROVE  Decided
<1>1. reply # "uncertain"
  BY ReadIsCertain DEF AccessPhases, PullPhases
<1>2. bindingUncertain => phase = "rollbackPull"
  BY DEF Control, BindingKept, PullPhases
<1>3. BindingKept'
  BY <1>2 DEF BindingKept
<1> QED
  BY <1>1, <1>3 DEF Decided, JournalGrows, AccessPhases, PullPhases

LEMMA PullEndsShape ==
  ASSUME TypeOK, Control, PullEnds
  PROVE  phase \in PullPhases /\ healthy /\ step = "answered"
  BY OkIsHealthy DEF PullEnds, AccessPhases

LEMMA ContinuePullDecided ==
  ASSUME TypeOK, Control, ContinuePull PROVE Decided
<1>1. phase \in PullPhases /\ healthy /\ step = "answered"
  BY OkIsHealthy DEF ContinuePull, AccessPhases
<1>2. phase' = phase /\ NoIo
      /\ UNCHANGED <<snapshot, before, journal, bindingUncertain>>
  BY DEF ContinuePull
<1>3. Asked(phase, "get")
  BY AskShape DEF ContinuePull, AskGet, Asked
<1>4. AsksNext
  BY <1>1, <1>3 DEF AsksNext
<1> QED
  BY <1>1, <1>2, <1>4, PullDecided

LEMMA PrepareCandidateDecided ==
  ASSUME TypeOK, Control, PrepareCandidate PROVE Decided
<1>1. phase = "pullOriginal" /\ healthy /\ step = "answered"
  BY PullEndsShape DEF PrepareCandidate
<1>2. NoIo /\ UNCHANGED <<snapshot, before, journal, bindingUncertain>>
  BY DEF PrepareCandidate
<1>3. ASSUME Conclude(PreparationFailure) PROVE Concluded
  BY <1>3, ConcludeShape
<1>4. ASSUME StartPull("noChangePull") PROVE AsksNext
  BY <1>4, StartPullShape DEF PullPhases
<1>5. ASSUME NEW c \in Profile, ContinueApply(0, c, Pulled) PROVE AsksNext
  BY <1>5, ContinueApplyShape
<1>6. AsksNext \/ Concluded
  BY <1>3, <1>4, <1>5 DEF PrepareCandidate
<1> QED
  BY <1>1, <1>2, <1>6, PullDecided DEF PullPhases

LEMMA JudgesDecided ==
  ASSUME TypeOK, Control, JudgeNoChange \/ JudgeRejected \/ JudgeRolledBack
  PROVE  Decided
<1>1. phase \in PullPhases /\ healthy /\ step = "answered"
  BY PullEndsShape DEF JudgeNoChange, JudgeRejected, JudgeRolledBack
<1>2. NoIo /\ UNCHANGED <<snapshot, before, journal, bindingUncertain>>
  BY DEF JudgeNoChange, JudgeRejected, JudgeRolledBack
<1>3. Concluded /\ phase' \in {"restore", "done"}
  BY ConcludeShape DEF JudgeNoChange, JudgeRejected, JudgeRolledBack
<1>4. phase = "rollbackPull" /\ bindingUncertain
         => outcome' = "CameraStateUnknown"
  BY ConcludeShape
  DEF JudgeNoChange, JudgeRejected, JudgeRolledBack, RollbackProved
<1> QED
  BY <1>1, <1>2, <1>3, <1>4, PullDecided

LEMMA PullFailedDecided ==
  ASSUME TypeOK, Control, PullFailed PROVE Decided
<1>1. phase \in PullPhases /\ step = "answered" /\ NoIo
      /\ UNCHANGED <<snapshot, before, journal, bindingUncertain>>
  BY DEF PullFailed
<1>2. CASE phase = "finalPull"
  <2>1. (healthy /\ AsksNext) \/ Concluded
    BY <1>1, <1>2, RecoverShape DEF PullFailed
  <2> QED
    BY <1>1, <1>2, <2>1, PullDecided
<1>3. CASE phase # "finalPull"
  <2>1. Concluded /\ phase' \in {"restore", "done"}
    BY <1>3, ConcludeShape DEF PullFailed
  <2>2. phase = "rollbackPull" => outcome' = "CameraStateUnknown"
    BY ConcludeShape DEF PullFailed
  <2> QED
    BY <1>1, <2>1, <2>2, PullDecided
<1> QED
  BY <1>2, <1>3

LEMMA JudgeAppliedDecided ==
  ASSUME TypeOK, Control, JudgeApplied PROVE Decided
<1>1. phase = "finalPull" /\ healthy /\ step = "answered"
  BY PullEndsShape DEF JudgeApplied
<1>2. NoIo /\ UNCHANGED <<snapshot, before, journal, bindingUncertain>>
  BY DEF JudgeApplied
<1>3. CASE Conclude("AppliedAndVerified")
  BY <1>1, <1>2, <1>3, ConcludeShape, PullDecided DEF PullPhases
<1>4. CASE Recover(journal)
  BY <1>1, <1>2, <1>4, RecoverShape, PullDecided DEF PullPhases
<1> QED
  BY <1>3, <1>4 DEF JudgeApplied

LEMMA ChangeWrittenDecided ==
  ASSUME TypeOK, Control, ChangeWritten PROVE Decided
<1>1. /\ phase = "apply" /\ step = "answered" /\ NoIo
      /\ snapshot' = snapshot /\ before' = before
      /\ reply # "none" => reply \in {"ok", "unconfirmed", "uncertain"}
  BY DEF ChangeWritten, TypeOK, IoTypeOK, Replies
<1>2. ~bindingUncertain
  BY <1>1 DEF Control, BindingKept
<1>3. CASE /\ reply = "ok" /\ bindingUncertain' = bindingUncertain
           /\ journal' = Append(journal, request.setting)
           /\ ReadBack("verify")
  <2>1. healthy
    BY <1>1, <1>3, OkIsHealthy DEF AccessPhases
  <2>2. Asked("verify", "get")
    BY <1>3, AskShape DEF ReadBack, AskGet, Asked
  <2>3. AsksNext
    BY <2>2 DEF AsksNext
  <2> QED
    BY <1>1, <1>2, <1>3, <2>1, <2>3
    DEF Decided, JournalGrows, AccessPhases, BindingKept
<1>4. CASE /\ reply = "unconfirmed" /\ Recover(journal)
           /\ UNCHANGED <<journal, bindingUncertain>>
  BY <1>1, <1>2, <1>4, RecoverShape
  DEF Decided, JournalGrows, AccessPhases, BindingKept
<1>5. CASE /\ reply = "uncertain" /\ bindingUncertain' = TRUE
           /\ journal' = Append(journal, request.setting)
           /\ Recover(Append(journal, request.setting))
  <2>1. Append(journal, request.setting) # <<>>
    BY <1>1, AnsweredWrite DEF TypeOK
  <2>2. /\ (healthy /\ AsksNext) \/ Concluded
        /\ \/ phase' \in {"undo", "rollbackPull"}
           \/ /\ phase' \in {"restore", "done"}
              /\ outcome' = "CameraStateUnknown"
    BY <1>5, <2>1, RecoverShape
  <2> QED
    BY <1>1, <1>5, <2>2 DEF Decided, JournalGrows, AccessPhases, BindingKept
<1> QED
  BY <1>3, <1>4, <1>5 DEF ChangeWritten

LEMMA ChangeReadBackDecided ==
  ASSUME TypeOK, Control, ChangeReadBack PROVE Decided
<1>1. /\ phase = "verify" /\ step = "answered" /\ NoIo
      /\ UNCHANGED <<snapshot, before, journal, bindingUncertain>>
  BY DEF ChangeReadBack
<1>2. ~bindingUncertain /\ reply # "uncertain"
  BY <1>1, ReadIsCertain DEF Control, BindingKept, AccessPhases
<1>3. ASSUME reply = "ok", ContinueApply(index, candidate, original)
      PROVE  healthy /\ AsksNext
  BY <1>1, <1>3, ContinueApplyShape, OkIsHealthy DEF AccessPhases
<1>4. ASSUME Recover(journal)
      PROVE  (healthy /\ AsksNext) \/ Concluded
  BY <1>1, <1>4, RecoverShape
<1>5. (healthy /\ AsksNext) \/ Concluded
  BY <1>3, <1>4 DEF ChangeReadBack
<1> QED
  BY <1>1, <1>2, <1>5 DEF Decided, JournalGrows, AccessPhases, BindingKept

LEMMA UndoWrittenDecided ==
  ASSUME TypeOK, Control, UndoWritten PROVE Decided
<1>1. /\ phase = "undo" /\ step = "answered" /\ NoIo
      /\ UNCHANGED <<snapshot, before, journal>>
      /\ bindingUncertain' = (bindingUncertain \/ reply = "uncertain")
  BY DEF UndoWritten
<1>2. CASE reply = "ok" /\ ReadBack("undoVerify")
  <2>1. healthy
    BY <1>1, <1>2, OkIsHealthy DEF AccessPhases
  <2>2. Asked("undoVerify", "get")
    BY <1>2, AskShape DEF ReadBack, AskGet, Asked
  <2>3. AsksNext /\ phase' = "undoVerify"
    BY <2>2 DEF AsksNext, Asked
  <2> QED
    BY <1>1, <2>1, <2>3 DEF Decided, JournalGrows, AccessPhases, BindingKept
<1>3. CASE UndoOrStop
  BY <1>1, <1>3, UndoOrStopShape
  DEF Decided, JournalGrows, AccessPhases, BindingKept
<1> QED
  BY <1>2, <1>3 DEF UndoWritten

LEMMA UndoReadBackDecided ==
  ASSUME TypeOK, Control, UndoReadBack PROVE Decided
<1>1. /\ phase = "undoVerify" /\ step = "answered" /\ NoIo
      /\ UNCHANGED <<snapshot, before, journal, bindingUncertain>>
  BY DEF UndoReadBack
<1>2. reply # "uncertain"
  BY <1>1, ReadIsCertain DEF AccessPhases
<1>3. CASE reply = "ok" /\ ContinueUndo(journal, index)
  <2>1. healthy
    BY <1>1, <1>3, OkIsHealthy DEF AccessPhases
  <2> QED
    BY <1>1, <1>2, <1>3, <2>1, ContinueUndoShape
    DEF Decided, JournalGrows, AccessPhases, BindingKept
<1>4. CASE UndoOrStop
  BY <1>1, <1>2, <1>4, UndoOrStopShape
  DEF Decided, JournalGrows, AccessPhases, BindingKept
<1> QED
  BY <1>3, <1>4 DEF UndoReadBack

LEMMA DecisionDecides ==
  ASSUME TypeOK, Control, Decision PROVE Decided
  BY ContinuePullDecided, PrepareCandidateDecided, JudgesDecided,
     PullFailedDecided, JudgeAppliedDecided, ChangeWrittenDecided,
     ChangeReadBackDecided, UndoWrittenDecided, UndoReadBackDecided
  DEF Decision

LEMMA DecisionKeepsType ==
  ASSUME TypeOK, Decision PROVE TypeOK'
  BY ContinuePullType, PrepareCandidateType, JudgesType, PullFailedType,
     JudgeAppliedType, ChangeWrittenType, ChangeReadBackType,
     UndoWrittenType, UndoReadBackType
  DEF Decision

-----------------------------------------------------------------------------
(* Every step preserves the invariant.                                     *)

LEMMA DecidedKeepsInv ==
  ASSUME Inv, TypeOK', Decided PROVE Inv'
<1>1. /\ phase \in AccessPhases /\ step = "answered"
      /\ UNCHANGED <<active, bank, turns, healthy, target, fault, astray,
                     blind, snapshot, before>>
  BY DEF Decided, NoIo, cameraVars, historyVars
<1>2. ASSUME AsksNext
      PROVE  /\ phase' \in AccessPhases
             /\ step' \in {"select", "access"} /\ reply' = "none"
             /\ request'.kind = "set" <=> phase' \in {"apply", "undo"}
             /\ phase' = "undo" => request'.setting = journal'[index']
             /\ outcome' = outcome
  BY <1>2 DEF AsksNext, Asked, AccessPhases, PullPhases
<1>3. ASSUME Concluded
      PROVE  /\ step' = "idle" /\ reply' = "none"
             /\ \/ healthy /\ phase' = "restore"
                \/ /\ ~healthy /\ phase' = "done"
                   /\ outcome' = "CameraStateUnknown"
  BY <1>3 DEF Concluded
<1>4. Control'
  <2>1. AnswerFresh' /\ KindOfPhase' /\ UncertainIsWrite'
    BY <1>2, <1>3
    DEF Decided, AnswerFresh, KindOfPhase, UncertainIsWrite
  <2>2. PoisonSeen'
    BY <1>1, <1>2, <1>3 DEF Decided, PoisonSeen
  <2>3. SnapshotKept'
    BY <1>1, <1>2, <1>3
    DEF Decided, Inv, Control, SnapshotKept, AccessPhases, PullPhases
  <2>4. UndoesJournal'
    BY <1>2, <1>3 DEF Decided, UndoesJournal
  <2> QED
    BY <2>1, <2>2, <2>3, <2>4 DEF Control, Decided
<1>5. SelectorPutBack'
  BY <1>2, <1>3
  DEF Decided, SelectorPutBack, Done, AccessPhases, PullPhases
<1>6. OthersKept'
  <2>1. OthersUntouched' <=> OthersUntouched
    BY <1>1 DEF OthersUntouched
  <2>2. OthersUntouched \/ blind \/ bindingUncertain' \/ ~healthy
    BY <1>1 DEF Inv, OthersKept, StrayKnown, Decided
  <2>3. CASE AsksNext
    BY <1>1, <1>2, <2>1, <2>2, <2>3
    DEF OthersKept, StrayKnown, AccessPhases, PullPhases
  <2>4. CASE Concluded
    <3>1. bindingUncertain' => outcome' = "CameraStateUnknown"
      BY <1>3, <2>4 DEF Decided, BindingKept
    <3> QED
      BY <1>1, <1>3, <2>1, <2>2, <2>4, <3>1
      DEF OthersKept, AccessPhases, PullPhases
  <2> QED
    BY <2>3, <2>4 DEF Decided
<1>7. JournalCovers'
  <2> SUFFICES ASSUME healthy, NEW s \in Slots, NEW i \in Settings,
                      bank[s][i] # before[s][i]
               PROVE  Journaled(i)'
    BY <1>1 DEF JournalCovers
  <2>1. Journaled(i) \/ InFlight(i)
    BY DEF Inv, JournalCovers
  <2>2. journal \in Seq(Settings)
    BY DEF Inv, TypeOK
  <2>3. CASE journal' = journal /\ (phase = "apply" => reply = "unconfirmed")
    BY <1>1, <2>1, <2>3 DEF Journaled, InFlight
  <2>4. CASE phase = "apply" /\ journal' = Append(journal, request.setting)
    <3>1. request.setting \in Settings
      BY <1>1, AnsweredWrite DEF Inv
    <3>2. /\ Len(journal') = Len(journal) + 1
          /\ journal'[Len(journal) + 1] = request.setting
          /\ \A n \in 1..Len(journal) : journal'[n] = journal[n]
          /\ Len(journal) \in Nat
      BY <2>2, <2>4, <3>1
    <3> QED
      BY <2>1, <3>2 DEF Journaled, InFlight
  <2> QED
    BY <2>3, <2>4 DEF Decided, JournalGrows
<1> QED
  BY <1>4, <1>5, <1>6, <1>7 DEF Inv

LEMMA RefuseRequestKeepsInv ==
  ASSUME Inv, TypeOK', RefuseRequest PROVE Inv'
<1>1. /\ phase = "snapshot" /\ phase' = "done"
      /\ UNCHANGED <<active, bank, turns, healthy, target, selected, step,
                     request, value, reply, fault, astray, blind, snapshot,
                     journal, bindingUncertain, before>>
      /\ outcome' = PreparationFailure
  BY DEF RefuseRequest, ioVars
<1>2. step = "idle" /\ reply # "uncertain" /\ healthy /\ ~bindingUncertain
  BY <1>1
  DEF Inv, TypeOK, Control, AnswerFresh, PoisonSeen, BindingKept,
      AccessPhases, PullPhases
<1>3. Control'
  BY <1>1, <1>2
  DEF Inv, Control, AnswerFresh, KindOfPhase, UncertainIsWrite, PoisonSeen,
      SnapshotKept, BindingKept, UndoesJournal, AccessPhases, PullPhases
<1>4. snapshot' = NoSlot /\ snapshot' \notin Slots
  BY <1>1, SlotsAssumption DEF Inv, Control, SnapshotKept
<1>5. SelectorPutBack'
  BY <1>1, <1>4 DEF SelectorPutBack
<1>6. OthersUntouched' <=> OthersUntouched
  BY <1>1 DEF OthersUntouched
<1>7. OthersUntouched \/ blind
  BY <1>1, <1>2 DEF Inv, OthersKept, StrayKnown
<1>8. OthersKept'
  BY <1>1, <1>6, <1>7 DEF OthersKept, AccessPhases, PullPhases
<1>9. JournalCovers'
  BY <1>1 DEF Inv, JournalCovers, Journaled, InFlight
<1> QED
  BY <1>3, <1>5, <1>8, <1>9 DEF Inv

LEMMA SnapshotSelectorKeepsInv ==
  ASSUME Inv, TypeOK', SnapshotSelector PROVE Inv'
<1>1. /\ phase = "snapshot"
      /\ UNCHANGED <<active, bank, turns, target, astray, blind, original,
                     candidate, journal, undone, bindingUncertain,
                     readbackError, before>>
  BY DEF SnapshotSelector, SelectorRead, SelectorUnread
<1>2. /\ step = "idle" /\ reply = "none" /\ healthy /\ ~bindingUncertain
      /\ snapshot = NoSlot
  BY <1>1
  DEF Inv, TypeOK, IoTypeOK, Control, AnswerFresh, PoisonSeen, BindingKept,
      SnapshotKept, AccessPhases, PullPhases
<1>3. (OthersUntouched \/ blind)'
  <2>1. OthersUntouched' <=> OthersUntouched
    BY <1>1 DEF OthersUntouched
  <2> QED
    BY <1>1, <1>2, <2>1 DEF Inv, OthersKept, StrayKnown
<1>4. JournalCovers'
  BY <1>1, <1>2 DEF Inv, JournalCovers, Journaled, InFlight
<1>5. CASE /\ SelectorRead /\ snapshot' = active /\ StartPull("pullOriginal")
  <2>1. healthy'
    BY <1>2, <1>5 DEF SelectorRead, Accepted
  <2>2. /\ phase' = "pullOriginal" /\ step' \in {"select", "access"}
        /\ reply' = "none" /\ request'.kind = "get"
    BY <1>5, AskShape DEF StartPull, AskGet
  <2>3. snapshot' \in Slots
    BY <1>5 DEF Inv, TypeOK, IoTypeOK
  <2>4. Control'
    BY <1>1, <1>2, <2>1, <2>2, <2>3
    DEF Control, AnswerFresh, KindOfPhase, UncertainIsWrite, PoisonSeen,
        SnapshotKept, BindingKept, UndoesJournal, AccessPhases, PullPhases
  <2>5. SelectorPutBack' /\ OthersKept'
    BY <1>3, <2>2
    DEF SelectorPutBack, Done, OthersKept, StrayKnown, AccessPhases, PullPhases
  <2> QED
    BY <1>4, <2>4, <2>5 DEF Inv
<1>6. CASE /\ phase' = "done"
           /\ outcome' = IF healthy' THEN "RejectedWithoutChange"
                         ELSE "CameraStateUnknown"
           /\ UNCHANGED <<snapshot, index, staged, adapterVars>>
  <2>1. Control'
    BY <1>1, <1>2, <1>6
    DEF adapterVars, Control, AnswerFresh, KindOfPhase, UncertainIsWrite,
        PoisonSeen, SnapshotKept, BindingKept, UndoesJournal, AccessPhases,
        PullPhases
  <2>2. SelectorPutBack'
    BY <1>2, <1>6, SlotsAssumption DEF SelectorPutBack
  <2>3. OthersKept'
    BY <1>3, <1>6 DEF OthersKept, AccessPhases, PullPhases
  <2> QED
    BY <1>4, <2>1, <2>2, <2>3 DEF Inv
<1> QED
  BY <1>5, <1>6 DEF SnapshotSelector

LEMMA RestoreKeepsInv ==
  ASSUME Inv, TypeOK', RestoreSelector \/ ConfirmRestore PROVE Inv'
<1>1. /\ phase \in {"restore", "confirmRestore"}
      /\ UNCHANGED <<bank, turns, target, adapterVars, astray, blind, index,
                     snapshot, original, candidate, staged, journal, undone,
                     bindingUncertain, readbackError, before>>
  BY DEF RestoreSelector, ConfirmRestore
<1>2. step = "idle" /\ step' = "idle" /\ reply = "none" /\ reply' = "none"
  BY <1>1
  DEF adapterVars, Inv, TypeOK, IoTypeOK, Control, AnswerFresh,
      AccessPhases, PullPhases
<1>3. healthy
  BY <1>1, <1>2 DEF Inv, Control, PoisonSeen
<1>4. /\ \/ phase' = "done"
         \/ phase' = "confirmRestore" /\ healthy'
      /\ outcome' \in {outcome, "CameraStateUnknown"}
      /\ phase' = "done" /\ outcome' # "CameraStateUnknown"
            => active' = snapshot
  BY <1>3
  DEF RestoreSelector, ConfirmRestore, SelectorRead, SelectorUnread,
      SelectorWritten, SelectorNotWritten, Accepted
<1>5. Control'
  BY <1>1, <1>2, <1>4
  DEF Inv, Control, AnswerFresh, KindOfPhase, UncertainIsWrite, PoisonSeen,
      SnapshotKept, BindingKept, UndoesJournal, AccessPhases, PullPhases
<1>6. SelectorPutBack'
  BY <1>1, <1>4 DEF SelectorPutBack, Done
<1>7. OthersKept'
  <2>1. OthersUntouched' <=> OthersUntouched
    BY <1>1 DEF OthersUntouched
  <2> QED
    BY <1>1, <1>4, <2>1 DEF Inv, OthersKept, AccessPhases, PullPhases
<1>8. JournalCovers'
  BY <1>1, <1>2, <1>3 DEF Inv, JournalCovers, Journaled, InFlight
<1> QED
  BY <1>5, <1>6, <1>7, <1>8 DEF Inv

LEMMA UserKeepsInv ==
  ASSUME Inv, UserStep PROVE Inv'
<1>1. /\ phase # "done"
      /\ active' \in Slots /\ turns' \in 0..MaxTurns
      /\ UNCHANGED <<bank, healthy, target, selected, step, request, value,
                     reply, fault, astray, blind, phase, index, snapshot,
                     original, candidate, staged, journal, undone,
                     bindingUncertain, readbackError, outcome, before>>
  BY CountsAssumption
  DEF UserStep, TurnSelector, execVars, Inv, TypeOK, IoTypeOK
<1>2. TypeOK'
  BY <1>1 DEF Inv, TypeOK, IoTypeOK
<1>3. Control'
  BY <1>1
  DEF Inv, Control, AnswerFresh, KindOfPhase, UncertainIsWrite, PoisonSeen,
      SnapshotKept, BindingKept, UndoesJournal
<1>4. SelectorPutBack'
  BY <1>1 DEF SelectorPutBack, Done
<1>5. OthersKept'
  BY <1>1 DEF Inv, OthersKept, OthersUntouched, StrayKnown
<1>6. JournalCovers'
  BY <1>1 DEF Inv, JournalCovers, Journaled, InFlight
<1> QED
  BY <1>2, <1>3, <1>4, <1>5, <1>6 DEF Inv

\* A transaction that is not lost leaves the session as it was.
LEMMA NotLost ==
  ASSUME (\E b \in BOOLEAN : Accepted(b)) \/ Rejected
  PROVE  healthy' = healthy
  BY DEF Accepted, Rejected

\* What an adapter step does to control, and when it writes to a slot.
LEMMA AdapterShape ==
  ASSUME Inv, AdapterStep
  PROVE  /\ step \in {"select", "confirm", "access", "check"} /\ healthy
         /\ reply = "none" /\ UNCHANGED <<request, target>>
         /\ \/ reply' = "none" /\ healthy' = healthy
               /\ step' \in {"confirm", "access", "check"}
            \/ step' = "answered" /\ reply' = "ok" /\ healthy' = healthy
            \/ step' = "answered" /\ reply' = "unconfirmed"
            \/ step' = "answered" /\ reply' = "uncertain"
               /\ request.kind = "set"
<1>1. step # "answered" /\ step # "idle"
  BY DEF AdapterStep, SelectSlot, ConfirmSlot, ReadSetting, WriteSetting,
         CheckSlot
<1>2. reply = "none" /\ phase # "done"
  BY <1>1
  DEF Inv, TypeOK, Control, AnswerFresh, AccessPhases, PullPhases
<1>3. healthy
  BY <1>1, <1>2 DEF Inv, Control, PoisonSeen
<1>4. CASE SelectSlot
  BY <1>2, <1>3, <1>4 DEF SelectSlot, Accepted, Answer
<1>5. CASE ConfirmSlot
  BY <1>2, <1>3, <1>5 DEF ConfirmSlot, Accepted, Answer
<1>6. CASE ReadSetting
  BY <1>2, <1>3, <1>6 DEF ReadSetting, Accepted, Answer
<1>7. CASE WriteSetting
  BY <1>2, <1>3, <1>7 DEF WriteSetting, Accepted, Answer
<1>8. CASE CheckSlot
  BY <1>2, <1>3, <1>8 DEF CheckSlot, CheckFailure, Accepted, Answer
<1> QED
  BY <1>4, <1>5, <1>6, <1>7, <1>8 DEF AdapterStep

\* Only a write in a writing phase changes what is stored, and only in the
\* slot that is active; until its check it is known whether that was target.
LEMMA WriteShape ==
  ASSUME Inv, AdapterStep, bank' # bank
  PROVE  /\ request.kind = "set" /\ phase \in {"apply", "undo"}
         /\ request.setting \in Settings
         /\ \E v \in Values :
               bank' = [bank EXCEPT ![active][request.setting] = v]
         /\ \/ step' = "check" /\ astray' = (active # target)
            \/ ~healthy'
<1>1. WriteSetting
  BY DEF AdapterStep, SelectSlot, ConfirmSlot, ReadSetting, CheckSlot
<1>2. request \in Requests /\ request.setting \in Settings /\ step # "idle"
  BY <1>1 DEF WriteSetting, Inv, TypeOK, IoTypeOK, Requests
<1>3. request.kind = "set" /\ phase \in {"apply", "undo"}
  BY <1>1, <1>2 DEF WriteSetting, Inv, Control, KindOfPhase
<1> QED
  BY <1>1, <1>2, <1>3 DEF WriteSetting, Lost

LEMMA AdapterKeepsInv ==
  ASSUME Inv, AdapterStep, UNCHANGED execVars PROVE Inv'
<1> USE DEF execVars
<1>1. TypeOK'
  BY AdapterKeepsType DEF Inv
<1>2. phase \in AccessPhases /\ phase' = phase /\ phase # "done"
  BY AdapterShape DEF Inv, TypeOK, AccessPhases, PullPhases
<1>3. Control'
  <2>1. AnswerFresh' /\ KindOfPhase' /\ UncertainIsWrite'
    BY AdapterShape
    DEF Inv, Control, AnswerFresh, KindOfPhase, UncertainIsWrite
  <2>2. PoisonSeen'
    BY AdapterShape DEF PoisonSeen
  <2>3. SnapshotKept' /\ BindingKept' /\ UndoesJournal'
    BY AdapterShape
    DEF Inv, Control, SnapshotKept, BindingKept, UndoesJournal
  <2> QED
    BY <2>1, <2>2, <2>3 DEF Control
<1>4. SelectorPutBack'
  BY <1>2 DEF SelectorPutBack, Done
<1>5. OthersKept'
  <2>1. SUFFICES (OthersUntouched \/ StrayKnown)'
    BY <1>2 DEF OthersKept, AccessPhases, PullPhases
  <2>2. OthersUntouched \/ StrayKnown
    BY <1>2 DEF Inv, OthersKept
  <2>3. CASE bank' # bank
    <3>1. CASE ~healthy'
      BY <3>1 DEF StrayKnown
    <3>2. CASE step' = "check" /\ astray' /\ active # target
      BY <2>3, <3>2, WriteShape, AdapterShape DEF StrayKnown
    <3>3. CASE step' = "check" /\ active = target
      <4>1. step = "access" /\ blind' = blind
        BY <2>3
        DEF AdapterStep, SelectSlot, ConfirmSlot, ReadSetting, WriteSetting,
            CheckSlot
      <4>2. \A s \in Slots \ {target} : bank'[s] = bank[s]
        BY <2>3, <3>3, WriteShape DEF Inv, TypeOK, IoTypeOK
      <4>3. OthersUntouched \/ blind \/ bindingUncertain
        BY <2>2, <4>1, AdapterShape DEF StrayKnown
      <4> QED
        BY <4>1, <4>2, <4>3, AdapterShape DEF OthersUntouched, StrayKnown
    <3> QED
      BY <2>3, <3>1, <3>2, <3>3, WriteShape
  <2>4. CASE bank' = bank
    <3>1. OthersUntouched' <=> OthersUntouched
      BY <2>4, AdapterShape DEF OthersUntouched
    <3>2. CASE OthersUntouched
      BY <3>1, <3>2
    <3>3. CASE blind \/ bindingUncertain
      <4>1. blind' = blind \/ blind' = (blind \/ astray)
        BY DEF AdapterStep, SelectSlot, ConfirmSlot, ReadSetting,
               WriteSetting, CheckSlot
      <4>2. blind => blind'
        BY <4>1
      <4> QED
        BY <3>3, <4>2 DEF StrayKnown
    <3>4. CASE step = "check" /\ astray /\ request.kind = "set"
      <4>1. CheckSlot
        BY <3>4
        DEF AdapterStep, SelectSlot, ConfirmSlot, ReadSetting, WriteSetting
      <4> QED
        BY <3>4, <4>1 DEF CheckSlot, CheckFailure, Answer, StrayKnown
    <3> QED
      BY <2>2, <3>2, <3>3, <3>4, AdapterShape DEF StrayKnown
  <2> QED
    BY <2>3, <2>4
<1>6. JournalCovers'
  <2> SUFFICES ASSUME healthy', NEW s \in Slots, NEW i \in Settings,
                      bank'[s][i] # before[s][i]
               PROVE  Journaled(i) \/ InFlight(i)'
    BY DEF JournalCovers, Journaled
  <2>1. healthy
    BY AdapterShape
  <2>2. CASE bank'[s][i] = bank[s][i]
    <3>1. Journaled(i) \/ InFlight(i)
      BY <2>1, <2>2 DEF Inv, JournalCovers
    <3>2. InFlight(i) => step = "check" /\ phase = "apply"
                         /\ request.setting = i
      BY AdapterShape DEF InFlight
    <3>3. step = "check" => reply' # "unconfirmed" \/ request.kind # "set"
      BY DEF AdapterStep, SelectSlot, ConfirmSlot, ReadSetting, WriteSetting,
             CheckSlot, CheckFailure, Answer
    <3>4. phase = "apply" => request.kind = "set"
      BY AdapterShape DEF Inv, Control, KindOfPhase
    <3>5. step = "check" => step' = "answered"
      BY DEF AdapterStep, SelectSlot, ConfirmSlot, ReadSetting, WriteSetting,
             CheckSlot, Answer
    <3> QED
      BY <3>1, <3>2, <3>3, <3>4, <3>5, AdapterShape DEF InFlight
  <2>3. CASE bank'[s][i] # bank[s][i]
    <3>1. /\ request.kind = "set" /\ phase \in {"apply", "undo"}
          /\ request.setting \in Settings /\ step' = "check"
      BY <2>3, WriteShape
    <3>2. request.setting = i
      BY <2>3, <3>1, WriteShape, SMTT(40) DEF Inv, TypeOK, IoTypeOK, Bank
    <3>3. CASE phase = "apply"
      BY <3>1, <3>2, <3>3, AdapterShape DEF InFlight
    <3>4. CASE phase = "undo"
      BY <3>2, <3>4
      DEF Inv, TypeOK, Control, UndoesJournal, Journaled
    <3> QED
      BY <3>1, <3>3, <3>4
  <2> QED
    BY <2>2, <2>3
<1> QED
  BY <1>1, <1>3, <1>4, <1>5, <1>6 DEF Inv

LEMMA InitInv == Init => Inv
<1> SUFFICES ASSUME Init PROVE Inv
  OBVIOUS
<1>1. TypeOK
  <2>1. IoTypeOK
    <3>1. turns \in 0..MaxTurns
      BY CountsAssumption DEF Init, IoInit
    <3>2. step = "idle" /\ reply = "none" /\ request = NoRequest
      BY DEF Init, IoInit
    <3>3. /\ active \in Slots /\ bank \in [Slots -> Bank]
          /\ target \in Slots /\ value = Absent
      BY DEF Init, IoInit
    <3>4. /\ healthy \in BOOLEAN /\ selected \in BOOLEAN
          /\ fault \in BOOLEAN /\ astray \in BOOLEAN /\ blind \in BOOLEAN
      BY DEF Init, IoInit
    <3> QED
      BY <3>1, <3>2, <3>3, <3>4 DEF IoTypeOK, Steps, Replies
  <2>2. before \in [Slots -> Bank]
    BY DEF Init, IoInit
  <2>3. <<>> \in Seq(Settings)
    OBVIOUS
  <2>4. step = "idle" /\ phase = "snapshot"
    BY DEF Init, IoInit
  <2> QED
    BY <2>1, <2>2, <2>3, <2>4, NothingIsProfile
    DEF Init, TypeOK, Phases, AccessPhases, PullPhases
<1>2. Control /\ SelectorPutBack
  BY DEF Init, IoInit, Control, AnswerFresh, KindOfPhase, UncertainIsWrite,
         PoisonSeen, SnapshotKept, BindingKept, UndoesJournal, AccessPhases,
         PullPhases, SelectorPutBack, Done
<1>3. OthersKept /\ JournalCovers
  BY DEF Init, OthersKept, OthersUntouched, JournalCovers, AccessPhases,
         PullPhases
<1> QED
  BY <1>1, <1>2, <1>3 DEF Inv

LEMMA NextInv == Inv /\ [Next]_vars => Inv'
<1> SUFFICES ASSUME Inv, [Next]_vars PROVE Inv'
  OBVIOUS
<1>1. CASE RefuseRequest
  BY <1>1, RefuseRequestType, RefuseRequestKeepsInv DEF Inv
<1>2. CASE SnapshotSelector
  BY <1>2, SnapshotSelectorType, SnapshotSelectorKeepsInv DEF Inv
<1>3. CASE Decision
  BY <1>3, DecisionKeepsType, DecisionDecides, DecidedKeepsInv DEF Inv
<1>4. CASE RestoreSelector \/ ConfirmRestore
  <2>1. snapshot \in Slots
    BY <1>4 DEF RestoreSelector, ConfirmRestore, Inv, Control, SnapshotKept
  <2> QED
    BY <1>4, <2>1, RestoreType, RestoreKeepsInv DEF Inv
<1>5. CASE AdapterStep /\ UNCHANGED execVars
  BY <1>5, AdapterKeepsInv
<1>6. CASE UserStep
  BY <1>6, UserKeepsInv
<1>7. CASE UNCHANGED vars
  BY <1>7
  DEF vars, ioVars, execVars, Inv, TypeOK, IoTypeOK, Control, AnswerFresh,
      KindOfPhase, UncertainIsWrite, PoisonSeen, SnapshotKept, BindingKept,
      UndoesJournal, SelectorPutBack, Done, OthersKept, OthersUntouched,
      StrayKnown, JournalCovers, Journaled, InFlight
<1> QED
  BY <1>1, <1>2, <1>3, <1>4, <1>5, <1>6, <1>7
  DEF Next, HostStep, ExecutorStep, Decision

-----------------------------------------------------------------------------
(* What the answers say of the target slot.                                *)

\* The settings before i that apply were read, and no other.
PulledUpTo(b, f, i) ==
    \A k \in Settings : f[k] = IF k < i /\ k \in PresentIn(f) THEN b[k] ELSE Absent

PullKept ==
    phase \in PullPhases =>
        /\ request.setting = index /\ index \in PresentIn(staged)
        /\ ~blind => PulledUpTo(bank[target], staged, index)

\* What was read is trusted when the selector was seen on the target after it.
ValueKept ==
    phase \in AccessPhases /\ request.kind = "get" =>
        /\ step = "check" /\ ~astray => value = bank[target][request.setting]
        /\ reply = "ok" /\ ~blind => value = bank[target][request.setting]

\* Nothing was confirmed to be written; the original is what the target
\* showed at the start.
OriginalKept ==
    /\ phase \in {"snapshot", "pullOriginal", "noChangePull", "rejectPull"} =>
          journal = <<>>
    /\ phase \in AccessPhases \ {"pullOriginal"} /\ ~blind => Shows(before[target], original)

\* The answer is true of the target, though the selector is still away.
AnswerKept ==
    phase \in {"restore", "confirmRestore", "done"} /\ ~blind =>
        /\ outcome \in Successes => Shows(bank[target], candidate)
        /\ outcome \in {"RejectedWithoutChange", "RollbackVerified"} =>
              bank[target] = before[target]

Truth == PullKept /\ ValueKept /\ OriginalKept /\ AnswerKept

-----------------------------------------------------------------------------
(* A camera that obeys, and nobody turns the selector.                     *)

Clean == ~fault /\ turns = 0

\* The settings before n have the candidate's values, the others their own.
WrittenBy(c, n) ==
    /\ \A j \in Settings : j < n /\ c[j] # Absent => bank[target][j] = c[j]
    /\ \A j \in Settings : j >= n => bank[target][j] = before[target][j]
WrittenUpTo(n) == WrittenBy(candidate, n)

\* The camera is on the target from its selection to its last check.
SessionClean ==
    Clean =>
        /\ healthy /\ ~blind /\ reply \in {"none", "ok"}
        /\ phase = "snapshot" => ~selected
        /\ phase \in AccessPhases /\ (selected \/ step \in {"confirm", "access", "check"}) =>
              active = target
        /\ step = "check" => ~astray
        /\ phase = "confirmRestore" => active = snapshot

\* The plan is written setting by setting, in order, and nothing else happens.
PlanKept ==
    /\ phase \in {"snapshot", "pullOriginal"} => candidate = Nothing
    /\ Clean /\ Complete(candidate) =>
          /\ phase \notin {"rejectPull", "undo", "undoVerify", "rollbackPull"}
          /\ phase = "noChangePull" => candidate = original
          /\ phase \in {"apply", "verify"} =>
                request.setting = index /\ candidate[index] # Absent
          /\ phase = "apply" =>
                /\ request.value = candidate[index]
                /\ step \in {"select", "confirm", "access"} => WrittenUpTo(index)
                /\ step \in {"check", "answered"} => WrittenUpTo(index + 1)
          /\ phase = "verify" => WrittenUpTo(index + 1)
          /\ phase = "finalPull" => WrittenUpTo(NumSettings + 1)
          /\ phase \in {"restore", "confirmRestore", "done"} => outcome \in Successes

-----------------------------------------------------------------------------
(* Profiles.                                                               *)

\* A set of numbers has a least one.
LEMMA LeastNat ==
  ASSUME NEW T, T \subseteq Nat, T # {}
  PROVE  \E x \in T : \A y \in T : x <= y
<1>1. PICK x \in T : \A y \in T : ~ (<<y, x>> \in OpToRel(<, Nat))
  BY NatLessThanWellFounded, WFMin
<1>2. ASSUME NEW y \in T PROVE x <= y
  <2>1. ~ (y < x)
    BY <1>1 DEF OpToRel
  <2> QED
    BY <2>1
<1> QED
  BY <1>2

\* Two profiles are the same if they differ in no first setting.
LEMMA AgreeStepwise ==
  ASSUME NEW f \in Profile, NEW g \in Profile,
         \A i \in Settings : (\A j \in 1..(i - 1) : f[j] = g[j]) => f[i] = g[i]
  PROVE  f = g
<1> DEFINE Differ == {i \in Settings : f[i] # g[i]}
<1>1. CASE Differ = {}
  BY <1>1 DEF Profile
<1>2. CASE Differ # {}
  <2>1. PICK i \in Differ : \A j \in Differ : i <= j
    <3>1. Differ \subseteq Nat
      BY DEF Settings
    <3> HIDE DEF Differ
    <3> QED
      BY <1>2, <3>1, LeastNat
  <2>2. \A j \in 1..(i - 1) : f[j] = g[j]
    <3> SUFFICES ASSUME NEW j \in 1..(i - 1), f[j] # g[j] PROVE FALSE
      OBVIOUS
    <3>1. j \in Settings /\ j < i
      BY <2>1, CountsAssumption DEF Settings
    <3> QED
      BY <2>1, <3>1, CountsAssumption DEF Settings
  <2> QED
    BY <2>1, <2>2
<1> QED
  BY <1>1, <1>2

\* A slot shows one profile.
LEMMA OneProfile ==
  ASSUME NEW b \in Bank, NEW f \in Profile, NEW g \in Profile, Shows(b, f), Shows(b, g)
  PROVE  f = g
<1>1. ASSUME NEW i \in Settings, \A j \in 1..(i - 1) : f[j] = g[j]
      PROVE  f[i] = g[i]
  <2>1. Present(i, f) = Present(i, g)
    BY <1>1, PresenceAssumption
  <2> QED
    BY <2>1 DEF Shows
<1> QED
  BY <1>1, AgreeStepwise

\* Whether a setting applies is decided by those before it.
LEMMA PresenceDepends ==
  ASSUME NEW f \in Profile, NEW g \in Profile, NEW k \in Settings,
         \A m \in 1..(k - 1) : f[m] = g[m]
  PROVE  k \in PresentIn(f) <=> k \in PresentIn(g)
<1>1. Present(k, f) = Present(k, g)
  BY PresenceAssumption
<1> QED
  BY <1>1, Zenon DEF PresentIn

\* Reading setting i takes the pull to the next setting that applies.
LEMMA PulledGrows ==
  ASSUME NEW b \in Bank, NEW f \in Profile, NEW i \in Settings,
         i \in PresentIn(f), PulledUpTo(b, f, i), NEW g, g = [f EXCEPT ![i] = b[i]],
         NEW j \in Nat, IsNext(i, j, PresentIn(g))
  PROVE  g \in Profile /\ PulledUpTo(b, g, j)
<1>1. g \in Profile /\ g[i] = b[i] /\ \A k \in Settings : k # i => g[k] = f[k]
  BY DEF Profile, Bank
<1>2. ASSUME NEW k \in Settings, k <= i PROVE k \in PresentIn(g) <=> k \in PresentIn(f)
  <2>1. \A m \in 1..(k - 1) : g[m] = f[m]
    BY <1>1, <1>2, CountsAssumption DEF Settings
  <2> QED
    BY <1>1, <2>1, PresenceDepends
<1>3. i < j /\ \A k \in Settings : i < k /\ k < j => k \notin PresentIn(g)
  <2>1. NumSettings \in Nat /\ i \in Nat
    BY CountsAssumption DEF Settings
  <2>2. i < j
    BY <2>1 DEF IsNext
  <2>3. ASSUME NEW k \in Settings, i < k, k < j PROVE k \notin PresentIn(g)
    <3>1. k \in (i + 1)..(j - 1)
      BY <2>1, <2>3 DEF Settings
    <3> QED
      BY <3>1 DEF IsNext
  <2> QED
    BY <2>2, <2>3
<1>4. ASSUME NEW k \in Settings
      PROVE  g[k] = IF k < j /\ k \in PresentIn(g) THEN b[k] ELSE Absent
  <2>1. f[k] = IF k < i /\ k \in PresentIn(f) THEN b[k] ELSE Absent
    BY DEF PulledUpTo
  <2>2. CASE k < i
    <3>1. k <= i /\ k # i /\ k < j
      BY <1>3, <2>2 DEF Settings
    <3> QED
      BY <1>1, <1>2, <2>1, <2>2, <3>1, Zenon
  <2>3. CASE k = i
    <3>1. k <= i /\ k < j
      BY <1>3, <2>3 DEF Settings
    <3> QED
      BY <1>1, <1>2, <2>3, <3>1, Zenon
  <2>4. CASE i < k
    <3>1. ~(k < i) /\ k # i
      BY <2>4 DEF Settings
    <3> QED
      BY <1>1, <1>3, <2>1, <2>4, <3>1, Zenon
  <2> QED
    BY <2>2, <2>3, <2>4, CountsAssumption DEF Settings
<1> QED
  BY <1>1, <1>4 DEF PulledUpTo

\* Past the last setting, the profile is what the slot shows.
LEMMA PulledAll ==
  ASSUME NEW b \in Bank, NEW f \in Profile, PulledUpTo(b, f, NumSettings + 1)
  PROVE  Shows(b, f)
<1>1. \A k \in Settings : f[k] = IF k \in PresentIn(f) THEN b[k] ELSE Absent
  BY CountsAssumption DEF PulledUpTo, Settings
<1> QED
  BY <1>1, Zenon DEF PresentIn, Shows

-----------------------------------------------------------------------------
(* Reading.                                                                *)

\* A pull goes on or starts anew.
LEMMA PullPhaseShape ==
  ASSUME Decision, phase' \in PullPhases
  PROVE  ContinuePull \/ StartPull(phase')
<1> USE DEF PullPhases
<1>1. ASSUME NEW a, Conclude(a) PROVE FALSE
  BY <1>1 DEF Conclude
<1>2. ASSUME NEW p, NEW at, NEW i, NEW f, Write(p, at, i, f), p \in {"apply", "undo"} PROVE FALSE
  BY <1>2 DEF Write
<1>3. ASSUME NEW p, StartPull(p) PROVE StartPull(phase')
  BY <1>3 DEF StartPull
<1>4. ASSUME NEW i, NEW c, NEW o, ContinueApply(i, c, o) PROVE StartPull(phase')
  BY <1>2, <1>3, <1>4 DEF ContinueApply
<1>5. ASSUME NEW js, NEW k, ContinueUndo(js, k) PROVE StartPull(phase')
  BY <1>2, <1>3, <1>5 DEF ContinueUndo
<1>6. ASSUME NEW js, Recover(js) PROVE StartPull(phase')
  BY <1>1, <1>3, <1>5, <1>6 DEF Recover
<1>7. UndoOrStop => StartPull(phase')
  BY <1>1, <1>5 DEF UndoOrStop
<1>8. PrepareCandidate => StartPull(phase')
  BY <1>1, <1>3, <1>4 DEF PrepareCandidate
<1>9. ~JudgeNoChange /\ ~JudgeRejected /\ ~JudgeRolledBack
  BY <1>1 DEF JudgeNoChange, JudgeRejected, JudgeRolledBack
<1>10. JudgeApplied \/ PullFailed => StartPull(phase')
  BY <1>1, <1>6 DEF JudgeApplied, PullFailed
<1>11. ChangeWritten \/ ChangeReadBack => StartPull(phase')
  BY <1>4, <1>6 DEF ChangeWritten, ChangeReadBack, ReadBack
<1>12. UndoWritten \/ UndoReadBack => StartPull(phase')
  BY <1>5, <1>7 DEF UndoWritten, UndoReadBack, ReadBack
<1> QED
  BY <1>8, <1>9, <1>10, <1>11, <1>12 DEF Decision

\* Every adapter step is one PTP transaction.
LEMMA AdapterTransacts ==
  ASSUME AdapterStep
  PROVE  (\E b \in BOOLEAN : Accepted(b)) \/ Rejected \/ Lost
<1>1. (active' = target) \in BOOLEAN /\ \A v : (v = request.value) \in BOOLEAN
  OBVIOUS
<1> QED
  BY <1>1 DEF AdapterStep, SelectSlot, ConfirmSlot, ReadSetting, WriteSetting, CheckSlot

\* A step of the executor leaves the slots alone; one of the adapter writes
\* only when it was asked to.
LEMMA SlotsStay ==
  ASSUME Inv, Next
  PROVE  /\ UNCHANGED <<target, before>>
         /\ blind => blind'
         /\ fault => fault'
         /\ turns' >= turns /\ turns \in Nat /\ turns' \in Nat
         /\ AdapterStep /\ request.kind = "get" => UNCHANGED bank
         /\ ~AdapterStep => UNCHANGED <<bank, blind>>
<1>1. \/ RefuseRequest \/ SnapshotSelector \/ Decision \/ RestoreSelector \/ ConfirmRestore
      \/ AdapterStep /\ UNCHANGED execVars
      \/ UserStep
  BY DEF Next, HostStep, ExecutorStep, Decision
<1>2. turns \in Nat /\ turns' \in Nat /\ turns' >= turns
  <2>1. turns' = turns \/ turns' = turns + 1
    BY <1>1, DecisionDecides
       DEF RefuseRequest, SnapshotSelector, Decided, NoIo, cameraVars, RestoreSelector,
           ConfirmRestore, AdapterStep, SelectSlot, ConfirmSlot, ReadSetting, WriteSetting,
           CheckSlot, UserStep, TurnSelector, ioVars, Inv
  <2> QED
    BY <2>1, CountsAssumption DEF Inv, TypeOK, IoTypeOK
<1>3. CASE AdapterStep /\ UNCHANGED execVars
  <2>1. UNCHANGED <<target, before>>
    BY <1>3, AdapterShape DEF execVars
  <2>2. (blind => blind') /\ (fault => fault')
    <3>1. (\E b \in BOOLEAN : Accepted(b)) \/ Rejected \/ Lost
      BY <1>3, AdapterTransacts
    <3>2. fault => fault'
      BY <3>1, Zenon DEF Accepted, Rejected, Lost
    <3>3. blind => blind'
      BY <1>3, Zenon DEF AdapterStep, SelectSlot, ConfirmSlot, ReadSetting, WriteSetting, CheckSlot
    <3> QED
      BY <3>2, <3>3
  <2>3. request.kind = "get" => UNCHANGED bank
    BY <1>3, WriteShape
  <2> QED
    BY <1>2, <1>3, <2>1, <2>2, <2>3
<1>4. CASE Decision
  BY <1>2, <1>4, DecisionDecides DEF Decided, NoIo, cameraVars, historyVars, Inv, AdapterStep,
     SelectSlot, ConfirmSlot, ReadSetting, WriteSetting, CheckSlot
<1>5. CASE RefuseRequest \/ SnapshotSelector \/ RestoreSelector \/ ConfirmRestore \/ UserStep
  <2>1. UNCHANGED <<target, before, bank, blind>>
    BY <1>5 DEF RefuseRequest, SnapshotSelector, RestoreSelector, ConfirmRestore, UserStep,
       TurnSelector, ioVars, execVars
  <2>2. fault => fault'
    BY <1>5, Zenon DEF RefuseRequest, SnapshotSelector, RestoreSelector, ConfirmRestore, UserStep,
       TurnSelector, ioVars, SelectorRead, SelectorUnread, SelectorWritten, SelectorNotWritten,
       Accepted, Rejected, Lost
  <2> QED
    BY <1>2, <2>1, <2>2
<1> QED
  BY <1>1, <1>3, <1>4, <1>5

\* Starting a pull, nothing is read.
LEMMA PullStarts ==
  ASSUME NEW p \in PullPhases, StartPull(p)
  PROVE  PullKept'
<1>1. 1 \in Settings
  BY CountsAssumption DEF Settings
<1>2. 1 \in PresentIn(Nothing)
  <2>1. Present(1, Nothing)
    BY NothingIsProfile, PresenceAssumption
  <2> QED
    BY <1>1, <2>1, Zenon DEF PresentIn
<1>3. index' = 1 /\ staged' = Nothing /\ request'.setting = 1
  BY AskShape DEF StartPull, AskGet
<1>4. PulledUpTo(bank'[target'], Nothing, 1)
  BY DEF PulledUpTo, Nothing, Settings
<1>5. PulledUpTo(bank'[target'], staged', index')
  BY <1>3, <1>4
<1> QED
  BY <1>2, <1>3, <1>5 DEF PullKept

\* The setting just read is that of the target, and so is the profile so far.
LEMMA PulledTrue ==
  ASSUME Inv, Truth, phase \in PullPhases, reply = "ok", ~blind,
         NEW j \in Nat, IsNext(index, j, PresentIn(Pulled))
  PROVE  PulledUpTo(bank[target], Pulled, j)
<1>1. /\ index \in Settings /\ index \in PresentIn(staged) /\ request.setting = index
      /\ PulledUpTo(bank[target], staged, index)
      /\ bank[target] \in Bank /\ staged \in Profile
  BY DEF Truth, PullKept, Inv, TypeOK, IoTypeOK
<1>2. request.kind = "get" /\ phase \in AccessPhases
  <2>1. request \in Requests /\ step # "idle"
    BY PullAsks DEF Inv, TypeOK, AccessPhases
  <2> QED
    BY <2>1 DEF Inv, Control, KindOfPhase, AccessPhases, PullPhases, Requests
<1>3. value = bank[target][index]
  BY <1>1, <1>2 DEF Truth, ValueKept
<1>4. Pulled = [staged EXCEPT ![index] = bank[target][index]]
  BY <1>3 DEF Pulled
<1> QED
  BY <1>1, <1>4, PulledGrows

\* A whole profile that was read is what the target shows.
LEMMA PullEndsTrue ==
  ASSUME Inv, Truth, PullEnds, ~blind
  PROVE  Shows(bank[target], Pulled)
<1>1. NumSettings + 1 \in Nat /\ bank[target] \in Bank
  BY CountsAssumption DEF Inv, TypeOK, IoTypeOK
<1>2. PulledUpTo(bank[target], Pulled, NumSettings + 1)
  BY <1>1, PulledTrue DEF PullEnds
<1> QED
  BY <1>1, <1>2, PulledAll, PulledIsProfile DEF Inv

\* Every step keeps what is known of the profile being read.
LEMMA PullNext ==
  ASSUME Inv, Truth, Next
  PROVE  PullKept'
<1>1. UNCHANGED <<target, before>> /\ (blind => blind')
  BY SlotsStay
<1>2. CASE ContinuePull
  <2>1. PICK j \in Settings : IsNext(index, j, PresentIn(Pulled)) /\ index' = j /\ AskGet(j)
    BY <1>2 DEF ContinuePull
  <2>2. /\ phase \in PullPhases /\ reply = "ok" /\ staged' = Pulled
        /\ UNCHANGED <<phase, blind, bank>>
    BY <1>2 DEF ContinuePull, NoIo, cameraVars, historyVars
  <2>3. request'.setting = j /\ j \in PresentIn(staged')
    BY <2>1, <2>2, AskShape DEF AskGet, IsNext, Settings
  <2>4. ASSUME ~blind PROVE PulledUpTo(bank[target], Pulled, j)
    <3>1. j \in Nat
      BY DEF Settings
    <3> QED
      BY <2>1, <2>2, <2>4, <3>1, PulledTrue
  <2>5. ~blind' => PulledUpTo(bank'[target'], staged', index')
    BY <1>1, <2>1, <2>2, <2>4
  <2> QED
    BY <2>1, <2>3, <2>5 DEF PullKept
<1>3. CASE Decision /\ ~ContinuePull
  <2> SUFFICES ASSUME phase' \in PullPhases PROVE PullKept'
    BY DEF PullKept
  <2> QED
    BY <1>3, PullPhaseShape, PullStarts
<1>4. CASE SnapshotSelector
  <2>1. StartPull("pullOriginal") \/ phase' = "done"
    BY <1>4 DEF SnapshotSelector
  <2> QED
    BY <2>1, PullStarts DEF PullPhases, PullKept
<1>5. CASE RefuseRequest \/ RestoreSelector \/ ConfirmRestore
  <2>1. phase' \in {"done", "confirmRestore"}
    BY <1>5 DEF RefuseRequest, RestoreSelector, ConfirmRestore
  <2> QED
    BY <2>1 DEF PullKept, PullPhases
<1>6. CASE AdapterStep /\ UNCHANGED execVars
  <2>1. UNCHANGED <<phase, index, staged, request>>
    BY <1>6, AdapterShape DEF execVars
  <2>2. phase \in PullPhases => UNCHANGED bank
    BY <1>6, WriteShape DEF PullPhases
  <2> QED
    BY <1>1, <2>1, <2>2 DEF Truth, PullKept, PulledUpTo
<1>7. CASE UserStep
  BY <1>7 DEF UserStep, TurnSelector, execVars, Truth, PullKept, PulledUpTo
<1> QED
  BY <1>2, <1>3, <1>4, <1>5, <1>6, <1>7 DEF Next, HostStep, ExecutorStep, Decision

\* Every step keeps what is known of the value read.
LEMMA ValueNext ==
  ASSUME Inv, Truth, Next
  PROVE  ValueKept'
<1>1. CASE Decision
  <2>1. (healthy /\ AsksNext) \/ Concluded
    BY <1>1, DecisionDecides DEF Inv, Decided
  <2>2. CASE AsksNext
    <3>1. step' \in {"select", "access"} /\ reply' = "none"
      BY <2>2 DEF AsksNext, Asked
    <3> QED
      BY <3>1 DEF ValueKept
  <2>3. CASE Concluded
    <3>1. phase' \in {"restore", "done"}
      BY <2>3 DEF Concluded
    <3> QED
      BY <3>1 DEF ValueKept, AccessPhases, PullPhases
  <2> QED
    BY <2>1, <2>2, <2>3
<1>2. CASE SnapshotSelector
  <2>1. phase' = "done" \/ Ask("get", 1, Absent)
    BY <1>2 DEF SnapshotSelector, StartPull, AskGet
  <2>2. phase' = "done" \/ (step' \in {"select", "access"} /\ reply' = "none")
    BY <2>1, AskShape
  <2> QED
    BY <2>2 DEF ValueKept, AccessPhases, PullPhases
<1>3. CASE RefuseRequest \/ RestoreSelector \/ ConfirmRestore
  <2>1. phase' \in {"done", "confirmRestore"}
    BY <1>3 DEF RefuseRequest, RestoreSelector, ConfirmRestore
  <2> QED
    BY <2>1 DEF ValueKept, AccessPhases, PullPhases
<1>4. CASE AdapterStep /\ UNCHANGED execVars
  <2> SUFFICES ASSUME phase \in AccessPhases, request.kind = "get" PROVE ValueKept'
    BY <1>4, AdapterShape DEF ValueKept, execVars
  <2>1. UNCHANGED <<phase, request, target, bank>>
    BY <1>4, AdapterShape, SlotsStay DEF execVars
  <2>2. reply = "none"
    BY <1>4, AdapterShape
  <2>3. CASE ReadSetting
    <3>1. reply' # "ok"
      BY <2>2, <2>3 DEF ReadSetting, Answer
    <3>2. step' = "check" => value' = bank[active][request.setting] /\ astray' = (active # target)
      BY <2>3, Zenon DEF ReadSetting, Answer
    <3>3. step' = "check" /\ ~astray' => value' = bank[target][request.setting]
      BY <3>2, Zenon
    <3> QED
      BY <2>1, <3>1, <3>3 DEF ValueKept
  <2>4. CASE CheckSlot
    <3>1. /\ step' = "answered" /\ UNCHANGED value /\ step = "check"
          /\ reply' = "ok" => blind' = (blind \/ astray)
      BY <2>4 DEF CheckSlot, Answer, CheckFailure
    <3>2. reply' = "ok" /\ ~blind' => ~astray
      BY <3>1, Zenon
    <3> QED
      BY <2>1, <3>1, <3>2 DEF ValueKept, Truth
  <2>5. CASE SelectSlot \/ ConfirmSlot
    <3>1. step' # "check" /\ reply' # "ok"
      BY <2>2, <2>5 DEF SelectSlot, ConfirmSlot, Answer
    <3> QED
      BY <3>1 DEF ValueKept
  <2>6. ~WriteSetting
    BY DEF WriteSetting
  <2> QED
    BY <1>4, <2>3, <2>4, <2>5, <2>6 DEF AdapterStep
<1>5. CASE UserStep
  BY <1>5 DEF UserStep, TurnSelector, execVars, Truth, ValueKept
<1> QED
  BY <1>1, <1>2, <1>3, <1>4, <1>5 DEF Next, HostStep, ExecutorStep, Decision

-----------------------------------------------------------------------------
(* The original and the answers.                                           *)

\* While nothing is journaled and no write is on its way, nothing changed.
LEMMA NothingJournaled ==
  ASSUME Inv, healthy, journal = <<>>, phase # "apply"
  PROVE  bank = before
<1>1. bank \in [Slots -> Bank] /\ before \in [Slots -> Bank]
  BY DEF Inv, TypeOK, IoTypeOK
<1>2. ASSUME NEW s \in Slots, NEW i \in Settings PROVE bank[s][i] = before[s][i]
  BY DEF Inv, JournalCovers, Journaled, InFlight
<1>3. ASSUME NEW s \in Slots PROVE bank[s] = before[s]
  BY <1>1, <1>2 DEF Bank
<1> QED
  BY <1>1, <1>3

LEMMA ConcludeAnswers ==
  ASSUME NEW a, Conclude(a)
  PROVE  /\ outcome' \in {a, "CameraStateUnknown"}
         /\ phase' \in {"restore", "done"}
  BY DEF Conclude

\* Only the plan sets the original and the candidate, and reads the original
\* no more.
LEMMA PlanOnce ==
  ASSUME Inv, Decision, ~PrepareCandidate
  PROVE  /\ UNCHANGED <<original, candidate>>
         /\ phase = "pullOriginal" => phase' \in {"pullOriginal", "restore", "done"}
         /\ phase' = "pullOriginal" => phase = "pullOriginal"
         /\ phase' = "noChangePull" => phase = "noChangePull"
         /\ phase' = "rejectPull" => phase = "rejectPull" \/ journal' = <<>>
         /\ phase' \in {"pullOriginal", "noChangePull"} \/ phase = "rejectPull" => UNCHANGED journal
<1>1. UNCHANGED <<original, candidate>>
  BY DEF Decision, ContinuePull, PrepareCandidate, JudgeNoChange, ChangeWritten, ChangeReadBack,
         JudgeApplied, JudgeRejected, UndoWritten, UndoReadBack, JudgeRolledBack, PullFailed
<1>2. journal \in Seq(Settings)
  BY DEF Inv, TypeOK
<1>3. ASSUME NEW js, Recover(js)
      PROVE  phase' \in {"rejectPull", "undo", "rollbackPull", "restore", "done"}
             /\ (phase' = "rejectPull" => js = <<>>)
  BY <1>3 DEF Recover, Conclude, StartPull, ContinueUndo, Write
<1>4. UndoOrStop => phase' \in {"undo", "rollbackPull", "restore", "done"}
  BY DEF UndoOrStop, Conclude, StartPull, ContinueUndo, Write
<1>5. ASSUME NEW js, NEW k, ContinueUndo(js, k) PROVE phase' \in {"undo", "rollbackPull"}
  BY <1>5 DEF StartPull, ContinueUndo, Write
<1>6. ASSUME NEW i, NEW c, NEW o, ContinueApply(i, c, o) PROVE phase' \in {"apply", "finalPull"}
  BY <1>6 DEF StartPull, ContinueApply, Write
<1>7. ASSUME NEW a, Conclude(a) PROVE phase' \in {"restore", "done"}
  BY <1>7, ConcludeAnswers
<1>8. CASE ContinuePull
  BY <1>1, <1>8 DEF ContinuePull
<1>9. CASE JudgeNoChange \/ JudgeRejected \/ JudgeRolledBack
  BY <1>1, <1>7, <1>9 DEF JudgeNoChange, JudgeRejected, JudgeRolledBack
<1>10. CASE ChangeWritten
  <2>1. phase = "apply" /\ (journal' = journal \/ reply = "ok" \/ Recover(journal'))
    BY <1>10 DEF ChangeWritten
  <2>2. phase' \in {"verify", "rejectPull", "undo", "rollbackPull", "restore", "done"}
        /\ (phase' = "rejectPull" => journal' = <<>>)
    BY <1>3, <1>10 DEF ChangeWritten, ReadBack
  <2> QED
    BY <1>1, <2>1, <2>2
<1>11. CASE ChangeReadBack
  BY <1>1, <1>3, <1>6, <1>11 DEF ChangeReadBack
<1>12. CASE JudgeApplied
  BY <1>1, <1>3, <1>7, <1>12 DEF JudgeApplied
<1>13. CASE UndoWritten \/ UndoReadBack
  BY <1>1, <1>4, <1>5, <1>13 DEF UndoWritten, UndoReadBack, ReadBack
<1>14. CASE PullFailed
  BY <1>1, <1>3, <1>7, <1>14 DEF PullFailed, PullPhases
<1> QED
  BY <1>8, <1>9, <1>10, <1>11, <1>12, <1>13, <1>14 DEF Decision

LEMMA OriginalNext ==
  ASSUME Inv, Truth, Next
  PROVE  OriginalKept'
<1>1. UNCHANGED <<target, before>> /\ (blind => blind')
  BY SlotsStay
<1>2. CASE Decision /\ ~PrepareCandidate
  <2>1. phase \in AccessPhases
    BY <1>2, DecisionDecides DEF Inv, Decided
  <2>2. phase' # "snapshot"
    <3>1. Decided
      BY <1>2, DecisionDecides DEF Inv
    <3> QED
      BY <3>1 DEF Decided, AsksNext, Asked, Concluded, PullPhases
  <2>3. phase' \in {"pullOriginal", "noChangePull", "rejectPull"} => journal' = <<>>
    BY <1>2, PlanOnce DEF Truth, OriginalKept
  <2>4. phase' \in AccessPhases \ {"pullOriginal"} => phase \in AccessPhases \ {"pullOriginal"}
    BY <1>2, <2>1, PlanOnce DEF AccessPhases, PullPhases
  <2>5. original' = original
    BY <1>2, PlanOnce
  <2>6. phase' \in AccessPhases \ {"pullOriginal"} /\ ~blind' => Shows(before'[target'], original')
    BY <1>1, <2>4, <2>5, Zenon DEF Truth, OriginalKept
  <2> QED
    BY <2>2, <2>3, <2>6 DEF OriginalKept
<1>3. CASE PrepareCandidate
  <2>1. /\ phase = "pullOriginal" /\ PullEnds /\ original' = Pulled
        /\ UNCHANGED <<journal, bank, blind>>
    BY <1>3 DEF PrepareCandidate, NoIo, cameraVars, historyVars
  <2>2. journal = <<>> /\ healthy
    BY <2>1, PullEndsShape DEF Truth, OriginalKept, Inv
  <2>3. bank = before
    BY <2>1, <2>2, NothingJournaled
  <2>4. ~blind => Shows(before[target], Pulled)
    BY <2>1, <2>3, PullEndsTrue
  <2> QED
    BY <1>1, <2>1, <2>2, <2>4 DEF OriginalKept
<1>4. CASE SnapshotSelector \/ RefuseRequest \/ RestoreSelector \/ ConfirmRestore
  <2>1. /\ phase' \in {"pullOriginal", "confirmRestore", "done"} /\ UNCHANGED journal
        /\ phase' = "pullOriginal" => phase = "snapshot"
    BY <1>4 DEF SnapshotSelector, StartPull, RefuseRequest, RestoreSelector, ConfirmRestore
  <2> QED
    BY <2>1 DEF Truth, OriginalKept, AccessPhases, PullPhases
<1>5. CASE (AdapterStep /\ UNCHANGED execVars) \/ UserStep
  <2>1. UNCHANGED execVars
    BY <1>5 DEF UserStep
  <2> QED
    BY <1>1, <2>1 DEF execVars, Truth, OriginalKept
<1> QED
  BY <1>2, <1>3, <1>4, <1>5 DEF Next, HostStep, ExecutorStep, Decision

\* A proved rollback left the target as it was.
LEMMA RolledBackTrue ==
  ASSUME Inv, Truth, phase = "rollbackPull", PullEnds, ~blind, RollbackProved(Pulled)
  PROVE  bank[target] = before[target]
<1>1. Shows(bank[target], original) /\ Shows(before[target], original)
  BY PullEndsTrue DEF RollbackProved, Truth, OriginalKept, AccessPhases, PullPhases
<1>2. /\ bank[target] \in Bank /\ before[target] \in Bank /\ target \in Slots /\ healthy
      /\ journal \in Seq(Settings)
  BY PullEndsShape DEF Inv, TypeOK, IoTypeOK
<1>3. ASSUME NEW i \in Settings PROVE bank[target][i] = before[target][i]
  <2>1. CASE Restorable(i)
    BY <1>1, <2>1, Zenon DEF Shows, Restorable
  <2>2. CASE ~Restorable(i)
    <3>1. ~Journaled(i)
      BY <2>2 DEF Journaled, RollbackProved
    <3> QED
      BY <1>2, <3>1 DEF Inv, JournalCovers, InFlight
  <2> QED
    BY <2>1, <2>2
<1> QED
  BY <1>2, <1>3 DEF Bank

LEMMA AnswerNext ==
  ASSUME Inv, Truth, Next
  PROVE  AnswerKept'
<1>1. UNCHANGED <<target, before>> /\ (blind => blind')
  BY SlotsStay
<1> USE DEF Successes
<1>2. CASE Decision
  <2> SUFFICES ASSUME phase' \in {"restore", "done"}, ~blind',
                      outcome' # "CameraStateUnknown"
               PROVE  /\ outcome' \in Successes => Shows(bank[target], candidate')
                      /\ outcome' \in {"RejectedWithoutChange", "RollbackVerified"} =>
                            bank[target] = before[target]
    <3>1. Decided
      BY <1>2, DecisionDecides DEF Inv
    <3>2. UNCHANGED <<bank, blind>> /\ phase' # "confirmRestore"
      BY <3>1 DEF Decided, NoIo, cameraVars, historyVars, AsksNext, Asked, Concluded, PullPhases
    <3> QED
      BY <1>1, <3>2 DEF AnswerKept
  <2>1. ~blind
    BY <1>1
  <2>2. ASSUME NEW js, Recover(js) PROVE FALSE
    BY <2>2, ConcludeAnswers DEF Recover, StartPull, ContinueUndo, Write
  <2>3. ~UndoOrStop
    BY ConcludeAnswers DEF UndoOrStop, StartPull, ContinueUndo, Write
  <2>4. ASSUME NEW js, NEW k, ContinueUndo(js, k) PROVE FALSE
    BY <2>4 DEF StartPull, ContinueUndo, Write
  <2>5. ASSUME NEW i, NEW c, NEW o, ContinueApply(i, c, o) PROVE FALSE
    BY <2>5 DEF StartPull, ContinueApply, Write
  <2>6. ASSUME NEW p \in PullPhases, StartPull(p) PROVE FALSE
    BY <2>6 DEF StartPull, PullPhases
  <2>7. CASE PrepareCandidate
    <3>1. outcome' = "RejectedWithoutChange" /\ phase = "pullOriginal"
      BY <2>5, <2>6, <2>7, ConcludeAnswers DEF PrepareCandidate, PreparationFailure, PullPhases
    <3>2. journal = <<>> /\ healthy
      BY <2>7, <3>1, PullEndsShape DEF PrepareCandidate, Truth, OriginalKept, Inv
    <3> QED
      BY <3>1, <3>2, NothingJournaled
  <2>8. CASE JudgeNoChange
    <3>1. phase = "noChangePull" /\ PullEnds /\ candidate' = candidate
      BY <2>8 DEF JudgeNoChange
    <3>2. \/ outcome' = "NoChangeVerified" /\ Pulled = candidate
          \/ outcome' = "RejectedWithoutChange"
      BY <2>8, ConcludeAnswers DEF JudgeNoChange
    <3>3. journal = <<>> /\ healthy
      BY <3>1, PullEndsShape DEF Truth, OriginalKept, Inv
    <3> QED
      BY <2>1, <3>1, <3>2, <3>3, NothingJournaled, PullEndsTrue
  <2>9. CASE JudgeApplied
    <3>1. phase = "finalPull" /\ PullEnds /\ candidate' = candidate
      BY <2>9 DEF JudgeApplied
    <3>2. outcome' = "AppliedAndVerified" /\ Pulled = candidate
      BY <2>2, <2>9, ConcludeAnswers DEF JudgeApplied
    <3> QED
      BY <2>1, <3>1, <3>2, PullEndsTrue
  <2>10. CASE JudgeRejected
    <3>1. phase = "rejectPull" /\ PullEnds /\ outcome' = "RejectedWithoutChange"
      BY <2>10, ConcludeAnswers DEF JudgeRejected
    <3>2. journal = <<>> /\ healthy
      BY <3>1, PullEndsShape DEF Truth, OriginalKept, Inv
    <3> QED
      BY <3>1, <3>2, NothingJournaled
  <2>11. CASE JudgeRolledBack
    <3>1. /\ phase = "rollbackPull" /\ PullEnds
          /\ outcome' = "RollbackVerified" /\ RollbackProved(Pulled)
      BY <2>11, ConcludeAnswers DEF JudgeRolledBack
    <3> QED
      BY <2>1, <3>1, RolledBackTrue
  <2>12. CASE PullFailed
    <3>1. phase = "pullOriginal" /\ outcome' = "RejectedWithoutChange" /\ healthy
      BY <2>2, <2>12, ConcludeAnswers DEF PullFailed, PreparationFailure
    <3>2. journal = <<>>
      BY <3>1 DEF Truth, OriginalKept
    <3> QED
      BY <3>1, <3>2, NothingJournaled
  <2>13. ~ContinuePull
    BY DEF ContinuePull, PullPhases
  <2>14. ~ChangeWritten
    BY <2>2 DEF ChangeWritten, ReadBack
  <2>15. ~ChangeReadBack
    BY <2>2, <2>5 DEF ChangeReadBack
  <2>16. ~UndoWritten /\ ~UndoReadBack
    BY <2>3, <2>4 DEF UndoWritten, UndoReadBack, ReadBack
  <2> QED
    BY <1>2, <2>7, <2>8, <2>9, <2>10, <2>11, <2>12, <2>13, <2>14, <2>15, <2>16 DEF Decision
<1>3. CASE RefuseRequest \/ SnapshotSelector
  <2>1. /\ phase = "snapshot" /\ UNCHANGED bank
        /\ phase' = "pullOriginal" \/ outcome' \in {"RejectedWithoutChange", "CameraStateUnknown"}
    BY <1>3 DEF RefuseRequest, SnapshotSelector, ioVars, PreparationFailure, StartPull
  <2>2. healthy /\ journal = <<>>
    BY <2>1 DEF Inv, Control, PoisonSeen, TypeOK, AccessPhases, PullPhases, Truth, OriginalKept
  <2>3. bank' = before'
    BY <1>1, <2>1, <2>2, NothingJournaled
  <2> QED
    BY <2>1, <2>3 DEF AnswerKept
<1>4. CASE RestoreSelector \/ ConfirmRestore
  <2>1. /\ phase \in {"restore", "confirmRestore"} /\ UNCHANGED <<bank, blind, candidate>>
        /\ outcome' \in {outcome, "CameraStateUnknown"}
    BY <1>4 DEF RestoreSelector, ConfirmRestore
  <2> QED
    BY <1>1, <2>1 DEF Truth, AnswerKept
<1>5. CASE AdapterStep /\ UNCHANGED execVars
  <2>1. phase' \in AccessPhases
    BY <1>5, AdapterShape DEF execVars, Inv, TypeOK
  <2> QED
    BY <2>1 DEF AnswerKept, AccessPhases, PullPhases
<1>6. CASE UserStep
  BY <1>6 DEF UserStep, TurnSelector, execVars, Truth, AnswerKept
<1> QED
  BY <1>2, <1>3, <1>4, <1>5, <1>6 DEF Next, HostStep, ExecutorStep, Decision

LEMMA TruthInit == Init => Truth
  BY DEF Init, IoInit, Truth, PullKept, ValueKept, OriginalKept, AnswerKept, AccessPhases,
         PullPhases

LEMMA TruthNext == Inv /\ Truth /\ [Next]_vars => Truth'
<1> SUFFICES ASSUME Inv, Truth, [Next]_vars PROVE Truth'
  OBVIOUS
<1>1. CASE Next
  BY <1>1, PullNext, ValueNext, OriginalNext, AnswerNext DEF Truth
<1>2. CASE UNCHANGED vars
  BY <1>2 DEF vars, ioVars, execVars, Truth, PullKept, PulledUpTo, ValueKept, OriginalKept,
              AnswerKept
<1> QED
  BY <1>1, <1>2

-----------------------------------------------------------------------------
(* The transaction implements SlotWrite.                                   *)

\* The answer is given in a step that leaves everything else alone.
LEMMA DoneStep ==
  ASSUME Inv, Truth, Next, phase' = "done"
  PROVE  UNCHANGED <<bank, before, target, snapshot, candidate, blind>>
<1>1. CASE Decision
  <2>1. Decided
    BY <1>1, DecisionDecides DEF Inv
  <2>2. ~healthy
    BY <2>1 DEF Decided, AsksNext, Asked, Concluded, PullPhases
  <2>3. ~PrepareCandidate
    BY <2>2, PullEndsShape DEF PrepareCandidate, Inv
  <2> QED
    BY <1>1, <2>1, <2>3, PlanOnce, SlotsStay DEF Decided, NoIo, cameraVars, historyVars
<1>2. CASE RefuseRequest \/ SnapshotSelector \/ RestoreSelector \/ ConfirmRestore
  BY <1>2 DEF RefuseRequest, SnapshotSelector, RestoreSelector, ConfirmRestore, ioVars, StartPull
<1>3. CASE AdapterStep /\ UNCHANGED execVars
  BY <1>3, AdapterShape DEF execVars, Inv, TypeOK, AccessPhases, PullPhases
<1>4. CASE UserStep
  BY <1>4 DEF UserStep, execVars
<1> QED
  BY <1>1, <1>2, <1>3, <1>4 DEF Next, HostStep, ExecutorStep, Decision

\* Every step is taken before the answer, and the selector is read once.
LEMMA RunningStep ==
  ASSUME Inv, Next
  PROVE  phase # "done" /\ (snapshot # NoSlot => snapshot' = snapshot)
<1>1. CASE Decision
  <2>1. Decided
    BY <1>1, DecisionDecides DEF Inv
  <2> QED
    BY <2>1 DEF Decided, AccessPhases, PullPhases
<1>2. CASE RefuseRequest \/ SnapshotSelector \/ RestoreSelector \/ ConfirmRestore
  BY <1>2 DEF RefuseRequest, SnapshotSelector, RestoreSelector, ConfirmRestore, Inv, Control,
     SnapshotKept
<1>3. CASE AdapterStep /\ UNCHANGED execVars
  BY <1>3, AdapterShape DEF execVars, Inv, TypeOK, AccessPhases, PullPhases
<1>4. CASE UserStep
  BY <1>4 DEF UserStep, execVars
<1> QED
  BY <1>1, <1>2, <1>3, <1>4 DEF Next, HostStep, ExecutorStep, Decision

LEMMA RefinesInit == Init => Promised!Start
  BY DEF Init, IoInit, Promised!Start, Meaning, Done

LEMMA RefinesNext ==
  ASSUME Inv, Truth, Inv', Truth', Next
  PROVE  Promised!SlotNext
<1> DEFINE Wanted == {b \in Bank : Shows(b, candidate)}
<1>1. /\ phase # "done" /\ (snapshot # NoSlot => snapshot' = snapshot)
      /\ UNCHANGED <<target, before>> /\ (blind => blind')
  BY RunningStep, SlotsStay
<1>2. /\ bank' \in [Slots -> Bank] /\ active' \in Slots /\ blind' \in BOOLEAN
      /\ snapshot' \in Slots \cup {NoSlot}
  BY DEF Inv, TypeOK, IoTypeOK
<1>3. Meaning = "running"
  BY <1>1 DEF Meaning, Done
<1>4. CASE phase' # "done"
  <2>1. Meaning' = "running"
    BY <1>4 DEF Meaning, Done
  <2>2. Wanted' \in SUBSET Bank
    OBVIOUS
  <2>3. Promised!Work
    BY <1>1, <1>2, <1>3, <2>1, <2>2 DEF Promised!Work, Promised!Selectors
  <2> QED
    BY <2>3 DEF Promised!SlotNext
<1>5. CASE phase' = "done"
  <2>1. UNCHANGED <<bank, before, target, snapshot, candidate, blind>>
    BY <1>5, DoneStep
  <2>2. UNCHANGED Wanted
    BY <2>1
  <2>3. outcome' # "CameraStateUnknown" => OthersUntouched \/ blind
    BY <1>5, <2>1 DEF Inv, OthersKept, OthersUntouched
  <2>4. outcome' # "CameraStateUnknown" /\ snapshot # NoSlot => active' = snapshot
    BY <1>2, <1>5, <2>1 DEF Inv, SelectorPutBack, Done
  <2>5. ~blind => /\ outcome' \in Successes => Shows(bank[target], candidate)
                  /\ outcome' \in {"RejectedWithoutChange", "RollbackVerified"} =>
                        bank[target] = before[target]
    BY <1>5, <2>1 DEF Truth, AnswerKept
  <2>6. /\ outcome' \in Successes => Meaning' = "applied"
        /\ outcome' \in {"RejectedWithoutChange", "RollbackVerified"} => Meaning' = "unchanged"
        /\ outcome' \notin Successes \cup {"RejectedWithoutChange", "RollbackVerified"} =>
              Meaning' = "unknown"
    BY <1>5 DEF Meaning, Done, Successes
  <2>7. bank \in [Slots -> Bank] /\ before \in [Slots -> Bank] /\ target \in Slots
    BY DEF Inv, TypeOK, IoTypeOK
  <2>8. CASE outcome' \in Successes
    <3>1. blind \/ (bank[target] \in Wanted /\ OthersUntouched)
      BY <2>3, <2>5, <2>7, <2>8 DEF Successes
    <3>2. Promised!Respond
      BY <1>2, <1>3, <2>1, <2>2, <2>4, <2>6, <2>8, <3>1
      DEF Promised!Respond, Promised!PutBack, Promised!OthersUntouched, OthersUntouched, Successes
    <3> QED
      BY <3>2 DEF Promised!SlotNext
  <2>9. CASE outcome' \in {"RejectedWithoutChange", "RollbackVerified"}
    <3>1. blind \/ bank = before
      BY <2>3, <2>5, <2>7, <2>9 DEF OthersUntouched
    <3>2. Promised!Respond
      BY <1>2, <1>3, <2>1, <2>2, <2>4, <2>6, <2>9, <3>1
      DEF Promised!Respond, Promised!PutBack
    <3> QED
      BY <3>2 DEF Promised!SlotNext
  <2>10. CASE outcome' \notin Successes \cup {"RejectedWithoutChange", "RollbackVerified"}
    <3>1. Promised!Respond
      BY <1>2, <1>3, <2>1, <2>2, <2>6, <2>10 DEF Promised!Respond
    <3> QED
      BY <3>1 DEF Promised!SlotNext
  <2> QED
    BY <2>8, <2>9, <2>10
<1> QED
  BY <1>4, <1>5

-----------------------------------------------------------------------------
(* Runs in which the camera obeys and nobody turns the selector.           *)

\* A run is clean only if it was so far.
LEMMA CleanBefore ==
  ASSUME Inv, Next, Clean'
  PROVE  Clean /\ fault' # TRUE /\ ~fault' /\ ~UserStep /\ turns' = turns
<1>1. (fault => fault') /\ turns' >= turns /\ turns \in Nat /\ turns' \in Nat
  BY SlotsStay
<1>2. turns' = 0 /\ ~fault'
  BY DEF Clean
<1>3. turns = 0
  BY <1>1, <1>2
<1>4. ~UserStep
  <2>1. UserStep => turns' = turns + 1
    BY DEF UserStep, TurnSelector
  <2> QED
    BY <1>2, <1>3, <2>1
<1> QED
  BY <1>1, <1>2, <1>3, <1>4 DEF Clean

\* What one transaction of a clean run was.
LEMMA CleanTransaction ==
  ASSUME ~fault'
  PROVE  /\ ~Rejected /\ ~Lost
         /\ \A b \in BOOLEAN : Accepted(b) => b /\ healthy' = healthy
  BY Zenon DEF Rejected, Lost, Accepted

\* In a clean run every access is answered by the target slot.
LEMMA CleanAdapter ==
  ASSUME Inv, SessionClean, AdapterStep, UNCHANGED execVars, Clean'
  PROVE  /\ UNCHANGED healthy /\ reply' \in {"none", "ok"} /\ ~blind'
         /\ selected' \/ step' \in {"confirm", "access", "check"} => active' = target'
         /\ step' = "check" => ~astray'
         /\ step' = "answered" => step = "check"
         /\ \/ UNCHANGED bank /\ (step' = "check" => request.kind = "get")
            \/ /\ step' = "check"
               /\ request.value \in Values
               /\ bank' = [bank EXCEPT ![target][request.setting] = request.value]
<1>1. Clean /\ ~fault'
  <2>1. Next
    BY DEF Next, HostStep
  <2> QED
    BY <2>1, CleanBefore
<1>2. /\ reply = "none" /\ UNCHANGED target /\ ~blind /\ phase \in AccessPhases
      /\ selected \/ step \in {"confirm", "access", "check"} => active = target
      /\ step = "check" => ~astray
  <2>1. phase \in AccessPhases
    BY AdapterShape DEF Inv, TypeOK
  <2> QED
    BY <1>1, <2>1, AdapterShape DEF SessionClean
<1>3. ~Rejected /\ ~Lost /\ \A b \in BOOLEAN : Accepted(b) => b /\ healthy' = healthy
  BY <1>1, CleanTransaction
<1>4. CASE SelectSlot
  <2>1. (active' = target) \in BOOLEAN
    OBVIOUS
  <2>2. active' = target /\ UNCHANGED <<healthy, reply, bank, blind>> /\ step' = "confirm"
    BY <1>3, <1>4, <2>1, Zenon DEF SelectSlot
  <2> QED
    BY <1>2, <2>2
<1>5. CASE ConfirmSlot
  <2>1. /\ Accepted(TRUE) /\ step' = "access"
        /\ UNCHANGED <<active, reply, bank, blind>> /\ active = target
    BY <1>2, <1>3, <1>5 DEF ConfirmSlot
  <2> QED
    BY <1>2, <1>3, <2>1
<1>6. CASE ReadSetting
  <2>1. /\ Accepted(TRUE) /\ step' = "check" /\ astray' = (active # target)
        /\ UNCHANGED <<active, reply, bank, blind>> /\ active = target /\ request.kind = "get"
    BY <1>2, <1>3, <1>6 DEF ReadSetting
  <2>2. ~astray'
    BY <2>1, Zenon
  <2> QED
    BY <1>2, <1>3, <2>1, <2>2
<1>7. CASE WriteSetting
  <2>1. PICK v \in Values : /\ bank' = [bank EXCEPT ![active][request.setting] = v]
                            /\ Accepted(v = request.value)
    BY <1>3, <1>7 DEF WriteSetting
  <2>2. (v = request.value) \in BOOLEAN
    OBVIOUS
  <2>3. v = request.value /\ UNCHANGED healthy
    BY <1>3, <2>1, <2>2, Zenon
  <2>4. /\ step' = "check" /\ astray' = (active # target)
        /\ UNCHANGED <<active, reply, blind>> /\ active = target
    BY <1>2, <1>3, <1>7 DEF WriteSetting
  <2>5. ~astray'
    BY <2>4, Zenon
  <2> QED
    BY <1>2, <2>1, <2>3, <2>4, <2>5
<1>8. CASE CheckSlot
  <2>1. /\ Accepted(TRUE) /\ step' = "answered" /\ reply' = "ok" /\ step = "check"
        /\ UNCHANGED <<active, selected, bank>> /\ active = target /\ blind' = (blind \/ astray)
    BY <1>2, <1>3, <1>8 DEF CheckSlot, Answer
  <2>2. ~blind'
    BY <1>2, <2>1, Zenon
  <2> QED
    BY <1>2, <1>3, <2>1, <2>2
<1> QED
  BY <1>4, <1>5, <1>6, <1>7, <1>8 DEF AdapterStep

\* A decision goes on with the selection there is.
LEMMA DecisionSelects ==
  ASSUME Decision
  PROVE  /\ UNCHANGED selected
         /\ step' \in {"idle", "select", "access"}
         /\ step' = "access" => selected
<1> DEFINE Goes == /\ UNCHANGED selected
                   /\ step' \in {"idle", "select", "access"}
                   /\ step' = "access" => selected
<1>1. ASSUME NEW k, NEW i, NEW v, Ask(k, i, v) PROVE Goes
  BY <1>1 DEF Ask
<1>2. ASSUME NEW a, Conclude(a) PROVE Goes
  BY <1>2 DEF Conclude, Leave
<1> HIDE DEF Goes
<1>3. ASSUME NEW p, StartPull(p) PROVE Goes
  BY <1>1, <1>3 DEF StartPull, AskGet
<1>4. ASSUME NEW p, NEW at, NEW i, NEW f, Write(p, at, i, f) PROVE Goes
  BY <1>1, <1>4 DEF Write
<1>5. ASSUME NEW p, ReadBack(p) PROVE Goes
  BY <1>1, <1>5 DEF ReadBack, AskGet
<1>6. ASSUME NEW i, NEW c, NEW o, ContinueApply(i, c, o) PROVE Goes
  BY <1>3, <1>4, <1>6 DEF ContinueApply
<1>7. ASSUME NEW js, NEW k, ContinueUndo(js, k) PROVE Goes
  BY <1>3, <1>4, <1>7 DEF ContinueUndo
<1>8. ASSUME NEW js, Recover(js) PROVE Goes
  BY <1>2, <1>3, <1>7, <1>8 DEF Recover
<1>9. UndoOrStop => Goes
  BY <1>2, <1>7 DEF UndoOrStop
<1>10. ContinuePull => Goes
  BY <1>1 DEF ContinuePull, AskGet
<1>11. PrepareCandidate => Goes
  BY <1>2, <1>3, <1>6 DEF PrepareCandidate
<1>12. JudgeNoChange \/ JudgeRejected \/ JudgeRolledBack => Goes
  BY <1>2 DEF JudgeNoChange, JudgeRejected, JudgeRolledBack
<1>13. JudgeApplied \/ PullFailed => Goes
  BY <1>2, <1>8 DEF JudgeApplied, PullFailed
<1>14. ChangeWritten \/ ChangeReadBack => Goes
  BY <1>5, <1>6, <1>8 DEF ChangeWritten, ChangeReadBack
<1>15. UndoWritten \/ UndoReadBack => Goes
  BY <1>5, <1>7, <1>9 DEF UndoWritten, UndoReadBack
<1>16. Goes
  BY <1>10, <1>11, <1>12, <1>13, <1>14, <1>15 DEF Decision
<1> QED
  BY <1>16 DEF Goes

\* The camera stays on the target from its selection on.
LEMMA SessionCleanNext ==
  ASSUME Inv, SessionClean, Next
  PROVE  SessionClean'
<1> SUFFICES ASSUME Clean' PROVE SessionClean'
  BY DEF SessionClean
<1>1. Clean /\ ~fault' /\ ~UserStep
  BY CleanBefore
<1>2. ~Rejected /\ ~Lost /\ \A b \in BOOLEAN : Accepted(b) => b /\ healthy' = healthy
  BY <1>1, CleanTransaction
<1>3. /\ healthy /\ ~blind /\ reply \in {"none", "ok"}
      /\ phase = "snapshot" => ~selected
      /\ phase \in AccessPhases /\ (selected \/ step \in {"confirm", "access", "check"}) =>
            active = target
  BY <1>1 DEF SessionClean
<1>4. CASE Decision
  <2>1. Decided
    BY <1>4, DecisionDecides DEF Inv
  <2>2. /\ UNCHANGED <<active, healthy, target, blind>> /\ reply' = "none"
        /\ phase \in AccessPhases /\ phase' \notin {"snapshot", "confirmRestore"}
    BY <2>1 DEF Decided, NoIo, cameraVars, historyVars, AsksNext, Asked, Concluded, PullPhases
  <2>3. /\ UNCHANGED selected
        /\ step' \in {"idle", "select", "access"}
        /\ step' = "access" => selected
    BY <1>4, DecisionSelects
  <2> QED
    BY <1>3, <2>2, <2>3 DEF SessionClean
<1>5. CASE RefuseRequest
  BY <1>3, <1>5 DEF RefuseRequest, ioVars, SessionClean, AccessPhases, PullPhases, Inv, TypeOK
<1>6. CASE SnapshotSelector
  <2>1. UNCHANGED <<active, healthy, target, blind, selected>> /\ phase = "snapshot"
    BY <1>2, <1>6 DEF SnapshotSelector, SelectorRead, SelectorUnread, StartPull, AskGet, Ask,
       adapterVars
  <2>2. \/ phase' = "pullOriginal" /\ Ask("get", 1, Absent)
        \/ phase' = "done" /\ UNCHANGED <<step, reply>>
    BY <1>6 DEF SnapshotSelector, StartPull, AskGet, adapterVars
  <2>3. step = "idle"
    BY <2>1 DEF Inv, TypeOK, AccessPhases, PullPhases
  <2>4. /\ reply' \in {"none", "ok"} /\ step' \in {"idle", "select"}
        /\ phase' \in {"pullOriginal", "done"}
    BY <1>3, <2>1, <2>2, <2>3 DEF Ask
  <2> QED
    BY <1>3, <2>1, <2>4 DEF SessionClean
<1>7. CASE RestoreSelector
  <2>1. (active' = snapshot) \in BOOLEAN
    OBVIOUS
  <2>2. SelectorWritten(snapshot) /\ phase' = "confirmRestore"
    BY <1>2, <1>7 DEF RestoreSelector, SelectorNotWritten
  <2>3. active' = snapshot /\ healthy'
    BY <1>2, <1>3, <2>1, <2>2, Zenon DEF SelectorWritten
  <2>4. UNCHANGED <<blind, reply, snapshot, step>> /\ step = "idle"
    BY <1>7 DEF RestoreSelector, adapterVars, Inv, TypeOK, AccessPhases, PullPhases
  <2> QED
    BY <1>3, <2>2, <2>3, <2>4 DEF SessionClean, AccessPhases, PullPhases
<1>8. CASE ConfirmRestore
  <2>1. SelectorRead /\ phase' = "done" /\ UNCHANGED <<blind, reply, step>> /\ step = "idle"
    BY <1>2, <1>8 DEF ConfirmRestore, SelectorUnread, adapterVars, Inv, TypeOK, AccessPhases,
       PullPhases
  <2> QED
    BY <1>2, <1>3, <2>1 DEF SessionClean, SelectorRead, AccessPhases, PullPhases
<1>9. CASE AdapterStep /\ UNCHANGED execVars
  <2>1. phase' \in AccessPhases
    BY <1>9, AdapterShape DEF execVars, Inv, TypeOK
  <2> QED
    BY <1>3, <1>9, <2>1, CleanAdapter DEF SessionClean, AccessPhases, PullPhases
<1> QED
  BY <1>1, <1>4, <1>5, <1>6, <1>7, <1>8, <1>9 DEF Next, HostStep, ExecutorStep, Decision

-----------------------------------------------------------------------------
(* The plan of a clean run.                                                *)

\* A complete candidate without a change is the original.
LEMMA NoChangeIsOriginal ==
  ASSUME NEW b \in Bank, NEW c \in Profile, NEW o \in Profile, Shows(b, o), Complete(c),
         ChangedSettings(c, o) = {}
  PROVE  c = o
<1>1. ASSUME NEW i \in Settings, \A j \in 1..(i - 1) : c[j] = o[j]
      PROVE  c[i] = o[i]
  <2>1. Present(i, c) = Present(i, o)
    BY <1>1, PresenceAssumption
  <2>2. c[i] # Absent => c[i] = o[i]
    BY DEF ChangedSettings
  <2>3. o[i] # Absent => Present(i, o)
    BY Zenon DEF Shows
  <2>4. Present(i, c) => c[i] # Absent
    BY Zenon DEF Complete
  <2> QED
    BY <2>1, <2>2, <2>3, <2>4, Zenon
<1> QED
  BY <1>1, AgreeStepwise

\* The empty profile is never complete: the first setting always applies.
LEMMA NothingIncomplete == ~Complete(Nothing)
<1>1. 1 \in Settings /\ Nothing[1] = Absent
  BY CountsAssumption DEF Settings, Nothing
<1>2. Present(1, Nothing)
  BY NothingIsProfile, PresenceAssumption
<1> QED
  BY <1>1, <1>2, Zenon DEF Complete

\* A slot with all of a complete candidate's values shows it.
LEMMA WholeIsShown ==
  ASSUME Inv, Complete(candidate), WrittenUpTo(NumSettings + 1)
  PROVE  Shows(bank[target], candidate)
<1>1. \A i \in Settings : candidate[i] # Absent => bank[target][i] = candidate[i]
  BY CountsAssumption DEF WrittenUpTo, WrittenBy, Settings
<1> QED
  BY <1>1, Zenon DEF Shows, Complete

\* Skipping the settings that are as they should be.
LEMMA WrittenFurther ==
  ASSUME Inv, NEW c \in Profile, NEW o \in Profile, NEW i \in Nat, NEW j \in Nat,
         IsNext(i, j, ChangedSettings(c, o)), Shows(before[target], o), WrittenBy(c, i + 1)
  PROVE  WrittenBy(c, j)
<1>1. NumSettings \in Nat /\ i < j
  BY CountsAssumption DEF IsNext
<1>2. ASSUME NEW k \in Settings, k < j, c[k] # Absent, k > i PROVE bank[target][k] = c[k]
  <2>1. k \notin ChangedSettings(c, o)
    BY <1>1, <1>2 DEF IsNext, Settings
  <2>2. c[k] = o[k]
    BY <1>2, <2>1 DEF ChangedSettings
  <2>3. o[k] = before[target][k]
    BY <1>2, <2>2, Zenon DEF Shows
  <2> QED
    BY <1>1, <1>2, <2>2, <2>3 DEF WrittenBy, Settings
<1>3. ASSUME NEW k \in Settings, k < j, c[k] # Absent, k <= i PROVE bank[target][k] = c[k]
  BY <1>3 DEF WrittenBy, Settings
<1>4. \A k \in Settings : k >= j => bank[target][k] = before[target][k]
  BY <1>1 DEF WrittenBy, Settings
<1> QED
  BY <1>2, <1>3, <1>4 DEF WrittenBy, Settings

\* What the executor asks for next when it goes on with the plan.
LEMMA PlanGoesOn ==
  ASSUME Inv, Inv', NEW i \in Nat, NEW c \in Profile, NEW o \in Profile, candidate' = c,
         UNCHANGED <<bank, before, target>>, ContinueApply(i, c, o), Shows(before[target], o),
         WrittenBy(c, i + 1)
  PROVE  \/ /\ phase' = "apply" /\ step' \in {"select", "access"}
            /\ request'.setting = index' /\ candidate'[index'] # Absent
            /\ request'.value = candidate'[index']
            /\ WrittenUpTo(index)'
         \/ phase' = "finalPull" /\ WrittenUpTo(NumSettings + 1)'
<1>1. CASE \E j \in Settings : IsNext(i, j, ChangedSettings(c, o)) /\ Write("apply", j, j, c)
  <2>1. PICK j \in Settings : IsNext(i, j, ChangedSettings(c, o)) /\ Write("apply", j, j, c)
    BY <1>1
  <2>2. j \in Nat /\ j <= NumSettings
    BY CountsAssumption DEF Settings
  <2>3. WrittenBy(c, j)
    <3>1. j \in Nat /\ IsNext(i, j, ChangedSettings(c, o))
      BY <2>1, <2>2
    <3> QED
      BY <3>1, WrittenFurther, Zenon
  <2>4. c[j] # Absent
    BY <2>1, <2>2 DEF IsNext, ChangedSettings
  <2>5. /\ phase' = "apply" /\ index' = j /\ step' \in {"select", "access"}
        /\ request'.setting = j /\ request'.value = c[j]
    BY <2>1 DEF Write, Ask
  <2>6. WrittenUpTo(index)'
    BY <2>3, <2>5 DEF WrittenUpTo, WrittenBy
  <2> QED
    BY <2>4, <2>5, <2>6
<1>2. CASE IsNext(i, NumSettings + 1, ChangedSettings(c, o)) /\ StartPull("finalPull")
  <2>1. NumSettings + 1 \in Nat
    BY CountsAssumption
  <2>2. WrittenBy(c, NumSettings + 1)
    BY <1>2, <2>1, WrittenFurther, Zenon
  <2>3. WrittenUpTo(NumSettings + 1)'
    BY <2>2 DEF WrittenUpTo, WrittenBy
  <2> QED
    BY <1>2, <2>3 DEF StartPull
<1> QED
  BY <1>1, <1>2 DEF ContinueApply

\* The plan of a clean run starts with the slot as it was.
LEMMA PlanStarts ==
  ASSUME Inv, Inv', Truth, SessionClean, PlanKept, Clean, PrepareCandidate, Complete(candidate')
  PROVE  PlanKept'
<1>1. /\ phase = "pullOriginal" /\ PullEnds /\ original' = Pulled /\ candidate = Nothing
      /\ UNCHANGED <<bank, before, target>> /\ ~blind
  BY DEF PrepareCandidate, NoIo, cameraVars, PlanKept, SessionClean
<1>2. healthy /\ bank = before /\ bank[target] \in Bank /\ Pulled \in Profile
  <2>1. healthy /\ journal = <<>>
    BY <1>1, PullEndsShape DEF Inv, Truth, OriginalKept
  <2> QED
    BY <1>1, <2>1, NothingJournaled, PulledIsProfile DEF Inv, TypeOK, IoTypeOK
<1>3. Shows(bank[target], Pulled)
  BY <1>1, PullEndsTrue
<1>4. candidate' # Nothing
  BY NothingIncomplete
<1>5. PICK c \in Profile : /\ candidate' = c
                           /\ IF ChangedSettings(c, Pulled) = {}
                              THEN StartPull("noChangePull")
                              ELSE ContinueApply(0, c, Pulled)
  BY <1>1, <1>4 DEF PrepareCandidate
<1>6. CASE ChangedSettings(c, Pulled) = {} /\ StartPull("noChangePull")
  <2>1. c = Pulled
    BY <1>2, <1>3, <1>5, <1>6, NoChangeIsOriginal
  <2> QED
    BY <1>1, <1>5, <1>6, <2>1 DEF StartPull, PlanKept
<1>7. CASE ContinueApply(0, c, Pulled)
  <2>1. \/ /\ phase' = "apply" /\ step' \in {"select", "access"}
           /\ request'.setting = index' /\ candidate'[index'] # Absent
           /\ request'.value = candidate'[index']
           /\ WrittenUpTo(index)'
        \/ phase' = "finalPull" /\ WrittenUpTo(NumSettings + 1)'
    <3>1. 0 \in Nat /\ 0 + 1 \in Nat /\ WrittenBy(c, 0 + 1)
      BY <1>2 DEF WrittenBy, Settings
    <3> HIDE DEF Settings
    <3>2. /\ candidate' = c /\ UNCHANGED <<bank, before, target>>
          /\ ContinueApply(0, c, Pulled) /\ Shows(before[target], Pulled)
      BY <1>1, <1>2, <1>3, <1>5, <1>7
    <3> QED
      BY <1>2, <3>1, <3>2, PlanGoesOn, Zenon
  <2> QED
    BY <2>1 DEF PlanKept
<1> QED
  BY <1>5, <1>6, <1>7

\* A decision of a clean run follows the plan.
LEMMA PlanDecides ==
  ASSUME Inv, Inv', Truth, SessionClean, PlanKept, Clean, Decision, ~PrepareCandidate,
         Complete(candidate')
  PROVE  PlanKept'
<1>1. /\ UNCHANGED <<original, candidate, bank, before, target>> /\ ~blind /\ healthy
      /\ phase \in AccessPhases /\ step = "answered" /\ reply = "ok"
      /\ bank[target] \in Bank /\ original \in Profile /\ candidate \in Profile
  <2>1. Decided
    BY DecisionDecides DEF Inv
  <2>2. reply # "none"
    BY <2>1 DEF Decided, Inv, Control, AnswerFresh
  <2> QED
    BY <2>1, <2>2, PlanOnce DEF Decided, NoIo, cameraVars, SessionClean, Inv, TypeOK, IoTypeOK
<1>2. /\ phase \notin {"rejectPull", "undo", "undoVerify", "rollbackPull"}
      /\ phase = "noChangePull" => candidate = original
      /\ phase \in {"apply", "verify"} =>
            request.setting = index /\ candidate[index] # Absent
      /\ phase = "apply" \/ phase = "verify" => WrittenUpTo(index + 1)
      /\ phase = "finalPull" => WrittenUpTo(NumSettings + 1)
      /\ phase # "pullOriginal" => phase' \notin {"snapshot", "pullOriginal"}
  <2>1. phase' # "snapshot"
    <3>1. Decided
      BY DecisionDecides DEF Inv
    <3> QED
      BY <3>1 DEF Decided, AsksNext, Asked, Concluded, PullPhases
  <2> QED
    BY <1>1, <2>1, PlanOnce DEF PlanKept
<1>3. phase # "pullOriginal"
  <2>1. phase = "pullOriginal" => candidate = Nothing
    BY DEF PlanKept
  <2> QED
    BY <1>1, <2>1, NothingIncomplete
<1>4. phase # "pullOriginal" => Shows(before[target], original)
  BY <1>1 DEF Truth, OriginalKept
<1>5. CASE ContinuePull
  <2>1. phase' = phase /\ phase \in {"noChangePull", "finalPull"}
    BY <1>2, <1>3, <1>5 DEF ContinuePull, PullPhases
  <2>2. phase = "finalPull" => WrittenUpTo(NumSettings + 1)'
    BY <1>1, <1>2 DEF WrittenUpTo, WrittenBy
  <2> QED
    BY <1>1, <1>2, <2>1, <2>2 DEF PlanKept
<1>6. CASE JudgeNoChange
  <2>1. phase = "noChangePull" /\ PullEnds
    BY <1>6 DEF JudgeNoChange
  <2>2. bank = before
    BY <1>1, <2>1, NothingJournaled DEF Truth, OriginalKept
  <2>3. Pulled = original
    BY <1>1, <1>3, <1>4, <2>1, <2>2, OneProfile, PullEndsTrue, PulledIsProfile DEF Inv
  <2>4. phase' = "restore" /\ outcome' \in Successes
    BY <1>1, <1>2, <1>6, <2>1, <2>3 DEF JudgeNoChange, Conclude, Successes
  <2> QED
    BY <2>4 DEF PlanKept
<1>7. CASE JudgeApplied
  <2>1. phase = "finalPull" /\ PullEnds
    BY <1>7 DEF JudgeApplied
  <2>2. Shows(bank[target], candidate)
    BY <1>1, <1>2, <2>1, WholeIsShown
  <2>3. Pulled = candidate
    BY <1>1, <2>1, <2>2, OneProfile, PullEndsTrue, PulledIsProfile DEF Inv
  <2>4. phase' = "restore" /\ outcome' \in Successes
    BY <1>1, <1>7, <2>3 DEF JudgeApplied, Conclude, Successes
  <2> QED
    BY <2>4 DEF PlanKept
<1>8. CASE ChangeWritten
  <2>1. phase = "apply" /\ ReadBack("verify")
    BY <1>1, <1>8 DEF ChangeWritten
  <2>2. /\ phase' = "verify" /\ index' = index /\ request'.setting = request.setting
    BY <2>1, AskShape DEF ReadBack, AskGet
  <2>3. WrittenUpTo(index + 1)'
    BY <1>1, <1>2, <2>1, <2>2 DEF WrittenUpTo, WrittenBy
  <2> QED
    BY <1>1, <1>2, <2>1, <2>2, <2>3 DEF PlanKept
<1>9. CASE ChangeReadBack
  <2>1. phase = "verify" /\ index \in Settings
    BY <1>9 DEF ChangeReadBack, Inv, TypeOK
  <2>2. index \in Nat /\ index < index + 1
    BY <2>1 DEF Settings
  <2>3. WrittenBy(candidate, index + 1)
    BY <1>2, <2>1 DEF WrittenUpTo
  <2>4. request.kind = "get"
    BY <1>1, <2>1, AnsweredWrite DEF Inv, Control, KindOfPhase, Requests
  <2>5. value = candidate[request.setting]
    <3>1. value = bank[target][index]
      BY <1>1, <1>2, <2>1, <2>4 DEF Truth, ValueKept
    <3>2. bank[target][index] = candidate[index]
      BY <1>2, <2>1, <2>2, <2>3 DEF WrittenBy
    <3> QED
      BY <1>2, <2>1, <3>1, <3>2
  <2>6. ContinueApply(index, candidate, original)
    BY <1>1, <1>9, <2>5 DEF ChangeReadBack
  <2>7. \/ /\ phase' = "apply" /\ step' \in {"select", "access"}
           /\ request'.setting = index' /\ candidate'[index'] # Absent
           /\ request'.value = candidate'[index']
           /\ WrittenUpTo(index)'
        \/ phase' = "finalPull" /\ WrittenUpTo(NumSettings + 1)'
    BY <1>1, <1>3, <1>4, <2>2, <2>3, <2>6, PlanGoesOn, Zenon
  <2> QED
    BY <2>7 DEF PlanKept
<1>10. ~JudgeRejected /\ ~JudgeRolledBack /\ ~UndoWritten /\ ~UndoReadBack
  BY <1>2 DEF JudgeRejected, JudgeRolledBack, UndoWritten, UndoReadBack
<1>11. ~PullFailed
  BY <1>1 DEF PullFailed
<1> QED
  BY <1>5, <1>6, <1>7, <1>8, <1>9, <1>10, <1>11 DEF Decision

\* A write of a clean run stores the candidate's value in the target.
LEMMA PlanWrites ==
  ASSUME Inv, SessionClean, PlanKept, AdapterStep, UNCHANGED execVars, Clean', Complete(candidate)
  PROVE  PlanKept'
<1>1. /\ UNCHANGED <<phase, index, candidate, original, outcome, before, request, target>>
      /\ phase \in AccessPhases /\ Clean
      /\ step \in {"select", "confirm", "access", "check"}
      /\ index \in Nat /\ request \in Requests
  <2>1. Next
    BY DEF Next, HostStep
  <2>2. Clean
    BY <2>1, CleanBefore
  <2> QED
    BY <2>2, AdapterShape DEF execVars, Inv, TypeOK, IoTypeOK
<1>2. /\ phase \in {"apply", "verify"} => request.setting = index /\ candidate[index] # Absent
      /\ phase \notin {"rejectPull", "undo", "undoVerify", "rollbackPull"}
      /\ phase = "noChangePull" => candidate = original
  BY <1>1 DEF PlanKept
<1>3. /\ step' = "answered" => step = "check"
      /\ \/ UNCHANGED bank /\ (step' = "check" => request.kind = "get")
         \/ /\ step' = "check"
            /\ request.value \in Values
            /\ bank' = [bank EXCEPT ![target][request.setting] = request.value]
  BY CleanAdapter
<1>4. phase # "apply" => UNCHANGED bank
  <2>1. bank' # bank => phase \in {"apply", "undo"}
    BY WriteShape
  <2> QED
    BY <1>2, <2>1
<1>5. step' \in {"confirm", "access", "check", "answered"}
  BY AdapterShape
<1>6. CASE phase = "apply"
  <2>1. request.kind = "set" /\ index \in Settings /\ request.value = candidate[index]
    BY <1>1, <1>6 DEF Inv, Control, KindOfPhase, PlanKept, TypeOK
  <2>2. CASE UNCHANGED bank /\ step' # "check"
    <3>2. CASE step = "check"
      <4>1. WrittenUpTo(index + 1)
        BY <1>1, <1>6, <3>2 DEF PlanKept
      <4>2. step' = "answered"
        BY <3>2 DEF AdapterStep, SelectSlot, ConfirmSlot, ReadSetting, WriteSetting, CheckSlot,
                    Answer
      <4>3. WrittenUpTo(index + 1)'
        BY <1>1, <2>2, <4>1 DEF WrittenUpTo, WrittenBy
      <4> QED
        BY <1>1, <1>2, <1>6, <2>1, <4>2, <4>3 DEF PlanKept
    <3>3. CASE step # "check"
      <4>1. WrittenUpTo(index) /\ step' \in {"confirm", "access"}
        BY <1>1, <1>3, <1>5, <1>6, <2>2, <3>3 DEF PlanKept
      <4>2. WrittenUpTo(index)'
        BY <1>1, <2>2, <4>1 DEF WrittenUpTo, WrittenBy
      <4> QED
        BY <1>1, <1>2, <1>6, <2>1, <4>1, <4>2 DEF PlanKept
    <3> QED
      BY <3>2, <3>3
  <2>3. CASE step' = "check"
    <3>1. bank' = [bank EXCEPT ![target][index] = candidate[index]]
      BY <1>2, <1>3, <1>6, <2>1, <2>3
    <3>2. step = "access"
      BY <2>3 DEF AdapterStep, SelectSlot, ConfirmSlot, ReadSetting, WriteSetting, CheckSlot, Answer
    <3>3. WrittenUpTo(index)
      BY <1>1, <1>6, <3>2 DEF PlanKept
    <3>4. \A k \in Settings :
             bank'[target][k] = IF k = index THEN candidate[index] ELSE bank[target][k]
      BY <2>1, <3>1 DEF Inv, TypeOK, IoTypeOK, Bank
    <3>5. WrittenUpTo(index + 1)'
      BY <1>1, <3>3, <3>4 DEF WrittenUpTo, WrittenBy, Settings
    <3> QED
      BY <1>1, <1>2, <1>6, <2>1, <2>3, <3>5 DEF PlanKept
  <2> QED
    BY <1>3, <2>2, <2>3
<1>7. CASE phase # "apply"
  BY <1>1, <1>2, <1>4, <1>7 DEF PlanKept, WrittenUpTo, WrittenBy, AccessPhases, PullPhases
<1> QED
  BY <1>6, <1>7

LEMMA PlanNext ==
  ASSUME Inv, Inv', Truth, SessionClean, PlanKept, Next
  PROVE  PlanKept'
<1>1. phase' \in {"snapshot", "pullOriginal"} => candidate' = Nothing
  <2>1. CASE Decision
    <3>1. phase' # "snapshot" /\ phase \in AccessPhases
      <4>1. Decided
        BY <2>1, DecisionDecides DEF Inv
      <4> QED
        BY <4>1 DEF Decided, AsksNext, Asked, Concluded, PullPhases
    <3>2. PrepareCandidate => phase' # "pullOriginal"
      <4>1. ASSUME NEW i, NEW c, NEW o, ContinueApply(i, c, o)
            PROVE  phase' \in {"apply", "finalPull"}
        BY <4>1 DEF ContinueApply, Write, StartPull
      <4> QED
        BY <4>1, ConcludeAnswers DEF PrepareCandidate, StartPull
    <3>3. ~PrepareCandidate /\ phase' = "pullOriginal" =>
             phase = "pullOriginal" /\ candidate' = candidate
      BY <2>1, PlanOnce
    <3> QED
      BY <3>1, <3>2, <3>3 DEF PlanKept
  <2>2. CASE ~Decision
    <3>1. /\ UNCHANGED candidate
          /\ phase' \in {"snapshot", "pullOriginal"} => phase \in {"snapshot", "pullOriginal"}
      BY <2>2 DEF Next, HostStep, ExecutorStep, Decision, RefuseRequest, SnapshotSelector,
         StartPull, RestoreSelector, ConfirmRestore, UserStep, execVars
    <3> QED
      BY <3>1 DEF PlanKept
  <2> QED
    BY <2>1, <2>2
<1> SUFFICES ASSUME Clean', Complete(candidate') PROVE PlanKept'
  BY <1>1 DEF PlanKept
<1>2. Clean /\ ~fault' /\ ~UserStep
  BY CleanBefore
<1>3. ~Rejected /\ ~Lost /\ \A b \in BOOLEAN : Accepted(b) => b /\ healthy' = healthy
  BY <1>2, CleanTransaction
<1>4. CASE Decision
  BY <1>2, <1>4, PlanStarts, PlanDecides
<1>5. CASE RefuseRequest \/ SnapshotSelector
  <2>1. phase = "snapshot" /\ candidate' = candidate
    BY <1>5 DEF RefuseRequest, SnapshotSelector
  <2> QED
    BY <2>1, NothingIncomplete DEF PlanKept
<1>6. CASE RestoreSelector
  <2>1. phase = "restore" /\ phase' = "confirmRestore" /\ UNCHANGED <<outcome, candidate>>
    BY <1>3, <1>6 DEF RestoreSelector, SelectorNotWritten
  <2> QED
    BY <1>2, <2>1 DEF PlanKept
<1>7. CASE ConfirmRestore
  <2>1. phase = "confirmRestore" /\ phase' = "done" /\ UNCHANGED candidate
        /\ outcome' = IF active = snapshot THEN outcome ELSE "CameraStateUnknown"
    BY <1>3, <1>7 DEF ConfirmRestore, SelectorUnread
  <2>2. active = snapshot
    BY <1>2, <2>1 DEF SessionClean
  <2> QED
    BY <1>2, <2>1, <2>2 DEF PlanKept
<1>8. CASE AdapterStep /\ UNCHANGED execVars
  <2>1. candidate' = candidate
    BY <1>8 DEF execVars
  <2> QED
    BY <1>8, <2>1, PlanWrites
<1> QED
  BY <1>2, <1>4, <1>5, <1>6, <1>7, <1>8 DEF Next, HostStep, ExecutorStep, Decision

LEMMA CleanInit == Init => SessionClean /\ PlanKept
<1> SUFFICES ASSUME Init PROVE SessionClean /\ PlanKept
  OBVIOUS
<1>1. SessionClean
  BY DEF Init, IoInit, SessionClean, AccessPhases, PullPhases
<1>2. PlanKept
  BY NothingIncomplete DEF Init, PlanKept
<1> QED
  BY <1>1, <1>2

-----------------------------------------------------------------------------
(* The theorems.                                                           *)

\* Every reachable state satisfies the inductive invariant.
THEOREM Invariance == Spec => []Inv
  BY InitInv, NextInv, PTL DEF Spec

\* The executor's and the adapter's variables keep their types, and the
\* position in the plan or journal stays within it, for every number of
\* slots, settings and selector turns (SimulationTransaction, IoTypeOK).
THEOREM TypeCorrect == Spec => []TypeOK
<1>1. Inv => TypeOK
  BY DEF Inv
<1> QED
  BY <1>1, Invariance, PTL

\* restore_selector_after: a command that answers anything but "camera state
\* unknown" leaves the camera on the slot it was found on.
THEOREM SelectorIsPutBack == Spec => []SelectorPutBack
<1>1. Inv => SelectorPutBack
  BY DEF Inv
<1> QED
  BY <1>1, Invariance, PTL

\* verify_selector and the uncertain binding: no answer but "camera state
\* unknown" hides a write that landed on a slot other than the target.
THEOREM WrongSlotIsReported == Spec => []WrongSlotReported
<1>1. Inv => WrongSlotReported
  BY DEF Inv, OthersKept, OthersUntouched, WrongSlotReported, Done
<1> QED
  BY <1>1, Invariance, PTL

\* The write journal: while the session works, every setting of any slot
\* that is not what it was is in the journal shown to the operator.
THEOREM JournalExplainsEveryChange == Spec => []JournalExplainsChange
<1>1. Inv => JournalExplainsChange
  <2> SUFFICES ASSUME Inv, Done, healthy, NEW s \in Slots,
                      NEW i \in Settings, bank[s][i] # before[s][i]
               PROVE  Journaled(i)
    BY DEF JournalExplainsChange, Journaled
  <2> QED
    BY DEF Inv, JournalCovers, InFlight, Done
<1> QED
  BY <1>1, Invariance, PTL

\* A poisoned session is never used again: the transaction issues no further
\* access, retry, rollback write or selector restore, and only concludes.
THEOREM PoisonEndsIo == Spec => NoIoAfterPoison
<1> DEFINE Quiet == ~healthy => /\ request' \in {request, NoRequest}
                                /\ phase' \in {phase, "done"}
                                /\ UNCHANGED bank
<1>1. Inv /\ [Next]_vars => [Quiet]_<<request, phase, bank>>
  <2> SUFFICES ASSUME Inv, [Next]_vars, ~healthy
               PROVE  \/ UNCHANGED <<request, phase, bank>>
                      \/ /\ request' \in {request, NoRequest}
                         /\ phase' \in {phase, "done"}
                         /\ UNCHANGED bank
    OBVIOUS
  <2>1. phase = "done" \/ (step = "answered" /\ reply # "ok")
    BY DEF Inv, Control, PoisonSeen
  <2>2. CASE Decision
    <3>1. Decided
      BY <2>2, DecisionDecides DEF Inv
    <3> QED
      BY <3>1 DEF Decided, Concluded, NoIo, cameraVars
  <2>3. CASE AdapterStep /\ UNCHANGED execVars
    BY <2>3, AdapterShape
  <2>4. CASE \/ RefuseRequest \/ SnapshotSelector
             \/ RestoreSelector \/ ConfirmRestore
    <3>1. step = "idle" /\ phase # "done"
      BY <2>4
      DEF RefuseRequest, SnapshotSelector, RestoreSelector, ConfirmRestore,
          Inv, TypeOK, AccessPhases, PullPhases
    <3> QED
      BY <2>1, <3>1
  <2>5. CASE UserStep
    BY <2>5 DEF UserStep, TurnSelector, execVars
  <2>6. CASE UNCHANGED vars
    BY <2>6 DEF vars, ioVars, execVars
  <2> QED
    BY <2>2, <2>3, <2>4, <2>5, <2>6 DEF Next, HostStep, ExecutorStep, Decision
<1> QED
  BY <1>1, Invariance, PTL DEF NoIoAfterPoison, Spec
\* The final pull and the no-change pull: a profile reported as applied, or as
\* already in place, is what the target slot shows (JudgeApplied,
\* JudgeNoChange, restore_selector_around_write).
THEOREM AppliedTrue == Spec => []AppliedIsTrue
<1>1. Truth => AppliedIsTrue
  BY DEF Truth, AnswerKept, AppliedIsTrue, Done
<1> QED
  BY <1>1, Invariance, TruthInit, TruthNext, PTL DEF Spec

\* recover_original: "rejected without change" and "rollback verified" leave the
\* target slot storing exactly what it stored before.
THEOREM UnchangedTrue == Spec => []UnchangedIsTrue
<1>1. Truth => UnchangedIsTrue
  BY DEF Truth, AnswerKept, UnchangedIsTrue, Done
<1> QED
  BY <1>1, Invariance, TruthInit, TruthNext, PTL DEF Spec

\* The whole write keeps the promise of SlotWrite: it answers once, each answer
\* says the truth of every slot and of the selector, and nothing follows it.
THEOREM PromiseKept == Spec => KeepsPromise
<1>1. Init => Promised!Start
  BY RefinesInit
<1>2. Inv /\ Truth /\ Inv' /\ Truth' /\ [Next]_vars => [Promised!SlotNext]_(Promised!slotVars)
  <2> SUFFICES ASSUME Inv, Truth, Inv', Truth', [Next]_vars
               PROVE  Promised!SlotNext \/ UNCHANGED Promised!slotVars
    OBVIOUS
  <2>1. CASE Next
    BY <2>1, RefinesNext
  <2>2. CASE UNCHANGED vars
    BY <2>2 DEF vars, ioVars, execVars, Promised!slotVars, Meaning, Done, Shows
  <2> QED
    BY <2>1, <2>2
<1> QED
  BY <1>1, <1>2, Invariance, TruthInit, TruthNext, PTL DEF Spec, KeepsPromise, Promised!Promise

\* The transaction is not a machine for failing: while the camera obeys and
\* nobody turns the selector, a complete profile is written setting by setting,
\* verified and reported as applied (push_change, verify_change).
THEOREM CleanRun == Spec => []CleanRunApplies
<1>1. SessionClean /\ PlanKept /\ Truth => CleanRunApplies
  BY DEF SessionClean, PlanKept, Truth, AnswerKept, CleanRunApplies, Clean, Done
<1>2. Inv /\ Inv' /\ Truth /\ SessionClean /\ PlanKept /\ [Next]_vars => SessionClean' /\ PlanKept'
  <2> SUFFICES ASSUME Inv, Inv', Truth, SessionClean, PlanKept, [Next]_vars
               PROVE  SessionClean' /\ PlanKept'
    OBVIOUS
  <2>1. CASE Next
    BY <2>1, SessionCleanNext, PlanNext
  <2>2. CASE UNCHANGED vars
    BY <2>2 DEF vars, ioVars, execVars, SessionClean, PlanKept, Clean, Complete, WrittenUpTo, WrittenBy
  <2> QED
    BY <2>1, <2>2
<1> QED
  BY <1>1, <1>2, Invariance, TruthInit, TruthNext, CleanInit, PTL DEF Spec

=============================================================================
