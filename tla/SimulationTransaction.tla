----------------------- MODULE SimulationTransaction -----------------------
(***************************************************************************)
(* One "simulation set" or "simulation import": the write transaction on a *)
(* custom-setting slot.  The host snapshots the slot selector, reads the   *)
(* profile of the target slot, writes the changed settings one by one with *)
(* a readback after each, reads the whole profile again, and on any        *)
(* failure rolls the confirmed writes back.  Whatever happened, it then    *)
(* restores the selector, and answers with one of five outcomes.           *)
(*                                                                         *)
(* Every PTP transaction is a step of its own: the user may turn the       *)
(* selector between any two of them, and each may be refused or lost.      *)
(***************************************************************************)
EXTENDS SelectedSlotIo

VARIABLES
    phase,             \* what the executor is doing
    index,             \* the setting (or journal entry) it is at
    snapshot,          \* the selector value found at the start
    original,          \* the profile read before the first write
    candidate,         \* the profile to be written
    staged,            \* the profile being read now
    journal,           \* settings with a confirmed write, in write order
    undone,            \* settings with a confirmed rollback write, in order
    bindingUncertain,  \* a confirmed write may have hit another slot
    readbackError,     \* a rollback write did not read back
    outcome,           \* the answer, "none" until there is one
    before             \* history: what every slot stored at the start

execVars == <<phase, index, snapshot, original, candidate, staged, journal,
              undone, bindingUncertain, readbackError, outcome, before>>
vars == <<ioVars, execVars>>

PullPhases == {"pullOriginal", "noChangePull", "finalPull", "rejectPull",
               "rollbackPull"}
AccessPhases == PullPhases \cup {"apply", "verify", "undo", "undoVerify"}
Phases == AccessPhases \cup {"snapshot", "restore", "confirmRestore", "done"}

Successes == {"AppliedAndVerified", "NoChangeVerified"}
Failures == {"RejectedWithoutChange", "RollbackVerified", "CameraStateUnknown"}
Outcomes == Successes \cup Failures

-----------------------------------------------------------------------------
(* What is to be written.                                                  *)

\* Mutant: only settings the original shows are compared.
ChangedSettingsShown(c, o) ==
    {i \in Settings : c[i] # Absent /\ o[i] # Absent /\ c[i] # o[i]}

\* changes_from: candidate settings that have a value and differ.
ChangedSettings(c, o) == {i \in Settings : c[i] # Absent /\ c[i] # o[i]}

\* SimulationPropertyChange.restorable: the original had a value to restore.
Restorable(i) == original[i] # Absent

-----------------------------------------------------------------------------
Init ==
    /\ IoInit
    /\ phase = "snapshot"
    /\ index = 0
    /\ snapshot = NoSlot
    /\ original = Nothing /\ candidate = Nothing /\ staged = Nothing
    /\ journal = <<>> /\ undone = <<>>
    /\ bindingUncertain = FALSE
    /\ readbackError = FALSE
    /\ outcome = "none"
    /\ before = bank

\* No PTP transaction in this step: the executor only looks at the reply.
NoIo == UNCHANGED <<cameraVars, healthy, target, historyVars>>

-----------------------------------------------------------------------------
(* Ending.  Conclude, StartPull, Write, ReadBack and ContinueUndo each say   *)
(* all of what comes next: phase, index, staged, outcome and the adapter.  *)

\* Mutant: a failed operation returns early and skips the restore.
ConcludeEarly(answer) ==
    /\ Leave
    /\ UNCHANGED <<index, staged>>
    /\ IF healthy /\ answer \in Successes
       THEN phase' = "restore" /\ outcome' = answer
       ELSE phase' = "done" /\ outcome' = answer

\* restore_selector_around_write, once the operation has answered: restore
\* the selector if the session still works, else the state is unknown.
Conclude(answer) ==
    /\ Leave
    /\ UNCHANGED <<index, staged>>
    /\ IF healthy
       THEN phase' = "restore" /\ outcome' = answer
       ELSE phase' = "done" /\ outcome' = "CameraStateUnknown"

\* SimulationTransactionError::preparation.
PreparationFailure ==
    IF healthy THEN "RejectedWithoutChange" ELSE "CameraStateUnknown"

\* Mutant: the restore trusts the framed OK and is not read back.
RestoreSelectorBlindly ==
    /\ phase = "restore"
    /\ \/ SelectorWritten(snapshot) /\ UNCHANGED outcome
       \/ SelectorNotWritten(snapshot) /\ outcome' = "CameraStateUnknown"
    /\ phase' = "done"
    /\ UNCHANGED <<bank, turns, target, adapterVars, astray, blind, index,
                   snapshot, original, candidate, staged, journal, undone,
                   bindingUncertain, readbackError, before>>

RestoreSelector ==
    /\ phase = "restore"
    /\ \/ /\ SelectorWritten(snapshot)
          /\ phase' = "confirmRestore"
          /\ UNCHANGED outcome
       \/ /\ SelectorNotWritten(snapshot)
          /\ phase' = "done"
          /\ outcome' = "CameraStateUnknown"
    /\ UNCHANGED <<bank, turns, target, adapterVars, astray, blind, index,
                   snapshot, original, candidate, staged, journal, undone,
                   bindingUncertain, readbackError, before>>

ConfirmRestore ==
    /\ phase = "confirmRestore"
    /\ \/ /\ SelectorRead
          /\ outcome' = IF active = snapshot THEN outcome
                        ELSE "CameraStateUnknown"
       \/ /\ SelectorUnread
          /\ outcome' = "CameraStateUnknown"
    /\ phase' = "done"
    /\ UNCHANGED <<bank, turns, target, adapterVars, astray, blind, index,
                   snapshot, original, candidate, staged, journal, undone,
                   bindingUncertain, readbackError, before>>

-----------------------------------------------------------------------------
(* Reading a whole profile.                                                *)

\* Mutant: the first setting is number zero.
StartPullFromZero(p) ==
    /\ phase' = p
    /\ staged' = Nothing
    /\ index' = 0
    /\ AskGet(0)
    /\ UNCHANGED outcome

StartPull(p) ==
    /\ phase' = p
    /\ staged' = Nothing
    /\ index' = 1
    /\ AskGet(1)
    /\ UNCHANGED outcome

Pulled == [staged EXCEPT ![index] = value]

\* The setting just read was the last one that applies.
PullEnds ==
    /\ phase \in PullPhases
    /\ reply = "ok"
    /\ IsNext(index, NumSettings + 1, PresentIn(Pulled))

ContinuePull ==
    /\ phase \in PullPhases
    /\ reply = "ok"
    /\ \E j \in Settings :
          /\ IsNext(index, j, PresentIn(Pulled))
          /\ index' = j
          /\ AskGet(j)
    /\ staged' = Pulled
    /\ NoIo
    /\ UNCHANGED <<phase, snapshot, original, candidate, journal, undone,
                   bindingUncertain, readbackError, outcome, before>>

-----------------------------------------------------------------------------
(* Writing and reading back one setting.                                   *)

\* push_change of profile f for journal or plan position at.
Write(p, at, i, f) ==
    /\ phase' = p
    /\ index' = at
    /\ Ask("set", i, f[i])
    /\ UNCHANGED <<staged, outcome>>

\* verify_change: pull the setting that was just pushed.
ReadBack(p) ==
    /\ phase' = p
    /\ AskGet(request.setting)
    /\ UNCHANGED <<index, staged, outcome>>

\* The next planned change after setting i, or the final pull.
ContinueApply(i, c, o) ==
    \/ \E j \in Settings :
          IsNext(i, j, ChangedSettings(c, o)) /\ Write("apply", j, j, c)
    \/ IsNext(i, NumSettings + 1, ChangedSettings(c, o)) /\ StartPull("finalPull")

-----------------------------------------------------------------------------
(* recover_original.                                                       *)

\* m is the last restorable entry of journal js before entry k, 0 if none.
IsNextUndo(js, k, m) ==
    /\ m \in 0..(k - 1)
    /\ m > 0 => Restorable(js[m])
    /\ \A n \in (m + 1)..(k - 1) : ~Restorable(js[n])

ContinueUndo(js, k) ==
    \/ \E m \in 1..(k - 1) :
          IsNextUndo(js, k, m) /\ Write("undo", m, js[m], original)
    \/ IsNextUndo(js, k, 0) /\ StartPull("rollbackPull")

Recover(js) ==
    IF ~healthy THEN Conclude("CameraStateUnknown")
    ELSE IF js = <<>> THEN StartPull("rejectPull")
    ELSE ContinueUndo(js, Len(js) + 1)

\* Mutant: the rollback loop goes on over a poisoned session.
UndoAnyway == ContinueUndo(journal, index)

\* Mutant: a rollback write that failed is tried again until it succeeds.
UndoAgain ==
    IF healthy THEN Write("undo", index, journal[index], original)
    ELSE Conclude("CameraStateUnknown")

\* The loop of recover_original breaks once the session is unhealthy.
UndoOrStop ==
    IF healthy THEN ContinueUndo(journal, index)
    ELSE Conclude("CameraStateUnknown")

\* Mutant: settings without an original value are forgotten.
RollbackSeemsProved(readback) ==
    /\ readback = original
    /\ ~bindingUncertain
    /\ ~readbackError

\* Nothing short of this is a verified rollback.
RollbackProved(readback) ==
    /\ readback = original
    /\ \A n \in 1..Len(journal) : Restorable(journal[n])
    /\ ~bindingUncertain
    /\ ~readbackError

-----------------------------------------------------------------------------
(* The actions.                                                            *)

\* update_simulation, set_simulation: refused before any PTP traffic.
RefuseRequest ==
    /\ phase = "snapshot"
    /\ phase' = "done"
    /\ outcome' = PreparationFailure
    /\ UNCHANGED <<ioVars, index, snapshot, original, candidate, staged,
                   journal, undone, bindingUncertain, readbackError, before>>

\* get_selector_raw and validate_selector_raw.
SnapshotSelector ==
    /\ phase = "snapshot"
    /\ \/ /\ SelectorRead
          /\ active \in VerifiedSlots
          /\ snapshot' = active
          /\ StartPull("pullOriginal")
       \/ /\ \/ SelectorRead /\ active \notin VerifiedSlots
             \/ SelectorUnread
          /\ phase' = "done"
          /\ outcome' = IF healthy' THEN "RejectedWithoutChange"
                        ELSE "CameraStateUnknown"
          /\ UNCHANGED <<snapshot, index, staged, adapterVars>>
    /\ UNCHANGED <<bank, turns, target, astray, blind, original, candidate,
                   journal, undone, bindingUncertain, readbackError, before>>

\* The original profile is read: build the candidate, plan the changes.
PrepareCandidate ==
    /\ phase = "pullOriginal" /\ PullEnds
    /\ original' = Pulled
    /\ \/ Conclude(PreparationFailure) /\ UNCHANGED candidate
       \/ \E c \in Profile :
             /\ candidate' = c
             /\ IF ChangedSettings(c, Pulled) = {}
                THEN StartPull("noChangePull")
                ELSE ContinueApply(0, c, Pulled)
    /\ NoIo
    /\ UNCHANGED <<snapshot, journal, undone, bindingUncertain, readbackError, before>>

JudgeNoChange ==
    /\ phase = "noChangePull" /\ PullEnds
    /\ Conclude(IF Pulled = candidate THEN "NoChangeVerified"
                ELSE IF Pulled = original THEN "RejectedWithoutChange"
                ELSE "CameraStateUnknown")
    /\ NoIo
    /\ UNCHANGED <<snapshot, original, candidate, journal, undone,
                   bindingUncertain, readbackError, before>>

\* Mutant: any error of a write counts as unconfirmed and is not journaled.
ChangeWrittenUnjournaled ==
    /\ phase = "apply" /\ step = "answered"
    /\ \/ /\ reply = "ok"
          /\ journal' = Append(journal, request.setting)
          /\ ReadBack("verify")
          /\ UNCHANGED bindingUncertain
       \/ /\ reply # "ok"
          /\ bindingUncertain' = (reply = "uncertain")
          /\ Recover(journal)
          /\ UNCHANGED journal
    /\ NoIo
    /\ UNCHANGED <<snapshot, original, candidate, undone, readbackError, before>>

\* push_change answered: journal a confirmed write.
ChangeWritten ==
    /\ phase = "apply" /\ step = "answered"
    /\ \/ /\ reply = "ok"
          /\ journal' = Append(journal, request.setting)
          /\ ReadBack("verify")
          /\ UNCHANGED bindingUncertain
       \/ /\ reply = "unconfirmed"
          /\ Recover(journal)
          /\ UNCHANGED <<journal, bindingUncertain>>
       \/ /\ reply = "uncertain"
          /\ journal' = Append(journal, request.setting)
          /\ bindingUncertain' = TRUE
          /\ Recover(Append(journal, request.setting))
    /\ NoIo
    /\ UNCHANGED <<snapshot, original, candidate, undone, readbackError, before>>

ChangeReadBack ==
    /\ phase = "verify" /\ step = "answered"
    /\ IF reply = "ok" /\ value = candidate[request.setting]
       THEN ContinueApply(index, candidate, original)
       ELSE Recover(journal)
    /\ NoIo
    /\ UNCHANGED <<snapshot, original, candidate, journal, undone,
                   bindingUncertain, readbackError, before>>

\* Mutant: the readback after each write is thought to be enough.
JudgeAppliedUnread ==
    /\ phase = "finalPull" /\ PullEnds
    /\ Conclude("AppliedAndVerified")
    /\ NoIo
    /\ UNCHANGED <<snapshot, original, candidate, journal, undone,
                   bindingUncertain, readbackError, before>>

JudgeApplied ==
    /\ phase = "finalPull" /\ PullEnds
    /\ IF Pulled = candidate THEN Conclude("AppliedAndVerified")
       ELSE Recover(journal)
    /\ NoIo
    /\ UNCHANGED <<snapshot, original, candidate, journal, undone,
                   bindingUncertain, readbackError, before>>

\* Nothing was confirmed: the profile must still be the original.
JudgeRejected ==
    /\ phase = "rejectPull" /\ PullEnds
    /\ Conclude(IF Pulled = original THEN "RejectedWithoutChange"
                ELSE "CameraStateUnknown")
    /\ NoIo
    /\ UNCHANGED <<snapshot, original, candidate, journal, undone,
                   bindingUncertain, readbackError, before>>

UndoWritten ==
    /\ phase = "undo" /\ step = "answered"
    /\ undone' = IF reply = "unconfirmed" THEN undone
                 ELSE Append(undone, request.setting)
    /\ bindingUncertain' = (bindingUncertain \/ reply = "uncertain")
    /\ IF reply = "ok" THEN ReadBack("undoVerify") ELSE UndoOrStop
    /\ NoIo
    /\ UNCHANGED <<snapshot, original, candidate, journal, readbackError, before>>

UndoReadBack ==
    /\ phase = "undoVerify" /\ step = "answered"
    /\ LET verified == reply = "ok" /\ value = original[request.setting]
       IN  /\ readbackError' = (readbackError \/ ~verified)
           /\ IF verified THEN ContinueUndo(journal, index) ELSE UndoOrStop
    /\ NoIo
    /\ UNCHANGED <<snapshot, original, candidate, journal, undone,
                   bindingUncertain, before>>

JudgeRolledBack ==
    /\ phase = "rollbackPull" /\ PullEnds
    /\ Conclude(IF RollbackProved(Pulled) THEN "RollbackVerified"
                ELSE "CameraStateUnknown")
    /\ NoIo
    /\ UNCHANGED <<snapshot, original, candidate, journal, undone,
                   bindingUncertain, readbackError, before>>

\* A read failed in the middle of a pull.
PullFailed ==
    /\ phase \in PullPhases /\ step = "answered" /\ reply # "ok"
    /\ CASE phase = "pullOriginal" -> Conclude(PreparationFailure)
         [] phase = "finalPull" -> Recover(journal)
         [] OTHER -> Conclude("CameraStateUnknown")
    /\ NoIo
    /\ UNCHANGED <<snapshot, original, candidate, journal, undone,
                   bindingUncertain, readbackError, before>>

ExecutorStep ==
    \/ RefuseRequest
    \/ SnapshotSelector
    \/ ContinuePull
    \/ PrepareCandidate
    \/ JudgeNoChange
    \/ ChangeWritten
    \/ ChangeReadBack
    \/ JudgeApplied
    \/ JudgeRejected
    \/ UndoWritten
    \/ UndoReadBack
    \/ JudgeRolledBack
    \/ PullFailed
    \/ RestoreSelector
    \/ ConfirmRestore

HostStep == ExecutorStep \/ (AdapterStep /\ UNCHANGED execVars)

UserStep ==
    /\ phase # "done"
    /\ \E s \in Slots : TurnSelector(s)
    /\ UNCHANGED execVars

Next == HostStep \/ UserStep

\* Every PTP transaction has a deadline, so the host always goes on; the
\* user owes nothing.
Fairness == WF_vars(HostStep)

Spec == Init /\ [][Next]_vars /\ Fairness

-----------------------------------------------------------------------------
(* Properties.                                                             *)

TypeOK ==
    /\ IoTypeOK
    /\ phase \in Phases
    /\ index \in Nat
    /\ snapshot \in Slots \cup {NoSlot}
    /\ original \in Profile /\ candidate \in Profile /\ staged \in Profile
    /\ journal \in Seq(Settings) /\ undone \in Seq(Settings)
    /\ bindingUncertain \in BOOLEAN
    /\ readbackError \in BOOLEAN
    /\ outcome \in Outcomes \cup {"none"}
    /\ before \in [Slots -> Bank]
    /\ phase \in AccessPhases <=> step # "idle"
    /\ phase \in PullPhases \cup {"apply", "verify"} => index \in Settings
    /\ phase \in {"undo", "undoVerify"} => index \in 1..Len(journal)

Done == phase = "done"

\* A write reported as applied, or as already in place, is what the target
\* slot shows: no partly written or coerced profile is reported as success.
\* Excepted is the switch away and back that the adapter cannot see.
AppliedIsTrue ==
    Done /\ outcome \in Successes /\ ~blind => Shows(bank[target], candidate)

\* "Rejected without change" and "rollback verified" mean that the target
\* slot stores exactly what it stored before, the settings that its profile
\* does not show included.
UnchangedIsTrue ==
    Done /\ outcome \in {"RejectedWithoutChange", "RollbackVerified"} /\ ~blind
        => bank[target] = before[target]

\* A write that landed on another slot because the selector was turned is
\* never hidden behind an outcome other than "camera state unknown".
WrongSlotReported ==
    Done /\ outcome # "CameraStateUnknown" /\ ~blind
        => \A s \in Slots \ {target} : bank[s] = before[s]

\* Every outcome but "unknown" leaves the camera on the slot it was found on.
SelectorPutBack ==
    Done /\ outcome # "CameraStateUnknown" /\ snapshot \in Slots
        => active = snapshot

\* While the session works, every stored setting that differs from what it
\* was is named in the journal the operator is shown.
JournalExplainsChange ==
    Done /\ healthy
        => \A s \in Slots, i \in Settings :
              bank[s][i] # before[s][i] => \E n \in 1..Len(journal) : journal[n] = i

\* After the session is poisoned the executor asks for nothing more: no
\* rollback, no readback, no retry, no selector restore.
NoIoAfterPoison ==
    [][~healthy => /\ request' \in {request, NoRequest}
                   /\ phase' \in {phase, "done"}
                   /\ UNCHANGED bank]_<<request, phase, bank>>

\* The transaction is not a machine for failing: when the camera obeys and
\* nobody turns the selector, a complete and well-formed profile is applied.
Complete(c) == \A i \in Settings : c[i] # Absent <=> Present(i, c)

CleanRunApplies ==
    Done /\ ~fault /\ turns = 0 /\ Complete(candidate)
        => outcome \in Successes /\ Shows(bank[target], candidate)

\* The command answers, whatever the camera refuses.
Answered == <>Done

-----------------------------------------------------------------------------
(* The transaction implements what SlotWrite promises.                     *)

Meaning ==
    CASE ~Done -> "running"
      [] Done /\ outcome \in Successes -> "applied"
      [] Done /\ outcome \in {"RejectedWithoutChange", "RollbackVerified"}
            -> "unchanged"
      [] OTHER -> "unknown"

Promised == INSTANCE SlotWrite WITH
    Contents <- Bank,
    contents <- bank,
    initial <- before,
    selector <- active,
    found <- snapshot,
    wanted <- {b \in Bank : Shows(b, candidate)},
    undetected <- blind,
    answer <- Meaning

\* Every behaviour of the transaction is one SlotWrite allows: it answers at
\* most once, its answer is true of all slots and of the selector, and the
\* camera is left alone afterwards.
KeepsPromise == Promised!Promise
=============================================================================
