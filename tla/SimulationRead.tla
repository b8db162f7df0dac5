--------------------------- MODULE SimulationRead ---------------------------
(***************************************************************************)
(* "simulation list", "get" and "export": profiles are read through a      *)
(* temporary change of the slot selector, the selector is put back and     *)
(* confirmed, and what was read goes to the terminal or, as an artifact,   *)
(* to a file or a pipe.                                                    *)
(*                                                                         *)
(* The whole selector scope is one critical region: a Ctrl-C in it is      *)
(* honoured when the selector is back, a second one ends the process.      *)
(***************************************************************************)
EXTENDS SelectedSlotIo, FileOutput

CONSTANT NotRead   \* no profile was read from this slot

ASSUME NotReadAssumption == NotRead \notin Profile

VARIABLES
    command,    \* "list", "get", "export"; or "set", "import" (SimulationCommand)
    toStdout,   \* the artifact goes to stdout
    phase,      \* where the command is
    todo,       \* the slots still to be read
    index,      \* the setting being read
    staged,     \* the profile being read
    profiles,   \* the profiles read, one for each slot
    snapshot,   \* the selector value found at the start
    failed,     \* a profile could not be read
    pressed,    \* Ctrl-C was recorded in the region
    stream,     \* how much of the output reached stdout
    exit,       \* the exit status
    back        \* TemporarySimulationSelectorState::Restored

readVars == <<command, toStdout, phase, todo, index, staged, profiles,
              snapshot, failed, pressed, stream, exit, back>>
vars == <<ioVars, fileVars, readVars>>

Region == {"snapshot", "pull", "restore", "confirmRestore", "endRegion"}
Phases == {"begin", "open", "output", "done", "dark"} \cup Region
Reading == {"list", "get", "export"}

TypeOK ==
    /\ IoTypeOK /\ FileTypeOK
    /\ command \in Reading /\ toStdout \in BOOLEAN
    /\ phase \in Phases
    /\ todo \subseteq Slots
    /\ index \in 0..NumSettings
    /\ staged \in Profile
    /\ profiles \in [Slots -> Profile \cup {NotRead}]
    /\ snapshot \in VerifiedSlots \cup {NoSlot}
    /\ failed \in BOOLEAN /\ pressed \in BOOLEAN
    /\ stream \in {"none", "part", "full"}
    /\ exit \in {0, 1, 3, 130}
    /\ back \in BOOLEAN

\* Only an export has an output file.
InitOf(commands) ==
    /\ IoInit
    /\ command \in commands
    /\ toStdout \in IF command = "export" THEN BOOLEAN ELSE {TRUE}
    /\ FileInit(IF toStdout THEN {"Deny"} ELSE {"Deny", "Allow"})
    /\ toStdout => path = "nothing"
    /\ phase = "begin"
    /\ todo = IF command = "list" THEN Slots ELSE {target}
    /\ index = 0 /\ staged = Nothing
    /\ profiles = [s \in Slots |-> NotRead]
    /\ snapshot = NoSlot
    /\ failed = FALSE /\ pressed = FALSE
    /\ stream = "none" /\ exit = 0 /\ back = FALSE

Init == InitOf(Reading)

-----------------------------------------------------------------------------
Goto(p) == phase' = p /\ UNCHANGED exit
Exit(status) == phase' = "done" /\ exit' = status

\* begin_write comes before the camera is opened.
Begin ==
    /\ phase = "begin"
    /\ IF toStdout THEN Goto("open") /\ UNCHANGED fileVars
       ELSE /\ BeginWrite
            /\ IF file' = "failed" THEN Exit(1) ELSE Goto("open")
    /\ UNCHANGED <<ioVars, command, toStdout, todo, index, staged, profiles,
                   snapshot, failed, pressed, stream, back>>

\* Camera opened and preflight passed, or not.
Open ==
    /\ phase = "open"
    /\ Goto("snapshot") \/ Exit(1)
    /\ UNCHANGED <<ioVars, fileVars, command, toStdout, todo, index, staged,
                   profiles, snapshot, failed, pressed, stream, back>>

\* The next slot gets an adapter of its own, which has selected nothing yet.
StartSlot(s) ==
    /\ target' = s
    /\ todo' = todo \ {s}
    /\ index' = 1 /\ staged' = Nothing
    /\ request' = [kind |-> "get", setting |-> 1, value |-> Absent]
    /\ selected' = FALSE /\ step' = "select" /\ reply' = "none"
    /\ Goto("pull")

\* The snapshot has to fit the descriptor that the preflight verified.
Admits == active \in VerifiedSlots

\* restore_selector_after
SnapshotSelector ==
    /\ phase = "snapshot"
    /\ \/ /\ SelectorRead /\ Admits
          /\ snapshot' = active
          /\ \E s \in todo : StartSlot(s)
          /\ UNCHANGED failed
       \/ /\ \/ SelectorRead /\ ~Admits
             \/ SelectorUnread
          /\ failed' = TRUE
          /\ Goto("endRegion")
          /\ UNCHANGED <<snapshot, target, todo, index, staged, request,
                         selected, step, reply>>
    /\ UNCHANGED <<bank, turns, value, astray, blind, fileVars, command,
                   toStdout, profiles, pressed, stream, back>>

Access ==
    /\ phase = "pull" /\ AdapterStep
    /\ UNCHANGED <<fileVars, readVars>>

Pulled == [staged EXCEPT ![index] = value]

Silent == UNCHANGED <<active, bank, turns, healthy, fault, astray, blind,
                      value, fileVars, command, toStdout, snapshot, pressed,
                      stream, back>>

\* pull_from: the settings that apply, in order.
ContinuePull ==
    /\ phase = "pull" /\ step = "answered" /\ reply = "ok"
    /\ \E j \in Settings :
          /\ IsNext(index, j, PresentIn(Pulled))
          /\ index' = j /\ AskGet(j)
    /\ staged' = Pulled
    /\ Silent
    /\ UNCHANGED <<target, phase, todo, profiles, failed, exit>>

\* A poisoned session sends nothing more.
AfterRead == IF healthy THEN "restore" ELSE "endRegion"

\* The profile is complete: the next slot of a list, or the end.
FinishPull ==
    /\ phase = "pull" /\ step = "answered" /\ reply = "ok"
    /\ IsNext(index, NumSettings + 1, PresentIn(Pulled))
    /\ profiles' = [profiles EXCEPT ![target] = Pulled]
    /\ \/ \E s \in todo : StartSlot(s)
       \/ /\ todo = {} /\ Goto(AfterRead)
          /\ Leave
          /\ UNCHANGED <<target, todo, index, staged>>
    /\ Silent
    /\ UNCHANGED failed

FailPull ==
    /\ phase = "pull" /\ step = "answered" /\ reply # "ok"
    /\ failed' = TRUE
    /\ Goto(AfterRead)
    /\ Leave
    /\ Silent
    /\ UNCHANGED <<target, todo, index, staged, profiles>>

\* A bug: An accepted write of the selector is taken for a restored one.
TrustWrite == TRUE

SeenBack == active = snapshot

\* restore_selector: set, and read back.
RestoreSelector ==
    /\ \/ /\ phase = "restore"
          /\ \/ SelectorWritten(snapshot) /\ Goto("confirmRestore")
             \/ SelectorNotWritten(snapshot) /\ Goto("endRegion")
          /\ UNCHANGED back
       \/ /\ phase = "confirmRestore"
          /\ SelectorRead \/ SelectorUnread
          /\ back' = (SelectorRead /\ SeenBack)
          /\ Goto("endRegion")
    /\ UNCHANGED <<bank, turns, target, adapterVars, astray, blind, fileVars,
                   command, toStdout, todo, index, staged, profiles, snapshot,
                   failed, pressed, stream>>

\* TemporarySimulationSelectorState::Unknown: touched, and not seen back.
SelectorUnknown == snapshot # NoSlot /\ ~back

\* The region ends.  An unknown selector goes before an interrupt, and an
\* interrupt before a failed read (after_transaction, error_exit_code).
EndRegion ==
    /\ phase = "endRegion"
    /\ pressed' = FALSE
    /\ \/ SelectorUnknown /\ Exit(3)
       \/ ~SelectorUnknown /\ pressed /\ Exit(130)
       \/ ~SelectorUnknown /\ ~pressed /\ failed /\ Exit(1)
       \/ ~SelectorUnknown /\ ~pressed /\ ~failed /\ Goto("output")
    /\ UNCHANGED <<ioVars, fileVars, command, toStdout, todo, index, staged,
                   profiles, snapshot, failed, stream, back>>

\* handle_result: a closed pipe ends a listing, but not an artifact, well.
PipeStatus == IF command = "export" THEN 1 ELSE 0

\* write_artifact, or the lines of a listing.
ShowResult ==
    /\ phase = "output" /\ toStdout
    /\ \/ stream' = "full" /\ Exit(0)
       \/ stream' = "part" /\ Exit(PipeStatus)
       \/ stream' \in {"none", "part"} /\ Exit(1)
    /\ UNCHANGED <<ioVars, fileVars, command, toStdout, todo, index, staged,
                   profiles, snapshot, failed, pressed, back>>

WriteArtifact ==
    /\ phase = "output" /\ ~toStdout
    /\ FileStep
    /\ IF file' = "failed" THEN Exit(1)
       ELSE IF file' = "committed" THEN Exit(0) ELSE Goto("output")
    /\ UNCHANGED <<ioVars, command, toStdout, todo, index, staged, profiles,
                   snapshot, failed, pressed, stream, back>>

HostStep ==
    \/ Begin \/ Open \/ SnapshotSelector \/ Access \/ ContinuePull
    \/ FinishPull \/ FailPull \/ RestoreSelector \/ EndRegion \/ ShowResult
    \/ WriteArtifact

Interrupt ==
    /\ phase \notin {"done", "dark"}
    /\ \/ /\ phase \in Region /\ ~pressed
          /\ pressed' = TRUE /\ UNCHANGED <<phase, exit>>
       \/ /\ phase \in Region /\ pressed
          /\ Exit(3) /\ UNCHANGED pressed
       \/ /\ phase \notin Region
          /\ Exit(130) /\ UNCHANGED pressed
    /\ UNCHANGED <<ioVars, fileVars, command, toStdout, todo, index, staged,
                   profiles, snapshot, failed, stream, back>>

TurnDial ==
    /\ phase \notin {"done", "dark"}
    /\ \E s \in Slots : TurnSelector(s)
    /\ UNCHANGED <<fileVars, readVars>>

Rival ==
    /\ ~toStdout /\ phase \in {"open", "output"}
    /\ RivalCreates
    /\ UNCHANGED <<ioVars, readVars>>

\* The host loses power during the output or after it.
Crash ==
    /\ ~toStdout /\ phase \in {"output", "done"}
    /\ phase' = "dark"
    /\ PowerLoss
    /\ UNCHANGED <<ioVars, command, toStdout, todo, index, staged, profiles,
                   snapshot, failed, pressed, stream, exit, back>>

Next == HostStep \/ Interrupt \/ TurnDial \/ Rival \/ Crash

Spec == Init /\ [][Next]_vars /\ WF_vars(HostStep)

-----------------------------------------------------------------------------
(* Properties.                                                             *)

\* A profile that the command shows is the profile of the slot it is shown
\* for, though the selector may have been turned meanwhile (blind: turned
\* away and back within one access, which the adapter cannot notice).
ShownProfileIsTrue ==
    exit = 0 /\ phase = "done" /\ ~blind =>
        \A s \in Slots : profiles[s] # NotRead => Shows(bank[s], profiles[s])

\* An exit status other than 3 means that the selector was not touched or is
\* back where the command found it, unless the user has turned it meanwhile
\* (exit-codes.md, restore_selector_after).
SelectorAccounted ==
    phase = "done" /\ exit # 3 /\ snapshot # NoSlot /\ turns = 0 =>
        active = snapshot

\* An export that succeeds has delivered the whole artifact, also if power
\* is lost the moment it says so, and in no case leaves half of one in place
\* or replaces a file without being asked to (OutputTransaction,
\* ArtifactOutputIncomplete).
OutputIsWhole ==
    /\ command = "export" /\ exit = 0 /\ phase = "done" =>
          IF toStdout THEN stream = "full" ELSE file = "committed"
    /\ file = "committed" => path = "whole"
    /\ path # "torn"
    /\ policy = "Deny" /\ path = "whole" => onDisk \subseteq {"nothing", "whole"}

=============================================================================
