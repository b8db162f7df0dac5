-------------------------- MODULE SimulationCommand --------------------------
(***************************************************************************)
(* All of "simulation": the three commands that read, and "set" and        *)
(* "import", which write one slot.  The writing transaction is taken as    *)
(* what SlotWrite promises of it and SimulationTransaction keeps; this     *)
(* module is what the command makes of its answer: the exit status under   *)
(* Ctrl-C, and the report of what was written.                             *)
(***************************************************************************)
EXTENDS SimulationRead

VARIABLES
    wanted,   \* the profile that the slot is to show
    before,   \* the stored settings when the command began
    outcome,  \* the answer of the transaction
    written,  \* SimulationTransactionSuccess::journal: the settings written
    sent      \* INTERRUPTS.camera_write_sent

writeVars == <<wanted, before, outcome, written, sent>>
commandVars == <<vars, writeVars>>

Writing == {"set", "import"}

\* SimulationTransactionSuccess, and SimulationFailureState.
Completed == {"AppliedAndVerified", "NoChangeVerified"}
Known == {"RejectedWithoutChange", "RollbackVerified"}
Outcomes == Completed \cup Known \cup {"CameraStateUnknown"}

WriteTypeOK ==
    /\ wanted \in Profile
    /\ before \in [Slots -> Bank]
    /\ outcome \in Outcomes \cup {"none"}
    /\ written \subseteq Settings
    /\ sent \in BOOLEAN

CommandInit ==
    /\ InitOf(Reading \cup Writing)
    /\ wanted \in IF command \in Reading THEN {Nothing}
                  ELSE {f \in Profile : \E b \in Bank : Shows(b, f)}
    /\ before = bank
    /\ outcome = "none" /\ written = {} /\ sent = FALSE

-----------------------------------------------------------------------------
\* A write goes through the phases begin, open, write, endWrite and report;
\* write and endWrite are the critical region.
At(p) == command \in Writing /\ phase = p

WriteRegion == {"write", "endWrite"}

Quiet == UNCHANGED <<ioVars, fileVars, command, toStdout, todo, index, staged,
                     profiles, snapshot, failed, back, wanted, before>>

\* An import reads its whole input, within a limit, before the camera is
\* opened.
ReadInput ==
    /\ At("begin")
    /\ \/ Goto("open")
       \/ command = "import" /\ Exit(1)
    /\ Quiet /\ UNCHANGED <<outcome, written, sent, pressed, stream>>

\* The camera is opened, the import is parsed, the preflight passes: or not.
OpenToWrite ==
    /\ At("open")
    /\ Goto("write") \/ Exit(1)
    /\ Quiet /\ UNCHANGED <<outcome, written, sent, pressed, stream>>

\* What the slot showed, and the settings that are to show something else.
ShownBy(b) == CHOOSE f \in Profile : Shows(b, f)
Changes(b, f) == {i \in Settings : f[i] \notin {Absent, ShownBy(b)[i]}}

Apply ==
    /\ outcome' = "AppliedAndVerified"
    /\ written' = Changes(bank[target], wanted) /\ written' # {}
    /\ \E b \in Bank : Shows(b, wanted) /\ bank' = [bank EXCEPT ![target] = b]
    /\ snapshot' = active /\ sent' = TRUE
    /\ UNCHANGED <<active, blind>>

\* The slot has to be selected to be looked at; a permit to write marks that
\* as a write.  A refusal may come before.
ChangeNothing ==
    /\ \/ outcome' = "NoChangeVerified" /\ Shows(bank[target], wanted)
       \/ outcome' \in Known
    /\ written' = {}
    /\ snapshot' \in {NoSlot, active} /\ sent' \in BOOLEAN
    /\ sent' => snapshot' = active
    /\ outcome' # "RejectedWithoutChange" => sent'
    /\ UNCHANGED <<active, bank, blind>>

\* Anything may be in a slot, and the selector may be anywhere.
Spoil ==
    /\ \E s \in Slots, b \in Bank : bank' = [bank EXCEPT ![s] = b]
    /\ active' \in Slots
    /\ sent' \in BOOLEAN

LoseTrack ==
    /\ Spoil
    /\ outcome' = "CameraStateUnknown" /\ written' = {}
    /\ UNCHANGED <<snapshot, blind>>

\* The one thing the transaction cannot see: the user turned the selector
\* away and back around an access.
Deceived ==
    /\ Spoil /\ sent' /\ UNCHANGED active
    /\ snapshot' = active /\ blind' = TRUE
    /\ outcome' \in Completed \cup Known /\ written' = {}

\* update_simulation, set_simulation.
WriteSlot ==
    /\ At("write")
    /\ Apply \/ ChangeNothing \/ LoseTrack \/ Deceived
    /\ Goto("endWrite")
    /\ UNCHANGED <<turns, healthy, target, adapterVars, fault, astray,
                   fileVars, command, toStdout, todo, index, staged, profiles,
                   failed, back, wanted, before, pressed, stream>>

\* A bug: tag_transaction_state_unknown tags nothing.
UnknownIsPlainFailure == 1

\* The status of an outcome that nobody knows (tag_transaction_state_unknown).
UnknownStatus == 3

\* critical_camera_write: the operation's own error goes first, then an
\* interrupt during it; the transaction leaves the interrupt to this region.
EndWrite ==
    /\ At("endWrite")
    /\ pressed' = FALSE
    /\ \/ outcome = "CameraStateUnknown" /\ Exit(UnknownStatus)
       \/ outcome \in Known /\ Exit(1)
       \/ outcome \in Completed /\ pressed /\ Exit(3)
       \/ outcome \in Completed /\ ~pressed /\ Goto("report")
    /\ Quiet /\ UNCHANGED <<outcome, written, sent, stream>>

\* report_simulation_write: a closed pipe is no failure (handle_result).
Report ==
    /\ At("report")
    /\ \/ stream' = "full" /\ Exit(0)
       \/ stream' = "part" /\ Exit(PipeStatus)
       \/ stream' \in {"none", "part"} /\ Exit(1)
    /\ Quiet /\ UNCHANGED <<outcome, written, sent, pressed>>

WriteStep == ReadInput \/ OpenToWrite \/ WriteSlot \/ EndWrite \/ Report

\* The handler.  A second Ctrl-C in the region leaves the write half done.
InterruptWrite ==
    /\ command \in Writing /\ phase # "done"
    /\ \/ /\ phase \in WriteRegion /\ ~pressed
          /\ pressed' = TRUE
          /\ UNCHANGED <<active, bank, phase, exit, written, sent>>
       \/ /\ phase \in WriteRegion /\ pressed
          /\ Spoil /\ Exit(3) /\ UNCHANGED <<pressed, written>>
       \/ /\ phase \notin WriteRegion
          /\ Exit(IF sent THEN 3 ELSE 130)
          /\ UNCHANGED <<active, bank, pressed, written, sent>>
    /\ UNCHANGED <<turns, healthy, target, adapterVars, fault, astray, blind,
                   fileVars, command, toStdout, todo, index, staged, profiles,
                   snapshot, failed, back, wanted, before, outcome, stream>>

CommandStep ==
    \/ command \in Reading /\ HostStep /\ UNCHANGED writeVars
    \/ WriteStep

CommandNext ==
    \/ command \in Reading /\ Next /\ UNCHANGED writeVars
    \/ command \in Writing /\ TurnDial /\ UNCHANGED writeVars
    \/ WriteStep
    \/ InterruptWrite

CommandSpec == CommandInit /\ [][CommandNext]_commandVars /\ WF_commandVars(CommandStep)

-----------------------------------------------------------------------------
(* Properties.                                                             *)

\* What a command says on success is true: a profile that is shown is that
\* of its slot, and after a write the slot shows what was asked for, no other
\* slot has changed, and the settings reported as written are all that show
\* another value than before (report_simulation_write).
AnswerIsTrue ==
    /\ ShownProfileIsTrue
    /\ command \in Writing /\ phase = "done" /\ exit = 0 /\ ~blind =>
          /\ Shows(bank[target], wanted)
          /\ Changes(before[target], ShownBy(bank[target])) \subseteq written
          /\ \A s \in Slots \ {target} : bank[s] = before[s]

\* The exit status tells what is known of the camera.  Any status but 3 says
\* that the selector is where it was; 130 and, unless it was only the report
\* that could not be delivered, 1 say that no slot has changed
\* (exit-codes.md, critical_camera_write, error_exit_code).
StatusAccounts ==
    /\ SelectorAccounted
    /\ command \in Writing /\ phase = "done" /\ ~blind =>
          /\ exit = 130 => bank = before
          /\ exit = 1 /\ outcome \notin Completed => bank = before
=============================================================================
