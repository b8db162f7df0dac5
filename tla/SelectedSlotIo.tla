--------------------------- MODULE SelectedSlotIo ---------------------------
(***************************************************************************)
(* The camera's custom-setting slots, one PTP property transaction at a    *)
(* time, and the host adapter that reads and writes settings of one        *)
(* selected slot (SelectedSimulationIo).                                   *)
(*                                                                         *)
(* The camera has one active slot, chosen by a selector property that the  *)
(* host writes and that a user can also turn on the camera body.  A        *)
(* setting is read from and written to whatever slot is active when the    *)
(* camera executes the command.  The adapter therefore selects its target  *)
(* slot once, confirms the selection, and confirms it again after every    *)
(* property access.                                                        *)
(***************************************************************************)
EXTENDS Integers, Sequences

CONSTANTS
    Slots,         \* the custom-setting slots C1, C2, ...
    Values,        \* the values a setting can have
    Absent,        \* "this setting is not in the profile" (Option::None)
    NumSettings,   \* settings are numbered in dependency (write) order
    MaxTurns,      \* bound: how often a user turns the selector meanwhile
    NoRequest,     \* no property access is under way
    VerifiedSlots, \* the slot values the permit's descriptor form admits
    NoSlot,        \* the selector was not read
    Present(_, _)  \* Present(i, f): setting i applies in profile f

ASSUME SlotsAssumption ==
    /\ Slots # {} /\ Values # {} /\ Absent \notin Values
    /\ VerifiedSlots \subseteq Slots
    /\ NoSlot \notin Slots
ASSUME CountsAssumption == NumSettings \in Nat \ {0} /\ MaxTurns \in Nat

Settings == 1..NumSettings

\* What a slot stores, and what a profile of it says: a profile leaves out
\* the settings that its other settings make inapplicable.
Bank == [Settings -> Values]
Profile == [Settings -> Values \cup {Absent}]

Nothing == [i \in Settings |-> Absent]

\* The presence condition of a setting reads only settings before it: the
\* generator orders reads and writes along the presence DAG.
ASSUME PresenceAssumption ==
    /\ \A i \in Settings, f \in Profile : Present(i, f) \in BOOLEAN
    /\ \A f \in Profile : Present(1, f)
    /\ \A i \in Settings, f, g \in Profile :
          (\A j \in 1..(i - 1) : f[j] = g[j]) => (Present(i, f) = Present(i, g))

\* j is the first setting after i in S, or NumSettings + 1 if there is none.
IsNext(i, j, S) ==
    /\ j \in (i + 1)..(NumSettings + 1)
    /\ j <= NumSettings => j \in S
    /\ \A k \in (i + 1)..(j - 1) : k \notin S

PresentIn(f) == {i \in Settings : Present(i, f)}

\* The profile f is what the stored settings b show.
Shows(b, f) ==
    \A i \in Settings : f[i] = IF Present(i, f) THEN b[i] ELSE Absent

VARIABLES
    active,    \* the slot the camera currently addresses
    bank,      \* the stored settings of every slot
    turns,     \* how often the user has turned the selector
    healthy,   \* FALSE once the PTP session is poisoned
    target,    \* the slot the adapter works on
    selected,  \* the adapter trusts its selection
    step,      \* where the adapter is inside one property access
    request,   \* the access under way
    value,     \* the value the last get returned
    reply,     \* the adapter's answer to the access
    fault,     \* history: the camera refused, lost, ignored or coerced one
    astray,    \* history: the access executed on another slot than target
    blind      \* history: that happened and the selector was back in time

cameraVars == <<active, bank, turns>>
adapterVars == <<selected, step, request, value, reply>>
historyVars == <<fault, astray, blind>>
ioVars == <<active, bank, turns, healthy, target, selected, step, request,
            value, reply, fault, astray, blind>>

Requests == [kind : {"get", "set"}, setting : Settings,
             value : Values \cup {Absent}]

Steps == {"idle", "select", "confirm", "access", "check", "answered"}
Replies == {"none", "ok", "unconfirmed", "uncertain"}

IoTypeOK ==
    /\ active \in Slots
    /\ bank \in [Slots -> Bank]
    /\ turns \in 0..MaxTurns
    /\ healthy \in BOOLEAN
    /\ target \in Slots
    /\ selected \in BOOLEAN
    /\ step \in Steps
    /\ request \in Requests \cup {NoRequest}
    /\ value \in Values \cup {Absent}
    /\ reply \in Replies
    /\ fault \in BOOLEAN
    /\ astray \in BOOLEAN
    /\ blind \in BOOLEAN
    /\ step \in {"select", "confirm", "access", "check", "answered"}
          => request \in Requests

IoInit ==
    /\ active \in Slots
    /\ bank \in [Slots -> Bank]
    /\ turns = 0
    /\ healthy = TRUE
    /\ target \in Slots
    /\ selected = FALSE
    /\ step = "idle"
    /\ request = NoRequest
    /\ value = Absent
    /\ reply = "none"
    /\ fault = FALSE
    /\ astray = FALSE
    /\ blind = FALSE

-----------------------------------------------------------------------------
(* The three ways one PTP transaction ends for its caller.                 *)

\* A framed OK response.  It does not say that the camera did what it was
\* asked: obeyed is FALSE when it ignored or coerced the value.
Accepted(obeyed) ==
    /\ healthy
    /\ fault' = (fault \/ ~obeyed)
    /\ UNCHANGED healthy

\* A framed error response, a value that does not decode, a refusal before
\* anything is sent: the camera did not act.  A poisoned session refuses
\* every command this way.
Rejected == fault' = TRUE /\ UNCHANGED healthy

\* A timeout, a disconnect or a malformed container after the command went
\* out: the session is poisoned and the camera may or may not have acted.
Lost == healthy /\ healthy' = FALSE /\ fault' = TRUE

-----------------------------------------------------------------------------
(* Asking for one property access, and answering it.                       *)

Ask(kind, i, v) ==
    /\ request' = [kind |-> kind, setting |-> i, value |-> v]
    /\ reply' = "none"
    /\ step' = IF selected THEN "access" ELSE "select"
    /\ UNCHANGED <<selected, value>>

AskGet(i) == Ask("get", i, Absent)

Answer(r) == reply' = r /\ step' = "answered" /\ UNCHANGED request

\* No further access: the adapter goes out of scope.
Leave ==
    /\ step' = "idle" /\ request' = NoRequest /\ reply' = "none"
    /\ UNCHANGED <<selected, value>>

-----------------------------------------------------------------------------
(* ensure_selected: write the selector, then read it back.                 *)

SelectSlot ==
    /\ step = "select"
    /\ \/ /\ active' \in {active, target}
          /\ Accepted(active' = target)
          /\ step' = "confirm"
          /\ UNCHANGED <<request, reply>>
       \/ /\ Rejected
          /\ Answer("unconfirmed")
          /\ UNCHANGED active
       \/ /\ Lost
          /\ active' \in {active, target}
          /\ Answer("unconfirmed")
    /\ UNCHANGED <<bank, turns, target, selected, value, astray, blind>>

\* verify_selector inside ensure_selected.
ConfirmSlot ==
    /\ step = "confirm"
    /\ \/ /\ Accepted(TRUE) /\ active = target
          /\ selected' = TRUE
          /\ step' = "access"
          /\ UNCHANGED <<request, reply>>
       \/ /\ \/ Accepted(TRUE) /\ active # target
             \/ Rejected
             \/ Lost
          /\ selected' = FALSE
          /\ Answer("unconfirmed")
    /\ UNCHANGED <<active, bank, turns, target, value, astray, blind>>

\* The property access itself, on whatever slot is active now.
ReadSetting ==
    /\ step = "access" /\ request.kind = "get"
    /\ \/ /\ Accepted(TRUE)
          /\ value' = bank[active][request.setting]
          /\ astray' = (active # target)
          /\ step' = "check"
          /\ UNCHANGED <<request, reply>>
       \/ /\ Rejected \/ Lost
          /\ Answer("unconfirmed")
          /\ UNCHANGED <<value, astray>>
    /\ UNCHANGED <<active, bank, turns, target, selected, blind>>

\* An accepted write may be stored, ignored or coerced to another value; a
\* lost one may have been executed or not.
WriteSetting ==
    /\ step = "access" /\ request.kind = "set"
    /\ \/ /\ \E v \in Values :
                /\ bank' = [bank EXCEPT ![active][request.setting] = v]
                /\ Accepted(v = request.value)
          /\ astray' = (active # target)
          /\ step' = "check"
          /\ UNCHANGED <<request, reply>>
       \/ /\ Rejected
          /\ Answer("unconfirmed")
          /\ UNCHANGED <<bank, astray>>
       \/ /\ Lost
          /\ \/ UNCHANGED bank
             \/ \E v \in Values :
                   bank' = [bank EXCEPT ![active][request.setting] = v]
          /\ Answer("unconfirmed")
          /\ UNCHANGED astray
    /\ UNCHANGED <<active, turns, target, selected, value, blind>>

\* A bug: The check after an access is not looked at.
CheckFailureIgnored == "ok"

\* Mutant: a failed check is reported as if the write had not been confirmed.
CheckFailureUnconfirmed == "unconfirmed"

\* verify_selector after the access.  A failed check after an accepted write
\* is confirmed_with_uncertain_binding.
CheckFailure == IF request.kind = "set" THEN "uncertain" ELSE "unconfirmed"

CheckSlot ==
    /\ step = "check"
    /\ \/ /\ Accepted(TRUE) /\ active = target
          /\ blind' = (blind \/ astray)
          /\ Answer("ok")
          /\ UNCHANGED selected
       \/ /\ \/ Accepted(TRUE) /\ active # target
             \/ Rejected
             \/ Lost
          /\ selected' = FALSE
          /\ Answer(CheckFailure)
          /\ UNCHANGED blind
    /\ UNCHANGED <<active, bank, turns, target, value, astray>>

AdapterStep ==
    \/ SelectSlot
    \/ ConfirmSlot
    \/ ReadSetting
    \/ WriteSetting
    \/ CheckSlot

-----------------------------------------------------------------------------
(* The selector as a raw value, used to snapshot and restore it.           *)

\* get_selector_raw; the caller adds what it does with the slot it read.
SelectorRead == Accepted(TRUE) /\ UNCHANGED active
SelectorUnread == (Rejected \/ Lost) /\ UNCHANGED active

\* set_selector_raw.
SelectorWritten(s) == active' \in {active, s} /\ Accepted(active' = s)
SelectorNotWritten(s) ==
    \/ Rejected /\ UNCHANGED active
    \/ Lost /\ active' \in {active, s}

\* The user turns the selector on the camera body.
TurnSelector(s) ==
    /\ turns < MaxTurns
    /\ s # active
    /\ active' = s
    /\ turns' = turns + 1
    /\ UNCHANGED <<bank, healthy, target, selected, step, request, value,
                   reply, fault, astray, blind>>
=============================================================================
