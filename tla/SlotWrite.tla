----------------------------- MODULE SlotWrite -----------------------------
(***************************************************************************)
(* What a simulation write promises its caller, whatever happens on the    *)
(* wire.  While the command runs, the camera's slots and its selector may  *)
(* be anything; the command answers once, and each answer but the last     *)
(* says something exact about the camera:                                  *)
(*                                                                         *)
(*   applied    the target slot shows the requested profile, every other   *)
(*              slot is untouched, the selector is where it was            *)
(*   unchanged  every slot is untouched, the selector is where it was      *)
(*   unknown    nothing is claimed                                         *)
(*                                                                         *)
(* undetected stands for the one thing the command cannot see: the user    *)
(* turned the selector away and back around a single property access.      *)
(***************************************************************************)
CONSTANTS
    Slots,
    Contents,    \* what a slot can store
    NoSlot       \* the selector was not read

VARIABLES
    contents,    \* what every slot stores
    initial,     \* what it stored at the start
    target,      \* the slot to be written
    selector,    \* the slot the camera is on
    found,       \* the slot it was found on
    wanted,      \* the contents that show the requested profile
    undetected,
    answer

slotVars == <<contents, initial, target, selector, found, wanted, undetected,
              answer>>

Selectors == Slots \cup {NoSlot}

Start ==
    /\ contents \in [Slots -> Contents]
    /\ initial = contents
    /\ target \in Slots
    /\ selector \in Slots
    /\ found = NoSlot
    /\ wanted \in SUBSET Contents
    /\ undetected = FALSE
    /\ answer = "running"

\* The command is under way.
Work ==
    /\ answer = "running" /\ answer' = "running"
    /\ contents' \in [Slots -> Contents]
    /\ selector' \in Slots
    /\ found' \in Selectors
    /\ found # NoSlot => found' = found
    /\ wanted' \in SUBSET Contents
    /\ undetected' \in BOOLEAN
    /\ undetected => undetected'
    /\ UNCHANGED <<initial, target>>

\* The selector found at the start, if it was read at all, is back.
PutBack == found # NoSlot => selector' = found

OthersUntouched ==
    \A s \in Slots \ {target} : contents[s] = initial[s]

Respond ==
    /\ answer = "running"
    /\ \/ /\ answer' = "applied"
          /\ undetected \/ (contents[target] \in wanted /\ OthersUntouched)
          /\ PutBack
       \/ /\ answer' = "unchanged"
          /\ undetected \/ contents = initial
          /\ PutBack
       \/ answer' = "unknown"
    /\ selector' \in Slots
    /\ UNCHANGED <<contents, initial, target, found, wanted, undetected>>

SlotNext == Work \/ Respond

Promise == Start /\ [][SlotNext]_slotVars
=============================================================================
