------------------------------ MODULE RuleLeaves ------------------------------
(***************************************************************************)
(* The literals a camera definition's rules are made of (ast/dnf.rs).  A   *)
(* profile gives every setting a value or None.  Every literal asks        *)
(* whether a setting is there with one of some values, or denies it:       *)
(* "present" accepts every value, "equals" one, "in" a set, which may be   *)
(* one value too; "between" and the comparisons are like an "in".          *)
(***************************************************************************)
EXTENDS Naturals, Sequences, SequencesExt

CONSTANTS Values,   \* the values of all the settings
          None      \* a setting that is not there

ASSUME NoneAssumption == None \notin Values

\* The literals as a definition writes them.  "witness" is the value repair
\* sets when the literal is denied: the value of an "equals", the first of an
\* "in"; there is none for a presence.
Present(r) == [ref |-> r, original |-> FALSE, op |-> "present",
               positive |-> TRUE, values |-> Values, witness |-> None]
In(r, vs, first) == [Present(r) EXCEPT !.op = "in", !.values = vs,
                                       !.witness = first]
Equals(r, v) == [In(r, {v}, v) EXCEPT !.op = "equals"]
OfOriginal(leaf) == [leaf EXCEPT !.original = TRUE]
Negated(leaf) == [leaf EXCEPT !.positive = ~@]

\* profile is the record under test, original the one it was changed from.
Holds(leaf, profile, original) ==
    LET value == IF leaf.original THEN original[leaf.ref] ELSE profile[leaf.ref]
    IN  (value # None /\ value \in leaf.values) = leaf.positive
AllHold(conjunction, profile, original) ==
    \A leaf \in ToSet(conjunction) : Holds(leaf, profile, original)
Fires(dnf, profile, original) ==
    \E conjunction \in ToSet(dnf) : AllHold(conjunction, profile, original)
=============================================================================
