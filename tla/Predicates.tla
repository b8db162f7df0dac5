------------------------------ MODULE Predicates ------------------------------
(***************************************************************************)
(* The predicates of a camera definition and their disjunctive normal      *)
(* form: a sequence of conjunctions, each a sequence of literals, in the   *)
(* order the compiler puts them.                                           *)
(***************************************************************************)
EXTENDS RuleLeaves

Bool(value) == [is |-> "bool", value |-> value]
Leaf(leaf) == [is |-> "leaf", leaf |-> leaf]
Not(p) == [is |-> "not", of |-> p]
AllOf(ps) == [is |-> "all", of |-> ps]
AnyOf(ps) == [is |-> "any", of |-> ps]

RECURSIVE Meaning(_, _, _), Disjuncts(_), Negation(_)

\* The reference definition: what generate_predicate evaluates.
Meaning(p, profile, original) ==
    CASE p.is = "bool" -> p.value
      [] p.is = "leaf" -> Holds(p.leaf, profile, original)
      [] p.is = "not" -> ~Meaning(p.of, profile, original)
      [] p.is = "all" ->
            \A i \in DOMAIN p.of : Meaning(p.of[i], profile, original)
      [] OTHER -> \E i \in DOMAIN p.of : Meaning(p.of[i], profile, original)

\* Every conjunction of the one, extended by every one of the other.
Cross(prefixes, parts) ==
    FlattenSeq([i \in DOMAIN prefixes |->
        [j \in DOMAIN parts |-> prefixes[i] \o parts[j]]])

\* Predicate::into_disjuncts
Disjuncts(p) ==
    CASE p.is = "bool" -> IF p.value THEN << <<>> >> ELSE <<>>
      [] p.is = "leaf" -> << <<p.leaf>> >>
      [] p.is = "not" -> Negation(p.of)
      [] p.is = "all" ->
            FoldLeft(LAMBDA prefixes, clause : Cross(prefixes, Disjuncts(clause)),
                     << <<>> >>, p.of)
      [] OTHER -> FlattenSeq([i \in DOMAIN p.of |-> Disjuncts(p.of[i])])

\* A bug: the negation keeps the connective.
NegationKeepsAll(p) ==
    CASE p.is = "bool" -> Disjuncts(Bool(~p.value))
      [] p.is = "leaf" -> << <<Negated(p.leaf)>> >>
      [] p.is = "not" -> Disjuncts(p.of)
      [] OTHER -> Disjuncts([p EXCEPT !.of = [i \in DOMAIN @ |-> Not(@[i])]])

\* Predicate::into_negation
Negation(p) ==
    CASE p.is = "bool" -> Disjuncts(Bool(~p.value))
      [] p.is = "leaf" -> << <<Negated(p.leaf)>> >>
      [] p.is = "not" -> Disjuncts(p.of)
      [] p.is = "all" -> Disjuncts(AnyOf([i \in DOMAIN p.of |-> Not(p.of[i])]))
      [] OTHER -> Disjuncts(AllOf([i \in DOMAIN p.of |-> Not(p.of[i])]))
=============================================================================
