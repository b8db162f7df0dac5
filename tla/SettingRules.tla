----------------------------- MODULE SettingRules -----------------------------
(***************************************************************************)
(* What the definition compiler makes of a camera's settings and what the  *)
(* generated code then does with them: which settings a read may take from *)
(* the camera and in which order, and how a user's change, or a profile    *)
(* imported from a file, is merged, repaired against the error rules,      *)
(* encoded, written and read again.                                        *)
(*                                                                         *)
(* A definition is [fields (in declaration order), codec (of each), pins   *)
(* (the data type of each that is a PTP property), forms (the static       *)
(* descriptor of some), verified (a preflight profile of the camera is),   *)
(* words (what the camera may hold in each), user (what a user may give    *)
(* for each), render (a RAW profile rather than a simulation: its fields   *)
(* are 32 bits wide, in one frame, and a read inverts the transformations),*)
(* code (of the frame), frames (what the camera may frame it in),          *)
(* transformations, rules (the DNFs of the error rules)].  Warnings and    *)
(* infos only log.                                                         *)
(***************************************************************************)
EXTENDS RuleLeaves, OptionCodec

CONSTANT Definitions   \* a sequence of definitions

Fields(d) == ToSet(d.fields)
\* The ways to choose for every setting one of its options.
Combinations(options) ==
    FoldSet(LAMBDA f, chosen : {c @@ (f :> v) : c \in chosen, v \in options[f]},
            {<<>>}, DOMAIN options)
Banks(d) == [Fields(d) -> Values \cup {None}]
Empty(d) == [f \in Fields(d) |-> None]

-----------------------------------------------------------------------------
(* Transformations: [when (a DNF, None if unconditional), single (it is    *)
(* written as one literal), apply, one_way].                               *)

Assign(profile, effect) == [profile EXCEPT ![effect.ref] = effect.value]
Transformed(profile, t) ==
    IF t.when = None \/ Fires(t.when, profile, profile)
    THEN FoldLeft(Assign, profile, t.apply)
    ELSE profile
Transform(d, profile) == FoldLeft(Transformed, profile, d.transformations)

Trigger(t) == t.when[1][1]
ClearsNothing(t) == \A effect \in ToSet(t.apply) : effect.value # None
IsInvertible(d, i) ==
    LET t == d.transformations[i]
        leaf == Trigger(t)
    IN  /\ t.when # None /\ t.single
        /\ leaf.op = "equals" /\ ~leaf.original
        /\ ClearsNothing(t)
        /\ \A j \in DOMAIN d.transformations \ {i} :
              LET other == d.transformations[j]
              IN  ~ /\ ClearsNothing(other)
                    /\ Len(t.apply) = Len(other.apply)
                    /\ ToSet(t.apply) \subseteq ToSet(other.apply)

\* What is declared one-way must be.
InversesBuildable(d) ==
    d.render => \A i \in DOMAIN d.transformations :
                    d.transformations[i].one_way => ~IsInvertible(d, i)

\* The camera's state is only lifted: the logical setting is absent or
\* already says what it would be lifted to.
Lifted(profile, t) ==
    LET target == Trigger(t).witness
        field == Trigger(t).ref
        effects == ToSet(t.apply)
    IN  IF /\ \A effect \in effects : profile[effect.ref] = effect.value
           /\ profile[field] \in {None, target}
        THEN [f \in DOMAIN profile |->
                 CASE f = field -> target
                   [] f \in {effect.ref : effect \in effects} \ {field} -> None
                   [] OTHER -> profile[f]]
        ELSE profile
Lift(d, profile) ==
    FoldLeft(LAMBDA p, i : IF IsInvertible(d, i)
                           THEN Lifted(p, d.transformations[i]) ELSE p,
             profile, Reverse([i \in DOMAIN d.transformations |-> i]))

-----------------------------------------------------------------------------
(* The effective rules: a trigger of a transformation is replaced by what  *)
(* the transformation leaves behind.                                       *)

Occurrences(s, leaf) == Cardinality({i \in DOMAIN s : s[i] = leaf})
ContainsAll(s, needle) ==
    \A leaf \in ToSet(needle) : Occurrences(needle, leaf) <= Occurrences(s, leaf)
SwapRemove(s, leaf) ==
    LET at == Min({i \in DOMAIN s : s[i] = leaf})
    IN  IF at = Len(s) THEN Front(s) ELSE Front([s EXCEPT ![at] = Last(s)])
AsLeaf(effect) == IF effect.value = None THEN Negated(Present(effect.ref))
                                         ELSE Equals(effect.ref, effect.value)
\* A bug: the rules stay as they were written.
RewriteNothing(conjunction, t) == conjunction
Rewrite(conjunction, t) ==
    LET hits == {i \in DOMAIN t.when : ContainsAll(conjunction, t.when[i])}
    IN  IF t.when = None \/ t.apply = <<>> \/ hits = {} THEN conjunction
        ELSE FoldLeft(SwapRemove, conjunction, t.when[Min(hits)])
                \o [i \in DOMAIN t.apply |-> AsLeaf(t.apply[i])]
Effective(d) ==
    [r \in DOMAIN d.rules |->
        [c \in DOMAIN d.rules[r] |->
            FoldLeft(Rewrite, d.rules[r][c], d.transformations)]]

-----------------------------------------------------------------------------
(* Presence: a conjunction that asks for a setting's presence says when it *)
(* may be read.                                                            *)

GateOf(conjunction) ==
    LET leaves == {l \in ToSet(conjunction) : ~l.original}
        there == {l.ref : l \in {x \in leaves : x.op = "present" /\ x.positive}}
        absent == {l \in leaves : l.op = "present" /\ ~l.positive}
        others == {l \in leaves : l.op # "present"}
    IN  [forbids |-> there # {},
         anchors |-> IF there # {} THEN there ELSE {l.ref : l \in absent},
         clauses |-> IF there # {} THEN others \cup absent ELSE others]
Gates(rules) ==
    {g \in {GateOf(c) : c \in UNION {ToSet(rules[r]) : r \in DOMAIN rules}} :
        g.anchors # {} /\ g.clauses # {}}
Opens(gate, profile) ==
    IF gate.forbids
    THEN \E clause \in gate.clauses : ~Holds(clause, profile, profile)
    ELSE \A clause \in gate.clauses : Holds(clause, profile, profile)
References(gate) == {clause.ref : clause \in gate.clauses}

\* A bug: the read keeps the order the settings are declared in.
DeclaredOrder(gates) == {}
\* A clause's setting is read before the settings it gates.
Edges(gates) == UNION {References(g) \X g.anchors : g \in gates}

\* What the build accepts: no gate on its own anchor and no ordering cycle.
GatesBuildable(gates, fields) ==
    /\ \A g \in gates : References(g) \cap g.anchors = {}
    /\ \A S \in SUBSET fields \ {{}} :
          \E f \in S : \A g \in S : <<g, f>> \notin Edges(gates)
\* A verified camera's firmware says what it has of every enum.
Covered(d) ==
    d.verified => \A f \in Fields(d) : d.codec[f].kind = "enum" => Allowed(d.codec[f]) # {}
OptionsBuildable(d) ==
    /\ \A f \in Fields(d) : Buildable(d.codec[f])
    /\ \A f \in DOMAIN d.pins : PinBuildable(d.codec[f], d.pins[f])
    /\ \A f \in DOMAIN d.forms : StaticBuildable(d.codec[f], d.forms[f])
    /\ Covered(d)
\* The number of fields, the profile code and the number of words.
Frame(d) == [count |-> Len(d.fields), code |-> d.code, words |-> Len(d.fields)]

-----------------------------------------------------------------------------
VARIABLES
    definition,   \* the definition of the camera
    rules, gates, \* what the compiler made of it
    camera,       \* the word the camera holds for every setting
    frame,        \* the frame a RAW profile's words are in
    phase,
    profile,      \* the settings as read
    todo,         \* the settings still to be read
    importing,    \* the settings are a whole profile's, from a file
    requested,    \* the user's settings, transformed; they are pinned
    candidate,    \* the profile under repair, then the one last accepted
    ok,           \* the rules known not to fire
    rule,         \* the rule whose turn it is
    left          \* its conjunctions still to be broken

generated == <<definition, rules, gates>>
stored == <<camera, frame>>
repair == <<requested, candidate, ok, rule, left>>
vars == <<generated, stored, phase, profile, todo, importing, repair>>

D == definition

Init ==
    /\ definition \in ToSet(Definitions)
    /\ rules = Effective(D)
    /\ gates = Gates(rules)
    /\ GatesBuildable(gates, Fields(D))
    /\ OptionsBuildable(D) /\ InversesBuildable(D)
    /\ camera \in Combinations(D.words) /\ frame \in D.frames
    /\ phase = "reading"
    /\ profile = Empty(D)
    /\ todo = Fields(D)
    /\ importing = FALSE
    /\ requested = None
    /\ candidate = None
    /\ ok = {}
    /\ rule = 0
    /\ left = <<>>

\* The least declared setting whose clauses have been read comes next; it is
\* taken from the camera if all its gates are open.  Another frame or a word
\* that means nothing ends the read, and with it the command.
NextField ==
    D.fields[Min({i \in DOMAIN D.fields :
        /\ D.fields[i] \in todo
        /\ \A f \in todo : <<f, D.fields[i]>> \notin Edges(gates)})]
Admitted(f) == \A g \in gates : f \in g.anchors => Opens(g, profile)
Read(f) == IF Admitted(f) THEN Decode(D.codec[f], camera[f]) ELSE None
ReadNext ==
    /\ phase = "reading" /\ todo # {} /\ frame = Frame(D)
    /\ LET f == NextField
       IN  /\ Read(f) # Invalid
           /\ todo' = todo \ {f}
           /\ profile' = [profile EXCEPT ![f] = Read(f)]
    /\ UNCHANGED <<generated, stored, phase, importing, repair>>
ReadFails ==
    /\ phase = "reading" /\ todo # {}
    /\ frame # Frame(D) \/ Read(NextField) = Invalid
    /\ phase' = "failed"
    /\ UNCHANGED <<generated, stored, profile, todo, importing, repair>>

FinishRead ==
    /\ phase = "reading" /\ todo = {}
    /\ profile' = IF D.render THEN Lift(D, profile) ELSE profile
    /\ phase' = "ready"
    /\ UNCHANGED <<generated, stored, todo, importing, repair>>

\* try_update_from: the user's settings are transformed on their own, which
\* also says what is pinned, then merged into what was read.
Merge(base, partial) ==
    [f \in DOMAIN base |-> IF partial[f] # None THEN partial[f] ELSE base[f]]
\* What can be parsed, from the command line or from a file.
Parsed(f) == {Parse(D.codec[f], input, form) :
                 input \in D.user[f], form \in {"text", "json"}} \ {Invalid}
\* A change asks only for what the firmware's capabilities permit; anything
\* else is refused at once.
Given(f) == {v \in Parsed(f) : Permitted(D.codec[f], v)}
Partials == Combinations([f \in Fields(D) |-> Given(f) \cup {None}])
Files == Combinations([f \in Fields(D) |-> Parsed(f) \cup {None}])
Update(base, partial) ==
    LET wanted == Transform(D, partial)
        merged == Transform(D, Merge(base, wanted))
    IN  /\ phase = "ready"
        /\ phase' = "repairing"
        /\ requested' = wanted
        /\ candidate' = merged
        /\ ok' = {r \in DOMAIN rules : ~Fires(rules[r], merged, base)}
        /\ rule' = 1
        /\ left' = <<>>
        /\ UNCHANGED <<generated, stored, profile, todo>>
Change ==
    /\ \E partial \in Partials : Update(profile, partial)
    /\ importing' = FALSE
\* A simulation's file, written by hand or exported, updates nothing but an
\* empty profile; the capabilities are asked when it is whole (Unencodable).
Import ==
    /\ ~D.render
    /\ \E file \in Files \cup {profile} : Update(Empty(D), file)
    /\ importing' = TRUE

\* What was there before the update, which a rule may refer to.
Original == IF importing THEN Empty(D) ELSE profile

\* solve: a rule that still fires is taken apart, one conjunction at a time.
SettleRule(r) ==
    /\ ok' = ok \cup {r}
    /\ rule' = r + 1
    /\ left' = <<>>
TakeUp ==
    /\ phase = "repairing" /\ rule \in DOMAIN rules /\ left = <<>>
    /\ IF rule \in ok \/ ~Fires(rules[rule], candidate, Original)
       THEN SettleRule(rule)
       ELSE left' = rules[rule] /\ UNCHANGED <<ok, rule>>
    /\ UNCHANGED <<generated, stored, phase, profile, todo, importing, requested,
                   candidate>>

\* Flipping a literal clears the setting it asks for, or gives the one it
\* denies the denied value.
CanFlip(leaf) == ~leaf.original /\ (leaf.positive \/ leaf.witness # None)
Flipped(leaf) ==
    [candidate EXCEPT ![leaf.ref] = IF leaf.positive THEN None ELSE leaf.witness]
RefiresOtherOk(state) ==
    \E r \in ok \ {rule} : Fires(rules[r], state, Original)
\* A bug: a flip is not held against the rules that were in order.
AcceptableAlone(leaf) == CanFlip(leaf) /\ requested[leaf.ref] = None
\* A bug: what the user asked for is changed like anything else.
AcceptableUnpinned(leaf) == CanFlip(leaf) /\ ~RefiresOtherOk(Flipped(leaf))
Acceptable(leaf) ==
    /\ CanFlip(leaf)
    /\ requested[leaf.ref] = None
    /\ ~RefiresOtherOk(Flipped(leaf))

Breaking == phase = "repairing" /\ left # <<>>
Remedies == {i \in DOMAIN Head(left) : Acceptable(Head(left)[i])}

NextConjunction ==
    IF Len(left) = 1 THEN SettleRule(rule)
                     ELSE left' = Tail(left) /\ UNCHANGED <<ok, rule>>
Break ==
    /\ Breaking
    /\ IF ~AllHold(Head(left), candidate, Original) THEN UNCHANGED candidate
       ELSE /\ Remedies # {}
            /\ candidate' = Flipped(Head(left)[Min(Remedies)])
    /\ NextConjunction
    /\ UNCHANGED <<generated, stored, phase, profile, todo, importing, requested>>

\* The error is the answer, and the profile stays as it was read.
GiveUp ==
    /\ phase' = "ready"
    /\ importing' = FALSE /\ requested' = None /\ candidate' = None
    /\ ok' = {} /\ rule' = 0 /\ left' = <<>>
    /\ UNCHANGED <<generated, stored, profile, todo>>

\* No literal of a conjunction can be flipped: the rule's message.
Refuse ==
    /\ Breaking
    /\ AllHold(Head(left), candidate, Original) /\ Remedies = {}
    /\ GiveUp

\* The accepted candidate goes to the camera: of a simulation the settings
\* that differ from what was read, of a render profile all of them.  A setting
\* that is not there keeps the word the camera holds: a simulation writes
\* nothing for it, a render profile re-emits the word it decoded.  The static
\* descriptor of a simulation's property lets a word through or not.
\* Of a file, every setting is required but those whose absence a rule names.
Optional == {l.ref : l \in {x \in UNION {ToSet(c) : c \in UNION {ToSet(rules[r]) :
                                                    r \in DOMAIN rules}} :
                            x.op = "present" /\ ~x.positive}}
Whole == \A f \in Fields(D) \ Optional : candidate[f] # None
Accepted == phase = "repairing" /\ rule = Len(rules) + 1
Incomplete == Accepted /\ importing /\ ~Whole /\ GiveUp
Sent == {f \in Fields(D) : /\ candidate[f] # None
                           /\ D.render \/ candidate[f] # profile[f]}
Kept(f) == camera[f]
Word(f) == Encode(D.codec[f], candidate[f], D.render)
Encodable ==
    /\ \A f \in Fields(D) : candidate[f] # None => Permitted(D.codec[f], candidate[f])
    /\ \A f \in Sent : Word(f) # Invalid
    /\ D.render \/ \A f \in Sent \cap DOMAIN D.forms : Admits(D.forms[f], Word(f))
\* A repair, a transformation or a file chose what this firmware does not
\* have, or a text does not fit its length.
Unencodable == Accepted /\ (importing => Whole) /\ ~Encodable /\ GiveUp
Send ==
    /\ Accepted /\ (importing => Whole) /\ Encodable
    /\ camera' = [f \in Fields(D) |-> IF f \in Sent THEN Word(f) ELSE Kept(f)]
    /\ frame' = Frame(D)
    /\ profile' = Empty(D)
    /\ todo' = Fields(D)
    /\ phase' = "reading"
    /\ importing' = FALSE /\ requested' = None
    /\ ok' = {} /\ rule' = 0 /\ left' = <<>>
    /\ UNCHANGED <<generated, candidate>>

Next ==
    \/ ReadNext \/ ReadFails \/ FinishRead
    \/ Change \/ Import
    \/ TakeUp \/ Break \/ Refuse \/ Incomplete \/ Unencodable \/ Send

Spec == Init /\ [][Next]_vars

-----------------------------------------------------------------------------
\* Every variable has its kind; a rule that was passed does not count as
\* firing, and the one being taken apart does.
TypeOK ==
    /\ definition \in ToSet(Definitions)
    /\ camera \in [Fields(D) -> Int]
    /\ phase \in {"reading", "failed", "ready", "repairing"}
    /\ profile \in Banks(D) /\ todo \subseteq Fields(D)
    /\ candidate \in Banks(D) \cup {None}
    /\ ok \subseteq DOMAIN rules
    /\ rule \in 0 .. Len(rules) + 1
    /\ phase = "repairing" => /\ requested \in Banks(D)
                              /\ 1 .. rule - 1 \subseteq ok
    /\ left # <<>> => rule \notin ok

\* No disjunct of a rule is made true by the flip that breaks another: what
\* the solver, which checks a flip against the other rules only, relies on.
Independent(dnf) ==
    \A i, j \in DOMAIN dnf : \A a \in ToSet(dnf[i]), b \in ToSet(dnf[j]) :
        (i # j /\ CanFlip(a) /\ a.ref = b.ref /\ ~b.original) =>
            LET value == IF a.positive THEN None ELSE a.witness
            IN  (value # None /\ value \in b.values) # b.positive

\* An accepted change keeps every setting the user named, and breaks none of
\* the error rules, however the repair of one rule disturbs another.
AcceptedBreaksNoRule ==
    Accepted =>
        /\ \A f \in Fields(D) :
              D.user[f] # {} /\ requested[f] # None => candidate[f] = requested[f]
        /\ \A r \in DOMAIN rules :
              Independent(rules[r]) => ~Fires(rules[r], candidate, Original)

\* What was accepted is what the camera shows afterwards: no gate of the
\* read hides a setting that a repair has let through, and no word that was
\* written is refused, by a static descriptor's range or when it is read, or
\* means another value then.  Excepted are the settings a rule demands rather
\* than forbids, the lookups that give one word to two numbers, and the
\* decimals that do not scale to whole words.
Demanded == UNION {g.anchors : g \in {x \in gates : ~x.forbids}}
Exact(c) ==
    /\ c.kind = "scaled" => \A n \in {c.min, c.step} : (n * c.scale) % c.per = 0
    /\ c.kind = "lookup" =>
          \A v, u \in DOMAIN c.words :
              v # u => ToSet(c.words[v]) \cap ToSet(c.words[u]) = {}
RequestTakesEffect ==
    candidate # None =>
        LET shown == Transform(D, profile)
            kept == {f \in Fields(D) \ Demanded :
                        candidate[f] # None /\ Exact(D.codec[f])}
        IN  /\ phase = "ready" => \A f \in kept : shown[f] = candidate[f]
            /\ phase = "failed" => NextField \notin kept
            /\ Accepted => \A f \in Sent \cap kept \cap DOMAIN D.forms :
                  IsRange(D.forms[f]) => Admits(D.forms[f], Word(f))

-----------------------------------------------------------------------------
(* What the documentation promises and the code does not keep.             *)

\* "Imports require complete profiles exported for the connected camera": a
\* file that is the profile the camera just showed is complete, also where a
\* closed gate hides a setting.
ExportedProfileImports ==
    Accepted /\ importing /\ requested = profile => Whole
=============================================================================
