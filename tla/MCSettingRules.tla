---------------------------- MODULE MCSettingRules ----------------------------
(* The shipped rules and transformations, cut along the settings they share  *)
(* and with the values they tell apart, and rules no camera has yet.         *)
EXTENDS SettingRules, Predicates

MCValues == -20 .. 40
\* Numbers for the variants of enums.
provia == 1
velvia == 2
mono == 6
acros == 12
reala == 20
as_shot == 1
auto == 2
temperature == 3
hdr100 == 1
hdr200 == 2
hdr800 == 8
hdr800_plus == 16
off == 0
plus == 3

Dnf(p) == Disjuncts(p)
On(r) == Leaf(Present(r))
Is(r, v) == Leaf(Equals(r, v))
OneOf(r, vs, first) == Leaf(In(r, vs, first))
Set(r, v) == [ref |-> r, value |-> v]
When(p, effects) == [when |-> Dnf(p), single |-> p.is = "leaf", apply |-> effects,
                     one_way |-> FALSE]
OneWay(t) == [t EXCEPT !.one_way = TRUE]

\* gating: the rules written in the shape that the documentation promises to
\* gate the read.
Define(fields, words, user, render, ts, written, gating) ==
    [fields |-> fields, codec |-> [f \in ToSet(fields) |-> Opaque],
     pins |-> <<>>, forms |-> <<>>, verified |-> FALSE, code |-> 1,
     frames |-> {[count |-> Len(fields), code |-> 1, words |-> Len(fields)]},
     words |-> words, user |-> user, render |-> render,
     transformations |-> ts, written |-> written, gating |-> gating,
     rules |-> [r \in DOMAIN written |-> Dnf(written[r])]]
Simulation(fields, words, written, gating) ==
    Define(fields, words, words, FALSE, <<>>, written, gating)

Monochrome ==
    AllOf(<<AnyOf(<<On("temperature"), On("tint")>>),
            Not(OneOf("film", {mono, acros}, mono))>>)
TemperatureMode ==
    AllOf(<<On("kelvin"), Not(Is("wb", temperature))>>)

FilmRules == Simulation(<<"temperature", "film", "tint">>,
    [film |-> {provia, mono, acros}, temperature |-> {0, 1},
     tint |-> {0, 1}],
    <<Monochrome>>, {1})
WhiteBalanceRules == Simulation(<<"wb", "shift", "kelvin">>,
    [wb |-> {auto, temperature}, shift |-> {0, 1}, kelvin |-> {0, 1}],
    <<TemperatureMode>>, {1})
\* dynamic_range is declared before the setting that gates it.
DynamicRangeRules == Simulation(<<"dr", "drp">>,
    [dr |-> {hdr100, hdr200}, drp |-> {off, plus}],
    <<AllOf(<<On("dr"), Not(Is("drp", off))>>)>>, {1})

RenderWhiteBalance ==
    LET words == [as_shot_flag |-> {1, 2},
                  wb |-> {as_shot, auto, temperature},
                  shift |-> {0, 1}, kelvin |-> {0, 1}]
    IN Define(<<"as_shot_flag", "wb", "shift", "kelvin">>, words,
        [words EXCEPT !.as_shot_flag = {}], TRUE,
        <<When(Is("wb", as_shot), <<Set("as_shot_flag", 1)>>),
          When(Not(Is("wb", as_shot)), <<Set("as_shot_flag", 2)>>)>>,
        <<TemperatureMode,
          AllOf(<<Is("wb", as_shot), AnyOf(<<On("shift"), On("kelvin")>>)>>)>>,
        {1, 2})
Exceeds(shot, range) ==
    AllOf(<<Leaf(OfOriginal(Equals("dr", shot))),
            Not(OneOf("dr", range, hdr100))>>)
RenderDynamicRange ==
    LET words == [dr |-> {hdr100, hdr200, hdr800}, drp |-> {off, plus}]
    IN Define(<<"dr", "drp">>, words,
        [words EXCEPT !.dr = @ \cup {hdr800_plus}], TRUE,
        <<When(Is("dr", hdr800_plus), <<Set("dr", hdr800), Set("drp", plus)>>)>>,
        <<AnyOf(<<Exceeds(hdr100, {hdr100}),
                  Exceeds(hdr200, {hdr100, hdr200}),
                  Exceeds(hdr800, {hdr100, hdr200, hdr800})>>)>>, {})

\* A setting that a mode demands; repairs that break one another; a gate
\* written as a negation; disjuncts of one rule that break one another; a
\* transformation that can be inverted and one that clears; conditions that
\* say the same in other words, which is not inverted, or twice, which is not
\* found in a rule that says it once; gates in a ring, and on their own anchor;
\* an inverse declared one-way.
TwoWords(fields) == [f \in fields |-> {0, 1}]
Synthetic(fields, written, gating) ==
    Simulation(fields, TwoWords(ToSet(fields)), written, gating)
Demanding == Synthetic(<<"level", "mode">>,
    <<AllOf(<<Is("mode", 1), Not(On("level"))>>)>>, {1})
Chained == Synthetic(<<"a", "b", "c", "d">>,
    <<AllOf(<<On("a"), Not(Is("b", 1))>>),
      AllOf(<<On("c"), Is("b", 1)>>),
      AllOf(<<On("d"), Not(OneOf("c", {1}, 1))>>)>>, {1, 2, 3})
Negative == Synthetic(<<"a", "b", "c">>,
    <<Not(AnyOf(<<Not(On("a")), AllOf(<<Is("b", 1), Is("c", 0)>>)>>))>>, {1})
Dependent == Synthetic(<<"x", "y">>,
    <<AnyOf(<<Is("x", 1), AllOf(<<Is("y", 1), Not(Is("x", 1))>>)>>)>>, {})
Aliased == Define(<<"flag", "mode", "extra">>, TwoWords({"flag", "mode", "extra"}),
    [TwoWords({"flag", "mode", "extra"}) EXCEPT !.flag = {}], TRUE,
    <<When(Is("mode", 1), <<Set("flag", 1), Set("mode", None)>>),
      When(Is("extra", 1), <<Set("flag", 0)>>)>>,
    <<AllOf(<<On("extra"), Is("mode", 1)>>)>>, {})
Reworded == Define(<<"flag", "mode">>, TwoWords({"flag", "mode"}),
    [TwoWords({"flag", "mode"}) EXCEPT !.flag = {}], TRUE,
    <<OneWay(When(OneOf("mode", {1}, 1), <<Set("flag", 1)>>)),
      When(AllOf(<<Is("mode", 0), Is("mode", 0)>>), <<Set("flag", 0)>>)>>,
    <<AllOf(<<On("flag"), Is("mode", 0)>>)>>, {})
Ring == Synthetic(<<"a", "b">>,
    <<AllOf(<<On("a"), Is("b", 1)>>), AllOf(<<On("b"), Is("a", 1)>>)>>, {})
OwnAnchor == Synthetic(<<"a">>, <<AllOf(<<On("a"), Is("a", 1)>>)>>, {})
NotOneWay == [Aliased EXCEPT !.transformations[2] = OneWay(@)]

-----------------------------------------------------------------------------
(* Options that are not opaque.  Every camera holds, among others, a word  *)
(* that means nothing.                                                     *)

Coded(d, codec, user) == [d EXCEPT !.codec = codec, !.user = user]
Layer(allowed, words) == [allowed |-> allowed, words |-> words]
\* The firmware has reala_ace and another word for acros, and not velvia.
Film == [kind |-> "enum",
         keys |-> (provia :> {1, 201} @@ velvia :> {2} @@ acros :> {12, 212} @@
                   reala :> {20}),
         words |-> (provia :> <<1>> @@ velvia :> <<2>> @@ acros :> <<12>> @@
                    reala :> <<20>>),
         layers |-> <<Layer({provia, acros}, provia :> <<1>> @@ acros :> <<12>>),
                      Layer(Invalid, provia :> <<1, 101>> @@ reala :> <<20>>),
                      Layer({provia, acros, reala}, acros :> <<13>>)>>]
Tone == [kind |-> "scaled", float |-> FALSE, per |-> 1,
         min |-> -2, max |-> 4, step |-> 1, scale |-> 10]
\* Half stops.
Exposure == [Tone EXCEPT !.float = TRUE, !.per = 2, !.min = -4, !.max = 8]
Noise == [kind |-> "lookup",
          words |-> (-1 :> <<3, 4>> @@ 0 :> <<0>> @@ 2 :> <<1>>)]
Name == [kind |-> "text", least |-> 0, most |-> 2]
FilmTone == [film |-> Film, tone |-> Tone]
WireForm(least, greatest, step) ==
    [minimum |-> least, maximum |-> greatest, step |-> step]

\* The second rule asks for a film that the firmware does not have.
FilmTones(render) ==
    Coded([Define(<<"tone", "film">>,
               [film |-> {1, 101, 12, 13, 99}, tone |-> {0, 40, 45}], <<>>, render,
               <<>>,
               <<AllOf(<<On("tone"), Not(OneOf("film", {acros, velvia}, acros))>>),
                 AllOf(<<Is("tone", 40), Not(Is("film", velvia))>>)>>, {1})
           EXCEPT !.verified = TRUE,
                  !.pins = [film |-> "uint16", tone |-> "int16"],
                  !.forms = [film |-> [values |-> {1, 101, 13, 20}],
                             tone |-> WireForm(-20, 40, 10)],
                  !.frames = @ \cup
                      IF render THEN {[count |-> 2, code |-> 2, words |-> 2],
                                      [count |-> 2, code |-> 1, words |-> 3]}
                                ELSE {}],
        FilmTone, [film |-> {201, 2, 12, 20, 7}, tone |-> {-3, -2, 4}])
Numbers == Coded([Synthetic(<<"exposure", "noise", "name">>, <<>>, {}) EXCEPT
        !.pins = [exposure |-> "int16", noise |-> "uint16", name |-> "string"],
        !.forms = [exposure |-> WireForm(-20, 40, 5), noise |-> [values |-> {0, 3}]]],
    [exposure |-> Exposure, noise |-> Noise, name |-> Name],
    [exposure |-> {-4, 1, 9}, noise |-> {-2, -1, 1, 2}, name |-> {2, 3}])
NumberWords ==
    [Numbers EXCEPT !.words = [exposure |-> {-20, 5, 7}, noise |-> {4, 1, 9},
                               name |-> {0}]]
\* What the build lets through: thirds that truncate to other words than they
\* round to, and a word of two numbers.
Troubled == Coded(Synthetic(<<"third", "noise">>, <<>>, {}),
    [third |-> [Exposure EXCEPT !.per = 3, !.min = -2, !.max = 2],
     noise |-> [Noise EXCEPT !.words = 0 :> <<0, 1>> @@ 2 :> <<1>>]],
    [third |-> {-2, 1}, noise |-> {0, 2}])
\* And what it does not: a word of two variants, words of no one type, an
\* input of two variants, a pinned type or a range that is not the option's,
\* a firmware that does not say what it has.
TwoOwners == [FilmTones(FALSE) EXCEPT !.codec.film.layers[3].words = acros :> <<20>>]
NoType == [Troubled EXCEPT !.codec.noise.words = 0 :> <<-1>> @@ 2 :> <<40000>>]
TwoMeanings == [FilmTones(FALSE) EXCEPT !.codec.film.keys[reala] = {20, 2}]
OtherPin == [FilmTones(FALSE) EXCEPT !.pins.tone = "uint16"]
OtherRange == [FilmTones(FALSE) EXCEPT !.forms.tone = WireForm(-2, 4, 1)]
Unsaid == [FilmTones(FALSE) EXCEPT !.codec.film.layers[3].allowed = {}]

MCDefinitions ==
    <<FilmRules, WhiteBalanceRules, DynamicRangeRules, RenderWhiteBalance,
      RenderDynamicRange, Demanding, Chained, Negative, Dependent, Aliased,
      Reworded, Ring, OwnAnchor, NotOneWay, FilmTones(FALSE), FilmTones(TRUE), NumberWords, Troubled,
      TwoOwners, NoType, TwoMeanings, OtherPin, OtherRange, Unsaid>>
\* The dual effect the documentation promises: a setting whose presence an
\* error rule forbids, or whose absence it does, is only read when the rest
\* of the rule, as it is written, does not hold.  Excepted is a camera whose
\* words contradict one another.
ReadBreaksNoRule ==
    LET held == [f \in Fields(D) |-> Decode(D.codec[f], camera[f])]
    IN  phase = "ready" /\ Transform(D, held) = held =>
            \A r \in D.gating : ~Meaning(D.written[r], profile, profile)
=============================================================================
