----------------------------- MODULE OptionCodec -----------------------------
(***************************************************************************)
(* How one setting travels: from what the user gives to a value of its     *)
(* option, from there to a word on the wire, and back.  A codec is what    *)
(* the definition compiler makes of an option:                             *)
(*                                                                         *)
(*   scaled  [float, per, min, max, step, scale]: the logical bounds are   *)
(*           counted in units of 1/per (1 for an integer option); a value  *)
(*           is the scaled word itself                                     *)
(*   lookup  [words]: the words of every logical number, the first the     *)
(*           canonical one; a value is the logical number                  *)
(*   enum    [keys, words, layers]: the inputs that mean each variant (its *)
(*           id, name and aliases, normalized), its words in the option,   *)
(*           and what the camera's generation, model and firmware say of   *)
(*           them, each [allowed, words]                                   *)
(*   text    [least, most]: a text is known by its length                  *)
(*   opaque: a field of a RAW profile that no option describes             *)
(*                                                                         *)
(* A word is the integer that the option's own 16-bit type reads.          *)
(***************************************************************************)
EXTENDS Integers, Sequences, FiniteSetsExt, SequencesExt

CONSTANT Invalid   \* what cannot be parsed, decoded or encoded, or is not said

\* One 16-bit type for all the words: i16 if one is negative, else u16.
Fits(n, signed) == n \in IF signed THEN -32768 .. 32767 ELSE 0 .. 65535
Representable(least, greatest) ==
    Fits(least, least < 0) /\ Fits(greatest, least < 0)

\* A product in units of 1/per as a word: "as i32" truncates, and the writer
\* rounds half away from zero.
Truncated(n, per) == IF n < 0 THEN -((-n) \div per) ELSE n \div per
Rounded(n, per) ==
    IF n < 0 THEN -((2 * (-n) + per) \div (2 * per))
             ELSE (2 * n + per) \div (2 * per)

-----------------------------------------------------------------------------
(* Scaled numbers.                                                         *)

RawMin(c) == Truncated(c.min * c.scale, c.per)
RawMax(c) == Truncated(c.max * c.scale, c.per)
RawStep(c) == Truncated(c.step * c.scale, c.per)
\* The bounds that decide the type: an integer option's are not scaled.
Least(c) == IF c.float THEN Rounded(c.min * c.scale, c.per) ELSE c.min
Greatest(c) == IF c.float THEN Rounded(c.max * c.scale, c.per) ELSE c.max
Signed(c) == Least(c) < 0
ScaledBuildable(c) ==
    /\ Representable(Least(c), Greatest(c))
    /\ RawStep(c) > 0
    /\ \A raw \in {RawMin(c), RawMax(c), RawStep(c)} : Fits(raw, Signed(c))

Scaled(c, n) == Rounded(n * c.scale, c.per)
ScaledParse(c, n) ==
    IF n \in c.min .. c.max /\ (n - c.min) % c.step = 0 /\ Fits(Scaled(c, n), Signed(c))
    THEN Scaled(c, n) ELSE Invalid
\* from_raw: the range and the step are checked on the word.
Aligned(c, word) ==
    word \in RawMin(c) .. RawMax(c) /\ (word - RawMin(c)) % RawStep(c) = 0
ScaledDecode(c, word) == IF Aligned(c, word) THEN word ELSE Invalid

-----------------------------------------------------------------------------
(* Lookups.                                                                *)

AllWords(words) == UNION {ToSet(words[v]) : v \in DOMAIN words}
\* Every value has a word, and no two the same canonical one.
WordsBuildable(words) ==
    /\ DOMAIN words # {}
    /\ \A v \in DOMAIN words : words[v] # <<>>
    /\ \A v, u \in DOMAIN words : words[v][1] = words[u][1] => v = u
    /\ Representable(Min(AllWords(words)), Max(AllWords(words)))

Distance(a, b) == IF a < b THEN b - a ELSE a - b
Nearest(c, n) ==
    CHOOSE v \in DOMAIN c.words : \A u \in DOMAIN c.words :
        \/ Distance(v, n) < Distance(u, n)
        \/ Distance(v, n) = Distance(u, n) /\ v =< u
\* A text within the numbers is taken to the nearest one, a JSON value is
\* matched exactly.
LookupText(c, n) ==
    IF \E least, greatest \in DOMAIN c.words : n \in least .. greatest
    THEN Nearest(c, n) ELSE Invalid
LookupNumber(c, n) == IF n \in DOMAIN c.words THEN n ELSE Invalid
LookupParse(c, n, form) ==
    IF form = "text" THEN LookupText(c, n) ELSE LookupNumber(c, n)
LookupEncode(c, v) == c.words[v][1]
\* The first arm that has the word, in the order of the numbers.
LookupDecode(c, word) ==
    LET hits == {v \in DOMAIN c.words : word \in ToSet(c.words[v])}
    IN  IF hits = {} THEN Invalid ELSE Min(hits)

-----------------------------------------------------------------------------
(* Enums under a firmware's capabilities: the last layer that says         *)
(* something of a value, or of what is allowed, counts.                    *)

Allowed(c) ==
    LET saying == {i \in DOMAIN c.layers : c.layers[i].allowed # Invalid}
    IN  IF saying = {} THEN {} ELSE c.layers[Max(saying)].allowed
FirmwareWords(c, v) ==
    LET saying == {i \in DOMAIN c.layers : v \in DOMAIN c.layers[i].words}
    IN  IF saying = {} THEN <<>> ELSE c.layers[Max(saying)].words[v]
\* validate_profile: an allowed value has words, and no word two owners.
CapabilitiesBuildable(c) ==
    \A v \in Allowed(c) :
        /\ FirmwareWords(c, v) # <<>>
        /\ IsInjective(FirmwareWords(c, v))
        /\ \A u \in Allowed(c) \ {v} :
              ToSet(FirmwareWords(c, v)) \cap ToSet(FirmwareWords(c, u)) = {}
\* parse_keys: no input means two variants.
KeysBuildable(c) ==
    \A v, u \in DOMAIN c.keys : v # u => c.keys[v] \cap c.keys[u] = {}
EnumBuildable(c) ==
    /\ WordsBuildable(c.words)
    /\ DOMAIN c.keys = DOMAIN c.words /\ KeysBuildable(c)
    /\ CapabilitiesBuildable(c)
EnumParse(c, input) ==
    LET hits == {v \in DOMAIN c.keys : input \in c.keys[v]}
    IN  IF hits = {} THEN Invalid ELSE CHOOSE v \in hits : TRUE
EnumSigned(c) == \E word \in AllWords(c.words) : word < 0

\* A bug: the write takes the option's own words.
EncodeGlobal(c, v, wide) == IF v \in Allowed(c) THEN c.words[v][1] ELSE Invalid
\* write_wire_value and read_logical_value, under the firmware's capabilities.
WriteWord(c, v) ==
    IF v \in Allowed(c) /\ FirmwareWords(c, v) # <<>>
    THEN FirmwareWords(c, v)[1] ELSE Invalid
ReadValue(c, word) ==
    LET hits == {v \in Allowed(c) : word \in ToSet(FirmwareWords(c, v))}
    IN  IF hits = {} THEN Invalid ELSE CHOOSE v \in hits : TRUE
\* A RAW profile's field is 32 bits wide and takes every word.
EnumEncode(c, v, wide) ==
    IF WriteWord(c, v) # Invalid /\ (wide \/ Fits(WriteWord(c, v), EnumSigned(c)))
    THEN WriteWord(c, v) ELSE Invalid
\* A value that only the capabilities know is none of the option's.
EnumDecode(c, word) ==
    IF ReadValue(c, word) \in DOMAIN c.words THEN ReadValue(c, word) ELSE Invalid

-----------------------------------------------------------------------------
(* Every option.                                                           *)

Opaque == [kind |-> "opaque"]
LongestText == 254   \* UTF-16 units of a PTP string without its null

Buildable(c) ==
    CASE c.kind = "scaled" -> ScaledBuildable(c)
      [] c.kind = "lookup" -> WordsBuildable(c.words)
      [] c.kind = "enum" -> EnumBuildable(c)
      [] OTHER -> TRUE

\* What the user may give: the value, or Invalid.
Parse(c, input, form) ==
    CASE c.kind = "scaled" -> ScaledParse(c, input)
      [] c.kind = "lookup" -> LookupParse(c, input, form)
      [] c.kind = "enum" -> EnumParse(c, input)
      [] c.kind = "text" -> IF input \in c.least .. c.most THEN input ELSE Invalid
      [] OTHER -> input
Permitted(c, v) == c.kind = "enum" => v \in Allowed(c)
Encode(c, v, wide) ==
    CASE c.kind = "lookup" -> LookupEncode(c, v)
      [] c.kind = "enum" -> EnumEncode(c, v, wide)
      [] c.kind = "text" -> IF v =< LongestText THEN v ELSE Invalid
      [] OTHER -> v
Decode(c, word) ==
    CASE c.kind = "scaled" -> ScaledDecode(c, word)
      [] c.kind = "lookup" -> LookupDecode(c, word)
      [] c.kind = "enum" -> EnumDecode(c, word)
      [] OTHER -> word

-----------------------------------------------------------------------------
(* What else the build holds against an option: the data type it pins, and *)
(* the form of the static descriptor that stands in for the camera's own,  *)
(* both worked out from the option a second time.  A form is a range, an   *)
(* enumeration or Invalid, which accepts every word of the type.           *)

OptionScaled(c, n) == IF c.float THEN Rounded(n * c.scale, c.per) ELSE n * c.scale
WordsOf(c) == CASE c.kind = "scaled" -> {OptionScaled(c, c.min), OptionScaled(c, c.max)}
                [] OTHER -> AllWords(c.words)
WireType(c) == CASE c.kind = "text" -> "string"
                 [] Min(WordsOf(c)) < 0 -> "int16"
                 [] OTHER -> "uint16"
WireRange(c) == [minimum |-> OptionScaled(c, c.min),
                 maximum |-> OptionScaled(c, c.max),
                 step |-> OptionScaled(c, c.step)]

IsRange(form) == form # Invalid /\ "step" \in DOMAIN form
FormBuildable(form, type) ==
    /\ form # Invalid => type # "string"
    /\ IsRange(form) => form.step > 0 /\ form.minimum =< form.maximum
    /\ form # Invalid /\ ~IsRange(form) => form.values # {}
PinBuildable(c, pin) ==
    /\ c.kind # "text" => Representable(Min(WordsOf(c)), Max(WordsOf(c)))
    /\ pin = WireType(c)
StaticBuildable(c, form) ==
    /\ FormBuildable(form, WireType(c))
    /\ IsRange(form) => c.kind = "scaled" /\ form = WireRange(c)

\* validate_candidate: what the descriptor lets through to the camera.
Admits(form, word) ==
    CASE form = Invalid -> TRUE
      [] IsRange(form) -> /\ word \in form.minimum .. form.maximum
                          /\ (word - form.minimum) % form.step = 0
      [] OTHER -> word \in form.values
=============================================================================
