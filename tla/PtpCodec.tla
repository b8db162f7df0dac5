------------------------------- MODULE PtpCodec -------------------------------
(***************************************************************************)
(* Datasets on the wire: the values a camera sends and the program writes, *)
(* property descriptors, device information and the head of the live RAW   *)
(* conversion profile.  All numbers are little endian.                     *)
(*                                                                         *)
(* A read answers a record [value, at]: what was read and how many bytes   *)
(* are used up.  A read that fails uses up more bytes than there are, so   *)
(* every read after it fails as well, and a dataset is decoded exactly     *)
(* when its last read ends at the last byte.                               *)
(***************************************************************************)
EXTENDS Integers, Sequences, SequencesExt

CONSTANTS
    Base,           \* values of a byte: 256 in the code
    MaxElements,    \* elements of an array that fit the allocation budget
    LoneSurrogates, \* code units that make a string no UTF-16
    AnyType,        \* CameraPreflightDataType::Any
    Malformed       \* the decoder refuses

ASSUME CodecAssumption ==
    /\ Base \in Nat /\ Base >= 8 /\ MaxElements \in Nat
    /\ LoneSurrogates \subseteq Nat

-----------------------------------------------------------------------------
(* Data types (DevicePropDataType).                                        *)

Scalar(signed, width) == [kind |-> "Scalar", signed |-> signed, width |-> width]
ArrayOf(type) == [kind |-> "Array", element |-> type]
StringType == [kind |-> "String"]

Widths == <<1, 2, 4, 8, 16>>
Byte == Scalar(FALSE, 1)
Word == Scalar(FALSE, 2)
Long == Scalar(FALSE, 4)

\* Codes 1 to 10 are the scalars, signed first; the arrays of them have the
\* second highest bit of the word set.
ScalarOf(code) == Scalar(code % 2 = 1, Widths[(code + 1) \div 2])
ArrayFlag == (Base * Base) \div 4
StringCode == Base * Base - 1

\* from_code and code
TypeOf(code) ==
    CASE code \in 1..10 -> ScalarOf(code)
      [] code - ArrayFlag \in 1..10 -> ArrayOf(ScalarOf(code - ArrayFlag))
      [] code = StringCode -> StringType
      [] OTHER -> Malformed
CodeOf(type) ==
    CASE type.kind = "Scalar" ->
            CHOOSE code \in 1..10 : ScalarOf(code) = type
      [] type.kind = "Array" ->
            ArrayFlag + CHOOSE code \in 1..10 : ScalarOf(code) = type.element
      [] type.kind = "String" -> StringCode

-----------------------------------------------------------------------------
(* Reading.                                                                *)

Got(value, at) == [value |-> value, at |-> at]
Fails(bytes) == Got(0, Len(bytes) + 1)
Left(bytes, at) == Len(bytes) - at

\* The widest number has sixteen bytes.
Power(n) ==
    LET power[i \in 0..16] == IF i = 0 THEN 1 ELSE Base * power[i - 1]
    IN power[n]

Unsigned(bytes, at, width) ==
    LET sum[i \in 0..width] ==
            IF i = 0 THEN 0 ELSE bytes[at + width + 1 - i] + Base * sum[i - 1]
    IN sum[width]

TwosComplement(n, width) ==
    IF n < Power(width) \div 2 THEN n ELSE n - Power(width)

ReadScalar(bytes, at, type) ==
    IF Left(bytes, at) < type.width THEN Fails(bytes)
    ELSE LET n == Unsigned(bytes, at, type.width)
         IN Got(IF type.signed THEN TwosComplement(n, type.width) ELSE n,
                at + type.width)

\* n elements of the same scalar type, once they are known to be there.
Elements(bytes, at, type, n) ==
    [i \in 1..n |-> ReadScalar(bytes, at + (i - 1) * type.width, type).value]

\* The length, the units and a null that counts; the empty string is a zero.
TerminatedUnits(bytes, length) ==
    LET units == Elements(bytes, length.at, Word, length.value - 1)
        end == length.at + 2 * length.value
    IN IF length.at <= Len(bytes) /\ length.value = 0 THEN Got(<<>>, length.at)
       ELSE IF /\ end <= Len(bytes)
               /\ ReadScalar(bytes, end - 2, Word).value = 0
               /\ ToSet(units) \cap LoneSurrogates = {}
            THEN Got(units, end) ELSE Fails(bytes)

ReadString(bytes, at) == TerminatedUnits(bytes, ReadScalar(bytes, at, Byte))

\* PtpExactString: no null, and the length is that of the units.
ExactUnits(bytes, length) ==
    LET end == length.at + 2 * length.value
        units == Elements(bytes, length.at, Word, length.value)
    IN IF end <= Len(bytes) /\ ToSet(units) \cap LoneSurrogates = {}
       THEN Got(units, end) ELSE Fails(bytes)

ReadExactString(bytes, at) == ExactUnits(bytes, ReadScalar(bytes, at, Byte))

\* The count is the camera's word: it is held against the budget and the
\* bytes that are really left before an element is read.
CountedElements(bytes, count, type) ==
    LET size == count.value * type.width
    IN IF count.value <= MaxElements /\ size <= Left(bytes, count.at)
       THEN Got(Elements(bytes, count.at, type, count.value), count.at + size)
       ELSE Fails(bytes)

ReadArray(bytes, at, type) ==
    CountedElements(bytes, ReadScalar(bytes, at, Long), type)

\* A dispatch over the data type (read_value).
ReadValue(bytes, at, type) ==
    CASE type.kind = "Scalar" -> ReadScalar(bytes, at, type)
      [] type.kind = "Array" -> ReadArray(bytes, at, type.element)
      [] type.kind = "String" -> ReadString(bytes, at)

\* One value after the other; the read of them all is a sequence.
Extend(read, next) == Got(Append(read.value, next.value), next.at)
ReadNext(bytes, read, type) == Extend(read, ReadValue(bytes, read.at, type))

ReadAll(bytes, at, types) ==
    LET read[i \in 0..Len(types)] ==
            IF i = 0 THEN Got(<<>>, at) ELSE ReadNext(bytes, read[i - 1], types[i])
    IN read[Len(types)]

\* A string takes at least one byte; an array cannot be enumerated.
LeastWidth(type) == IF type.kind = "Scalar" THEN type.width ELSE 1

CountedValues(bytes, count, type) ==
    IF /\ type.kind # "Array"
       /\ count.value <= MaxElements
       /\ count.value * LeastWidth(type) <= Left(bytes, count.at)
    THEN ReadAll(bytes, count.at, [i \in 1..count.value |-> type])
    ELSE Fails(bytes)

ReadEnumeration(bytes, at, type) ==
    CountedValues(bytes, ReadScalar(bytes, at, Word), type)

\* decode_exact: nothing is left over.
Exact(bytes, read) == IF read.at = Len(bytes) THEN read.value ELSE Malformed

-----------------------------------------------------------------------------
(* Writing.                                                                *)

WriteScalar(n, width) ==
    [i \in 1..width |-> ((n % Power(width)) \div Power(i - 1)) % Base]

WriteAll(values, width) ==
    FlattenSeq([i \in DOMAIN values |-> WriteScalar(values[i], width)])

WriteString(units) ==
    IF units = <<>> THEN <<0>>
    ELSE WriteScalar(Len(units) + 1, 1) \o WriteAll(Append(units, 0), 2)

WriteExactString(units) == WriteScalar(Len(units), 1) \o WriteAll(units, 2)

WriteArray(values, width) == WriteScalar(Len(values), 4) \o WriteAll(values, width)

\* encode
Encode(type, v) ==
    CASE type.kind = "Scalar" -> WriteScalar(v, type.width)
      [] type.kind = "Array" -> WriteArray(v, type.element.width)
      [] type.kind = "String" -> WriteString(v)

-----------------------------------------------------------------------------
(* The values that a dataset can carry.                                    *)

Scalars == {Scalar(signed, width) : signed \in BOOLEAN, width \in ToSet(Widths)}
Types == Scalars \cup {ArrayOf(type) : type \in Scalars} \cup {StringType}

\* The numbers of a scalar type.
Scale(type) ==
    IF type.signed
    THEN (Power(type.width) \div 2 - Power(type.width))..(Power(type.width) \div 2 - 1)
    ELSE 0..(Power(type.width) - 1)

\* What the count before a string or an array can count; a decoder need not
\* accept it.
IsText(units) == units \in Seq(Scale(Word)) /\ Len(units) < Base - 1
IsList(values, type) == values \in Seq(Scale(type)) /\ Len(values) < Power(4)

IsValue(type, v) ==
    \/ type.kind = "Scalar" /\ v \in Scale(type)
    \/ type.kind = "Array" /\ IsList(v, type.element)
    \/ type.kind = "String" /\ IsText(v)

IsForm(type, form) ==
    \/ form = [kind |-> "None"]
    \/ /\ form.kind = "Range"
       /\ form = [kind |-> "Range", minimum |-> form.minimum,
                  maximum |-> form.maximum, step |-> form.step]
       /\ \A v \in {form.minimum, form.maximum, form.step} : IsValue(type, v)
    \/ /\ form.kind = "Enumeration"
       /\ form = [kind |-> "Enumeration", values |-> form.values]
       /\ form.values \in Seq(ToSet(form.values)) /\ Len(form.values) < Power(2)
       /\ \A v \in ToSet(form.values) : IsValue(type, v)

IsDescriptor(d) ==
    /\ d.type \in Types /\ d.writable \in BOOLEAN
    /\ IsValue(d.type, d.default) /\ IsValue(d.type, d.current)
    /\ IsForm(d.type, d.form)

IsInfo(info) ==
    /\ IsList(info.operations, Word) /\ IsList(info.properties, Word)
    /\ IsText(info.model) /\ IsText(info.version) /\ IsText(info.serial)

-----------------------------------------------------------------------------
(* Property descriptors.                                                   *)

\* value_is_in_range: strings and arrays are in no range.
InRange(v, type, f) ==
    /\ type.kind = "Scalar"
    /\ f.step > 0
    /\ v \in f.minimum..f.maximum
    /\ (v - f.minimum) % f.step = 0

\* The form of a descriptor admits a value of its type.
Admits(form, type, v) ==
    \/ form.kind = "None"
    \/ form.kind = "Enumeration" /\ v \in ToSet(form.values)
    \/ form.kind = "Range" /\ InRange(v, type, form)

\* validate_declared_values
Consistent(d) ==
    /\ Admits(d.form, d.type, d.default)
    /\ Admits(d.form, d.type, d.current)

RangeOf(read) ==
    Got([kind |-> "Range", minimum |-> read.value[1], maximum |-> read.value[2],
         step |-> read.value[3]], read.at)
EnumerationOf(read) ==
    Got([kind |-> "Enumeration", values |-> read.value], read.at)

\* The form's kind is a byte; at is where it has been read.
FormAfter(bytes, kind, type) ==
    CASE kind.value = 0 -> Got([kind |-> "None"], kind.at)
      [] kind.value = 1 -> RangeOf(ReadAll(bytes, kind.at, <<type, type, type>>))
      [] kind.value = 2 -> EnumerationOf(ReadEnumeration(bytes, kind.at, type))
      [] OTHER -> Fails(bytes)

ReadForm(bytes, at, type) == FormAfter(bytes, ReadScalar(bytes, at, Byte), type)

\* The parts of a descriptor: code, type and access; the values; the form.
Assemble(head, type, values, form) ==
    [code |-> head[1], type |-> type, writable |-> head[3] = 1,
     default |-> values[1], current |-> values[2], form |-> form]

Accept(bytes, head, type, values, form) ==
    LET d == Assemble(head, type, values, form.value)
    IN IF head[3] \in {0, 1} /\ form.at = Len(bytes) /\ Consistent(d)
       THEN d ELSE Malformed

ReadBody(bytes, head, type, values) ==
    Accept(bytes, head, type, values.value, ReadForm(bytes, values.at, type))

ReadTyped(bytes, head, type) ==
    IF type = Malformed THEN Malformed
    ELSE ReadBody(bytes, head.value, type, ReadAll(bytes, head.at, <<type, type>>))

ReadHead(bytes, head) == ReadTyped(bytes, head, TypeOf(head.value[2]))

\* DevicePropDesc::decode.  Property codes and data types are words.
DecodeDescriptor(bytes) == ReadHead(bytes, ReadAll(bytes, 0, <<Word, Word, Byte>>))

\* from_static: a scalar or string whose live value suits the declared form.
\* The numbers of the form have to be numbers of the type (static_form).
Narrows(form, type) ==
    \/ form.kind = "None"
    \/ /\ type.kind = "Scalar"
       /\ form.kind = "Enumeration" =>
             \A v \in ToSet(form.values) : v >= 0 \/ type.signed
       /\ form.kind = "Range" =>
             \A v \in {form.minimum, form.maximum, form.step} : v >= 0 \/ type.signed

FromStatic(code, type, form, bytes) ==
    LET live == Exact(bytes, ReadValue(bytes, 0, type))
        d == [code |-> code, type |-> type, writable |-> TRUE,
              default |-> live, current |-> live, form |-> form]
    IN IF /\ type.kind \in {"Scalar", "String"} /\ Narrows(form, type)
          /\ live # Malformed /\ Consistent(d)
       THEN d ELSE Malformed

\* validate_serialized_candidate
AdmitsBytes(d, bytes) ==
    LET v == Exact(bytes, ReadValue(bytes, 0, d.type))
    IN d.writable /\ v # Malformed /\ Admits(d.form, d.type, v)

\* The shape of a value that is never written; an array has none to check.
HasShape(bytes, type) ==
    IF type = AnyType THEN bytes # <<>>
    ELSE CASE type.kind = "Scalar" -> Len(bytes) = type.width
           [] type.kind = "String" -> Exact(bytes, ReadString(bytes, 0)) # Malformed
           [] OTHER -> FALSE

-----------------------------------------------------------------------------
(* Device information, with the fields nothing decides on left out.        *)

InfoTypes == <<ArrayOf(Word), ArrayOf(Word), StringType, StringType, StringType>>

InfoFrom(fields) ==
    [operations |-> ToSet(fields[1]), properties |-> ToSet(fields[2]),
     model |-> fields[3], version |-> fields[4], serial |-> fields[5]]

InfoOfAll(bytes, read) ==
    IF read.at = Len(bytes) THEN InfoFrom(read.value) ELSE Malformed

DecodeInfo(bytes) == InfoOfAll(bytes, ReadAll(bytes, 0, InfoTypes))

EncodeInfo(info) ==
    WriteArray(info.operations, 2) \o WriteArray(info.properties, 2)
        \o WriteString(info.model) \o WriteString(info.version)
        \o WriteString(info.serial)

-----------------------------------------------------------------------------
(* The live RAW conversion profile (validate_raw_conversion_live_envelope).*)

PayloadSize(layout) == layout.padding + 4 * layout.slots

\* The number of fields, the profile code as text, then nothing but the
\* header padding and a word of four bytes for every field slot.
HeadFits(bytes, count, code, layout) ==
    /\ code.at <= Len(bytes)
    /\ count >= 0 /\ count = layout.count
    /\ code.value = layout.code
    /\ Left(bytes, code.at) = PayloadSize(layout)

CountFits(bytes, count, layout) ==
    HeadFits(bytes, count.value, ReadExactString(bytes, count.at), layout)

IsEnvelopeOf(bytes, layout) ==
    CountFits(bytes, ReadScalar(bytes, 0, Scalar(TRUE, 2)), layout)

\* What the head of a profile has room for.
IsLayout(layout) ==
    /\ layout.count \in Scale(Scalar(TRUE, 2)) /\ IsText(layout.code)
    /\ layout.padding \in Nat /\ layout.slots \in Nat

\* A camera whose conversion profile has this layout.
Envelope(layout) ==
    WriteScalar(layout.count, 2) \o WriteExactString(layout.code)
        \o [i \in 1..PayloadSize(layout) |-> 0]
=============================================================================
