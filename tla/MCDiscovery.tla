----------------------------- MODULE MCDiscovery -----------------------------
(* A small instance: two advertised properties, the first of which answers   *)
(* with every shape of value.  A byte counts to sixteen.                     *)
EXTENDS Discovery, TLC

Text == Codec!StringType
Word == Codec!Word
WordList == Codec!ArrayOf(Word)

\* The empty value, a byte that is also the empty string, numbers, texts, a
\* text without its end, text that is no UTF-16, and sixteen bytes.
Values == {<<>>, <<0>>, <<6, 0>>, <<1, 0, 0>>, <<2, 5, 0, 0, 0>>, <<1, 0, 5>>,
           <<2, 13, 0, 0, 0>>, <<1, 0, 0, 0>>, [i \in 1..16 |-> 0]}

MCLayout == [count |-> 2, code |-> <<15>>, padding |-> 1, slots |-> 1]
Captures == {Codec!Envelope(MCLayout), Codec!Envelope([MCLayout EXCEPT !.count = 3]),
             <<2>>, <<2, 0, 9, 15, 0>>, <<2, 0, 1, 13, 0>>, [i \in 1..13 |-> 1]}

MCAdvertised == <<"name", "mode">>
MCSettingReads == <<"name">>

Reads == UNION {ToSet(Plan[c]) : c \in DOMAIN Plan}
MCAnswers == [read \in Reads |->
    CASE read = <<"value", "name">> -> Values
      [] read = <<"value", "rawProfile">> -> Captures
      [] read = <<"descriptor", "rawProfile">> -> {"own", "other", "long", Unavailable}
      [] read[1] = "descriptor" -> {"own", "other", Unavailable}
      [] OTHER -> {<<6, 0>>}]

Pin(types) == {[name |-> type] : type \in types}
MCPinSets == {{}, Pin({Text}), Pin({Word}), Pin({Codec!Byte, AnyType}),
              Pin({WordList}), Pin({Text, Word}),
              {[name |-> Text, mode |-> Word], [mode |-> Text]}}
=============================================================================
