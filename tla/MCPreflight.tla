----------------------------- MODULE MCPreflight -----------------------------
(* A small instance.  The body "xt5" has a verified profile of every         *)
(* operation for its new firmware and an unverified one for the old; the     *)
(* definition "xt3" has neither backup nor render manager.  A byte counts to *)
(* sixteen.                                                                  *)
EXTENDS Preflight, TLC

MCProducts == {"xt5", "xt3", "stranger"}
MCNames == <<"GetDeviceInfo", "GetObjectHandles", "GetObjectInfo", "GetObject",
             "GetDevicePropDesc", "GetDevicePropValue", "SetDevicePropValue",
             "SendObjectInfo", "SendObject", "FujiSendObjectInfo", "FujiSendObject",
             "DeleteObject", "slot", "setting", "rawProfile", "startRaw", "battery",
             "xt5", "xt3", "stranger">>
MCCodes == [name \in ToSet(MCNames) |-> CHOOSE i \in DOMAIN MCNames : MCNames[i] = name]

old == <<1>>
new == <<2>>
MCFirmwares == {old, new, <<3>>}
MCSerials == {<<>>, <<7>>, <<8>>}

Signed == Scalar(TRUE, 2)
Bytes == ArrayOf(Scalar(FALSE, 1))
Free == [kind |-> "None"]
Listed(values) == [kind |-> "Enumeration", values |-> values]
Stepped(minimum, maximum, step) ==
    [kind |-> "Range", minimum |-> minimum, maximum |-> maximum, step |-> step]
Is(type, writable, current, form) ==
    [type |-> type, writable |-> writable, default |-> current,
     current |-> current, form |-> form]

\* Among them descriptors that contradict themselves, or the pinned type.
MCDeclared == [
    slot |-> {Is(Word, w, c, f) : w \in BOOLEAN, c \in {1, 3}, f \in {Listed(<<1, 2>>)}}
        \cup {Is(Word, TRUE, 2, Stepped(0, 3, 2)), Is(Word, TRUE, 2, Stepped(0, 3, 0)),
              Is(Signed, TRUE, 1, Free)},
    setting |-> {Is(Signed, TRUE, -2, Stepped(-2, 2, 2)), Is(Signed, FALSE, 1, Free),
                 Is(Signed, TRUE, 1, Free), Is(Word, TRUE, 254, Free),
                 Is(Signed, TRUE, 4, Stepped(-2, 2, 2))},
    battery |-> {Is(StringType, FALSE, <<5>>, Listed(<<<<>>, <<5>>, <<1, 0>>>>)),
                 Is(StringType, FALSE, <<13>>, Free)},
    rawProfile |-> {Is(Bytes, TRUE, <<1, 2>>, Free), Is(Bytes, FALSE, <<>>, Free)},
    startRaw |-> {Is(Word, TRUE, 1, Listed(<<0, 1>>)), Is(Word, TRUE, 0, Free)}]

MCWriteTypes == [p \in {"slot", "setting", "rawProfile", "startRaw", "battery"} |->
    CASE p = "setting" -> Signed [] p = "rawProfile" -> Bytes
      [] p = "battery" -> StringType [] OTHER -> Word]
MCCandidates == [slot |-> 0..3, setting |-> {-2, -1, 0, 4}, battery |-> {},
                 rawProfile |-> {<<1>>}, startRaw |-> {0, 2}]

\* One complete alternate setting beside an incomplete one, two complete
\* ones, and one with two ways in.
Alternate(id, in, out) == [id |-> id, in |-> in, out |-> out]
MCSettings == {{Alternate(0, 1, 1), Alternate(1, 0, 1)},
               {Alternate(0, 1, 1), Alternate(1, 1, 1)},
               {Alternate(0, 2, 1)}}

\* The slot selector has a static descriptor to be written, a setting has one
\* only in the profile that writes it.
Need(type, writable, static) == [type |-> type, writable |-> writable, static |-> static]
Common == [battery |-> Need(StringType, FALSE, NoForm)]
Selector == [slot |-> Need(Word, TRUE, Listed(<<1, 2>>))]
NeedsOf(op) ==
    CASE op = "SimulationAccess" ->
            Common @@ Selector @@ [setting |-> Need(Signed, FALSE, NoForm)]
      [] op = "SimulationWrite" ->
            Common @@ Selector @@ [setting |-> Need(Signed, TRUE, Stepped(-2, 2, 2))]
      [] op = "RawConversion" ->
            Common @@ [startRaw |-> Need(Word, TRUE, NoForm),
                       rawProfile |-> Need(AnyType, TRUE, NoForm)]
      [] OTHER -> Common

CommandsOf(op) ==
    {"GetDeviceInfo"} \cup UNION {Sends[path] : path \in {x \in DOMAIN Allowed : op \in Allowed[x]}}

MCProfiles ==
    {[product |-> "xt5", operation |-> op, firmware |-> f,
      status |-> IF f = new THEN "Verified" ELSE "Unverified",
      modes |-> {6}, battery |-> 50, commands |-> CommandsOf(op),
      needs |-> NeedsOf(op)] : op \in Operations, f \in {old, new}} \cup
    {[product |-> "xt3", operation |-> op, firmware |-> new, status |-> "Verified",
      modes |-> {5}, battery |-> 0, commands |-> CommandsOf(op),
      needs |-> NeedsOf(op)] : op \in {"SimulationWrite", "RawRecoveryCleanup"}}

MCManagers == [d \in MCProducts \cup {NoProduct} |->
    CASE d = "xt5" -> {"backup", "simulation", "render"}
      [] d = "xt3" -> {"simulation"} [] OTHER -> {}]

MCRawEvidence == [f \in {old, new} |->
    IF f = new THEN "WriteVerified" ELSE "ReadVerified"]
MCLayout == [count |-> 2, code |-> <<15>>, padding |-> 1, slots |-> 1]
MCLayouts == {MCLayout, [MCLayout EXCEPT !.count = 3]}
=============================================================================
