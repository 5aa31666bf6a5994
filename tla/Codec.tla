-------------------------------- MODULE Codec --------------------------------
(***************************************************************************)
(* Decoding and encoding the values of a block: lib/iodd/codec, and the    *)
(* one value blocks of parameters in nodes/iolink-param.js.                *)
(*                                                                         *)
(* An engineering value is an integer that counts halves, so One is 1 and  *)
(* an unscaled item has the gradient One and the offset 0: rounding is     *)
(* visible, the decimal places an IODD implies are exact.  A value a flow  *)
(* supplies is a record: a number (or its plain decimal text), true or     *)
(* false, a text, or the octets of a string.  A Time is a UInteger and a TimeSpan an Integer *)
(* of 64 bits; Float32 is left out.                                        *)
(***************************************************************************)
EXTENDS Bits, FiniteSetsExt

One == 2
Nul == {}
Space == {5}

Number(n) == [kind |-> "number", of |-> n]
Truth(bit) == [kind |-> "truth", of |-> bit]
Text(t) == [kind |-> "text", of |-> t]
Characters(octets) == [kind |-> "octets", of |-> octets]

\* Math.round((value - o) / g): halves go up, whatever the sign of g.
Round(a, b) == IF b > 0 THEN (2 * a + b) \div (2 * b) ELSE (-(2 * a) - b) \div (-(2 * b))

RemoveScale(item, n) == IF item.gradient = 0 THEN 0 ELSE Round(n - item.shift, item.gradient)

ApplyScale(item, raw) == raw * item.gradient + item.shift

IsScaled(item) == item.gradient # One \/ item.shift # 0

\* Two's complement is what \div does to a negative number.
ToBits(raw, length) == {k \in 0..(length - 1) : (raw \div 2^k) % 2 = 1}

Unsigned(bits) == MapThenSumSet(LAMBDA k : 2^k, bits)

\* Mutant: the sign bit counts like any other.
NoSign(bits, length) == Unsigned(bits)

ToSigned(bits, length) ==
    Unsigned(bits) - (IF length - 1 \in bits THEN 2^length ELSE 0)

Counts(item) ==
    IF item.type = "UInteger" THEN 0..(2^item.length - 1)
    ELSE (-(2^(item.length - 1)))..(2^(item.length - 1) - 1)

\* Any other type is refused.
Types == {"Boolean", "UInteger", "Integer", "String", "OctetString"}

IsNumeric(item) == item.type \in {"UInteger", "Integer"}
IsString(item) == item.type \in {"String", "OctetString"}

\* The text of an enum stands for its raw value, that of a Boolean for true or false.
ResolveEnum(item, v) ==
    IF v.kind = "text" /\ v.of \in DOMAIN item.values
    THEN IF item.type = "Boolean" THEN Truth(item.values[v.of])
         ELSE Number(One * item.values[v.of])
    ELSE v

\* The declared bounds, if any, are engineering values.
InRange(item, n) == (\A min \in item.min : n >= min) /\ (\A max \in item.max : n <= max)

\* A Boolean is true for true, 1 and nothing else; any text but an enum's is false.
\* A number loses its scale before it is compared, if the item has one.
IsTrue(item, v) ==
    \/ v.kind = "truth" /\ v.of = 1
    \/ v.kind = "number" /\ IF IsScaled(item) THEN RemoveScale(item, v.of) = 1 ELSE v.of = One

Width8(item) == item.length \div 8

EncodesItem(buf, item, v) ==
    /\ Fits(buf, item.offset, item.length)
    /\ v.kind = "number" => InRange(item, v.of)
    /\ IsNumeric(item) => v.kind = "number" /\ RemoveScale(item, v.of) \in Counts(item)
    /\ IsString(item) => /\ v.kind = "octets" /\ Len(v.of) <= Width8(item)
                         /\ Aligned(item.offset, item.length)

EncodeItem(buf, item, v) ==
    IF IsString(item) THEN WriteOctets(buf, item.offset, item.length, v.of)
    ELSE WriteBits(buf, item.offset, item.length,
           IF item.type = "Boolean" THEN IF IsTrue(item, v) THEN {0} ELSE {}
           ELSE ToBits(RemoveScale(item, v.of), item.length))

\* Trailing NULs go first, then trailing spaces.
Stripped(octets, blank) ==
    SubSeq(octets, 1, Max({0} \cup {i \in DOMAIN octets : octets[i] # blank}))

TrimString(octets) == Stripped(Stripped(octets, Nul), Space)

DecodeItem(buf, item) ==
    LET bits == ReadBits(buf, item.offset, item.length)
        octets == ReadOctets(buf, item.offset, item.length)
    IN  CASE item.type = "Boolean" -> Truth(IF 0 \in bits THEN 1 ELSE 0)
          [] item.type = "UInteger" -> Number(ApplyScale(item, Unsigned(bits)))
          [] item.type = "Integer" -> Number(ApplyScale(item, ToSigned(bits, item.length)))
          [] item.type = "String" -> Characters(TrimString(octets))
          [] item.type = "OctetString" -> Characters(octets)

\* Mutant: a padded reply is read from its end, as bit offsets are.
Trailing(buf, octets) == SubSeq(buf, Len(buf) - octets + 1, Len(buf))

\* Some masters pad a reply: the block is its leading octets.
Leading(buf, octets) == SubSeq(buf, 1, octets)

\* Two items of one key share what a flow sees of them, and the last one wins.
ItemOf(layout, key) ==
    layout.items[Max({i \in DOMAIN layout.items : layout.items[i].key = key})]

KeysOf(layout) == {layout.items[i].key : i \in DOMAIN layout.items}

Decodes(raw, layout) == Len(raw) >= layout.octets

DecodeLayout(raw, layout) ==
    [key \in KeysOf(layout) |->
        DecodeItem(Leading(raw, layout.octets), ItemOf(layout, key))]

Encodes(values, layout, base) ==
    /\ Len(base) >= layout.octets
    /\ DOMAIN values \subseteq KeysOf(layout)
    /\ \A key \in DOMAIN values :
         LET item == ItemOf(layout, key) IN
         EncodesItem(Leading(base, layout.octets), item, ResolveEnum(item, values[key]))

EncodeLayout(values, layout, base) ==
    FoldSet(LAMBDA key, buf : LET item == ItemOf(layout, key)
                              IN  EncodeItem(buf, item, ResolveEnum(item, values[key])),
            Leading(base, layout.octets), DOMAIN values)

\* A parameter's read or write carries the addressed item alone, from bit 0 on.
ItemFor(item) == [item EXCEPT !.offset = 0]

Zeros(n) == [i \in 1..n |-> Nul]

ParameterOctets(item) == (item.length + 7) \div 8

EncodesParameter(item, v) ==
    EncodesItem(Zeros(ParameterOctets(item)), ItemFor(item), ResolveEnum(item, v))

EncodeParameter(item, v) ==
    EncodeItem(Zeros(ParameterOctets(item)), ItemFor(item), ResolveEnum(item, v))

\* A string may come back shorter than it is declared.
DecodeParameter(item, buf) ==
    DecodeItem(buf, IF IsString(item) THEN [ItemFor(item) EXCEPT !.length = Width(buf)]
                    ELSE ItemFor(item))
=============================================================================
