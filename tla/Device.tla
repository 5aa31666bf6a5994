------------------------------- MODULE Device -------------------------------
(***************************************************************************)
(* A device from its IODD to the block it is sent: lib/iodd/device.js and  *)
(* lib/iodd/parse/processData.js, with the keys, the scalings and the      *)
(* codec they use.                                                         *)
(*                                                                         *)
(* A file declares its menus and one or more variants of its process data. *)
(* Their layouts do not depend on one another, so only that of the variant *)
(* a flow selects is built, item by item.  Then the flow writes some of    *)
(* its values at a time, on the block it has read or on none.              *)
(***************************************************************************)
EXTENDS Codec, KeyNaming, Display, TLC

CONSTANTS
    Files,      \* [display, variants]
    Supplied,   \* the conditions a flow may supply: variable -> value
    PathWord,   \* "subindex" or "element", which name an item that has no name
    Numbers, Texts, Strings,    \* the values a flow may supply
    Misspelt,   \* a key that no layout has
    Paddings,   \* what a master may append to a block
    NoVariant, Anything

\* A reference to a menu has one condition or none.
ASSUME MenusAssumption ==
    /\ IsFiniteSet(Menus)
    /\ \A f \in Files :
         /\ f.display.roots \subseteq Menus
         /\ \A r \in f.display.refs :
              /\ r.from \in Menus /\ r.to \in Menus
              /\ r.when # <<>> => r.when = <<r.when[1]>>
         /\ IsFiniteSet(f.display.shown) /\ IsFiniteSet(f.display.direct)
         /\ \A s \in f.display.shown : s.menu \in Menus

VARIABLES
    file, variant,
    call,       \* the conditions in force when the variant was selected, unless it was named
    items,      \* its items built so far
    block,      \* the octets last sent, none before the first
    held,       \* per key, what the block was last asked to say
    rest        \* the bits of the block that belong to no item

deviceVars == <<file, variant, call, items, block, held, rest>>
vars == <<deviceVars, displayVars, used>>

\* A variable that no condition of the file names makes no difference.
Conditions(f) ==
    LET whens == {r.when : r \in f.display.refs} \cup {v.when : v \in f.variants}
        named == {w[1].variable : w \in whens \ {<<>>}}
    IN  {c \in Supplied : DOMAIN c \subseteq named}

Init ==
    /\ file \in Files
    /\ \E supplied \in Conditions(file) : DisplayInit(file.display, supplied)
    /\ KeyNamingInit
    /\ variant = NoVariant
    /\ call = <<>>
    /\ items = <<>>
    /\ block = <<>>
    /\ held = <<>>
    /\ rest = {}

Parse == (Walk \/ Unreached) /\ UNCHANGED <<deviceVars, used>>

\* Mutant: the first whose condition is met.
FirstMatch(v, conditions) == Holds(v.when, conditions)

\* What the call supplies takes precedence over what was supplied to the parser.
Selects(v, conditions) ==
    \/ file.variants = {v}
    \/ {w \in file.variants : w.when # <<>> /\ Holds(w.when, conditions)} = {v}

SelectVariant ==
    /\ walked
    /\ variant = NoVariant
    /\ \E opts \in Conditions(file), v \in file.variants :
         /\ Selects(v, opts @@ given)
         /\ variant' = v
         /\ call' = opts @@ given
    /\ UNCHANGED <<file, items, block, held, rest, displayVars, used>>

\* A flow may also name the variant.
NameVariant ==
    /\ walked
    /\ variant = NoVariant
    /\ variant' \in file.variants
    /\ call' = NoVariant
    /\ UNCHANGED <<file, items, block, held, rest, displayVars, used>>

\* Element 0 of an array is at its most significant end.
PartsOf(datatype) ==
    CASE datatype.type = "Record" -> datatype.parts
      [] datatype.type = "Array" ->
           {[subindex |-> i, offset |-> (datatype.count - i) * datatype.item.length,
             name |-> [datatype.name EXCEPT !.numbers = Append(@, i - 1)],
             item |-> datatype.item] : i \in 1..datatype.count}
      [] OTHER -> {[subindex |-> 0, offset |-> 0, name |-> datatype.name,
                    item |-> datatype.item]}

\* A record's declared length counts, and where none is declared its last bit.
BitLength(datatype) ==
    IF datatype.bits # 0 THEN datatype.bits
    ELSE Max({p.offset + p.item.length : p \in PartsOf(datatype)})

OctetLength(datatype) == (BitLength(datatype) + 7) \div 8

\* Bit offsets and lengths are not negative, strings and padding are octets.
ASSUME LayoutsAssumption ==
    /\ \A f \in Files : \A v \in f.variants :
         /\ OctetLength(v.datatype) \in Nat
         /\ \A p \in PartsOf(v.datatype) : p.offset \in Nat /\ p.item.length \in Nat
    /\ Strings \cup Paddings \subseteq Seq(Octets)

\* The fields of a valid file lie inside the block and apart from one another, its
\* strings on whole octets, and no gradient is 0; the code takes that for granted.
ASSUME FieldsAssumption ==
    /\ \A f \in Files :
         /\ \A s \in f.display.shown \cup f.display.direct :
              s.scaling \in {Raw, Bare} \/ (s.scaling[1] \in Int \ {0} /\ s.scaling[2] \in Int)
         /\ \A v \in f.variants : \A p \in PartsOf(v.datatype) :
              /\ p.item.type \in Types
              /\ p.item.length > 0
              /\ p.offset + p.item.length <= 8 * OctetLength(v.datatype)
              /\ IsString(p.item) => Aligned(p.offset, p.item.length)
              /\ \A text \in DOMAIN p.item.values : p.item.values[text] \in Int
              /\ \A q \in PartsOf(v.datatype) \ {p} :
                   \/ p.offset + p.item.length <= q.offset
                   \/ q.offset + q.item.length <= p.offset
    /\ Numbers \subseteq Int

Fallback(subindex) == Key(PathWord, <<subindex>>)

Layout == [items |-> items, octets |-> OctetLength(variant.datatype)]

Pending ==
    {p \in PartsOf(variant.datatype) :
        \A i \in DOMAIN items : items[i].subindex # p.subindex}

\* A declared range is in raw counts and is scaled like the values.
ScaledRange(gradient, shift, bounds) == {b * gradient + shift : b \in bounds}

ItemFrom(part, key, scaling) ==
    LET gradient == IF scaling = Raw THEN One ELSE scaling[1]
        shift == IF scaling = Raw THEN 0 ELSE scaling[2]
    IN  [key |-> key, subindex |-> part.subindex, offset |-> part.offset,
         length |-> part.item.length, type |-> part.item.type,
         values |-> part.item.values, scaling |-> scaling,
         gradient |-> gradient, shift |-> shift,
         min |-> ScaledRange(gradient, shift, part.item.min),
         max |-> ScaledRange(gradient, shift, part.item.max)]

\* Items are built from the most significant on.
Build ==
    /\ variant # NoVariant
    /\ \E part \in Pending :
         LET base == BaseOf(part.name, Fallback(part.subindex)) IN
         /\ \A other \in Pending : other.offset <= part.offset
         /\ \E key \in PossibleKeys(base) :
              /\ KeyFor(base, key)
              /\ items' = Append(items, ItemFrom(part, key,
                            ResolveCandidates(CandidatesFor(part.subindex))))
    /\ UNCHANGED <<file, variant, call, block, held, rest, displayVars>>

Built == variant # NoVariant /\ Pending = {}

Keys == KeysOf(Layout)
Field(item) == item.offset..(item.offset + item.length - 1)
Covered == UNION {Field(items[i]) : i \in DOMAIN items}

\* The device's own block, which a flow reads before it writes parts of it.
ReadBack ==
    /\ Built
    /\ block = <<>>
    /\ block' \in {Zeros(Layout.octets), [i \in 1..Layout.octets |-> 0..7]}
    /\ held' = DecodeLayout(block', Layout)
    /\ rest' = ToBigInt(block') \ Covered
    /\ UNCHANGED <<file, variant, call, items, displayVars, used>>

MaySupply(item) ==
    IF IsString(item) THEN {Characters(s) : s \in Strings}
    ELSE {Number(n) : n \in Numbers} \cup {Text(t) : t \in Texts} \cup {Truth(0), Truth(1)}

SupplyOf(key) ==
    IF key = Misspelt THEN {Number(0)} ELSE MaySupply(ItemOf(Layout, key))

PayloadsOf(keys) ==
    {values \in [keys -> UNION {SupplyOf(k) : k \in keys}] :
        \A k \in keys : values[k] \in SupplyOf(k)}

\* One or two values at a time, and possibly one that no layout has.
Payloads ==
    UNION {PayloadsOf(keys) : keys \in {{k1, k2} : k1 \in Keys, k2 \in Keys \cup {Misspelt}}}

\* What a value that was accepted is to read as.  The text of a scaled enum is an
\* exception: its raw count is taken for an engineering value.
Asks(item, v) ==
    LET w == ResolveEnum(item, v) IN
    CASE v.kind = "text" /\ IsNumeric(item) /\ IsScaled(item) -> Anything
      [] item.type = "Boolean" -> Truth(IF IsTrue(item, w) THEN 1 ELSE 0)
      [] item.type = "String" -> Characters(TrimString(v.of))
      [] item.type = "OctetString" ->
           Characters([i \in 1..Width8(item) |-> IF i <= Len(v.of) THEN v.of[i] ELSE Nul])
      [] OTHER -> w

\* Without a base the values that are not supplied become zero.
EncodeOut ==
    /\ block # <<>>
    /\ \E values \in Payloads, alone \in BOOLEAN :
       \E base \in IF alone THEN {Zeros(Layout.octets)} ELSE {block \o pad : pad \in Paddings} :
         /\ Encodes(values, Layout, base)
         /\ block' = EncodeLayout(values, Layout, base)
         /\ held' = [key \in Keys |->
                       IF key \in DOMAIN values THEN Asks(ItemOf(Layout, key), values[key])
                       ELSE IF alone THEN DecodeItem(base, ItemOf(Layout, key))
                       ELSE held[key]]
         /\ rest' = IF alone THEN {} ELSE rest
    /\ UNCHANGED <<file, variant, call, items, displayVars, used>>

Next == Parse \/ SelectVariant \/ NameVariant \/ Build \/ ReadBack \/ EncodeOut

Spec == Init /\ [][Next]_vars

-----------------------------------------------------------------------------
\* No two values of a layout share a key, whatever the vendor called them: the
\* payload of a read and the lookup of a write go by the key alone (keys.js:47).
KeysUnique ==
    \A i, j \in DOMAIN items : i # j => items[i].key # items[j].key

Near(item, shown, asked) ==
    \/ asked = Anything
    \/ IF IsNumeric(item)
       THEN /\ 2 * (shown.of - asked.of) <= Max({item.gradient, -item.gradient})
            /\ 2 * (asked.of - shown.of) <= Max({item.gradient, -item.gradient})
       ELSE shown = asked

\* However many values were written around them, the bits of no item stay.
RestKept == block # <<>> => ToBigInt(block) \ Covered = rest

\* A block says of every item what was last asked of it, to half a count, and keeps
\* the bits of no item, however many values were written around it, with however
\* many octets of padding it is read back; a parameter's own block says the same
\* (bits.js:55, encode.js:112, decode.js:96, iolink-param.js:276).
FieldsHold ==
    /\ RestKept
    /\ block # <<>> =>
         /\ \A pad \in Paddings :
              /\ Decodes(block \o pad, Layout)
              /\ \A key \in Keys : Near(ItemOf(Layout, key),
                                        DecodeLayout(block \o pad, Layout)[key], held[key])
         /\ \A i \in DOMAIN items : \A v \in MaySupply(items[i]) :
              EncodesParameter(items[i], v) =>
                Near(items[i], DecodeParameter(items[i], EncodeParameter(items[i], v)),
                     Asks(items[i], v))

\* The ways through the menus from where a tool enters, never twice through one.
Ways ==
    {w \in UNION {[1..n -> menus.refs] : n \in 0..(Cardinality(Menus) - 1)} :
        /\ w # <<>> => w[1].from \in menus.roots
        /\ \A i \in 2..Len(w) : w[i].from = w[i - 1].to
        /\ \A i, j \in DOMAIN w : i <= j => w[j].to # w[i].from}

Leads(w, menu) == IF w = <<>> THEN menu \in menus.roots ELSE w[Len(w)].to = menu

\* Every scaling an item is shown in, with a way that leads there; a menu that no
\* way leads to is open to all.
ShownAs(subindex) ==
    IF Own(menus.direct, subindex) # {}
    THEN {[scaling |-> s.scaling, way |-> <<>>] : s \in Own(menus.direct, subindex)}
    ELSE UNION {LET ways == {w \in Ways : Leads(w, s.menu)} IN
                {[scaling |-> s.scaling, way |-> w] :
                 w \in IF ways = {} THEN {<<>>} ELSE ways} : s \in Own(menus.shown, subindex)}

Turns(way) == {i \in DOMAIN way : way[i].when # <<>>}
Open(way) == \A i \in Turns(way) : Met(way[i].when[1], given)
Depth(way) == Cardinality(Turns(way))

\* Wherever a menu that is open shows the item in another scaling, one that is open
\* and takes more conditions shows it in this one.
Justified(scaling, shown) ==
    LET open == {x \in shown : x.scaling # Raw /\ Open(x.way)}
        rivals == {x.scaling : x \in {y \in open : \A z \in open : Depth(z.way) <= Depth(y.way)}}
    IN  IF scaling # Raw THEN rivals = {scaling}
        ELSE Cardinality(rivals) # 1

\* No menu that shows the item is open, and all of them agree on this scaling.
OnlyClosed(scaling, shown) ==
    /\ \A x \in shown : ~Open(x.way)
    /\ {x.scaling : x \in {y \in shown : y.scaling # Raw}} = {scaling}

\* A value is scaled only as the device itself shows it under what is known of its
\* parameters, and stays raw where menus of equal standing disagree; a layout is
\* taken only when no other could be meant (display.js:26, device.js:34).  The code
\* makes one exception (display.js:230): where no menu that shows the value is open
\* it takes the scaling they all agree on, against a condition that was supplied
\* too, although its comment discards candidates with an unmatched condition and
\* IODD-PARSER.md has such a value raw.
NeverGuessed ==
    /\ \A i \in DOMAIN items :
         LET shown == ShownAs(items[i].subindex) IN
         Justified(items[i].scaling, shown) \/ OnlyClosed(items[i].scaling, shown)
    /\ variant # NoVariant /\ call # NoVariant =>
         \A other \in file.variants \ {variant} :
           /\ variant.when # <<>> /\ Holds(variant.when, call)
           /\ other.when # <<>> => ~Holds(other.when, call)
=============================================================================
