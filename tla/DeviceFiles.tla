----------------------------- MODULE DeviceFiles -----------------------------
(***************************************************************************)
(* The files and values TLC checks Device with: files that differ in the   *)
(* names of their values, in their menus, in their layouts, and one whose  *)
(* layout depends on a parameter.                                          *)
(***************************************************************************)
EXTENDS Device

CONSTANTS Temp, NotShown, on, m1, m2, m3

NoName == Key(NoWord, <<>>)
FirstTemp == Key(Temp, <<>>)

None == [x \in {} |-> 0]
Plain(type, length) ==
    [type |-> type, length |-> length, min |-> {}, max |-> {}, values |-> None]
Part(i, offset, item) == [subindex |-> i, offset |-> offset, name |-> NoName, item |-> item]
Record(bits, parts) == [type |-> "Record", bits |-> bits, parts |-> parts]
Scalar(item) == [type |-> "Scalar", bits |-> 0, name |-> FirstTemp, item |-> item]
Always(datatype) == {[id |-> 1, when |-> <<>>, datatype |-> datatype]}

NoMenus == [roots |-> {}, refs |-> {}, shown |-> {}, direct |-> {}]
Shows(subindex, scaling) == [menu |-> m1, subindex |-> subindex, scaling |-> scaling]
Directly(shown) == [NoMenus EXCEPT !.direct = shown]
When(variable, value) == <<[variable |-> variable, value |-> value]>>

Bar == <<1, 0, "bar">>
Psi == <<3, 1, "psi">>

\* Names that come out alike, that look like the suffix of another, or like the path.
Names == {NoName, FirstTemp, Key(Temp, <<2>>), Key(PathWord, <<1>>)}

NamedFiles ==
    {[display |-> NoMenus, variants |-> Always(Record(0,
        {[Part(i, 3 - i, Plain("Boolean", 1)) EXCEPT !.name = names[i]] : i \in 1..3}))] :
     names \in [1..3 -> Names]}

\* The second menu and the third lead to one another; each shows the value or does not.
Refs ==
    {[from |-> m1, to |-> m2, when |-> When("V", 1)],
     [from |-> m1, to |-> m3, when |-> When("V", 2)],
     [from |-> m2, to |-> m3, when |-> When("W", 1)],
     [from |-> m3, to |-> m2, when |-> <<>>]}

ShownIn(shows) ==
    {[menu |-> m, subindex |-> 0, scaling |-> shows[m]] :
     m \in {n \in Menus : shows[n] # NotShown}}

MenuFiles ==
    {[display |-> [roots |-> {m1}, refs |-> refs, shown |-> ShownIn(shows), direct |-> {}],
      variants |-> Always(Scalar(Plain("UInteger", 1)))] :
     refs \in SUBSET Refs,
     shows \in {s \in [Menus -> {NotShown, Raw, Bar, Psi}] : s[m1] # Psi /\ s[m2] # Raw}}

\* The process data and its mirror, each shown whole, by its subindex or both, in a
\* scaling or with nothing said of it.
HidingFiles ==
    {[display |-> [roots |-> {m1}, refs |-> {}, shown |-> mirror, direct |-> direct],
      variants |-> Always(Record(0, {Part(1, 0, Plain("UInteger", 1))}))] :
     direct \in SUBSET {Shows(0, Bar), Shows(1, Bare), Shows(1, Raw)},
     mirror \in SUBSET {Shows(0, Psi), Shows(1, Bare), Shows(1, Raw)}}

\* Twelve bits in two octets: a ranged and scaled signed value, an enum across the
\* boundary of the octets, a flag, and bits that belong to none.
Mixed ==
    Record(12, {Part(1, 8, [Plain("Integer", 4) EXCEPT !.min = {-6}, !.max = {7}]),
                Part(2, 6, [Plain("UInteger", 2) EXCEPT !.values = (on :> 2)]),
                Part(3, 2, [Plain("Boolean", 1) EXCEPT !.values = (on :> 1)])})

Strung ==
    Record(0, {Part(1, 16, Plain("String", 16)), Part(2, 3, Plain("Integer", 3)),
               Part(3, 8, Plain("OctetString", 8))})

Row == [type |-> "Array", bits |-> 0, count |-> 3, name |-> FirstTemp,
        item |-> Plain("Integer", 3)]

LayoutFiles ==
    {[display |-> Directly({Shows(1, Bar), Shows(2, Raw), Shows(3, Psi)}), variants |-> Always(Mixed)],
     [display |-> Directly({Shows(2, <<-3, 1, "K">>)}), variants |-> Always(Mixed)],
     [display |-> Directly({Shows(2, Psi)}), variants |-> Always(Strung)],
     [display |-> Directly({Shows(0, Psi)}), variants |-> Always(Row)]}

\* Two layouts with a condition each, and one that has none.
VariantFiles ==
    {[display |-> NoMenus,
      variants |-> {[id |-> 1, when |-> When("V", 1), datatype |-> Scalar(Plain("Boolean", 1))],
                    [id |-> 2, when |-> second, datatype |-> Scalar(Plain("UInteger", 2))],
                    [id |-> 3, when |-> <<>>, datatype |-> Scalar(Plain("Integer", 2))]}] :
     second \in {When("V", 2), When("W", 1)}}

TheFiles == NamedFiles \cup MenuFiles \cup HidingFiles \cup LayoutFiles \cup VariantFiles

TheConditions == {None, "V" :> 1, "V" :> 2, "W" :> 1, ("V" :> 1) @@ ("W" :> 1)}

TheNumbers == {-5, 2, 5, 13}
TheStrings == {<<>>, <<{0}, Space>>, <<{0, 7}>>}
ThePaddings == {<<>>, <<{0}>>}
=============================================================================
