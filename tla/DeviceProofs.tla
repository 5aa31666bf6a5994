---------------------------- MODULE DeviceProofs ----------------------------
(***************************************************************************)
(* Unique keys, for every file: whatever the names of its values are, and  *)
(* however long its layouts.  What the bit operations of the codec do to a *)
(* block of any length, at any offset, and what a payload of any number of *)
(* values does to it.  No scaling but the one the menus justify, whatever  *)
(* graph they form.  And of every value, what a flow asked for last.       *)
(***************************************************************************)
EXTENDS Device, SequenceTheorems, FiniteSetTheorems, WellFoundedInduction, TLAPS

IsList(s) == /\ Len(s) \in Nat
             /\ s \in [1..Len(s) -> {s[i] : i \in 1..Len(s)}]

\* The keyer knows every key of the layout; that is why a new one differs from all.
KeysKnown ==
    /\ IsList(items)
    /\ \A i \in 1..Len(items) : items[i].key \in DOMAIN used
    /\ \A i, j \in 1..Len(items) : i # j => items[i].key # items[j].key

LEMMA Appended ==
  ASSUME NEW s, IsList(s), NEW e
  PROVE  /\ IsList(Append(s, e))
         /\ Len(Append(s, e)) = Len(s) + 1
         /\ \A i \in 1..Len(s) : Append(s, e)[i] = s[i]
         /\ Append(s, e)[Len(s) + 1] = e
PROOF
<1> DEFINE S == {s[i] : i \in 1..Len(s)} \cup {e}
           t == Append(s, e)
<1>1. Len(s) \in Nat /\ s \in [1..Len(s) -> S]
  BY DEF IsList
<1>2. s \in Seq(S)
  BY <1>1
<1>3. t \in Seq(S) /\ Len(t) = Len(s) + 1
  BY <1>2
<1>4. (\A i \in 1..Len(s) : t[i] = s[i]) /\ t[Len(s) + 1] = e
  BY <1>2
<1>5. t \in [1..Len(t) -> S]
  BY <1>3, LenProperties
<1>6. IsList(t)
  <2>1. Len(t) \in Nat
    BY <1>1, <1>3
  <2>2. \A i \in 1..Len(t) : t[i] \in {t[j] : j \in 1..Len(t)}
    OBVIOUS
  <2> HIDE DEF t
  <2>3. t \in [1..Len(t) -> {t[j] : j \in 1..Len(t)}]
    BY <1>5, <2>2, Zenon
  <2>4. QED
    BY <2>1, <2>3 DEF IsList
<1>7. QED
  BY <1>3, <1>4, <1>6

\* A key that is handed out was free, and is taken from then on, as are all before it.
LEMMA Fresh ==
  ASSUME NEW base, NEW key, KeyFor(base, key)
  PROVE  /\ key \notin DOMAIN used
         /\ DOMAIN (used') = DOMAIN used \cup {key}
PROOF
<1>1. CASE base \notin DOMAIN used /\ key = base /\
           used' = [k \in DOMAIN used \cup {base} |-> IF k = base THEN 1 ELSE used[k]]
  BY <1>1
<1>2. CASE \E n \in Tried(base) : /\ Free(base, n)
                                  /\ key = Suffixed(base, n)
                                  /\ used' = Remembered(base, n)
  BY <1>2 DEF Free, Remembered
<1>3. QED
  BY <1>1, <1>2 DEF KeyFor

LEMMA KeysKnownInit == Init => KeysKnown
PROOF
<1>1. SUFFICES ASSUME Init PROVE KeysKnown
  OBVIOUS
<1>2. items = <<>>
  BY <1>1 DEF Init
<1>3. QED
  BY <1>2 DEF KeysKnown, IsList

LEMMA KeysKnownStep == KeysKnown /\ [Next]_vars => KeysKnown'
PROOF
<1>1. SUFFICES ASSUME KeysKnown, [Next]_vars PROVE KeysKnown'
  OBVIOUS
<1>2. CASE Build
  <2>1. PICK base, key, part :
          /\ KeyFor(base, key)
          /\ items' = Append(items, ItemFrom(part, key,
                        ResolveCandidates(CandidatesFor(part.subindex))))
    BY <1>2 DEF Build
  <2> DEFINE new == ItemFrom(part, key, ResolveCandidates(CandidatesFor(part.subindex)))
  <2>2. new.key = key
    BY DEF ItemFrom
  <2> HIDE DEF new
  <2>3. key \notin DOMAIN used /\ DOMAIN (used') = DOMAIN used \cup {key}
    BY <2>1, Fresh
  <2>4. /\ IsList(items')
        /\ Len(items') = Len(items) + 1
        /\ \A i \in 1..Len(items) : items'[i] = items[i]
        /\ items'[Len(items) + 1] = new
    BY <1>1, <2>1, Appended DEF KeysKnown, new
  <2>5. Len(items) \in Nat
    BY <1>1 DEF KeysKnown, IsList
  <2>6. \A i \in 1..Len(items') : i \in 1..Len(items) \/ i = Len(items) + 1
    BY <2>4, <2>5
  <2>7. \A i \in 1..Len(items') : items'[i].key \in DOMAIN (used')
    BY <1>1, <2>2, <2>3, <2>4, <2>6 DEF KeysKnown
  <2>8. \A i, j \in 1..Len(items') : i # j => items'[i].key # items'[j].key
    BY <1>1, <2>2, <2>3, <2>4, <2>6 DEF KeysKnown
  <2>9. QED
    BY <2>4, <2>7, <2>8 DEF KeysKnown, IsList
<1>3. ASSUME UNCHANGED <<items, used>>
      PROVE  KeysKnown'
  BY <1>1, <1>3 DEF KeysKnown, IsList
<1>4. CASE Parse
  BY <1>3, <1>4 DEF Parse, deviceVars
<1>5. CASE SelectVariant
  BY <1>3, <1>5 DEF SelectVariant
<1>6. CASE NameVariant
  BY <1>3, <1>6 DEF NameVariant
<1>7. CASE ReadBack
  BY <1>3, <1>7 DEF ReadBack
<1>8. CASE EncodeOut
  BY <1>3, <1>8 DEF EncodeOut
<1>9. CASE UNCHANGED vars
  BY <1>3, <1>9 DEF vars, deviceVars
<1>10. QED
  BY <1>1, <1>2, <1>4, <1>5, <1>6, <1>7, <1>8, <1>9 DEF Next

\* No file makes two values of a layout share a key (makeKeyer).
THEOREM KeysAreUnique == Spec => []KeysUnique
PROOF
<1>1. KeysKnown => KeysUnique
  <2>1. KeysKnown => DOMAIN items = 1..Len(items)
    BY DEF KeysKnown, IsList
  <2>2. QED
    BY <2>1 DEF KeysKnown, KeysUnique
<1>2. QED
  BY <1>1, KeysKnownInit, KeysKnownStep, PTL DEF Spec

-----------------------------------------------------------------------------
(* The bits of a block.                                                     *)

\* Rendering a BigInt into octets and reading it back cuts it to the width of the
\* block and changes nothing else.
LEMMA Rendered ==
  ASSUME NEW n \in Nat, NEW bits
  PROVE  /\ FromBigInt(bits, n) \in Blocks(n)
         /\ Len(FromBigInt(bits, n)) = n
         /\ ToBigInt(FromBigInt(bits, n)) = bits \cap (0..(8 * n - 1))
PROOF
<1> DEFINE buf == FromBigInt(bits, n)
<1>1. buf \in Blocks(n)
  BY DEF FromBigInt, Blocks, Octets
<1>2. buf \in Seq(Octets) /\ Len(buf) = n
  BY <1>1 DEF Blocks
<1>3. ASSUME NEW k \in 0..(8 * n - 1)
      PROVE  k % 8 \in buf[n - (k \div 8)] <=> k \in bits
  <2>1. k % 8 \in 0..7 /\ n - (k \div 8) \in 1..n
    OBVIOUS
  <2>2. 8 * (n - (n - (k \div 8))) + (k % 8) = k
    OBVIOUS
  <2>3. QED
    BY <2>1, <2>2 DEF FromBigInt
<1>4. ToBigInt(buf) = {k \in 0..(8 * n - 1) : k % 8 \in buf[n - (k \div 8)]}
  BY <1>2 DEF ToBigInt, Width
<1>5. QED
  BY <1>1, <1>2, <1>3, <1>4

LEMMA BlockLength ==
  ASSUME NEW n \in Nat, NEW buf \in Blocks(n)
  PROVE  Len(buf) = n /\ Width(buf) = 8 * n
BY DEF Blocks, Width, Octets

\* Every bit of a written block is either the field's new bit or the old one.
LEMMA Written ==
  ASSUME NEW n \in Nat, NEW buf \in Blocks(n), NEW offset \in Nat, NEW length \in Nat,
         NEW bits, Fits(buf, offset, length)
  PROVE  /\ WriteBits(buf, offset, length, bits) \in Blocks(n)
         /\ ToBigInt(WriteBits(buf, offset, length, bits)) =
              (ToBigInt(buf) \ ShiftLeft(Mask(length), offset))
              \cup ShiftLeft(bits \cap Mask(length), offset)
PROOF
<1> DEFINE all == (ToBigInt(buf) \ ShiftLeft(Mask(length), offset))
                  \cup ShiftLeft(bits \cap Mask(length), offset)
<1>1. Len(buf) = n /\ Width(buf) = 8 * n
  BY BlockLength
<1>2. ToBigInt(buf) \subseteq 0..(8 * n - 1)
  BY <1>1 DEF ToBigInt
<1>3. ShiftLeft(bits \cap Mask(length), offset) \subseteq 0..(8 * n - 1)
  BY <1>1 DEF ShiftLeft, Mask, Fits
<1>4. all \cap (0..(8 * n - 1)) = all
  BY <1>2, <1>3
<1>5. WriteBits(buf, offset, length, bits) = FromBigInt(all, n)
  BY <1>1 DEF WriteBits
<1>6. QED
  BY <1>4, <1>5, Rendered

\* What is written into a field is what is read from it, cut to its width
\* (writeBits, readBits).
THEOREM ReadAfterWrite ==
  ASSUME NEW n \in Nat, NEW buf \in Blocks(n), NEW offset \in Nat, NEW length \in Nat,
         NEW bits, Fits(buf, offset, length)
  PROVE  ReadBits(WriteBits(buf, offset, length, bits), offset, length)
           = bits \cap Mask(length)
PROOF
<1> DEFINE new == WriteBits(buf, offset, length, bits)
<1>1. ToBigInt(new) = (ToBigInt(buf) \ ShiftLeft(Mask(length), offset))
                      \cup ShiftLeft(bits \cap Mask(length), offset)
  BY Written
<1>2. ASSUME NEW k \in Mask(length)
      PROVE  k + offset \in ToBigInt(new) <=> k \in bits
  BY <1>1, <1>2 DEF ShiftLeft, Mask
<1>3. ToBigInt(new) \subseteq Int
  BY DEF ToBigInt, Width
<1>4. ReadBits(new, offset, length) =
        {k \in Mask(length) : k + offset \in ToBigInt(new)}
  BY <1>3 DEF ReadBits, ShiftRight, Mask
<1>5. QED
  BY <1>2, <1>4

\* A write leaves every bit outside its field as it was (writeBits).
THEOREM OthersUntouched ==
  ASSUME NEW n \in Nat, NEW buf \in Blocks(n), NEW offset \in Nat, NEW length \in Nat,
         NEW bits, Fits(buf, offset, length),
         NEW k \in Int, k \notin offset..(offset + length - 1)
  PROVE  k \in ToBigInt(WriteBits(buf, offset, length, bits)) <=> k \in ToBigInt(buf)
PROOF
<1>1. k \notin ShiftLeft(Mask(length), offset)
  BY DEF ShiftLeft, Mask
<1>2. k \notin ShiftLeft(bits \cap Mask(length), offset)
  BY <1>1 DEF ShiftLeft
<1>3. QED
  BY <1>1, <1>2, Written

\* So a field that shares no bit with the one written reads as before.
THEOREM DisjointFieldsKeep ==
  ASSUME NEW n \in Nat, NEW buf \in Blocks(n), NEW offset \in Nat, NEW length \in Nat,
         NEW bits, Fits(buf, offset, length),
         NEW offset2 \in Nat, NEW length2 \in Nat,
         offset2 + length2 <= offset \/ offset + length <= offset2
  PROVE  ReadBits(WriteBits(buf, offset, length, bits), offset2, length2)
           = ReadBits(buf, offset2, length2)
PROOF
<1> DEFINE new == WriteBits(buf, offset, length, bits)
           At(b) == {k \in Mask(length2) : k + offset2 \in ToBigInt(b)}
<1>1. ASSUME NEW k \in Mask(length2)
      PROVE  k + offset2 \in ToBigInt(new) <=> k + offset2 \in ToBigInt(buf)
  <2>1. k + offset2 \in Int /\ k + offset2 \notin offset..(offset + length - 1)
    BY DEF Mask
  <2>2. QED
    BY <2>1, OthersUntouched
<1>2. ToBigInt(new) \subseteq Int /\ ToBigInt(buf) \subseteq Int
  BY DEF ToBigInt, Width
<1>3. ReadBits(new, offset2, length2) = At(new)
  BY <1>2 DEF ReadBits, ShiftRight, Mask
<1>4. ReadBits(buf, offset2, length2) = At(buf)
  BY <1>2 DEF ReadBits, ShiftRight, Mask
<1>5. QED
  BY <1>1, <1>3, <1>4

\* The octets of a string that fits come back in place, and NUL behind them; the
\* octets before and after the field are the old ones (writeOctets, readOctets).
THEOREM OctetsHold ==
  ASSUME NEW n \in Nat, NEW buf \in Blocks(n), NEW offset \in Nat, NEW length \in Nat,
         Fits(buf, offset, length), Aligned(offset, length),
         NEW octets \in Seq(Octets), Len(octets) <= length \div 8
  PROVE  LET new == WriteOctets(buf, offset, length, octets)
             start == Start(buf, offset, length)
         IN  /\ new \in Blocks(n)
             /\ \A i \in 1..(length \div 8) :
                  ReadOctets(new, offset, length)[i] = IF i <= Len(octets) THEN octets[i] ELSE {}
             /\ \A i \in 1..n : i \notin (start + 1)..(start + length \div 8)
                                 => new[i] = buf[i]
PROOF
<1> DEFINE new == WriteOctets(buf, offset, length, octets)
           start == Start(buf, offset, length)
           wide == length \div 8
<1>1. Len(buf) = n /\ Width(buf) = 8 * n
  BY BlockLength
<1>2. start \in Nat /\ wide \in Nat /\ start + wide <= n
  BY <1>1 DEF Fits, Aligned, Start
<1>3. new = [i \in 1..n |-> IF i - start \notin 1..wide THEN buf[i]
                           ELSE IF i - start <= Len(octets) THEN octets[i - start] ELSE {}]
  BY <1>1 DEF WriteOctets
<1>4. new \in Blocks(n)
  <2>1. \A i \in 1..n : buf[i] \in Octets
    BY DEF Blocks
  <2>2. \A j \in 1..Len(octets) : octets[j] \in Octets
    OBVIOUS
  <2>3. {} \in Octets
    BY DEF Octets
  <2>4. ASSUME NEW i \in 1..n
        PROVE  new[i] \in Octets
    <3>1. CASE i - start \notin 1..wide
      BY <1>3, <2>1, <3>1
    <3>2. CASE i - start \in 1..wide /\ i - start <= Len(octets)
      <4>1. i - start \in 1..Len(octets)
        BY <1>2, <3>2
      <4>2. QED
        BY <1>3, <2>2, <3>2, <4>1
    <3>3. CASE i - start \in 1..wide /\ ~(i - start <= Len(octets))
      BY <1>3, <2>3, <3>3
    <3>4. QED
      BY <3>1, <3>2, <3>3
  <2>5. QED
    BY <1>3, <2>4 DEF Blocks
<1>5. Len(new) = n /\ Width(new) = 8 * n
  BY <1>4, BlockLength
<1>6. Start(new, offset, length) = start
  BY <1>1, <1>5 DEF Start
<1>7. ASSUME NEW i \in 1..wide
      PROVE  ReadOctets(new, offset, length)[i] = new[start + i]
  <2>1. ReadOctets(new, offset, length) = SubSeq(new, start + 1, start + wide)
    BY <1>6 DEF ReadOctets
  <2>2. new \in Seq(Octets)
    BY <1>4 DEF Blocks
  <2> HIDE DEF new, start, wide
  <2>3. SubSeq(new, start + 1, start + wide)[i] = new[start + i]
    BY <1>2, <1>5, <2>2
  <2>4. QED
    BY <2>1, <2>3
<1>8. ASSUME NEW i \in 1..wide
      PROVE  new[start + i] = IF i <= Len(octets) THEN octets[i] ELSE {}
  BY <1>2, <1>3
<1>9. ASSUME NEW i \in 1..n, i \notin (start + 1)..(start + wide)
      PROVE  new[i] = buf[i]
  BY <1>2, <1>3, <1>9
<1>10. QED
  BY <1>4, <1>7, <1>8, <1>9

-----------------------------------------------------------------------------
(* What the menus say of a value.                                           *)

\* The menus of a file, as MenusAssumption has them.
MenusOK ==
    /\ menus.roots \subseteq Menus
    /\ \A r \in menus.refs : /\ r.from \in Menus /\ r.to \in Menus
                             /\ r.when # <<>> => r.when = <<r.when[1]>>
    /\ IsFiniteSet(menus.shown) /\ IsFiniteSet(menus.direct)
    /\ \A s \in menus.shown : s.menu \in Menus

\* The ways of any length; that none is longer than there are menus follows.
Paths ==
    {w \in Seq(menus.refs) :
        /\ w # <<>> => w[1].from \in menus.roots
        /\ \A i \in 2..Len(w) : w[i].from = w[i - 1].to
        /\ \A i, j \in 1..Len(w) : i <= j => w[j].to # w[i].from}

Left(w) == {w[i].from : i \in 1..Len(w)}

Conds == {r.when[1] : r \in menus.refs}

\* A chain has the conditions of a way, each once.
Spells(chain, w) ==
    /\ chain \in Seq(Conds) /\ Len(chain) = Depth(w)
    /\ {chain[i] : i \in 1..Len(chain)} = {w[i].when[1] : i \in Turns(w)}

LEMMA PathParts ==
  ASSUME MenusOK, NEW w \in Paths
  PROVE  /\ w \in Seq(menus.refs) /\ Len(w) \in Nat /\ DOMAIN w = 1..Len(w)
         /\ \A i \in 1..Len(w) : w[i] \in menus.refs /\ w[i].from \in Menus /\ w[i].to \in Menus
         /\ w # <<>> => w[1].from \in menus.roots
         /\ \A i \in 2..Len(w) : w[i].from = w[i - 1].to
         /\ \A i, j \in 1..Len(w) : i <= j => w[j].to # w[i].from
         /\ Len(w) = 0 <=> w = <<>>
<1>1. w \in Seq(menus.refs)
  BY DEF Paths
<1>2. Len(w) \in Nat /\ DOMAIN w = 1..Len(w) /\ \A i \in 1..Len(w) : w[i] \in menus.refs
  BY <1>1
<1>3. Len(w) = 0 <=> w = <<>>
  BY <1>1, EmptySeq
<1>4. QED
  BY <1>1, <1>2, <1>3 DEF Paths, MenusOK

\* A way leaves no menu twice, and does not come back to one.
LEMMA NotLonger ==
  ASSUME MenusOK, NEW w \in Paths, Menus # {}
  PROVE  Len(w) \in 0..(Cardinality(Menus) - 1)
<1> DEFINE n == Len(w)
           f == [i \in 1..(n + 1) |-> IF i <= n THEN w[i].from ELSE w[n].to]
<1>1. IsFiniteSet(Menus) /\ Cardinality(Menus) \in Nat /\ Cardinality(Menus) # 0
  BY MenusAssumption, FS_CardinalityType, FS_EmptySet
<1>2. /\ n \in Nat
      /\ \A i \in 1..n : w[i].from \in Menus /\ w[i].to \in Menus
      /\ \A i \in 2..n : w[i].from = w[i - 1].to
      /\ \A i, j \in 1..n : i <= j => w[j].to # w[i].from
  BY PathParts
<1> HIDE DEF n
<1>3. CASE n = 0
  BY <1>1, <1>3 DEF n
<1>4. CASE n # 0
  <2>1. \A i, j \in 1..n : i < j => w[i].from # w[j].from
    <3>1. ASSUME NEW i \in 1..n, NEW j \in 1..n, i < j
          PROVE  w[i].from # w[j].from
      <4>1. j \in 2..n /\ j - 1 \in 1..n /\ i <= j - 1
        BY <1>2, <3>1
      <4>2. w[j].from = w[j - 1].to /\ w[j - 1].to # w[i].from
        BY <1>2, <4>1
      <4>3. QED
        BY <4>2
    <3>2. QED
      BY <3>1
  <2>2. n \in 1..n /\ \A i \in 1..n : i <= n
    BY <1>2, <1>4
  <2>3. f \in [1..(n + 1) -> Menus]
    <3>1. ASSUME NEW i \in 1..(n + 1)
          PROVE  (IF i <= n THEN w[i].from ELSE w[n].to) \in Menus
      <4>1. i <= n => i \in 1..n
        BY <1>2
      <4>2. QED
        BY <1>2, <2>2, <4>1
    <3>2. QED
      BY <3>1
  <2>4. ASSUME NEW i \in 1..(n + 1), NEW j \in 1..(n + 1), i # j
        PROVE  f[i] # f[j]
    <3>1. i \in Int /\ j \in Int /\ i >= 1 /\ j >= 1 /\ n \in Int
      BY <1>2
    <3>2. CASE i <= n /\ j <= n
      <4>1. i \in 1..n /\ j \in 1..n /\ (i < j \/ j < i)
        BY <2>4, <3>1, <3>2
      <4>2. QED
        BY <2>1, <3>2, <4>1
    <3>3. CASE i <= n /\ ~(j <= n)
      <4>1. i \in 1..n
        BY <3>1, <3>3
      <4>2. QED
        BY <1>2, <2>2, <3>3, <4>1
    <3>4. CASE ~(i <= n) /\ j <= n
      <4>1. j \in 1..n
        BY <3>1, <3>4
      <4>2. QED
        BY <1>2, <2>2, <3>4, <4>1
    <3>5. CASE ~(i <= n) /\ ~(j <= n)
      BY <1>2, <2>4, <3>1, <3>5
    <3>6. QED
      BY <3>2, <3>3, <3>4, <3>5
  <2> HIDE DEF f
  <2>5. f \in Injection(1..(n + 1), Menus)
    BY <2>3, <2>4 DEF Injection, IsInjective
  <2>6. Cardinality(1..(n + 1)) <= Cardinality(Menus)
    BY <1>1, <2>5, FS_Injection
  <2>7. Cardinality(1..(n + 1)) = n + 1
    <3> DEFINE b == n + 1
    <3>1. 1 \in Int /\ b \in Int /\ ~(1 > b) /\ b - 1 + 1 = n + 1
      BY <1>2
    <3> HIDE DEF b
    <3>2. Cardinality(1..b) = IF 1 > b THEN 0 ELSE b - 1 + 1
      BY <3>1, FS_Interval, Zenon
    <3>3. QED
      BY <3>1, <3>2 DEF b
  <2>8. QED
    BY <1>1, <1>2, <2>6, <2>7 DEF n
<1>5. QED
  BY <1>3, <1>4

LEMMA PathsAreWays ==
  ASSUME MenusOK, Menus # {}
  PROVE  Paths = Ways
<1>1. ASSUME NEW w \in Paths
      PROVE  w \in Ways
  <2>1. Len(w) \in 0..(Cardinality(Menus) - 1)
    BY NotLonger
  <2>2. w \in [1..Len(w) -> menus.refs] /\ DOMAIN w = 1..Len(w)
    BY PathParts
  <2>3. QED
    BY <2>1, <2>2, PathParts DEF Ways
<1>2. ASSUME NEW w \in Ways
      PROVE  w \in Paths
  <2>1. PICK n \in 0..(Cardinality(Menus) - 1) : w \in [1..n -> menus.refs]
    BY DEF Ways
  <2>2. n \in Nat
    BY <2>1
  <2>3. w \in Seq(menus.refs) /\ DOMAIN w = 1..Len(w)
    BY <2>1, <2>2
  <2>4. QED
    BY <2>3 DEF Ways, Paths
<1>3. QED
  BY <1>1, <1>2

LEMMA TurnsFinite ==
  ASSUME MenusOK, NEW w \in Paths
  PROVE  /\ Turns(w) = {i \in 1..Len(w) : w[i].when # <<>>}
         /\ IsFiniteSet(Turns(w)) /\ Depth(w) = Cardinality(Turns(w)) /\ Depth(w) \in Nat
<1>1. Len(w) \in Nat /\ DOMAIN w = 1..Len(w)
  BY PathParts
<1>2. Turns(w) = {i \in 1..Len(w) : w[i].when # <<>>}
  BY <1>1 DEF Turns
<1>3. IsFiniteSet(1..Len(w))
  <2>1. 1 \in Int /\ Len(w) \in Int
    BY <1>1
  <2>2. QED
    BY <2>1, FS_Interval, Zenon
<1>4. IsFiniteSet(Turns(w))
  BY <1>2, <1>3, FS_Subset
<1>5. QED
  BY <1>2, <1>4, FS_CardinalityType DEF Depth

\* A way that is taken one menu further.
LEMMA Prolonged ==
  ASSUME MenusOK, NEW w \in Paths, NEW r \in menus.refs, Leads(w, r.from),
         r.to \notin Left(w) \cup {r.from}, NEW chain, Spells(chain, w)
  PROVE  LET v == Append(w, r) IN
         /\ v \in Paths /\ Len(v) = Len(w) + 1 /\ Leads(v, r.to)
         /\ Left(v) = Left(w) \cup {r.from}
         /\ Spells(chain \o r.when, v)
<1> DEFINE n == Len(w)
           v == Append(w, r)
<1>1. /\ n \in Nat /\ w \in Seq(menus.refs)
      /\ w # <<>> => w[1].from \in menus.roots
      /\ \A i \in 2..n : w[i].from = w[i - 1].to
      /\ \A i, j \in 1..n : i <= j => w[j].to # w[i].from
      /\ n = 0 <=> w = <<>>
  BY PathParts
<1>2. /\ v \in Seq(menus.refs) /\ Len(v) = n + 1
      /\ \A i \in 1..n : v[i] = w[i]
      /\ v[n + 1] = r
  BY <1>1, AppendProperties
<1>3. IF n = 0 THEN r.from \in menus.roots ELSE w[n].to = r.from
  BY <1>1 DEF Leads
<1>4. \A i \in 1..n : w[i].from # r.to
  BY DEF Left
<1> HIDE DEF n, v
<1>5. v \in Paths
  <2>1. v # <<>> => v[1].from \in menus.roots
    <3>1. CASE n = 0
      BY <1>2, <1>3, <3>1
    <3>2. CASE n # 0
      <4>1. 1 \in 1..n /\ w # <<>>
        BY <1>1, <3>2
      <4>2. QED
        BY <1>1, <1>2, <4>1
    <3>3. QED
      BY <3>1, <3>2
  <2>2. ASSUME NEW i \in 2..(n + 1)
        PROVE  v[i].from = v[i - 1].to
    <3>1. CASE i = n + 1
      <4>0. i \in Int /\ i >= 2 /\ n \in Int
        BY <1>1
      <4>1. n # 0 /\ n \in 1..n /\ i - 1 = n
        BY <3>1, <4>0
      <4>2. QED
        BY <1>2, <1>3, <3>1, <4>1
    <3>2. CASE i # n + 1
      <4>1. i \in 2..n /\ i \in 1..n /\ i - 1 \in 1..n
        BY <1>1, <3>2
      <4>2. QED
        BY <1>1, <1>2, <4>1
    <3>3. QED
      BY <3>1, <3>2
  <2>3. ASSUME NEW i \in 1..(n + 1), NEW j \in 1..(n + 1), i <= j
        PROVE  v[j].to # v[i].from
    <3>1. CASE j = n + 1
      <4>1. i = n + 1 \/ i \in 1..n
        BY <1>1
      <4>2. QED
        BY <1>2, <1>4, <3>1, <4>1
    <3>2. CASE j # n + 1
      <4>1. i \in 1..n /\ j \in 1..n
        BY <1>1, <2>3, <3>2
      <4>2. QED
        BY <1>1, <1>2, <2>3, <4>1
    <3>3. QED
      BY <3>1, <3>2
  <2>4. QED
    BY <1>2, <2>1, <2>2, <2>3 DEF Paths
<1>6. Leads(v, r.to)
  <2>1. v # <<>>
    BY <1>1, <1>2, EmptySeq
  <2>2. QED
    BY <1>2, <2>1 DEF Leads
<1>7. \A i \in 1..(n + 1) : i \in 1..n \/ i = n + 1
  BY <1>1
<1>8. \A i \in 1..n : i \in 1..(n + 1) /\ i # n + 1
  BY <1>1
<1>9. n + 1 \in 1..(n + 1)
  BY <1>1
<1>10. Left(v) = Left(w) \cup {r.from}
  BY <1>2, <1>7, <1>8, <1>9 DEF Left, n
<1>11. Turns(v) = IF r.when = <<>> THEN Turns(w) ELSE Turns(w) \cup {n + 1}
  <2>1. Turns(w) = {i \in 1..n : w[i].when # <<>>}
    BY TurnsFinite DEF n
  <2>2. Turns(v) = {i \in 1..(n + 1) : v[i].when # <<>>}
    BY <1>2, <1>5, TurnsFinite
  <2>3. QED
    BY <1>2, <1>7, <1>8, <1>9, <2>1, <2>2
<1>12. /\ IsFiniteSet(Turns(w)) /\ Depth(w) = Cardinality(Turns(w)) /\ Depth(w) \in Nat
       /\ n + 1 \notin Turns(w) /\ \A i \in Turns(w) : i \in 1..n
  BY <1>8, TurnsFinite DEF n
<1>13. /\ chain \in Seq(Conds) /\ Len(chain) = Depth(w)
       /\ {chain[i] : i \in 1..Len(chain)} = {w[i].when[1] : i \in Turns(w)}
  BY DEF Spells
<1>14. CASE r.when = <<>>
  <2>1. chain \o r.when = chain
    BY <1>13, <1>14
  <2>2. Turns(v) = Turns(w) /\ Depth(v) = Depth(w)
    BY <1>11, <1>12, <1>14 DEF Depth
  <2>3. {v[i].when[1] : i \in Turns(v)} = {w[i].when[1] : i \in Turns(w)}
    BY <1>2, <1>12, <2>2
  <2>4. Spells(chain \o r.when, v)
    BY <1>13, <2>1, <2>2, <2>3 DEF Spells
  <2>5. QED
    BY <1>2, <1>5, <1>6, <1>10, <2>4 DEF v, n
<1>15. CASE r.when # <<>>
  <2> DEFINE c == r.when[1]
             m == Len(chain)
             longer == chain \o r.when
  <2>1. r.when = <<c>> /\ c \in Conds
    BY <1>15 DEF MenusOK, Conds
  <2>2. m \in Nat
    BY <1>13
  <2>3. longer = Append(chain, c)
    BY <1>13, <2>1, AppendIsConcat
  <2>4. /\ longer \in Seq(Conds) /\ Len(longer) = m + 1
        /\ \A i \in 1..m : longer[i] = chain[i]
        /\ longer[m + 1] = c
    BY <1>13, <2>1, <2>3, AppendProperties
  <2> HIDE DEF longer, m
  <2>5. Turns(v) = Turns(w) \cup {n + 1}
    BY <1>11, <1>15
  <2>6. Depth(v) = m + 1
    <3>1. Cardinality(Turns(w) \cup {n + 1}) = Cardinality(Turns(w)) + 1
      BY <1>12, FS_AddElement
    <3>2. QED
      BY <1>12, <1>13, <2>5, <3>1 DEF Depth, m
  <2>7. {longer[i] : i \in 1..(m + 1)} = {chain[i] : i \in 1..m} \cup {c}
    <3>1. \A i \in 1..(m + 1) : i \in 1..m \/ i = m + 1
      BY <2>2
    <3>2. m + 1 \in 1..(m + 1) /\ \A i \in 1..m : i \in 1..(m + 1)
      BY <2>2
    <3>3. QED
      BY <2>4, <3>1, <3>2
  <2>8. {v[i].when[1] : i \in Turns(v)} = {w[i].when[1] : i \in Turns(w)} \cup {c}
    BY <1>2, <1>12, <2>5 DEF c
  <2> HIDE DEF c
  <2>9. Spells(longer, v)
    BY <1>13, <2>4, <2>6, <2>7, <2>8 DEF Spells, m
  <2>10. QED
    BY <1>2, <1>5, <1>6, <1>10, <2>9 DEF v, n, longer
<1>16. QED
  BY <1>14, <1>15

LEMMA Taken ==
  ASSUME NEW S, NEW v \in Seq(S), NEW d \in Nat, d <= Len(v)
  PROVE  /\ SubSeq(v, 1, d) \in Seq(S) /\ Len(SubSeq(v, 1, d)) = d
         /\ \A i \in 1..d : SubSeq(v, 1, d)[i] = v[i]
<1>1. \A i \in 1..d : v[i] \in S
  OBVIOUS
<1>2. 1 \in Int /\ d \in Int
  OBVIOUS
<1> DEFINE w == SubSeq(v, 1, d)
<1>3. /\ w \in Seq(S) /\ Len(w) = IF 1 <= d THEN d - 1 + 1 ELSE 0
      /\ \A i \in 1..(d - 1 + 1) : w[i] = v[1 + i - 1]
  BY <1>1, <1>2, SubSeqProperties
<1> HIDE DEF w
<1>4. \A i \in 1..d : i \in 1..(d - 1 + 1) /\ 1 + i - 1 = i
  OBVIOUS
<1>5. QED
  BY <1>3, <1>4 DEF w

\* Where a way was after some of its menus.
LEMMA Prefix ==
  ASSUME MenusOK, NEW v \in Paths, NEW d \in Nat, d < Len(v)
  PROVE  LET w == SubSeq(v, 1, d)
             r == v[d + 1] IN
         /\ w \in Paths /\ Len(w) = d
         /\ r \in menus.refs /\ Leads(w, r.from) /\ r.to \notin Left(w) \cup {r.from}
         /\ d + 1 = Len(v) => v = Append(w, r)
<1> DEFINE n == Len(v)
           w == SubSeq(v, 1, d)
           r == v[d + 1]
<1>1. /\ n \in Nat /\ v \in Seq(menus.refs)
      /\ \A i \in 1..n : v[i] \in menus.refs
      /\ v # <<>> => v[1].from \in menus.roots
      /\ \A i \in 2..n : v[i].from = v[i - 1].to
      /\ \A i, j \in 1..n : i <= j => v[j].to # v[i].from
      /\ n = 0 <=> v = <<>>
  BY PathParts
<1>2. d < n
  OBVIOUS
<1>4. /\ w \in Seq(menus.refs) /\ Len(w) = d /\ \A i \in 1..d : w[i] = v[i]
  <2>1. v \in Seq(menus.refs) /\ d \in Nat /\ d <= Len(v)
    BY <1>1, <1>2
  <2>2. QED
    BY <2>1, Taken
<1> HIDE DEF n, w
<1>5. /\ \A i \in 1..d : i \in 1..n
      /\ \A i \in 2..d : i \in 2..n /\ i \in 1..d /\ i - 1 \in 1..d
      /\ d + 1 \in 1..n /\ n # 0
  BY <1>1, <1>2
<1>6. w \in Paths
  <2>1. w # <<>> => w[1].from \in menus.roots
    <3>1. ASSUME w # <<>>
          PROVE  w[1].from \in menus.roots
      <4>1. d # 0
        BY <1>4, <3>1, EmptySeq
      <4>2. 1 \in 1..d
        BY <4>1
      <4>3. QED
        BY <1>1, <1>4, <1>5, <4>2
    <3>2. QED
      BY <3>1
  <2>2. \A i \in 2..d : w[i].from = w[i - 1].to
    BY <1>1, <1>4, <1>5
  <2>3. \A i, j \in 1..d : i <= j => w[j].to # w[i].from
    BY <1>1, <1>4, <1>5
  <2>4. QED
    BY <1>4, <2>1, <2>2, <2>3 DEF Paths
<1>7. r \in menus.refs
  BY <1>1, <1>5
<1>8. Leads(w, r.from)
  <2>1. CASE d = 0
    <3>1. w = <<>>
      BY <1>4, <2>1, EmptySeq
    <3>2. r = v[1] /\ v # <<>>
      BY <1>1, <1>5, <2>1
    <3>3. QED
      BY <1>1, <3>1, <3>2 DEF Leads
  <2>2. CASE d # 0
    <3>1. w # <<>>
      BY <1>4, <2>2, EmptySeq
    <3>2. d + 1 \in 2..n /\ d + 1 - 1 = d /\ d \in 1..d
      BY <1>5, <2>2
    <3>3. r.from = v[d].to
      BY <1>1, <3>2
    <3>4. QED
      BY <1>4, <3>1, <3>2, <3>3 DEF Leads
  <2>3. QED
    BY <2>1, <2>2
<1>9. r.to \notin Left(w) \cup {r.from}
  <2>1. ASSUME NEW i \in 1..d
        PROVE  r.to # w[i].from
    <3>1. i \in 1..n /\ i <= d + 1
      BY <1>5
    <3>2. QED
      BY <1>1, <1>4, <1>5, <3>1
  <2>2. r.to # r.from
    BY <1>1, <1>5
  <2>3. QED
    BY <1>4, <2>1, <2>2 DEF Left
<1>10. d + 1 = n => v = Append(w, r)
  <2>1. SUFFICES ASSUME d + 1 = n
                 PROVE  v = Append(w, r)
    OBVIOUS
  <2> DEFINE u == Append(w, r)
  <2>2. /\ u \in Seq(menus.refs) /\ Len(u) = d + 1
        /\ \A i \in 1..d : u[i] = w[i]
        /\ u[d + 1] = r
    <3>1. /\ u \in Seq(menus.refs) /\ Len(u) = Len(w) + 1
          /\ \A i \in 1..Len(w) : u[i] = w[i]
          /\ u[Len(w) + 1] = r
      <4> HIDE DEF r
      <4>1. QED
        BY <1>4, <1>7, AppendProperties
    <3>2. Len(w) = d
      BY <1>4
    <3> HIDE DEF u, r
    <3>3. QED
      BY <3>1, <3>2
  <2> HIDE DEF u
  <2>3. \A i \in 1..(d + 1) : i \in 1..d \/ i = d + 1
    OBVIOUS
  <2>4. \A i \in 1..(d + 1) : u[i] = v[i]
    BY <1>4, <2>2, <2>3
  <2>5. Len(v) = Len(u)
    BY <2>1, <2>2 DEF n
  <2>6. u = v
    BY <1>1, <2>2, <2>4, <2>5, SeqEqual
  <2>7. QED
    BY <2>6 DEF u
<1>11. QED
  BY <1>4, <1>6, <1>7, <1>8, <1>9, <1>10 DEF w, n

\* A call of walk has come a way: it knows its conditions and the menus it left.
Follows(f, w) == Leads(w, f.menu) /\ Spells(f.chain, w) /\ f.seen = Left(w)

\* The calls that have not run are the ways of d references; the shorter ones are known.
WalkedTo(d, calls, known) ==
    /\ \A f \in calls : \E w \in Paths : Len(w) = d /\ Follows(f, w)
    /\ \A w \in Paths, m \in Menus :
         Len(w) = d /\ Leads(w, m) => \E f \in calls : f.menu = m /\ Follows(f, w)
    /\ \A c \in known : \E w \in Paths : Leads(w, c.menu) /\ Spells(c.chain, w)
    /\ \A w \in Paths, m \in Menus :
         Len(w) < d /\ Leads(w, m) => \E c \in known : c.menu = m /\ Spells(c.chain, w)

Reached(m) == \E w \in Paths : Leads(w, m)

\* In the end the chains are those of the ways, and of the menus no way leads to.
AllKnown(known) ==
    /\ \A c \in known :
         IF Reached(c.menu) THEN \E w \in Paths : Leads(w, c.menu) /\ Spells(c.chain, w)
         ELSE c.chain = <<>>
    /\ \A m \in Menus :
         /\ \A w \in Paths : Leads(w, m) => \E c \in known : c.menu = m /\ Spells(c.chain, w)
         /\ ~Reached(m) => \E c \in known : c.menu = m

LEMMA NoWay ==
  /\ <<>> \in Paths /\ Len(<<>>) = 0 /\ Left(<<>>) = {} /\ Turns(<<>>) = {}
  /\ Depth(<<>>) = 0 /\ Spells(<<>>, <<>>)
<1>1. <<>> \in Paths
  BY DEF Paths
<1>2. Len(<<>>) = 0 /\ Left(<<>>) = {}
  BY DEF Left
<1>3. Turns(<<>>) = {}
  BY DEF Turns
<1>4. Depth(<<>>) = 0
  BY <1>3, FS_EmptySet DEF Depth
<1>5. Spells(<<>>, <<>>)
  BY <1>3, <1>4 DEF Spells
<1>6. QED
  BY <1>1, <1>2, <1>3, <1>4, <1>5

LEMMA SetOut ==
  ASSUME MenusOK
  PROVE  WalkedTo(0, {[menu |-> m, chain |-> <<>>, seen |-> {}] : m \in menus.roots}, {})
<1> DEFINE calls == {[menu |-> m, chain |-> <<>>, seen |-> {}] : m \in menus.roots}
<1>1. ASSUME NEW f \in calls
      PROVE  \E w \in Paths : Len(w) = 0 /\ Follows(f, w)
  <2>1. f.menu \in menus.roots /\ f.chain = <<>> /\ f.seen = {}
    OBVIOUS
  <2>2. Follows(f, <<>>)
    BY <2>1, NoWay DEF Follows, Leads
  <2>3. QED
    BY <2>2, NoWay
<1>2. ASSUME NEW w \in Paths, NEW m \in Menus, Len(w) = 0, Leads(w, m)
      PROVE  \E f \in calls : f.menu = m /\ Follows(f, w)
  <2>1. w = <<>>
    BY <1>2, PathParts
  <2>2. m \in menus.roots
    BY <1>2, <2>1 DEF Leads
  <2> DEFINE f == [menu |-> m, chain |-> <<>>, seen |-> {}]
  <2>3. f \in calls /\ f.menu = m /\ f.chain = <<>> /\ f.seen = {}
    BY <2>2
  <2> HIDE DEF f, calls
  <2>4. Follows(f, w)
    BY <1>2, <2>1, <2>3, NoWay DEF Follows
  <2>5. QED
    BY <2>3, <2>4
<1>3. ASSUME NEW w \in Paths
      PROVE  ~(Len(w) < 0)
  <2>1. Len(w) \in Nat
    BY PathParts
  <2>2. QED
    BY <2>1
<1> HIDE DEF calls
<1>4. QED
  BY <1>1, <1>2, <1>3 DEF WalkedTo, calls

\* Running every call takes each way one reference further, and forgets none.
LEMMA WalkOn ==
  ASSUME MenusOK, NEW d \in Nat, WalkedTo(d, todo, chains), Walk
  PROVE  WalkedTo(d + 1, todo', chains')
<1>1. \A c \in chains' : c \in chains \/ \E f \in todo : c.menu = f.menu /\ c.chain = f.chain
  BY DEF Walk
<1>2. /\ \A c \in chains : c \in chains'
      /\ \A f \in todo : \E c \in chains' : c.menu = f.menu /\ c.chain = f.chain
  <2>1. ASSUME NEW f \in todo
        PROVE  \E c \in chains' : c.menu = f.menu /\ c.chain = f.chain
    <3> DEFINE c == [menu |-> f.menu, chain |-> f.chain]
    <3>1. c \in chains'
      BY DEF Walk
    <3>2. QED
      BY <3>1
  <2>2. \A c \in chains : c \in chains'
    BY DEF Walk
  <2>3. QED
    BY <2>1, <2>2
<1>3. ASSUME NEW g \in todo'
      PROVE  \E w \in Paths : Len(w) = d + 1 /\ Follows(g, w)
  <2>0. PICK f \in todo : \E r \in Onward(f) :
          g = [menu |-> r.to, chain |-> f.chain \o r.when, seen |-> f.seen \cup {f.menu}]
    BY <1>3 DEF Walk
  <2>1. PICK r \in Onward(f) :
          g = [menu |-> r.to, chain |-> f.chain \o r.when, seen |-> f.seen \cup {f.menu}]
    BY <2>0
  <2>2. PICK w \in Paths : Len(w) = d /\ Follows(f, w)
    BY DEF WalkedTo
  <2>3. r \in menus.refs /\ r.from = f.menu /\ r.to \notin f.seen \cup {f.menu}
    BY DEF Onward
  <2>4. /\ Leads(w, r.from) /\ Spells(f.chain, w) /\ f.seen = Left(w)
    BY <2>2, <2>3 DEF Follows
  <2> DEFINE v == Append(w, r)
  <2>5. /\ v \in Paths /\ Len(v) = Len(w) + 1 /\ Leads(v, r.to)
        /\ Left(v) = Left(w) \cup {r.from}
        /\ Spells(f.chain \o r.when, v)
    BY <2>3, <2>4, Prolonged
  <2>6. g.menu = r.to /\ g.chain = f.chain \o r.when /\ g.seen = f.seen \cup {f.menu}
    BY <2>1
  <2> HIDE DEF v
  <2>7. QED
    BY <2>2, <2>3, <2>4, <2>5, <2>6 DEF Follows
<1>4. ASSUME NEW v \in Paths, NEW m \in Menus, Len(v) = d + 1, Leads(v, m)
      PROVE  \E g \in todo' : g.menu = m /\ Follows(g, v)
  <2> DEFINE w == SubSeq(v, 1, d)
             r == v[d + 1]
  <2>1. d < Len(v) /\ d + 1 = Len(v)
    BY <1>4
  <2>2. /\ w \in Paths /\ Len(w) = d
        /\ r \in menus.refs /\ Leads(w, r.from) /\ r.to \notin Left(w) \cup {r.from}
        /\ v = Append(w, r)
    BY <2>1, Prefix
  <2> HIDE DEF w
  <2>3. r.from \in Menus
    BY <2>2 DEF MenusOK
  <2>4. PICK f \in todo : f.menu = r.from /\ Follows(f, w)
    BY <2>2, <2>3 DEF WalkedTo
  <2>5. r \in Onward(f)
    BY <2>2, <2>4 DEF Onward, Follows
  <2>6. v # <<>>
    BY <2>1, <1>4, PathParts
  <2>7. m = r.to
    BY <1>4, <2>6 DEF Leads
  <2> HIDE DEF r
  <2> DEFINE g == [menu |-> r.to, chain |-> f.chain \o r.when, seen |-> f.seen \cup {f.menu}]
  <2>8. g \in todo'
    <3> DEFINE of(h) == {[menu |-> q.to, chain |-> h.chain \o q.when,
                          seen |-> h.seen \cup {h.menu}] : q \in Onward(h)}
    <3>1. g \in of(f)
      BY <2>5
    <3>2. todo' = UNION {of(h) : h \in todo}
      BY DEF Walk
    <3> HIDE DEF of, g
    <3>3. QED
      BY <3>1, <3>2
  <2>9. g.menu = r.to /\ g.chain = f.chain \o r.when /\ g.seen = f.seen \cup {f.menu}
    OBVIOUS
  <2> HIDE DEF g
  <2>10. /\ Left(v) = Left(w) \cup {r.from}
         /\ Spells(f.chain \o r.when, v)
    BY <2>2, <2>4, Prolonged DEF Follows
  <2>11. Follows(g, v)
    BY <1>4, <2>4, <2>7, <2>9, <2>10 DEF Follows
  <2>12. QED
    BY <2>7, <2>8, <2>9, <2>11
<1>5. ASSUME NEW c \in chains'
      PROVE  \E w \in Paths : Leads(w, c.menu) /\ Spells(c.chain, w)
  BY <1>1 DEF WalkedTo, Follows
<1>6. ASSUME NEW w \in Paths, NEW m \in Menus, Len(w) < d + 1, Leads(w, m)
      PROVE  \E c \in chains' : c.menu = m /\ Spells(c.chain, w)
  <2>1. Len(w) < d \/ Len(w) = d
    <3>1. Len(w) \in Nat
      BY PathParts
    <3>2. QED
      BY <1>6, <3>1
  <2>2. CASE Len(w) < d
    BY <1>2, <1>6, <2>2 DEF WalkedTo
  <2>3. CASE Len(w) = d
    <3>1. PICK f \in todo : f.menu = m /\ Follows(f, w)
      BY <1>6, <2>3 DEF WalkedTo
    <3>2. QED
      BY <1>2, <3>1 DEF Follows
  <2>4. QED
    BY <2>1, <2>2, <2>3
<1>7. QED
  BY <1>3, <1>4, <1>5, <1>6 DEF WalkedTo

\* When no call is left no way is left either.
LEMMA Arrived ==
  ASSUME MenusOK, NEW d \in Nat, WalkedTo(d, {}, chains), Unreached
  PROVE  AllKnown(chains')
<1>1. ASSUME NEW w \in Paths, NEW m \in Menus, Leads(w, m)
      PROVE  \E c \in chains : c.menu = m /\ Spells(c.chain, w)
  <2>1. Len(w) \in Nat
    BY PathParts
  <2>2. CASE Len(w) < d
    BY <1>1, <2>2 DEF WalkedTo
  <2>3. CASE Len(w) = d
    BY <1>1, <2>3 DEF WalkedTo
  <2>4. CASE d < Len(w)
    <3> DEFINE v == SubSeq(w, 1, d)
               r == w[d + 1]
    <3>1. /\ v \in Paths /\ Len(v) = d
          /\ r \in menus.refs /\ Leads(v, r.from)
      BY <2>4, Prefix
    <3> HIDE DEF v, r
    <3>2. r.from \in Menus
      BY <3>1 DEF MenusOK
    <3>3. QED
      BY <3>1, <3>2 DEF WalkedTo
  <2>5. QED
    BY <2>1, <2>2, <2>3, <2>4
<1>2. \A c \in chains : \E w \in Paths : Leads(w, c.menu) /\ Spells(c.chain, w)
  BY DEF WalkedTo
<1> DEFINE unknown == {n \in Menus : \A c \in chains : c.menu # n}
<1>3. ASSUME NEW m \in unknown
      PROVE  m \in Menus /\ ~Reached(m)
  BY <1>1 DEF Reached
<1>4. \A c \in chains' : c \in chains \/ (c.menu \in unknown /\ c.chain = <<>>)
  BY DEF Unreached
<1>5. /\ \A c \in chains : c \in chains'
      /\ \A m \in unknown : \E c \in chains' : c.menu = m
  <2>1. ASSUME NEW m \in unknown
        PROVE  \E c \in chains' : c.menu = m
    <3> DEFINE c == [menu |-> m, chain |-> <<>>]
    <3>1. c \in chains'
      BY DEF Unreached
    <3>2. QED
      BY <3>1
  <2>2. \A c \in chains : c \in chains'
    BY DEF Unreached
  <2>3. QED
    BY <2>1, <2>2
<1>6. ASSUME NEW c \in chains'
      PROVE  IF Reached(c.menu)
             THEN \E w \in Paths : Leads(w, c.menu) /\ Spells(c.chain, w)
             ELSE c.chain = <<>>
  <2>1. CASE c \in chains
    BY <1>2, <2>1 DEF Reached
  <2>2. CASE c.menu \in unknown /\ c.chain = <<>>
    BY <1>3, <2>2
  <2>3. QED
    BY <1>4, <2>1, <2>2
<1>7. ASSUME NEW m \in Menus
      PROVE  /\ \A w \in Paths : Leads(w, m) =>
                  \E c \in chains' : c.menu = m /\ Spells(c.chain, w)
             /\ ~Reached(m) => \E c \in chains' : c.menu = m
  <2>1. ASSUME NEW w \in Paths, Leads(w, m)
        PROVE  \E c \in chains' : c.menu = m /\ Spells(c.chain, w)
    BY <1>1, <1>5, <2>1
  <2>2. ASSUME ~Reached(m)
        PROVE  \E c \in chains' : c.menu = m
    <3>1. m \in unknown
      BY <1>2, <2>2 DEF Reached
    <3>2. QED
      BY <1>5, <3>1
  <2>3. QED
    BY <2>1, <2>2
<1>8. QED
  BY <1>6, <1>7 DEF AllKnown

LEMMA Bounded ==
  ASSUME MenusOK, NEW w \in Paths
  PROVE  Depth(w) \in 0..Cardinality(Menus)
<1>1. CASE Menus = {}
  <2>1. w = <<>>
    <3>1. ASSUME w # <<>> PROVE FALSE
      <4>1. w[1].from \in menus.roots
        BY <3>1, PathParts
      <4>2. QED
        BY <1>1, <4>1 DEF MenusOK
    <3>2. QED
      BY <3>1
  <2>2. QED
    BY <1>1, <2>1, NoWay, FS_EmptySet
<1>2. CASE Menus # {}
  <2> DEFINE n == Len(w)
  <2>1. n \in Nat /\ n \in 0..(Cardinality(Menus) - 1)
    BY <1>2, PathParts, NotLonger
  <2>2. Cardinality(Menus) \in Nat
    BY MenusAssumption, FS_CardinalityType
  <2>3. /\ Turns(w) \subseteq 1..n /\ Depth(w) = Cardinality(Turns(w)) /\ Depth(w) \in Nat
    BY TurnsFinite
  <2> HIDE DEF n
  <2>4. 1 \in Int /\ n \in Int
    BY <2>1
  <2>5. IsFiniteSet(1..n)
    BY <2>4, FS_Interval, Zenon
  <2>6. Cardinality(1..n) = IF 1 > n THEN 0 ELSE n - 1 + 1
    BY <2>4, FS_Interval, Zenon
  <2>7. Cardinality(1..n) = n
    BY <2>1, <2>6
  <2>8. Cardinality(Turns(w)) <= Cardinality(1..n)
    BY <2>3, <2>5, FS_Subset
  <2>9. QED
    BY <2>1, <2>2, <2>3, <2>7, <2>8
<1>3. QED
  BY <1>1, <1>2

\* A chain holds where its way is open.
LEMMA HoldsIsOpen ==
  ASSUME NEW chain, NEW w, Spells(chain, w)
  PROVE  Holds(chain, given) <=> Open(w)
<1>1. DOMAIN chain = 1..Len(chain)
  BY DEF Spells
<1>2. {chain[i] : i \in 1..Len(chain)} = {w[i].when[1] : i \in Turns(w)}
  BY DEF Spells
<1>3. ASSUME Holds(chain, given), NEW i \in Turns(w)
      PROVE  Met(w[i].when[1], given)
  <2>1. PICK k \in 1..Len(chain) : chain[k] = w[i].when[1]
    BY <1>2
  <2>2. QED
    BY <1>1, <1>3, <2>1 DEF Holds
<1>4. ASSUME Open(w), NEW k \in 1..Len(chain)
      PROVE  Met(chain[k], given)
  <2>1. PICK i \in Turns(w) : chain[k] = w[i].when[1]
    BY <1>2
  <2>2. QED
    BY <1>4, <2>1 DEF Open
<1>5. QED
  BY <1>1, <1>3, <1>4 DEF Holds, Open

\* What the code finds for a value stands for the menus that show it.
StandFor(candidates, shown) ==
    /\ \A c \in candidates : \E x \in shown :
         c.scaling = x.scaling /\ x.way \in Paths /\ Spells(c.chain, x.way)
    /\ \A x \in shown : \E c \in candidates :
         c.scaling = x.scaling /\ x.way \in Paths /\ Spells(c.chain, x.way)
    /\ IsFiniteSet(ScalingsOf(candidates))

LEMMA ScalingsFinite ==
  ASSUME NEW S, IsFiniteSet(S), NEW T, \A t \in T : \E s \in S : t = s.scaling
  PROVE  IsFiniteSet(T)
<1> DEFINE U == {s \in S : s.scaling \in T}
           f == [s \in U |-> s.scaling]
<1>1. IsFiniteSet(U)
  BY FS_Subset
<1>2. f \in Surjection(U, T)
  <2>1. f \in [U -> T]
    OBVIOUS
  <2>2. \A t \in T : \E s \in U : f[s] = t
    OBVIOUS
  <2>3. QED
    BY <2>1, <2>2 DEF Surjection
<1> HIDE DEF U, f
<1>3. QED
  BY <1>1, <1>2, FS_Surjection

LEMMA OwnIsShown ==
  ASSUME NEW S, NEW i
  PROVE  Own(S, i) \subseteq S
BY DEF Own

LEMMA CandidatesStandFor ==
  ASSUME MenusOK, AllKnown(chains), NEW i
  PROVE  StandFor(CandidatesFor(i), ShownAs(i))
<1> DEFINE candidates == CandidatesFor(i)
           shown == ShownAs(i)
           direct == Own(menus.direct, i)
           own == Own(menus.shown, i)
<1>1. CASE direct # {}
  <2>1. candidates = {[scaling |-> s.scaling, chain |-> <<>>] : s \in direct}
    BY <1>1 DEF CandidatesFor
  <2>2. shown = {[scaling |-> s.scaling, way |-> <<>>] : s \in direct}
    BY <1>1 DEF ShownAs
  <2>3. direct \subseteq menus.direct
    BY OwnIsShown
  <2> HIDE DEF candidates, shown, direct
  <2>4. ASSUME NEW c \in candidates
        PROVE  \E x \in shown :
                 c.scaling = x.scaling /\ x.way \in Paths /\ Spells(c.chain, x.way)
    <3>1. PICK s \in direct : c = [scaling |-> s.scaling, chain |-> <<>>]
      BY <2>1
    <3> DEFINE x == [scaling |-> s.scaling, way |-> <<>>]
    <3>2. x \in shown
      BY <2>2
    <3>3. c.scaling = x.scaling /\ x.way = <<>> /\ c.chain = <<>>
      BY <3>1
    <3> HIDE DEF x
    <3>4. QED
      BY <3>2, <3>3, NoWay
  <2>5. ASSUME NEW x \in shown
        PROVE  \E c \in candidates :
                 c.scaling = x.scaling /\ x.way \in Paths /\ Spells(c.chain, x.way)
    <3>1. PICK s \in direct : x = [scaling |-> s.scaling, way |-> <<>>]
      BY <2>2
    <3> DEFINE c == [scaling |-> s.scaling, chain |-> <<>>]
    <3>2. c \in candidates
      BY <2>1
    <3>3. c.scaling = x.scaling /\ x.way = <<>> /\ c.chain = <<>>
      BY <3>1
    <3> HIDE DEF c
    <3>4. QED
      BY <3>2, <3>3, NoWay
  <2>6. IsFiniteSet(ScalingsOf(candidates))
    <3>1. IsFiniteSet(direct)
      BY <2>3, FS_Subset DEF MenusOK
    <3>2. \A t \in ScalingsOf(candidates) : \E s \in direct : t = s.scaling
      BY <2>1 DEF ScalingsOf
    <3>3. QED
      BY <3>1, <3>2, ScalingsFinite
  <2>7. QED
    BY <2>4, <2>5, <2>6 DEF StandFor, candidates, shown
<1>2. CASE direct = {}
  <2> DEFINE found(s) == {[scaling |-> s.scaling, chain |-> c.chain] :
                          c \in {d \in chains : d.menu = s.menu}}
             ways(m) == {w \in Ways : Leads(w, m)}
             seen(s) == {[scaling |-> s.scaling, way |-> w] :
                         w \in IF ways(s.menu) = {} THEN {<<>>} ELSE ways(s.menu)}
  <2>1. candidates = UNION {found(s) : s \in own}
    BY <1>2 DEF CandidatesFor
  <2>2. shown = UNION {seen(s) : s \in own}
    BY <1>2 DEF ShownAs
  <2>3. own \subseteq menus.shown
    BY OwnIsShown
  <2>4. ASSUME NEW s \in own
        PROVE  /\ s.menu \in Menus
               /\ ways(s.menu) = {w \in Paths : Leads(w, s.menu)}
               /\ ways(s.menu) = {} <=> ~Reached(s.menu)
    <3>1. s.menu \in Menus
      BY <2>3 DEF MenusOK
    <3>2. Paths = Ways
      BY <3>1, PathsAreWays
    <3>3. QED
      BY <3>1, <3>2 DEF Reached
  <2> HIDE DEF candidates, shown, own, ways
  <2>5. ASSUME NEW c \in candidates
        PROVE  \E x \in shown :
                 c.scaling = x.scaling /\ x.way \in Paths /\ Spells(c.chain, x.way)
    <3>1. PICK s \in own : c \in found(s)
      BY <2>1
    <3>2. PICK d \in chains : d.menu = s.menu /\ c = [scaling |-> s.scaling, chain |-> d.chain]
      BY <3>1
    <3>3. PICK w \in (IF ways(s.menu) = {} THEN {<<>>} ELSE ways(s.menu)) :
            w \in Paths /\ Spells(d.chain, w)
      <4>1. CASE Reached(s.menu)
        <5>1. PICK w \in Paths : Leads(w, s.menu) /\ Spells(d.chain, w)
          BY <3>2, <4>1 DEF AllKnown
        <5>2. w \in ways(s.menu)
          BY <2>4, <5>1
        <5>3. QED
          BY <5>1, <5>2
      <4>2. CASE ~Reached(s.menu)
        BY <2>4, <3>2, <4>2, NoWay DEF AllKnown
      <4>3. QED
        BY <4>1, <4>2
    <3> DEFINE x == [scaling |-> s.scaling, way |-> w]
    <3>4. x \in seen(s)
      OBVIOUS
    <3>5. x.way = w /\ x.scaling = s.scaling
      OBVIOUS
    <3> HIDE DEF x, seen
    <3>6. x \in shown
      BY <2>2, <3>4
    <3>7. c.scaling = s.scaling /\ c.chain = d.chain
      BY <3>2
    <3>8. QED
      BY <3>3, <3>5, <3>6, <3>7
  <2>6. ASSUME NEW x \in shown
        PROVE  \E c \in candidates :
                 c.scaling = x.scaling /\ x.way \in Paths /\ Spells(c.chain, x.way)
    <3>1. PICK s \in own : x \in seen(s)
      BY <2>2
    <3>2. PICK w \in (IF ways(s.menu) = {} THEN {<<>>} ELSE ways(s.menu)) :
            x = [scaling |-> s.scaling, way |-> w]
      BY <3>1
    <3>3. PICK d \in chains : d.menu = s.menu /\ w \in Paths /\ Spells(d.chain, w)
      <4>1. CASE ways(s.menu) # {}
        <5>1. w \in Paths /\ Leads(w, s.menu)
          BY <2>4, <3>2, <4>1
        <5>2. QED
          BY <2>4, <5>1 DEF AllKnown
      <4>2. CASE ways(s.menu) = {}
        <5>1. w = <<>>
          BY <3>2, <4>2
        <5>2. s.menu \in Menus /\ ~Reached(s.menu)
          BY <2>4, <4>2
        <5>3. PICK d \in chains : d.menu = s.menu
          BY <5>2 DEF AllKnown
        <5>4. d.chain = <<>>
          BY <5>2, <5>3 DEF AllKnown
        <5>5. QED
          BY <5>1, <5>3, <5>4, NoWay
      <4>3. QED
        BY <4>1, <4>2
    <3> DEFINE c == [scaling |-> s.scaling, chain |-> d.chain]
    <3>4. c \in found(s)
      BY <3>3
    <3>5. c.chain = d.chain /\ c.scaling = s.scaling
      OBVIOUS
    <3> HIDE DEF c, found
    <3>6. c \in candidates
      BY <2>1, <3>4
    <3>7. x.scaling = s.scaling /\ x.way = w
      BY <3>2
    <3>8. QED
      BY <3>3, <3>5, <3>6, <3>7
  <2>7. IsFiniteSet(ScalingsOf(candidates))
    <3>1. IsFiniteSet(own)
      BY <2>3, FS_Subset DEF MenusOK
    <3>2. \A t \in ScalingsOf(candidates) : \E s \in own : t = s.scaling
      BY <2>1 DEF ScalingsOf
    <3>3. QED
      BY <3>1, <3>2, ScalingsFinite
  <2>8. QED
    BY <2>5, <2>6, <2>7 DEF StandFor, candidates, shown
<1>3. QED
  BY <1>1, <1>2

LEMMA AgreedOne ==
  ASSUME NEW C, IsFiniteSet(ScalingsOf(C))
  PROVE  /\ \A t : ScalingsOf(C) = {t} => Agreed(C) = t
         /\ Cardinality(ScalingsOf(C)) # 1 => Agreed(C) = Raw
         /\ Cardinality(ScalingsOf(C)) = 1 <=> \E t : ScalingsOf(C) = {t}
<1> DEFINE T == ScalingsOf(C)
<1>1. Agreed(C) = IF Cardinality(T) = 1 THEN CHOOSE t \in T : TRUE ELSE Raw
  BY DEF Agreed
<1> HIDE DEF T
<1>2. Cardinality(T) = 1 <=> \E t : T = {t}
  BY FS_Singleton DEF T
<1>3. ASSUME NEW t, T = {t}
      PROVE  Agreed(C) = t
  BY <1>1, <1>2, <1>3
<1>4. QED
  BY <1>1, <1>2, <1>3 DEF T

\* Of numbers that are bounded one is greatest.
LEMMA Greatest ==
  ASSUME NEW b \in Nat, NEW N, N \subseteq 0..b, N # {}
  PROVE  \E n \in N : \A m \in N : m <= n
<1> DEFINE T == {k \in 0..b : b - k \in N}
           R == OpToRel(<, Nat)
<1>1. T \subseteq Nat
  OBVIOUS
<1>2. T # {}
  <2>1. PICK n \in N : TRUE
    OBVIOUS
  <2>2. b - n \in 0..b /\ b - (b - n) = n
    OBVIOUS
  <2>3. b - n \in T
    BY <2>1, <2>2
  <2>4. QED
    BY <2>3
<1>3. \A x, y \in Nat : y < x => <<y, x>> \in R
  BY DEF OpToRel
<1>4. PICK k \in T : \A y \in T : ~(<<y, k>> \in R)
  <2> HIDE DEF T, R
  <2>1. IsWellFoundedOn(R, Nat)
    BY NatLessThanWellFounded DEF R
  <2>2. QED
    BY <1>1, <1>2, <2>1, WFMin
<1>5. k \in 0..b /\ b - k \in N
  BY <1>4
<1>6. ASSUME NEW m \in N
      PROVE  m <= b - k
  <2>1. b - m \in 0..b /\ b - (b - m) = m /\ m \in 0..b
    OBVIOUS
  <2>2. b - m \in T
    BY <2>1
  <2>3. ~(b - m < k)
    <3>1. b - m \in Nat /\ k \in Nat
      BY <1>5, <2>1
    <3> HIDE DEF T, R
    <3>2. QED
      BY <1>3, <1>4, <2>2, <3>1
  <2>4. QED
    BY <1>5, <2>1, <2>3
<1>7. QED
  BY <1>5, <1>6

\* What NeverGuessed says of one value.
Sound(scaling, shown) == Justified(scaling, shown) \/ OnlyClosed(scaling, shown)

\* A value takes the scaling that the open menus deepest down agree on, and otherwise
\* none: what the code computes from chains is what the menus say, but for one that
\* only closed menus show, in a scaling they agree on.
LEMMA Resolved ==
  ASSUME MenusOK, NEW C, NEW S, StandFor(C, S)
  PROVE  Sound(ResolveCandidates(C), S)
<1> DEFINE scaled == {x \in S : x.scaling # Raw}
           open == {x \in S : Open(x.way)}
           both == {x \in S : x.scaling # Raw /\ Open(x.way)}
           rivals == {x.scaling : x \in {y \in both : \A z \in both :
                                           Depth(z.way) <= Depth(y.way)}}
           eligible == {c \in C : Holds(c.chain, given)}
           result == ResolveCandidates(C)
<1>1. /\ (IF result # Raw THEN rivals = {result} ELSE Cardinality(rivals) # 1)
             => Sound(result, S)
      /\ (open = {} /\ {x.scaling : x \in scaled} = {result}) => Sound(result, S)
  BY DEF Sound, Justified, OnlyClosed
<1>0. both = scaled \cap open
  OBVIOUS
<1>2. /\ \A c \in C : \E x \in S : /\ c.scaling = x.scaling
                                   /\ Holds(c.chain, given) <=> Open(x.way)
                                   /\ Len(c.chain) = Depth(x.way)
      /\ \A x \in S : \E c \in C : /\ c.scaling = x.scaling
                                   /\ Holds(c.chain, given) <=> Open(x.way)
                                   /\ Len(c.chain) = Depth(x.way)
  BY HoldsIsOpen DEF StandFor, Spells
<1>3. \A c \in C : Len(c.chain) \in 0..Cardinality(Menus)
  BY Bounded DEF StandFor, Spells
<1>4. \A D \in SUBSET C : IsFiniteSet(ScalingsOf(D))
  <2>1. ASSUME NEW D \in SUBSET C
        PROVE  IsFiniteSet(ScalingsOf(D))
    <3>1. ScalingsOf(D) \subseteq ScalingsOf(C)
      BY DEF ScalingsOf
    <3>2. QED
      BY <3>1, FS_Subset DEF StandFor
  <2>2. QED
    BY <2>1
<1>5. \A c \in C : c.chain = <<>> => Holds(c.chain, given)
  BY DEF Holds
<1>6. Pool(C) = eligible
  BY <1>5 DEF Pool
<1>7. \A D \in SUBSET C : Scaled(D) = {c \in D : c.scaling # Raw}
  BY DEF Scaled
<1>8. CASE eligible = {}
  <2>1. open = {}
    BY <1>2, <1>8
  <2>2. result = Agreed(Scaled(C))
    BY <1>6, <1>8 DEF ResolveCandidates
  <2>3. ScalingsOf(Scaled(C)) = {x.scaling : x \in scaled}
    BY <1>2 DEF ScalingsOf, Scaled
  <2>4. rivals = {}
    BY <2>1
  <2>5. IsFiniteSet(ScalingsOf(Scaled(C)))
    BY <1>4, <1>7
  <2> HIDE DEF rivals, result, open, scaled
  <2>6. CASE Cardinality(ScalingsOf(Scaled(C))) = 1
    <3>1. PICK t : ScalingsOf(Scaled(C)) = {t}
      BY <2>5, <2>6, AgreedOne
    <3>2. result = t
      BY <2>2, <2>5, <3>1, AgreedOne
    <3>3. QED
      BY <1>1, <2>1, <2>3, <3>1, <3>2 DEF result
  <2>7. CASE Cardinality(ScalingsOf(Scaled(C))) # 1
    <3>1. result = Raw
      BY <2>2, <2>5, <2>7, AgreedOne
    <3>2. Cardinality(rivals) # 1
      BY <2>4, FS_EmptySet
    <3>3. QED
      BY <1>1, <3>1, <3>2 DEF result
  <2>8. QED
    BY <2>6, <2>7
<1>9. CASE eligible # {}
  <2> DEFINE able == Scaled(eligible)
             chosen == IF able # {} THEN able ELSE eligible
  <2>1. open # {}
    BY <1>2, <1>9
  <2>2. result = IF Cardinality(ScalingsOf(chosen)) = 1 THEN Agreed(chosen)
                 ELSE Agreed(Deepest(chosen))
    BY <1>6, <1>9 DEF ResolveCandidates
  <2>3. able \in SUBSET C /\ \A c \in able : c.scaling # Raw /\ Holds(c.chain, given)
    BY DEF Scaled
  <2>4. \A c \in C : (c.scaling # Raw /\ Holds(c.chain, given)) => c \in able
    BY DEF Scaled
  <2>5. /\ \A c \in able : \E x \in scaled \cap open :
              c.scaling = x.scaling /\ Len(c.chain) = Depth(x.way)
        /\ \A x \in scaled \cap open : \E c \in able :
              c.scaling = x.scaling /\ Len(c.chain) = Depth(x.way)
    BY <1>2, <2>3, <2>4
  <2> DEFINE deepest == {y \in scaled \cap open :
                           \A z \in scaled \cap open : Depth(z.way) <= Depth(y.way)}
  <2>6. rivals = {x.scaling : x \in deepest}
    BY <1>0
  <2>0. SUFFICES IF result # Raw THEN rivals = {result} ELSE Cardinality(rivals) # 1
    <3> HIDE DEF rivals
    <3>1. QED
      BY <1>1
  <2>7. CASE able = {}
    <3>1. scaled \cap open = {}
      BY <2>5, <2>7
    <3>2. rivals = {}
      BY <2>6, <3>1
    <3>3. Cardinality(rivals) # 1
      BY <3>2, FS_EmptySet
    <3>4. chosen = eligible /\ ScalingsOf(chosen) = {Raw}
      <4>1. \A c \in eligible : c.scaling = Raw
        BY <2>4, <2>7
      <4>2. QED
        BY <1>9, <2>7, <4>1 DEF ScalingsOf
    <3> HIDE DEF chosen, eligible, rivals, result, able
    <3>5. IsFiniteSet(ScalingsOf(chosen)) /\ Cardinality(ScalingsOf(chosen)) = 1
      BY <3>4, FS_Singleton
    <3>6. result = Raw
      BY <2>2, <3>4, <3>5, AgreedOne
    <3>7. QED
      BY <3>3, <3>6
  <2>8. CASE able # {}
    <3>1. chosen = able
      BY <2>8
    <3>2. \A c \in able : Len(c.chain) \in 0..Cardinality(Menus)
      BY <1>3, <2>3
    <3> HIDE DEF able, eligible, chosen, scaled, open
    <3>3. PICK top \in able : \A c \in able : Len(c.chain) <= Len(top.chain)
      <4> DEFINE N == {Len(c.chain) : c \in able}
      <4>1. N \subseteq 0..Cardinality(Menus) /\ N # {}
        BY <2>8, <3>2
      <4>2. Cardinality(Menus) \in Nat
        BY MenusAssumption, FS_CardinalityType
      <4>3. PICK n \in N : \A m \in N : m <= n
        <5> HIDE DEF N
        <5>1. QED
          BY <4>1, <4>2, Greatest
      <4>4. PICK top \in able : n = Len(top.chain)
        BY <4>3
      <4>5. QED
        BY <4>3, <4>4
    <3>4. ScalingsOf(Deepest(able)) = rivals
      <4>1. ASSUME NEW c \in Deepest(able)
            PROVE  c.scaling \in rivals
        <5>1. c \in able /\ \A d \in able : Len(c.chain) >= Len(d.chain)
          BY DEF Deepest
        <5>2. PICK x \in scaled \cap open : c.scaling = x.scaling /\ Len(c.chain) = Depth(x.way)
          BY <2>5, <5>1
        <5>3. ASSUME NEW z \in scaled \cap open
              PROVE  Depth(z.way) <= Depth(x.way)
          <6>1. PICK d \in able : Len(d.chain) = Depth(z.way)
            BY <2>5
          <6>2. Len(c.chain) \in Nat /\ Len(d.chain) \in Nat /\ Len(c.chain) >= Len(d.chain)
            BY <3>2, <5>1
          <6>3. QED
            BY <5>2, <6>1, <6>2
        <5>4. x \in deepest
          BY <5>3
        <5>5. QED
          BY <2>6, <5>2, <5>4
      <4>2. ASSUME NEW x \in deepest
            PROVE  x.scaling \in ScalingsOf(Deepest(able))
        <5>1. PICK c \in able : c.scaling = x.scaling /\ Len(c.chain) = Depth(x.way)
          BY <2>5
        <5>2. ASSUME NEW d \in able
              PROVE  Len(c.chain) >= Len(d.chain)
          <6>1. PICK z \in scaled \cap open : Len(d.chain) = Depth(z.way)
            BY <2>5
          <6>2. Depth(z.way) <= Depth(x.way)
            BY <6>1
          <6>3. Len(c.chain) \in Nat /\ Len(d.chain) \in Nat
            BY <3>2
          <6>4. QED
            BY <5>1, <6>1, <6>2, <6>3
        <5>3. c \in Deepest(able)
          BY <5>2 DEF Deepest
        <5>4. QED
          BY <5>1, <5>3 DEF ScalingsOf
      <4>3. rivals \subseteq ScalingsOf(Deepest(able))
        BY <2>6, <4>2
      <4>4. ScalingsOf(Deepest(able)) \subseteq rivals
        BY <4>1 DEF ScalingsOf
      <4>5. QED
        BY <4>3, <4>4
    <3>5. top \in Deepest(able)
      BY <3>2, <3>3 DEF Deepest
    <3>6. top.scaling \in rivals
      BY <3>4, <3>5 DEF ScalingsOf
    <3>7. Deepest(able) \in SUBSET able
      BY DEF Deepest
    <3>8. rivals \subseteq ScalingsOf(able) /\ Raw \notin ScalingsOf(able)
      BY <2>3, <3>4, <3>7 DEF ScalingsOf
    <3>9. IsFiniteSet(ScalingsOf(able)) /\ IsFiniteSet(ScalingsOf(Deepest(able)))
      BY <1>4, <2>3, <3>7
    <3> HIDE DEF rivals, result
    <3>10. CASE Cardinality(ScalingsOf(able)) = 1
      <4>1. PICK t : ScalingsOf(able) = {t}
        BY <3>9, <3>10, AgreedOne
      <4>2. result = t /\ t # Raw /\ rivals = {t}
        BY <2>2, <3>1, <3>6, <3>8, <3>9, <3>10, <4>1, AgreedOne
      <4>3. QED
        BY <4>2
    <3>11. CASE Cardinality(ScalingsOf(able)) # 1
      <4>1. result = Agreed(Deepest(able))
        BY <2>2, <3>1, <3>11
      <4>2. CASE Cardinality(rivals) = 1
        <5>1. PICK t : rivals = {t}
          BY <3>4, <3>9, <4>2, AgreedOne
        <5>2. result = t /\ t # Raw
          BY <3>4, <3>8, <3>9, <4>1, <5>1, AgreedOne
        <5>3. QED
          BY <5>1, <5>2
      <4>3. CASE Cardinality(rivals) # 1
        <5>1. result = Raw
          BY <3>4, <3>9, <4>1, <4>3, AgreedOne
        <5>2. QED
          BY <4>3, <5>1
      <4>4. QED
        BY <4>2, <4>3
    <3>12. QED
      BY <3>10, <3>11
  <2>9. QED
    BY <2>7, <2>8
<1>10. QED
  BY <1>8, <1>9

\* What the walk knows of the file it is in, before it ends and after.
WalkTrue ==
    /\ file \in Files
    /\ menus = file.display
    /\ ~walked => \E d \in Nat : WalkedTo(d, todo, chains)
    /\ walked => todo = {} /\ AllKnown(chains)
    /\ variant # NoVariant => walked

LEMMA WalkGivesMenus == WalkTrue => MenusOK
<1>1. SUFFICES ASSUME WalkTrue PROVE MenusOK
  OBVIOUS
<1>2. file \in Files /\ menus = file.display
  BY <1>1 DEF WalkTrue
<1>3. QED
  BY <1>2, MenusAssumption, Zenon DEF MenusOK

\* What is said of the ways depends on the menus alone.
LEMMA SameMenus ==
  ASSUME menus' = menus, NEW d, NEW calls, NEW known
  PROVE  /\ WalkedTo(d, calls, known) => WalkedTo(d, calls, known)'
         /\ AllKnown(known) => AllKnown(known)'
<1>1. Paths' = Paths
  BY DEF Paths
<1>2. Conds' = Conds
  BY DEF Conds
<1>3. \A w, m : Leads(w, m)' <=> Leads(w, m)
  BY DEF Leads
<1>4. \A c, w : Spells(c, w)' <=> Spells(c, w)
  BY <1>2 DEF Spells
<1>5. \A f, w : Follows(f, w)' <=> Follows(f, w)
  BY <1>3, <1>4 DEF Follows
<1>6. \A m : Reached(m)' <=> Reached(m)
  BY <1>1, <1>3 DEF Reached
<1>7. WalkedTo(d, calls, known) => WalkedTo(d, calls, known)'
  BY <1>1, <1>3, <1>4, <1>5 DEF WalkedTo
<1>8. AllKnown(known) => AllKnown(known)'
  BY <1>1, <1>3, <1>4, <1>6 DEF AllKnown
<1>9. QED
  BY <1>7, <1>8

LEMMA WalkTrueInit == Init => WalkTrue
<1>1. SUFFICES ASSUME Init PROVE WalkTrue
  OBVIOUS
<1>2. PICK supplied \in Conditions(file) : DisplayInit(file.display, supplied)
  BY <1>1 DEF Init
<1>3. /\ file \in Files /\ variant = NoVariant /\ menus = file.display
      /\ todo = {[menu |-> m, chain |-> <<>>, seen |-> {}] : m \in menus.roots}
      /\ chains = {} /\ walked = FALSE
  BY <1>1, <1>2 DEF Init, DisplayInit
<1>4. MenusOK
  BY <1>3, MenusAssumption, Zenon DEF MenusOK
<1>5. WalkedTo(0, todo, chains)
  BY <1>3, <1>4, SetOut
<1>6. QED
  BY <1>3, <1>5 DEF WalkTrue

LEMMA WalkTrueStep == WalkTrue /\ [Next]_vars => WalkTrue'
<1>1. SUFFICES ASSUME WalkTrue, [Next]_vars PROVE WalkTrue'
  OBVIOUS
<1>2. MenusOK
  BY <1>1, WalkGivesMenus
<1>3. menus' = menus /\ file' = file
  BY <1>1 DEF Next, Parse, Walk, Unreached, SelectVariant, NameVariant, Build, ReadBack,
              EncodeOut, vars, deviceVars, displayVars
<1>4. CASE Walk /\ UNCHANGED <<deviceVars, used>>
  <2>1. ~walked /\ walked' = walked /\ variant' = variant
    BY <1>1, <1>4 DEF Walk, WalkTrue, deviceVars
  <2>2. PICK d \in Nat : WalkedTo(d, todo, chains)
    BY <1>1, <2>1 DEF WalkTrue
  <2>3. WalkedTo(d + 1, todo', chains')
    BY <1>2, <1>4, <2>2, WalkOn
  <2>4. WalkedTo(d + 1, todo, chains)'
    BY <1>3, <2>3, SameMenus
  <2>5. QED
    BY <1>1, <1>3, <2>1, <2>4 DEF WalkTrue
<1>5. CASE Unreached /\ UNCHANGED <<deviceVars, used>>
  <2>1. ~walked /\ walked' /\ todo = {} /\ todo' = todo /\ variant' = variant
    BY <1>5 DEF Unreached, deviceVars
  <2>2. PICK d \in Nat : WalkedTo(d, todo, chains)
    BY <1>1, <2>1 DEF WalkTrue
  <2>3. AllKnown(chains')
    BY <1>2, <1>5, <2>1, <2>2, Arrived
  <2>4. AllKnown(chains)'
    BY <1>3, <2>3, SameMenus
  <2>5. QED
    BY <1>1, <1>3, <2>1, <2>4 DEF WalkTrue
<1>6. ASSUME UNCHANGED displayVars, variant' # NoVariant => walked
      PROVE  WalkTrue'
  <2>1. todo' = todo /\ chains' = chains /\ walked' = walked
    BY <1>6 DEF displayVars
  <2>2. \A d : WalkedTo(d, todo, chains) => WalkedTo(d, todo, chains)'
    BY <1>3, <2>1, SameMenus
  <2>3. AllKnown(chains) => AllKnown(chains)'
    BY <1>3, <2>1, SameMenus
  <2>4. QED
    BY <1>1, <1>3, <1>6, <2>1, <2>2, <2>3 DEF WalkTrue
<1>7. CASE SelectVariant \/ NameVariant
  BY <1>6, <1>7 DEF SelectVariant, NameVariant
<1>8. CASE Build \/ ReadBack \/ EncodeOut \/ UNCHANGED vars
  BY <1>1, <1>6, <1>8 DEF Build, ReadBack, EncodeOut, vars, deviceVars, WalkTrue
<1>9. QED
  BY <1>1, <1>4, <1>5, <1>7, <1>8 DEF Next, Parse


ScalingsTrue ==
    /\ IsList(items)
    /\ \A i \in 1..Len(items) : Sound(items[i].scaling, ShownAs(items[i].subindex))

VariantMeant ==
    variant # NoVariant /\ call # NoVariant =>
      \A other \in file.variants \ {variant} :
        /\ variant.when # <<>> /\ Holds(variant.when, call)
        /\ other.when # <<>> => ~Holds(other.when, call)

GuessFree == WalkTrue /\ ScalingsTrue /\ VariantMeant

\* What the menus say of a value does not change with the steps of the code.
LEMMA SameShown ==
  ASSUME menus' = menus, given' = given, NEW scaling, NEW i
  PROVE  Sound(scaling, ShownAs(i)) => Sound(scaling, ShownAs(i))'
<1>1. Ways' = Ways
  BY DEF Ways
<1>2. \A w, m : Leads(w, m)' <=> Leads(w, m)
  BY DEF Leads
<1>3. ShownAs(i)' = ShownAs(i)
  BY <1>1, <1>2 DEF ShownAs
<1>4. \A w : Open(w)' <=> Open(w)
  BY DEF Open
<1>5. QED
  BY <1>3, <1>4 DEF Sound, Justified, OnlyClosed

LEMMA GuessFreeInit == Init => GuessFree
<1>1. SUFFICES ASSUME Init PROVE GuessFree
  OBVIOUS
<1>2. items = <<>> /\ variant = NoVariant
  BY <1>1 DEF Init
<1>3. QED
  BY <1>1, <1>2, WalkTrueInit DEF GuessFree, ScalingsTrue, VariantMeant, IsList

LEMMA VariantMeantStep == VariantMeant /\ [Next]_vars => VariantMeant'
<1>1. SUFFICES ASSUME VariantMeant, [Next]_vars PROVE VariantMeant'
  OBVIOUS
<1>2. CASE SelectVariant
  <2>0. PICK opts \in Conditions(file), v \in file.variants :
          /\ Selects(v, opts @@ given)
          /\ variant' = v
          /\ call' = opts @@ given
    BY <1>2, Zenon DEF SelectVariant
  <2> DEFINE conditions == opts @@ given
  <2>1. Selects(v, conditions) /\ variant' = v /\ call' = conditions /\ file' = file
    BY <1>2, <2>0 DEF SelectVariant
  <2> HIDE DEF conditions
  <2>2. ASSUME NEW other \in file.variants, other # v
        PROVE  /\ v.when # <<>> /\ Holds(v.when, conditions)
               /\ other.when # <<>> => ~Holds(other.when, conditions)
    <3>1. {w \in file.variants : w.when # <<>> /\ Holds(w.when, conditions)} = {v}
      BY <2>1, <2>2 DEF Selects
    <3>2. QED
      BY <2>2, <3>1
  <2>3. QED
    BY <2>1, <2>2 DEF VariantMeant, Holds
<1>3. CASE NameVariant
  BY <1>3 DEF NameVariant, VariantMeant
<1>4. ASSUME UNCHANGED <<file, variant, call>>
      PROVE  VariantMeant'
  BY <1>1, <1>4 DEF VariantMeant, Holds
<1>5. QED
  BY <1>1, <1>2, <1>3, <1>4
  DEF Next, Parse, Build, ReadBack, EncodeOut, vars, deviceVars

LEMMA ScalingsTrueStep == WalkTrue /\ ScalingsTrue /\ [Next]_vars => ScalingsTrue'
<1>1. SUFFICES ASSUME WalkTrue, ScalingsTrue, [Next]_vars PROVE ScalingsTrue'
  OBVIOUS
<1>2. menus' = menus /\ given' = given
  BY <1>1 DEF Next, Parse, Walk, Unreached, SelectVariant, NameVariant, Build, ReadBack,
              EncodeOut, vars, deviceVars, displayVars
<1>3. CASE Build
  <2>1. PICK key, part :
          items' = Append(items, ItemFrom(part, key,
                     ResolveCandidates(CandidatesFor(part.subindex))))
    BY <1>3 DEF Build
  <2> DEFINE scaling == ResolveCandidates(CandidatesFor(part.subindex))
             new == ItemFrom(part, key, scaling)
  <2>2. new.scaling = scaling /\ new.subindex = part.subindex
    BY DEF ItemFrom
  <2>3. MenusOK /\ AllKnown(chains)
    BY <1>1, <1>3, WalkGivesMenus DEF Build, WalkTrue
  <2>4. Sound(scaling, ShownAs(part.subindex))
    BY <2>3, CandidatesStandFor, Resolved
  <2> HIDE DEF new, scaling
  <2>5. /\ IsList(items')
        /\ Len(items') = Len(items) + 1
        /\ \A i \in 1..Len(items) : items'[i] = items[i]
        /\ items'[Len(items) + 1] = new
    BY <1>1, <2>1, Appended DEF ScalingsTrue, new, scaling
  <2>6. \A i \in 1..Len(items') : i \in 1..Len(items) \/ i = Len(items) + 1
    <3>1. Len(items) \in Nat
      BY <1>1 DEF ScalingsTrue, IsList
    <3>2. QED
      BY <2>5, <3>1
  <2>7. ASSUME NEW i \in 1..Len(items')
        PROVE  Sound(items'[i].scaling, ShownAs(items'[i].subindex))
    <3>1. CASE i \in 1..Len(items)
      BY <1>1, <2>5, <3>1 DEF ScalingsTrue
    <3>2. CASE i = Len(items) + 1
      BY <2>2, <2>4, <2>5, <3>2
    <3>3. QED
      BY <2>6, <3>1, <3>2
  <2>8. ASSUME NEW i \in 1..Len(items')
        PROVE  Sound(items[i].scaling, ShownAs(items[i].subindex))'
    BY <1>2, <2>7, SameShown
  <2>9. QED
    BY <2>5, <2>8 DEF ScalingsTrue, IsList
<1>4. ASSUME UNCHANGED items
      PROVE  ScalingsTrue'
  <2>1. ASSUME NEW i \in 1..Len(items)
        PROVE  Sound(items[i].scaling, ShownAs(items[i].subindex))'
    BY <1>1, <1>2, <1>4, <2>1, SameShown DEF ScalingsTrue
  <2>2. QED
    BY <1>1, <1>4, <2>1 DEF ScalingsTrue, IsList
<1>5. QED
  BY <1>1, <1>3, <1>4
  DEF Next, Parse, SelectVariant, NameVariant, ReadBack, EncodeOut, vars, deviceVars

\* Whatever menus a file has, whatever circles they go round in and whatever a flow
\* supplies: where a menu that shows the value is open, it is scaled only as those
\* that are open deepest down agree; where none is, it is raw or has the scaling all
\* of them agree on, which is the code's exception; and a layout is taken only when
\* no other could be meant (resolveCandidates, menuConditionChains, selectVariant).
THEOREM NothingGuessed == Spec => []NeverGuessed
<1>1. GuessFree /\ [Next]_vars => GuessFree'
  BY WalkTrueStep, ScalingsTrueStep, VariantMeantStep DEF GuessFree
<1>2. GuessFree => NeverGuessed
  <2>1. ScalingsTrue => DOMAIN items = 1..Len(items)
    BY DEF ScalingsTrue, IsList
  <2>2. QED
    BY <2>1 DEF GuessFree, ScalingsTrue, VariantMeant, NeverGuessed, Sound
<1>3. QED
  BY <1>1, <1>2, GuessFreeInit, PTL DEF Spec

-----------------------------------------------------------------------------
\* Several values written into one block, on what was read or on none.

\* Among sets that are finite there is one with no other inside it.
LEMMA SmallestFirst ==
  ASSUME NEW D, D # {}, \A s \in D : IsFiniteSet(s)
  PROVE  \E s \in D : \A t \in D : t \subseteq s => t = s
<1> DEFINE N == {Cardinality(s) : s \in D}
           R == OpToRel(<, Nat)
<1>1. N \subseteq Nat /\ N # {}
  BY FS_CardinalityType
<1>2. \A x, y \in Nat : y < x => <<y, x>> \in R
  BY DEF OpToRel
<1>3. IsWellFoundedOn(R, Nat)
  BY NatLessThanWellFounded
<1> HIDE DEF N, R
<1>4. PICK k \in N : \A y \in N : ~(<<y, k>> \in R)
  BY <1>1, <1>3, WFMin
<1>5. PICK s \in D : k = Cardinality(s)
  BY DEF N
<1>6. ASSUME NEW t \in D, t \subseteq s
      PROVE  t = s
  <2>1. Cardinality(t) \in N
    BY DEF N
  <2>2. Cardinality(t) \in Nat /\ k \in Nat /\ ~(Cardinality(t) < k)
    BY <1>1, <1>2, <1>4, <2>1
  <2>3. Cardinality(t) <= k /\ (Cardinality(t) = k <=> t = s)
    BY <1>5, <1>6, FS_Subset
  <2>4. QED
    BY <2>2, <2>3
<1>7. QED
  BY <1>6

\* The element a fold takes first (FoldSet).
First(s) == CHOOSE x \in s : TRUE

\* g says of every part of S what is left of base once W was applied for each element.
FoldsBy(g, S, base, W) ==
    \A s \in SUBSET S :
      g[s] = IF s = {} THEN base ELSE W[First(s)][g[s \ {First(s)}]]

LEMMA FoldsAgree ==
  ASSUME NEW S, IsFiniteSet(S), NEW g, NEW A, NEW h, NEW C, NEW base, NEW W,
         FoldsBy(g, A, base, W), FoldsBy(h, C, base, W), S \subseteq A, S \subseteq C
  PROVE  g[S] = h[S]
<1> DEFINE D == {s \in SUBSET S : g[s] # h[s]}
<1>1. SUFFICES ASSUME D # {} PROVE FALSE
  OBVIOUS
<1>2. \A s \in D : IsFiniteSet(s)
  BY FS_Subset
<1>3. PICK s \in D : \A t \in D : t \subseteq s => t = s
  <2> HIDE DEF D
  <2>1. QED
    BY <1>1, <1>2, SmallestFirst
<1>4. s \in SUBSET A /\ s \in SUBSET C /\ g[s] # h[s]
  OBVIOUS
<1>5. s # {}
  BY <1>4 DEF FoldsBy
<1> DEFINE x == First(s)
           t == s \ {x}
<1>6. x \in s
  BY <1>5 DEF First
<1>7. t \in SUBSET S /\ t \subseteq s /\ t # s
  BY <1>6
<1>8. g[t] = h[t]
  BY <1>3, <1>7
<1>9. g[s] = W[x][g[t]] /\ h[s] = W[x][h[t]]
  BY <1>4, <1>5 DEF FoldsBy
<1>10. QED
  BY <1>4, <1>8, <1>9

\* The recursive function a fold chooses exists, for every finite set.
LEMMA FoldExists ==
  ASSUME NEW S, IsFiniteSet(S), NEW B, NEW base \in B, NEW W \in [S -> [B -> B]]
  PROVE  \E g \in [SUBSET S -> B] : FoldsBy(g, S, base, W)
<1> DEFINE Done(s) == \E g \in [SUBSET s -> B] : FoldsBy(g, s, base, W)
           D == {s \in SUBSET S : ~Done(s)}
<1>1. SUFFICES ASSUME D # {} PROVE FALSE
  OBVIOUS
<1>2. \A s \in D : IsFiniteSet(s)
  BY FS_Subset
<1>3. PICK m \in D : \A t \in D : t \subseteq m => t = m
  <2> HIDE DEF D
  <2>1. QED
    BY <1>1, <1>2, SmallestFirst
<1>4. m \in SUBSET S /\ ~Done(m)
  OBVIOUS
<1>5. ASSUME NEW t \in SUBSET m
      PROVE  t # m => Done(t)
  BY <1>3, <1>4
<1> DEFINE G(s) == CHOOSE g \in [SUBSET s -> B] : FoldsBy(g, s, base, W)
           up(s) == W[First(s)][G(s \ {First(s)})[s \ {First(s)}]]
           h == [s \in SUBSET m |-> IF s = {} THEN base ELSE IF s = m THEN up(m) ELSE G(s)[s]]
<1>6. ASSUME NEW s \in SUBSET m, s # m
      PROVE  G(s) \in [SUBSET s -> B] /\ FoldsBy(G(s), s, base, W)
  BY <1>5, <1>6
<1>7. ASSUME NEW s \in SUBSET m, s # {}
      PROVE  /\ First(s) \in s /\ First(s) \in S
             /\ s \ {First(s)} \in SUBSET m /\ s \ {First(s)} # m
             /\ s \ {First(s)} \in SUBSET s
  BY <1>4, <1>7 DEF First
<1>8. ASSUME NEW s \in SUBSET m, s # m
      PROVE  G(s)[s] \in B
  <2> HIDE DEF G
  <2>1. QED
    BY <1>6, <1>8
<1> HIDE DEF G
<1>9. h \in [SUBSET m -> B]
  <2>1. ASSUME m # {}
        PROVE  up(m) \in B
    <3>1. G(m \ {First(m)})[m \ {First(m)}] \in B
      BY <1>7, <1>8, <2>1
    <3>2. W[First(m)] \in [B -> B]
      BY <1>7, <2>1
    <3>3. QED
      BY <3>1, <3>2
  <2> HIDE DEF up
  <2>2. \A s \in SUBSET m :
          (IF s = {} THEN base ELSE IF s = m THEN up(m) ELSE G(s)[s]) \in B
    BY <1>8, <2>1
  <2>3. QED
    BY <2>2
<1>10. ASSUME NEW s \in SUBSET m
       PROVE  h[s] = IF s = {} THEN base ELSE W[First(s)][h[s \ {First(s)}]]
  <2>1. CASE s = {}
    BY <2>1
  <2>2. CASE s # {}
    <3> DEFINE t == s \ {First(s)}
    <3>1. t \in SUBSET m /\ t # m /\ t \in SUBSET s /\ First(s) \in s
      BY <1>7, <2>2
    <3>2. h[t] = G(t)[t]
      <4>1. CASE t # {}
        BY <3>1, <4>1
      <4>2. CASE t = {}
        <5>1. h[t] = base
          BY <4>2
        <5>2. FoldsBy(G(t), t, base, W)
          BY <1>6, <3>1
        <5>3. G(t)[t] = base
          BY <4>2, <5>2 DEF FoldsBy
        <5>4. QED
          BY <5>1, <5>3
      <4>3. QED
        BY <4>1, <4>2
    <3>3. CASE s = m
      <4>1. h[s] = up(m)
        BY <2>2, <3>3
      <4>2. QED
        BY <2>2, <3>2, <3>3, <4>1
    <3>4. CASE s # m
      <4>1. h[s] = G(s)[s]
        BY <2>2, <3>4
      <4>2. FoldsBy(G(s), s, base, W) /\ FoldsBy(G(t), t, base, W)
        BY <1>6, <3>1, <3>4
      <4>3. G(s)[s] = W[First(s)][G(s)[t]]
        BY <2>2, <4>2 DEF FoldsBy
      <4>4. IsFiniteSet(t)
        BY <1>4, <3>1, FS_Subset
      <4>5. G(s)[t] = G(t)[t]
        BY <3>1, <4>2, <4>4, FoldsAgree
      <4>6. QED
        BY <2>2, <3>2, <4>1, <4>3, <4>5
    <3>5. QED
      BY <3>3, <3>4
  <2>3. QED
    BY <2>1, <2>2
<1> HIDE DEF h
<1>11. Done(m)
  BY <1>9, <1>10 DEF FoldsBy
<1>12. QED
  BY <1>4, <1>11

\* Two blocks that differ in no bit but these.
SameBeyond(old, new, bits) ==
    \A k \in Int : k \notin bits => (k \in ToBigInt(new) <=> k \in ToBigInt(old))

FieldOK(item) == item.offset \in Nat /\ item.length \in Nat

ValueOK(v) == v.kind = "octets" => v.of \in Seq(Octets)

\* Encoding one value writes no bit outside its field.
LEMMA EncodeItemKeeps ==
  ASSUME NEW n \in Nat, NEW base \in Blocks(n), NEW buf \in Blocks(n),
         NEW item, FieldOK(item), NEW v, ValueOK(v), EncodesItem(base, item, v)
  PROVE  /\ EncodeItem(buf, item, v) \in Blocks(n)
         /\ SameBeyond(buf, EncodeItem(buf, item, v), Field(item))
<1> DEFINE offset == item.offset
           length == item.length
           new == EncodeItem(buf, item, v)
<1>1. offset \in Nat /\ length \in Nat /\ Field(item) = offset..(offset + length - 1)
  BY DEF FieldOK, Field
<1>2. Len(buf) = n /\ Width(buf) = 8 * n /\ Len(base) = n /\ Width(base) = 8 * n
  BY BlockLength
<1>3. Fits(buf, offset, length)
  BY <1>2 DEF EncodesItem, Fits
<1>4. CASE ~IsString(item)
  <2>1. PICK bits : new = WriteBits(buf, offset, length, bits)
    BY <1>4 DEF EncodeItem
  <2> HIDE DEF new, offset, length
  <2>2. new \in Blocks(n)
    BY <1>1, <1>3, <2>1, Written
  <2>3. ASSUME NEW k \in Int, k \notin Field(item)
        PROVE  k \in ToBigInt(new) <=> k \in ToBigInt(buf)
    BY <1>1, <1>3, <2>1, <2>3, OthersUntouched
  <2>4. QED
    BY <2>2, <2>3 DEF SameBeyond, new
<1>5. CASE IsString(item)
  <2>1. new = WriteOctets(buf, offset, length, v.of)
    BY <1>5 DEF EncodeItem
  <2>2. v.of \in Seq(Octets) /\ Len(v.of) <= length \div 8 /\ Aligned(offset, length)
    BY <1>5 DEF EncodesItem, ValueOK, Width8
  <2> DEFINE start == Start(buf, offset, length)
             wide == length \div 8
  <2> HIDE DEF new, offset, length
  <2>3. /\ new \in Blocks(n)
        /\ \A i \in 1..n : i \notin (start + 1)..(start + wide) => new[i] = buf[i]
    BY <1>1, <1>3, <2>1, <2>2, OctetsHold
  <2>4. Len(new) = n /\ Width(new) = 8 * n
    BY <2>3, BlockLength
  <2>5. PICK a \in Nat : offset = 8 * a
    BY <1>1, <2>2 DEF Aligned
  <2>6. PICK w \in Nat : length = 8 * w
    BY <1>1, <2>2 DEF Aligned
  <2>7. start = n - a - w /\ wide = w
    BY <1>2, <2>5, <2>6 DEF Start
  <2> HIDE DEF start, wide
  <2>8. ASSUME NEW k \in Int, k \notin offset..(offset + length - 1)
        PROVE  k \in ToBigInt(new) <=> k \in ToBigInt(buf)
    <3>1. CASE k \in 0..(8 * n - 1)
      <4> DEFINE i == n - (k \div 8)
      <4>1. i \in 1..n
        BY <3>1
      <4>2. i \notin (start + 1)..(start + wide)
        <5>1. ~(k \div 8 >= a /\ k \div 8 <= a + w - 1)
          BY <2>5, <2>6, <2>8, <3>1
        <5>2. k \div 8 \in Int
          BY <3>1
        <5> DEFINE q == k \div 8
        <5> HIDE DEF q
        <5>3. q \in Int /\ ~(q >= a /\ q <= a + w - 1) /\ i = n - q
          BY <5>1, <5>2 DEF q
        <5> HIDE DEF i
        <5>4. QED
          BY <2>7, <5>3
      <4>3. new[i] = buf[i]
        BY <2>3, <4>1, <4>2
      <4>4. QED
        BY <1>2, <2>4, <3>1, <4>3 DEF ToBigInt
    <3>2. CASE k \notin 0..(8 * n - 1)
      BY <1>2, <2>4, <3>2 DEF ToBigInt
    <3>3. QED
      BY <3>1, <3>2
  <2>9. QED
    BY <1>1, <2>3, <2>8 DEF SameBeyond, new
<1>6. QED
  BY <1>4, <1>5

\* One value of several is encoded on what the ones before have left.
Turn(values, layout, key, buf) ==
    LET item == ItemOf(layout, key)
    IN  EncodeItem(buf, item, ResolveEnum(item, values[key]))

Rounds(values, layout, base, g) ==
    [s \in SUBSET (DOMAIN values) |->
       IF s = {} THEN base ELSE Turn(values, layout, First(s), g[s \ {First(s)}])]

LEMMA Unfolded ==
  ASSUME NEW values, NEW layout, NEW base
  PROVE  EncodeLayout(values, layout, base) =
           (CHOOSE g : g = Rounds(values, layout, Leading(base, layout.octets), g))
             [DOMAIN values]
BY Zenon DEF EncodeLayout, FoldSet, MapThenFoldSet, Turn, Rounds, First

\* What encoding a value makes of its field does not depend on the block.
LEMMA EncodeItemAlike ==
  ASSUME NEW n \in Nat, NEW base \in Blocks(n), NEW b \in Blocks(n), NEW c \in Blocks(n),
         NEW item, FieldOK(item), NEW v, ValueOK(v), EncodesItem(base, item, v),
         NEW k \in Field(item)
  PROVE  k \in ToBigInt(EncodeItem(b, item, v)) <=> k \in ToBigInt(EncodeItem(c, item, v))
<1> DEFINE offset == item.offset
           length == item.length
<1>1. offset \in Nat /\ length \in Nat /\ k \in offset..(offset + length - 1)
  BY DEF FieldOK, Field
<1>2. /\ Len(b) = n /\ Width(b) = 8 * n /\ Len(c) = n /\ Width(c) = 8 * n
      /\ Width(base) = 8 * n
  BY BlockLength
<1>3. Fits(b, offset, length) /\ Fits(c, offset, length)
  BY <1>2 DEF EncodesItem, Fits
<1>4. CASE ~IsString(item)
  <2>1. PICK bits : /\ EncodeItem(b, item, v) = WriteBits(b, offset, length, bits)
                    /\ EncodeItem(c, item, v) = WriteBits(c, offset, length, bits)
    BY <1>4 DEF EncodeItem
  <2> HIDE DEF offset, length
  <2>2. k \in ShiftLeft(Mask(length), offset)
    <3>1. k - offset \in Mask(length) /\ k = (k - offset) + offset
      BY <1>1 DEF Mask
    <3>2. QED
      BY <3>1 DEF ShiftLeft
  <2>3. k \in ToBigInt(WriteBits(b, offset, length, bits))
          <=> k \in ShiftLeft(bits \cap Mask(length), offset)
    <3>1. ToBigInt(WriteBits(b, offset, length, bits)) =
              (ToBigInt(b) \ ShiftLeft(Mask(length), offset))
              \cup ShiftLeft(bits \cap Mask(length), offset)
      BY <1>1, <1>3, Written
    <3>2. QED
      BY <2>2, <3>1
  <2>5. k \in ToBigInt(WriteBits(c, offset, length, bits))
          <=> k \in ShiftLeft(bits \cap Mask(length), offset)
    <3>1. ToBigInt(WriteBits(c, offset, length, bits)) =
              (ToBigInt(c) \ ShiftLeft(Mask(length), offset))
              \cup ShiftLeft(bits \cap Mask(length), offset)
      BY <1>1, <1>3, Written
    <3>2. QED
      BY <2>2, <3>1
  <2>6. QED
    BY <2>1, <2>3, <2>5
<1>5. CASE IsString(item)
  <2>1. /\ EncodeItem(b, item, v) = WriteOctets(b, offset, length, v.of)
        /\ EncodeItem(c, item, v) = WriteOctets(c, offset, length, v.of)
    BY <1>5 DEF EncodeItem
  <2>2. v.of \in Seq(Octets) /\ Len(v.of) <= length \div 8 /\ Aligned(offset, length)
    BY <1>5 DEF EncodesItem, ValueOK, Width8
  <2> DEFINE B == WriteOctets(b, offset, length, v.of)
             C == WriteOctets(c, offset, length, v.of)
  <2> HIDE DEF offset, length
  <2>3. B \in Blocks(n) /\ C \in Blocks(n)
    BY <1>1, <1>3, <2>2, OctetsHold
  <2>4. Len(B) = n /\ Width(B) = 8 * n /\ Len(C) = n /\ Width(C) = 8 * n
    BY <2>3, BlockLength
  <2>5. PICK a \in Nat : offset = 8 * a
    BY <1>1, <2>2 DEF Aligned
  <2>6. PICK w \in Nat : length = 8 * w
    BY <1>1, <2>2 DEF Aligned
  <2> DEFINE start == n - a - w
             i == n - (k \div 8)
  <2>7. /\ Start(b, offset, length) = start /\ Start(c, offset, length) = start
        /\ length \div 8 = w
    BY <1>2, <2>5, <2>6 DEF Start
  <2>8. k \in 0..(8 * n - 1) /\ i \in 1..n /\ i - start \in 1..w
    <3>1. k >= 8 * a /\ k <= 8 * a + 8 * w - 1 /\ k \in Int
      BY <1>1, <2>5, <2>6
    <3>2. 8 * a + 8 * w <= 8 * n
      BY <1>2, <1>3, <2>5, <2>6 DEF Fits
    <3>3. k \div 8 >= a /\ k \div 8 <= a + w - 1 /\ k \div 8 \in Int
      BY <3>1
    <3> DEFINE q == k \div 8
    <3> HIDE DEF q
    <3>4. i = n - q /\ q >= a /\ q <= a + w - 1 /\ q \in Int
      BY <3>3 DEF q
    <3> HIDE DEF i
    <3>5. i \in 1..n /\ i - start \in 1..w
      BY <3>2, <3>4
    <3>6. QED
      BY <3>1, <3>2, <3>5
  <2> HIDE DEF start, i
  <2>9. B[i] = C[i]
    BY <1>2, <2>7, <2>8 DEF WriteOctets
  <2> HIDE DEF B, C
  <2>10. k \in ToBigInt(B) <=> k \in ToBigInt(C)
    BY <2>4, <2>8, <2>9 DEF ToBigInt, i
  <2>11. QED
    BY <2>1, <2>10 DEF B, C
<1>6. QED
  BY <1>4, <1>5

\* A payload whose values can be written into a block of n octets.
Writable(n, layout, base, values) ==
    /\ layout.octets = n
    /\ Leading(base, n) \in Blocks(n)
    /\ IsFiniteSet(DOMAIN values)
    /\ Encodes(values, layout, base)
    /\ \A key \in DOMAIN values :
         /\ FieldOK(ItemOf(layout, key))
         /\ ValueOK(ResolveEnum(ItemOf(layout, key), values[key]))

LEMMA Turned ==
  ASSUME NEW n \in Nat, NEW layout, NEW base, NEW values, Writable(n, layout, base, values),
         NEW key \in DOMAIN values, NEW b \in Blocks(n)
  PROVE  LET new == Turn(values, layout, key, b)
             bits == Field(ItemOf(layout, key)) IN
         /\ new \in Blocks(n)
         /\ SameBeyond(b, new, bits)
         /\ \A k \in bits : k \in ToBigInt(new)
                <=> k \in ToBigInt(Turn(values, layout, key, Leading(base, n)))
<1> DEFINE item == ItemOf(layout, key)
           v == ResolveEnum(item, values[key])
           first == Leading(base, n)
<1>1. FieldOK(item) /\ ValueOK(v) /\ EncodesItem(first, item, v) /\ first \in Blocks(n)
  BY DEF Encodes, Writable
<1>2. /\ Turn(values, layout, key, b) = EncodeItem(b, item, v)
      /\ Turn(values, layout, key, first) = EncodeItem(first, item, v)
  BY DEF Turn
<1> HIDE DEF item, v, first
<1>3. EncodeItem(b, item, v) \in Blocks(n) /\ SameBeyond(b, EncodeItem(b, item, v), Field(item))
  BY <1>1, EncodeItemKeeps
<1>4. \A k \in Field(item) : k \in ToBigInt(EncodeItem(b, item, v))
                               <=> k \in ToBigInt(EncodeItem(first, item, v))
  BY <1>1, EncodeItemAlike
<1>5. QED
  BY <1>2, <1>3, <1>4 DEF item, first

\* What the block is once the values of a part of the payload were encoded.
Stages(g, n, layout, base, values) ==
    /\ g \in [SUBSET (DOMAIN values) -> Blocks(n)]
    /\ g[{}] = Leading(base, n)
    /\ \A s \in SUBSET (DOMAIN values) : s # {} =>
         g[s] = Turn(values, layout, First(s), g[s \ {First(s)}])
    /\ g[DOMAIN values] = EncodeLayout(values, layout, base)

\* Encoding a payload is encoding its values one after another.
LEMMA EncodeLayoutRounds ==
  ASSUME NEW n \in Nat, NEW layout, NEW base, NEW values, Writable(n, layout, base, values)
  PROVE  \E g : Stages(g, n, layout, base, values)
<1> DEFINE S == DOMAIN values
           first == Leading(base, n)
           B == Blocks(n)
           W == [key \in S |-> [b \in B |-> Turn(values, layout, key, b)]]
<1>1. first \in B /\ IsFiniteSet(S) /\ layout.octets = n
  BY DEF Writable
<1>2. ASSUME NEW key \in S, NEW b \in B
      PROVE  Turn(values, layout, key, b) \in B
  BY Turned
<1>3. W \in [S -> [B -> B]]
  BY <1>2
<1>4. \A key \in S, b \in B : W[key][b] = Turn(values, layout, key, b)
  OBVIOUS
<1> HIDE DEF B, W
<1>5. PICK g \in [SUBSET S -> B] : FoldsBy(g, S, first, W)
  <2> HIDE DEF S, first
  <2>2. QED
    BY <1>1, <1>3, FoldExists
<1>6. ASSUME NEW s \in SUBSET S, s # {}
      PROVE  /\ First(s) \in s /\ s \ {First(s)} \in SUBSET S
             /\ s \ {First(s)} \in SUBSET s /\ s \ {First(s)} # s
  BY <1>6 DEF First
<1>7. ASSUME NEW s \in SUBSET S
      PROVE  g[s] = IF s = {} THEN first
                    ELSE Turn(values, layout, First(s), g[s \ {First(s)}])
  <2>1. CASE s = {}
    BY <1>5, <2>1 DEF FoldsBy
  <2>2. CASE s # {}
    <3>1. First(s) \in S /\ s \ {First(s)} \in SUBSET S
      BY <1>6, <2>2
    <3>2. g[s \ {First(s)}] \in B
      BY <1>5, <3>1
    <3>3. g[s] = W[First(s)][g[s \ {First(s)}]]
      BY <1>5, <2>2 DEF FoldsBy
    <3>4. QED
      BY <1>4, <2>2, <3>1, <3>2, <3>3
  <2>3. QED
    BY <2>1, <2>2
<1> DEFINE h == CHOOSE f : f = Rounds(values, layout, first, f)
<1>8. g = Rounds(values, layout, first, g)
  <2> DEFINE T == Rounds(values, layout, first, g)
  <2>1. T = [s \in SUBSET S |-> IF s = {} THEN first
               ELSE Turn(values, layout, First(s), g[s \ {First(s)}])]
    BY DEF Rounds
  <2> HIDE DEF T, S, first
  <2>2. T = [s \in SUBSET S |-> g[s]]
    BY <1>7, <2>1
  <2>3. T = g
    BY <1>5, <2>2
  <2>4. QED
    BY <2>3 DEF T, first
<1>9. h = Rounds(values, layout, first, h)
  BY <1>8
<1> HIDE DEF h
<1>10. \A s \in SUBSET S : h[s] = IF s = {} THEN first
                             ELSE Turn(values, layout, First(s), h[s \ {First(s)}])
  <2> DEFINE T == Rounds(values, layout, first, h)
  <2>1. \A s \in SUBSET S : T[s] = IF s = {} THEN first
                             ELSE Turn(values, layout, First(s), h[s \ {First(s)}])
    BY DEF Rounds
  <2> HIDE DEF T
  <2>2. h = T
    BY <1>9 DEF T
  <2>3. QED
    BY <2>1, <2>2
<1>11. h[S] = g[S]
  <2> DEFINE D == {s \in SUBSET S : h[s] # g[s]}
  <2>1. SUFFICES ASSUME D # {} PROVE FALSE
    OBVIOUS
  <2>2. \A s \in D : IsFiniteSet(s)
    BY <1>1, FS_Subset
  <2>3. PICK s \in D : \A t \in D : t \subseteq s => t = s
    <3> HIDE DEF D
    <3>1. QED
      BY <2>1, <2>2, SmallestFirst
  <2>4. s \in SUBSET S /\ h[s] # g[s]
    OBVIOUS
  <2>5. s # {}
    BY <1>7, <1>10, <2>4
  <2> DEFINE t == s \ {First(s)}
  <2>6. t \in SUBSET S /\ t \subseteq s /\ t # s
    BY <1>6, <2>4, <2>5
  <2>7. h[t] = g[t]
    BY <2>3, <2>6
  <2>8. h[s] = Turn(values, layout, First(s), h[t]) /\ g[s] = Turn(values, layout, First(s), g[t])
    BY <1>7, <1>10, <2>4, <2>5
  <2>9. QED
    BY <2>4, <2>7, <2>8
<1>12. EncodeLayout(values, layout, base) = g[S]
  BY <1>1, <1>11, Unfolded DEF h
<1>13. Stages(g, n, layout, base, values)
  BY <1>5, <1>7, <1>12 DEF B, Stages
<1>14. QED
  BY <1>13

\* Encoding any number of values into a block leaves alone every bit that is in no
\* field of theirs; and where their fields do not overlap, each field becomes what
\* its value alone would have made of it (encodeLayout).
THEOREM EncodeLayoutKeeps ==
  ASSUME NEW n \in Nat, NEW layout, NEW base, NEW values, Writable(n, layout, base, values)
  PROVE  LET new == EncodeLayout(values, layout, base)
             bits(key) == Field(ItemOf(layout, key)) IN
         /\ new \in Blocks(n)
         /\ SameBeyond(Leading(base, n), new, UNION {bits(key) : key \in DOMAIN values})
         /\ \A key \in DOMAIN values :
              (\A other \in DOMAIN values : other # key => bits(other) \cap bits(key) = {})
              => \A k \in bits(key) : k \in ToBigInt(new)
                   <=> k \in ToBigInt(Turn(values, layout, key, Leading(base, n)))
<1> DEFINE S == DOMAIN values
           first == Leading(base, n)
           new == EncodeLayout(values, layout, base)
           bits(key) == Field(ItemOf(layout, key))
           Apart(key) == \A other \in S : other # key => bits(other) \cap bits(key) = {}
           alone(key) == Turn(values, layout, key, first)
<1>0. PICK g : Stages(g, n, layout, base, values)
  BY EncodeLayoutRounds
<1>1. /\ g \in [SUBSET S -> Blocks(n)]
      /\ g[{}] = first
      /\ \A s \in SUBSET S : s # {} =>
           g[s] = Turn(values, layout, First(s), g[s \ {First(s)}])
      /\ g[S] = new
  BY <1>0 DEF Stages
<1> DEFINE Right(s) ==
             /\ SameBeyond(first, g[s], UNION {bits(key) : key \in s})
             /\ \A key \in s : Apart(key) =>
                  \A k \in bits(key) : k \in ToBigInt(g[s]) <=> k \in ToBigInt(alone(key))
           D == {s \in SUBSET S : ~Right(s)}
<1>2. D = {}
  <2>1. SUFFICES ASSUME D # {} PROVE FALSE
    OBVIOUS
  <2>2. \A s \in D : IsFiniteSet(s)
    BY FS_Subset DEF Writable
  <2>3. PICK s \in D : \A t \in D : t \subseteq s => t = s
    <3> HIDE DEF D
    <3>1. QED
      BY <2>1, <2>2, SmallestFirst
  <2>4. s \in SUBSET S /\ ~Right(s)
    BY <2>3
  <2>5. s # {}
    <3>1. Right({})
      BY <1>1 DEF SameBeyond
    <3>2. QED
      BY <2>4, <3>1
  <2> DEFINE x == First(s)
             t == s \ {x}
  <2>6. x \in s /\ x \in S
    BY <2>4, <2>5 DEF First
  <2>7. t \in SUBSET S /\ t \subseteq s /\ t # s
    BY <2>4, <2>6
  <2>8. Right(t)
    BY <2>3, <2>7
  <2>9. g[t] \in Blocks(n) /\ g[s] = Turn(values, layout, x, g[t])
    BY <1>1, <2>4, <2>5, <2>7
  <2>10. /\ SameBeyond(g[t], g[s], bits(x))
         /\ \A k \in bits(x) : k \in ToBigInt(g[s]) <=> k \in ToBigInt(alone(x))
    <3> HIDE DEF x, t
    <3>1. QED
      BY <2>6, <2>9, Turned
  <2> HIDE DEF x, alone, first
  <2>11. SameBeyond(first, g[s], UNION {bits(key) : key \in s})
    <3>1. SameBeyond(first, g[t], UNION {bits(key) : key \in t})
      BY <2>8
    <3>2. /\ bits(x) \subseteq UNION {bits(key) : key \in s}
          /\ UNION {bits(key) : key \in t} \subseteq UNION {bits(key) : key \in s}
      BY <2>6
    <3> HIDE DEF t, bits
    <3>3. QED
      BY <2>10, <3>1, <3>2 DEF SameBeyond
  <2>12. ASSUME NEW key \in s, Apart(key), NEW k \in bits(key)
         PROVE  k \in ToBigInt(g[s]) <=> k \in ToBigInt(alone(key))
    <3>1. CASE key = x
      BY <2>10, <3>1
    <3>2. CASE key # x
      <4>1. key \in t /\ k \notin bits(x)
        BY <2>6, <2>12, <3>2
      <4>2. k \in ToBigInt(g[t]) <=> k \in ToBigInt(alone(key))
        BY <2>8, <2>12, <4>1
      <4>3. k \in Int
        <5>1. FieldOK(ItemOf(layout, key))
          BY <2>4, <2>12 DEF Writable
        <5>2. QED
          BY <2>12, <5>1 DEF Field, FieldOK
      <4>4. k \in ToBigInt(g[s]) <=> k \in ToBigInt(g[t])
        BY <2>10, <4>1, <4>3 DEF SameBeyond
      <4>5. QED
        BY <4>2, <4>4
    <3>3. QED
      BY <3>1, <3>2
  <2>13. Right(s)
    BY <2>11, <2>12
  <2>14. QED
    BY <2>4, <2>13
<1>3. Right(S)
  BY <1>2
<1>4. g[S] \in Blocks(n)
  BY <1>1
<1> HIDE DEF new
<1>5. QED
  BY <1>1, <1>3, <1>4 DEF new

\* The part of a sequence that a reader cuts out of its middle.
LEMMA Cut ==
  ASSUME NEW v \in Seq(Octets), NEW a \in Nat, NEW d \in Nat, a + d <= Len(v)
  PROVE  /\ SubSeq(v, a + 1, a + d) \in Seq(Octets) /\ Len(SubSeq(v, a + 1, a + d)) = d
         /\ \A i \in 1..d : SubSeq(v, a + 1, a + d)[i] = v[a + i]
<1>1. \A i \in (a + 1)..(a + d) : v[i] \in Octets
  OBVIOUS
<1>2. a + 1 \in Int /\ a + d \in Int
  OBVIOUS
<1> DEFINE w == SubSeq(v, a + 1, a + d)
<1>3. /\ w \in Seq(Octets)
      /\ Len(w) = IF a + 1 <= a + d THEN a + d - (a + 1) + 1 ELSE 0
      /\ \A i \in 1..(a + d - (a + 1) + 1) : w[i] = v[a + 1 + i - 1]
  BY <1>1, <1>2, SubSeqProperties
<1> HIDE DEF w
<1>4. /\ a + d - (a + 1) + 1 = d
      /\ \A i \in 1..d : a + 1 + i - 1 = a + i
  OBVIOUS
<1>5. QED
  BY <1>3, <1>4 DEF w

\* An octet of a block is eight bits of its BigInt.
LEMMA OctetBits ==
  ASSUME NEW n \in Nat, NEW buf \in Blocks(n), NEW i \in 1..n
  PROVE  buf[i] = {b \in 0..7 : 8 * (n - i) + b \in ToBigInt(buf)}
<1>1. Len(buf) = n /\ Width(buf) = 8 * n
  BY BlockLength
<1>2. buf[i] \subseteq 0..7
  BY DEF Blocks, Octets
<1>3. ASSUME NEW b \in 0..7
      PROVE  b \in buf[i] <=> 8 * (n - i) + b \in ToBigInt(buf)
  <2> DEFINE k == 8 * (n - i) + b
  <2>1. k \in 0..(8 * n - 1) /\ k % 8 = b /\ n - (k \div 8) = i
    OBVIOUS
  <2> HIDE DEF k
  <2>2. k \in ToBigInt(buf) <=> b \in buf[i]
    BY <1>1, <2>1 DEF ToBigInt
  <2>3. QED
    BY <2>2 DEF k
<1>4. QED
  BY <1>2, <1>3

\* What a decoder makes of an item depends on the bits of its field alone.
LEMMA FieldAlone ==
  ASSUME NEW n \in Nat, NEW old \in Blocks(n), NEW new \in Blocks(n),
         NEW item, FieldOK(item),
         \A k \in Field(item) : k \in ToBigInt(new) <=> k \in ToBigInt(old),
         Fits(old, item.offset, item.length),
         IsString(item) => Aligned(item.offset, item.length),
         item.type \in Types
  PROVE  DecodeItem(new, item) = DecodeItem(old, item)
<1> DEFINE offset == item.offset
           length == item.length
<1>1. offset \in Nat /\ length \in Nat /\ Field(item) = offset..(offset + length - 1)
  BY DEF FieldOK, Field
<1>2. /\ Len(old) = n /\ Width(old) = 8 * n /\ Len(new) = n /\ Width(new) = 8 * n
      /\ offset + length <= 8 * n
  BY BlockLength DEF Fits
<1>3. ASSUME NEW k \in offset..(offset + length - 1)
      PROVE  k \in ToBigInt(new) <=> k \in ToBigInt(old)
  BY <1>1
<1>4. ReadBits(new, offset, length) = ReadBits(old, offset, length)
  <2> DEFINE At(b) == {k \in Mask(length) : k + offset \in ToBigInt(b)}
  <2> HIDE DEF offset, length
  <2>1. ASSUME NEW k \in Mask(length)
        PROVE  k + offset \in ToBigInt(new) <=> k + offset \in ToBigInt(old)
    <3>1. k + offset \in offset..(offset + length - 1)
      BY <1>1 DEF Mask
    <3>2. QED
      BY <1>3, <3>1
  <2>2. ToBigInt(new) \subseteq Int /\ ToBigInt(old) \subseteq Int
    BY DEF ToBigInt, Width
  <2>3. ReadBits(new, offset, length) = At(new)
    BY <1>1, <2>2 DEF ReadBits, ShiftRight, Mask
  <2>4. ReadBits(old, offset, length) = At(old)
    BY <1>1, <2>2 DEF ReadBits, ShiftRight, Mask
  <2>5. QED
    BY <2>1, <2>3, <2>4
<1>5. CASE IsString(item)
  <2> HIDE DEF offset, length
  <2>1. PICK a \in Nat : offset = 8 * a
    BY <1>1, <1>5 DEF Aligned, offset, length
  <2>2. PICK w \in Nat : length = 8 * w
    BY <1>1, <1>5 DEF Aligned, offset, length
  <2> DEFINE start == n - a - w
  <2>3. /\ Start(new, offset, length) = start /\ Start(old, offset, length) = start
        /\ length \div 8 = w /\ start \in Nat /\ start + w <= n
    BY <1>2, <2>1, <2>2 DEF Start, offset, length
  <2>4. ASSUME NEW i \in (start + 1)..(start + w)
        PROVE  new[i] = old[i]
    <3>1. i \in 1..n
      BY <2>3
    <3>2. ASSUME NEW b \in 0..7
          PROVE  8 * (n - i) + b \in offset..(offset + length - 1)
      BY <1>2, <2>1, <2>2, <2>3
    <3>3. \A b \in 0..7 : 8 * (n - i) + b \in ToBigInt(new) <=> 8 * (n - i) + b \in ToBigInt(old)
      BY <1>3, <3>2 DEF offset, length
    <3>4. new[i] = {b \in 0..7 : 8 * (n - i) + b \in ToBigInt(new)}
      BY <3>1, OctetBits
    <3>5. old[i] = {b \in 0..7 : 8 * (n - i) + b \in ToBigInt(old)}
      BY <3>1, OctetBits
    <3>6. QED
      BY <3>3, <3>4, <3>5
  <2>5. new \in Seq(Octets) /\ old \in Seq(Octets)
    BY DEF Blocks
  <2> HIDE DEF start
  <2>6. /\ SubSeq(new, start + 1, start + w) \in Seq(Octets)
        /\ Len(SubSeq(new, start + 1, start + w)) = w
        /\ \A i \in 1..w : SubSeq(new, start + 1, start + w)[i] = new[start + i]
    BY <1>2, <2>3, <2>5, Cut
  <2>7. /\ SubSeq(old, start + 1, start + w) \in Seq(Octets)
        /\ Len(SubSeq(old, start + 1, start + w)) = w
        /\ \A i \in 1..w : SubSeq(old, start + 1, start + w)[i] = old[start + i]
    BY <1>2, <2>3, <2>5, Cut
  <2>8. \A i \in 1..w : start + i \in (start + 1)..(start + w)
    BY <2>3
  <2>9. SubSeq(new, start + 1, start + w) = SubSeq(old, start + 1, start + w)
    BY <2>4, <2>6, <2>7, <2>8, SeqEqual
  <2>10. ReadOctets(new, offset, length) = ReadOctets(old, offset, length)
    BY <2>3, <2>9 DEF ReadOctets
  <2>11. QED
    BY <1>5, <2>10 DEF DecodeItem, IsString, Types, offset, length
<1>6. CASE ~IsString(item)
  BY <1>4, <1>6 DEF DecodeItem, IsString, Types
<1>7. QED
  BY <1>5, <1>6

\* So a value that shares no bit with those written reads as it did: a write of some
\* values keeps what was read of the others (encodeLayout, decodeLayout).
THEOREM OthersReadAlike ==
  ASSUME NEW n \in Nat, NEW layout, NEW base, NEW values, Writable(n, layout, base, values),
         NEW item, FieldOK(item), Fits(Leading(base, n), item.offset, item.length),
         IsString(item) => Aligned(item.offset, item.length), item.type \in Types,
         \A key \in DOMAIN values : Field(item) \cap Field(ItemOf(layout, key)) = {}
  PROVE  DecodeItem(EncodeLayout(values, layout, base), item)
           = DecodeItem(Leading(base, n), item)
<1> DEFINE new == EncodeLayout(values, layout, base)
           first == Leading(base, n)
           written == UNION {Field(ItemOf(layout, key)) : key \in DOMAIN values}
<1>1. Field(item) \cap written = {}
  OBVIOUS
<1>2. new \in Blocks(n) /\ SameBeyond(first, new, written)
  BY EncodeLayoutKeeps
<1>3. first \in Blocks(n) /\ Fits(first, item.offset, item.length)
  BY DEF Writable
<1> HIDE DEF new, written, first
<1>4. \A k \in Field(item) : k \in ToBigInt(new) <=> k \in ToBigInt(first)
  <2>1. Field(item) \subseteq Int
    BY DEF Field, FieldOK
  <2>2. QED
    BY <1>1, <1>2, <2>1 DEF SameBeyond
<1>5. DecodeItem(new, item) = DecodeItem(first, item)
  BY <1>2, <1>3, <1>4, FieldAlone
<1>6. QED
  BY <1>5 DEF new, first

\* And one of several values written at once, in whatever order, reads as if it had
\* been written alone, if the others lie elsewhere (encodeLayout).
THEOREM EachReadsAsAlone ==
  ASSUME NEW n \in Nat, NEW layout, NEW base, NEW values, Writable(n, layout, base, values),
         NEW key \in DOMAIN values, ItemOf(layout, key).type \in Types,
         \A other \in DOMAIN values :
           other # key => Field(ItemOf(layout, other)) \cap Field(ItemOf(layout, key)) = {}
  PROVE  LET item == ItemOf(layout, key)
             first == Leading(base, n) IN
         DecodeItem(EncodeLayout(values, layout, base), item) =
           DecodeItem(EncodeItem(first, item, ResolveEnum(item, values[key])), item)
<1> DEFINE item == ItemOf(layout, key)
           v == ResolveEnum(item, values[key])
           first == Leading(base, n)
           new == EncodeLayout(values, layout, base)
           alone == Turn(values, layout, key, first)
<1>1. first \in Blocks(n) /\ FieldOK(item) /\ EncodesItem(first, item, v)
  BY DEF Writable, Encodes
<1>2. new \in Blocks(n)
  BY EncodeLayoutKeeps
<1>3. \A k \in Field(item) : k \in ToBigInt(new) <=> k \in ToBigInt(alone)
  BY EncodeLayoutKeeps
<1>4. alone \in Blocks(n)
  BY <1>1, Turned
<1>5. alone = EncodeItem(first, item, v)
  BY DEF Turn
<1> HIDE DEF new, alone, first, v
<1>6. Width(alone) = Width(first)
  BY <1>1, <1>4, BlockLength
<1>7. /\ Fits(alone, item.offset, item.length)
      /\ IsString(item) => Aligned(item.offset, item.length)
  BY <1>1, <1>6 DEF EncodesItem, Fits
<1>8. item.type \in Types
  OBVIOUS
<1> HIDE DEF item
<1>9. DecodeItem(new, item) = DecodeItem(alone, item)
  BY <1>1, <1>2, <1>3, <1>4, <1>7, <1>8, FieldAlone
<1>10. QED
  BY <1>5, <1>9 DEF new, first, item, v

\* There are as many subsets with a further element as without it.
LEMMA Powers ==
  /\ 2^0 = 1
  /\ \A n \in Nat : 2^n \in Nat \ {0} /\ 2^(n + 1) = 2 * 2^n
<1>1. ASSUME NEW n \in Nat
      PROVE  IsFiniteSet(1..n) /\ Cardinality(1..n) = n
  <2>1. 1 \in Int /\ n \in Int
    OBVIOUS
  <2>2. IsFiniteSet(1..n)
    BY <2>1, FS_Interval, Zenon
  <2>3. Cardinality(1..n) = IF 1 > n THEN 0 ELSE n - 1 + 1
    BY <2>1, FS_Interval, Zenon
  <2>4. QED
    BY <2>2, <2>3
<1> DEFINE P(n) == SUBSET (1..n)
<1>2. ASSUME NEW n \in Nat
      PROVE  IsFiniteSet(P(n)) /\ Cardinality(P(n)) = 2^n /\ Cardinality(P(n)) \in Nat
  <2>1. IsFiniteSet(P(n)) /\ Cardinality(P(n)) = 2^Cardinality(1..n)
    BY <1>1, FS_SUBSET, Zenon
  <2>2. QED
    BY <1>1, <2>1, FS_CardinalityType
<1>3. ASSUME NEW n \in Nat
      PROVE  2^(n + 1) = 2 * 2^n
  <2> DEFINE m == n + 1
             Q == {s \cup {m} : s \in P(n)}
             f == [s \in P(n) |-> s \cup {m}]
             h == [q \in Q |-> q \ {m}]
  <2>1. m \in Nat /\ m \notin 1..n /\ 1..m = 1..n \cup {m}
    OBVIOUS
  <2>2. f \in Surjection(P(n), Q)
    <3>1. f \in [P(n) -> Q] /\ \A q \in Q : \E s \in P(n) : f[s] = q
      OBVIOUS
    <3> HIDE DEF f, P, Q
    <3>2. QED
      BY <3>1 DEF Surjection
  <2>3. IsFiniteSet(Q) /\ Cardinality(Q) = Cardinality(P(n))
    <3>1. \A s \in P(n) : s \cup {m} \in Q /\ (s \cup {m}) \ {m} = s
      BY <2>1
    <3>2. h \in [Q -> P(n)]
      <4>1. ASSUME NEW q \in Q
            PROVE  q \ {m} \in P(n)
        <5>1. PICK s \in P(n) : q = s \cup {m}
          OBVIOUS
        <5>2. QED
          BY <3>1, <5>1
      <4> HIDE DEF P, Q
      <4>2. QED
        BY <4>1
    <3>3. \A s \in P(n) : \E q \in Q : h[q] = s
      BY <3>1
    <3> HIDE DEF f, h, P, Q
    <3>4. h \in Surjection(Q, P(n))
      BY <3>2, <3>3 DEF Surjection
    <3>5. IsFiniteSet(Q) /\ Cardinality(Q) <= Cardinality(P(n))
      BY <1>2, <2>2, FS_Surjection
    <3>6. Cardinality(P(n)) <= Cardinality(Q)
      BY <3>4, <3>5, FS_Surjection
    <3>7. QED
      BY <1>2, <3>5, <3>6, FS_CardinalityType
  <2>4. P(m) = P(n) \cup Q /\ P(n) \cap Q = {}
    <3>1. ASSUME NEW s \in P(m), m \in s
          PROVE  s \in Q
      <4>1. s \ {m} \in P(n) /\ s = (s \ {m}) \cup {m}
        BY <2>1, <3>1
      <4>2. QED
        BY <4>1
    <3>2. \A s \in P(m) : m \notin s => s \in P(n)
      BY <2>1
    <3>3. Q \subseteq P(m) /\ P(n) \subseteq P(m)
      BY <2>1
    <3>4. \A s \in Q : m \in s
      OBVIOUS
    <3>5. \A s \in P(n) : m \notin s
      BY <2>1
    <3> HIDE DEF Q, P
    <3>6. QED
      BY <3>1, <3>2, <3>3, <3>4, <3>5
  <2> HIDE DEF P, Q
  <2>5. Cardinality(P(m)) = Cardinality(P(n)) + Cardinality(Q) - Cardinality(P(n) \cap Q)
    BY <1>2, <2>3, <2>4, FS_Union
  <2>6. Cardinality(P(n) \cap Q) = 0
    BY <2>4, FS_EmptySet
  <2>7. Cardinality(P(m)) = 2^m /\ Cardinality(P(n)) = 2^n /\ Cardinality(P(n)) \in Nat
    BY <1>2, <2>1
  <2>8. QED
    BY <2>3, <2>5, <2>6, <2>7
<1>4. ASSUME NEW n \in Nat
      PROVE  2^n \in Nat \ {0}
  <2>1. {} \in P(n)
    OBVIOUS
  <2> HIDE DEF P
  <2>2. Cardinality(P(n)) # 0
    BY <1>2, <2>1, FS_EmptySet
  <2>3. QED
    BY <1>2, <2>2
<1>5. 2^0 = 1
  OBVIOUS
<1>6. QED
  BY <1>3, <1>4, <1>5

\* The powers of two of the bits that are 1, added in any order.
LEMMA UnsignedFolds ==
  ASSUME NEW S \in SUBSET Nat, IsFiniteSet(S)
  PROVE  /\ Unsigned(S) \in Int
         /\ S = {} => Unsigned(S) = 0
         /\ S # {} => Unsigned(S) = 2^First(S) + Unsigned(S \ {First(S)})
<1> DEFINE W == [x \in S |-> [b \in Int |-> 2^x + b]]
           Sum(s, f) == [t \in SUBSET s |->
                           IF t = {} THEN 0 ELSE 2^First(t) + f[t \ {First(t)}]]
           Fold(s) == CHOOSE f : f = Sum(s, f)
<1>1. \A s : Unsigned(s) = Fold(s)[s]
  BY Zenon DEF Unsigned, MapThenSumSet, MapThenFoldSet, First
<1>2. ASSUME NEW s \in SUBSET S, s # {}
      PROVE  First(s) \in s /\ First(s) \in S /\ s \ {First(s)} \in SUBSET S
  BY <1>2 DEF First
<1>3. W \in [S -> [Int -> Int]]
  BY Powers
<1>4. \A x \in S, b \in Int : W[x][b] = 2^x + b
  OBVIOUS
<1> HIDE DEF W
<1>5. PICK g \in [SUBSET S -> Int] : FoldsBy(g, S, 0, W)
  <2> DEFINE Z == Int
             zero == 0
  <2>1. zero \in Z /\ W \in [S -> [Z -> Z]] /\ IsFiniteSet(S)
    BY <1>3
  <2> HIDE DEF Z, zero
  <2>2. \E g \in [SUBSET S -> Z] : FoldsBy(g, S, zero, W)
    BY <2>1, FoldExists
  <2>3. QED
    BY <2>2 DEF Z, zero
<1>6. ASSUME NEW s \in SUBSET S
      PROVE  g[s] = IF s = {} THEN 0 ELSE 2^First(s) + g[s \ {First(s)}]
  BY <1>2, <1>4, <1>5 DEF FoldsBy
<1>7. ASSUME NEW s \in SUBSET S
      PROVE  Unsigned(s) = g[s]
  <2> DEFINE h == [t \in SUBSET s |-> g[t]]
  <2>1. ASSUME NEW t \in SUBSET s, t # {}
        PROVE  t \ {First(t)} \in SUBSET s /\ t \in SUBSET S
    OBVIOUS
  <2>2. h = Sum(s, h)
    <3>1. \A t \in SUBSET s : h[t] = IF t = {} THEN 0 ELSE 2^First(t) + h[t \ {First(t)}]
      BY <1>6, <2>1
    <3>2. Sum(s, h) = [t \in SUBSET s |-> h[t]]
      BY <3>1
    <3> DEFINE T == Sum(s, h)
    <3> HIDE DEF T
    <3>3. T = [t \in SUBSET s |-> h[t]]
      BY <3>2 DEF T
    <3>4. h = T
      BY <3>3
    <3>5. QED
      BY <3>4 DEF T
  <2> DEFINE f == Fold(s)
  <2>3. f = Sum(s, f)
    BY <2>2
  <2> HIDE DEF f
  <2>4. \A t \in SUBSET s : f[t] = IF t = {} THEN 0 ELSE 2^First(t) + f[t \ {First(t)}]
    <3> DEFINE T == Sum(s, f)
    <3>1. \A t \in SUBSET s : T[t] = IF t = {} THEN 0 ELSE 2^First(t) + f[t \ {First(t)}]
      OBVIOUS
    <3> HIDE DEF T
    <3>2. f = T
      BY <2>3 DEF T
    <3>3. QED
      BY <3>1, <3>2
  <2> DEFINE D == {t \in SUBSET s : f[t] # g[t]}
  <2>5. D = {}
    <3>1. SUFFICES ASSUME D # {} PROVE FALSE
      OBVIOUS
    <3>2. \A t \in D : IsFiniteSet(t)
      BY FS_Subset
    <3>3. PICK t \in D : \A u \in D : u \subseteq t => u = t
      <4> HIDE DEF D
      <4>1. QED
        BY <3>1, <3>2, SmallestFirst
    <3>4. t \in SUBSET s /\ t \in SUBSET S /\ f[t] # g[t]
      OBVIOUS
    <3>5. t # {}
      BY <1>6, <2>4, <3>4
    <3> DEFINE u == t \ {First(t)}
    <3>6. u \in SUBSET s /\ u \subseteq t /\ u # t
      BY <1>2, <3>4, <3>5
    <3>7. f[u] = g[u]
      BY <3>3, <3>6
    <3>8. f[t] = 2^First(t) + f[u] /\ g[t] = 2^First(t) + g[u]
      BY <1>6, <2>4, <3>4, <3>5
    <3>9. QED
      BY <3>4, <3>7, <3>8
  <2>6. f[s] = g[s]
    BY <2>5
  <2>7. QED
    BY <1>1, <2>6 DEF f
<1>8. QED
  <2>1. S \in SUBSET S
    OBVIOUS
  <2>2. S # {} => Unsigned(S \ {First(S)}) = g[S \ {First(S)}]
    BY <1>2, <1>7, <2>1
  <2>3. Unsigned(S) = g[S] /\ g[S] \in Int
    BY <1>5, <1>7, <2>1
  <2>4. QED
    BY <1>6, <2>1, <2>2, <2>3

\* So any bit may be counted first.
LEMMA UnsignedTake ==
  ASSUME NEW S \in SUBSET Nat, IsFiniteSet(S), NEW x \in S
  PROVE  Unsigned(S) = 2^x + Unsigned(S \ {x})
<1> DEFINE Ok(s) == \A y \in s : Unsigned(s) = 2^y + Unsigned(s \ {y})
           D == {s \in SUBSET S : ~Ok(s)}
<1>1. SUFFICES ASSUME D # {} PROVE FALSE
  <2>1. S \in SUBSET S
    OBVIOUS
  <2>2. QED
    BY <2>1
<1>2. \A s \in SUBSET S : IsFiniteSet(s) /\ s \in SUBSET Nat
  BY FS_Subset
<1>3. PICK s \in D : \A t \in D : t \subseteq s => t = s
  <2>1. \A t \in D : IsFiniteSet(t)
    BY <1>2
  <2> HIDE DEF D
  <2>2. QED
    BY <1>1, <2>1, SmallestFirst
<1>4. PICK y \in s : Unsigned(s) # 2^y + Unsigned(s \ {y})
  BY <1>3
<1> DEFINE z == First(s)
<1>5. s \in SUBSET S /\ z \in s
  BY <1>4 DEF First
<1>6. Unsigned(s) = 2^z + Unsigned(s \ {z})
  BY <1>2, <1>5, UnsignedFolds
<1>7. z # y
  BY <1>4, <1>6
<1> DEFINE t == s \ {z}
           u == s \ {y}
<1>8. /\ t \in SUBSET S /\ t \subseteq s /\ t # s /\ y \in t
      /\ u \in SUBSET S /\ u \subseteq s /\ u # s /\ z \in u
      /\ t \ {y} = u \ {z}
  BY <1>4, <1>5, <1>7
<1>9. Ok(t) /\ Ok(u)
  BY <1>3, <1>8
<1>10. Unsigned(t) = 2^y + Unsigned(t \ {y})
  BY <1>8, <1>9
<1>11. Unsigned(u) = 2^z + Unsigned(u \ {z})
  BY <1>8, <1>9
<1>12. 2^y \in Int /\ 2^z \in Int /\ Unsigned(t \ {y}) \in Int
  <2>1. y \in Nat /\ z \in Nat /\ t \ {y} \in SUBSET S
    BY <1>2, <1>4, <1>5
  <2>2. Unsigned(t \ {y}) \in Int
    BY <1>2, <2>1, UnsignedFolds
  <2>3. QED
    BY <2>1, <2>2, Powers
<1>13. Unsigned(s) = 2^z + Unsigned(t)
  BY <1>6
<1>14. t \ {y} = u \ {z}
  BY <1>8
<1> HIDE DEF t, u, z
<1>15. Unsigned(s) = 2^y + Unsigned(u)
  <2> DEFINE p == 2^y
             q == 2^z
             r == Unsigned(t \ {y})
  <2>1. /\ Unsigned(t) = p + r /\ Unsigned(u) = q + r /\ Unsigned(s) = q + Unsigned(t)
        /\ p \in Int /\ q \in Int /\ r \in Int
    BY <1>10, <1>11, <1>12, <1>13, <1>14
  <2> HIDE DEF p, q, r
  <2>2. Unsigned(s) = p + Unsigned(u)
    BY <2>1
  <2>3. QED
    BY <2>2 DEF p
<1>16. QED
  BY <1>4, <1>15 DEF u

\* The quotient and the rest, from a multiple of the divisor.
LEMMA Divided ==
  ASSUME NEW x \in Int, NEW q \in Int, NEW r \in Int, NEW d \in Nat \ {0},
         x = d * q + r, 0 <= r, r < d
  PROVE  x \div d = q /\ x % d = r
<1>1. x \div d = q
  OBVIOUS
<1>2. x = d * (x \div d) + (x % d) /\ x % d \in Int
  OBVIOUS
<1>3. x = d * q + (x % d)
  BY <1>1, <1>2
<1> DEFINE p == d * q
           m == x % d
<1>4. p \in Int /\ m \in Int /\ x = p + m /\ x = p + r
  BY <1>2, <1>3
<1> HIDE DEF p, m
<1>5. m = r
  BY <1>4
<1>6. QED
  BY <1>1, <1>5 DEF m

\* One bit more of a count, negative or not.
LEMMA Halved ==
  ASSUME NEW P \in Nat \ {0}, NEW raw \in Int
  PROVE  raw % (2 * P) = (raw % P) + (IF (raw \div P) % 2 = 1 THEN P ELSE 0)
<1> DEFINE q == raw \div P
           r == raw % P
           s == q \div 2
           b == q % 2
<1>1. q \in Int /\ r \in Int /\ raw = P * q + r /\ 0 <= r /\ r < P
  OBVIOUS
<1> HIDE DEF q, r
<1>2. s \in Int /\ b \in {0, 1} /\ q = 2 * s + b
  BY <1>1
<1> HIDE DEF s
<1> DEFINE low == IF b = 1 THEN P + r ELSE r
<1>3. low \in Int /\ 0 <= low /\ low < 2 * P /\ raw = (2 * P) * s + low
  <2> HIDE DEF b
  <2>1. CASE b = 1
    BY <1>1, <1>2, <2>1
  <2>2. CASE b = 0
    BY <1>1, <1>2, <2>2
  <2>3. QED
    BY <1>2, <2>1, <2>2
<1> HIDE DEF low
<1> DEFINE d == 2 * P
<1>4. d \in Nat \ {0}
  OBVIOUS
<1>5. raw = d * s + low /\ low < d
  BY <1>3
<1> HIDE DEF d
<1>6. raw % d = low
  <2>1. s \in Int /\ low \in Int /\ 0 <= low
    BY <1>2, <1>3
  <2>2. QED
    BY <1>4, <1>5, <2>1, Divided, Zenon
<1>7. QED
  BY <1>1, <1>2, <1>6 DEF low, d, r, q, b

\* A set of numbers has a least one.
LEMMA LeastOf ==
  ASSUME NEW N \in SUBSET Nat, N # {}
  PROVE  \E m \in N : \A k \in N : m <= k
<1> DEFINE R == OpToRel(<, Nat)
<1>1. \A x, y \in Nat : y < x => <<y, x>> \in R
  BY DEF OpToRel
<1>2. IsWellFoundedOn(R, Nat)
  BY NatLessThanWellFounded
<1> HIDE DEF R
<1>3. PICK m \in N : \A k \in N : ~(<<k, m>> \in R)
  BY <1>2, WFMin
<1>4. ASSUME NEW k \in N
      PROVE  m <= k
  <2>1. m \in Nat /\ k \in Nat
    OBVIOUS
  <2>2. ~(k < m)
    BY <1>1, <1>3, <2>1
  <2>3. QED
    BY <2>1, <2>2
<1>5. QED
  BY <1>4

\* A count is written in as many bits as its field has.
LEMMA ToBitsFinite ==
  ASSUME NEW length \in Nat, NEW raw \in Int
  PROVE  /\ ToBits(raw, length) \in SUBSET Nat /\ IsFiniteSet(ToBits(raw, length))
         /\ ToBits(raw, length) \subseteq Mask(length)
<1>1. ToBits(raw, length) \subseteq 0..(length - 1)
  BY DEF ToBits
<1>2. IsFiniteSet(0..(length - 1))
  <2> DEFINE top == length - 1
  <2>1. 0 \in Int /\ top \in Int
    OBVIOUS
  <2> HIDE DEF top
  <2>2. IsFiniteSet(0..top)
    BY <2>1, FS_Interval, Zenon
  <2>3. QED
    BY <2>2 DEF top
<1>3. QED
  BY <1>1, <1>2, FS_Subset DEF Mask

\* Writing a count cuts it to the width of its field, whatever its sign.
LEMMA BitsOfCount ==
  ASSUME NEW length \in Nat, NEW raw \in Int
  PROVE  Unsigned(ToBits(raw, length)) = raw % 2^length
<1> DEFINE N == {n \in Nat : Unsigned(ToBits(raw, n)) # raw % 2^n}
<1>1. SUFFICES ASSUME N # {} PROVE FALSE
  OBVIOUS
<1>2. PICK n \in N : \A k \in N : n <= k
  <2>1. N \in SUBSET Nat
    OBVIOUS
  <2> HIDE DEF N
  <2>2. QED
    BY <1>1, <2>1, LeastOf
<1>3. n \in Nat /\ Unsigned(ToBits(raw, n)) # raw % 2^n
  OBVIOUS
<1>4. CASE n = 0
  <2>1. ToBits(raw, 0) = {}
    BY DEF ToBits
  <2>2. Unsigned({}) = 0
    BY FS_EmptySet, UnsignedFolds
  <2>3. raw % 2^0 = 0
    BY Powers
  <2>4. QED
    BY <1>3, <1>4, <2>1, <2>2, <2>3
<1>5. CASE n # 0
  <2> DEFINE m == n - 1
             P == 2^m
             old == ToBits(raw, m)
             new == ToBits(raw, n)
  <2>1. m \in Nat /\ n = m + 1 /\ m < n
    BY <1>3, <1>5
  <2>2. P \in Nat \ {0} /\ 2^n = 2 * P
    BY <2>1, Powers
  <2>3. Unsigned(old) = raw % P
    BY <1>2, <2>1
  <2>4. raw % (2 * P) = (raw % P) + (IF (raw \div P) % 2 = 1 THEN P ELSE 0)
    BY <2>2, Halved
  <2>5. /\ \A k \in 0..(m - 1) : k \in new <=> k \in old
        /\ m \in new <=> (raw \div P) % 2 = 1
        /\ old \subseteq 0..(m - 1) /\ new \subseteq 0..m
    BY <2>1 DEF ToBits
  <2>6. \A k \in 0..m : k \in 0..(m - 1) \/ k = m
    BY <2>1
  <2>7. m \notin 0..(m - 1)
    BY <2>1
  <2> HIDE DEF old, new
  <2>8. CASE (raw \div P) % 2 = 1
    <3>1. m \in new /\ new \ {m} = old
      BY <2>5, <2>6, <2>7, <2>8
    <3>2. new \in SUBSET Nat /\ IsFiniteSet(new)
      BY <1>3, ToBitsFinite DEF new
    <3>3. Unsigned(new) = P + Unsigned(old)
      BY <3>1, <3>2, UnsignedTake
    <3> HIDE DEF P
    <3>4. raw % P \in Int
      BY <2>2
    <3>5. Unsigned(new) = raw % 2^n
      BY <2>2, <2>3, <2>4, <2>8, <3>3, <3>4
    <3>6. QED
      BY <1>3, <3>5 DEF new
  <2>9. CASE (raw \div P) % 2 # 1
    <3>1. new = old
      BY <2>5, <2>6, <2>7, <2>9
    <3> HIDE DEF P
    <3>2. raw % P \in Int
      BY <2>2
    <3>3. Unsigned(new) = raw % 2^n
      BY <2>2, <2>3, <2>4, <2>9, <3>1, <3>2
    <3>4. QED
      BY <1>3, <3>3 DEF new
  <2>10. QED
    BY <2>8, <2>9
<1>6. QED
  BY <1>4, <1>5

\* A count in the range of its type comes back as it was (fromSigned, toSigned).
LEMMA CountsHold ==
  ASSUME NEW item, item.length \in Nat \ {0}, IsNumeric(item), NEW raw \in Counts(item)
  PROVE  /\ raw \in Int
         /\ item.type = "UInteger" => Unsigned(ToBits(raw, item.length)) = raw
         /\ item.type = "Integer" => ToSigned(ToBits(raw, item.length), item.length) = raw
<1> DEFINE length == item.length
           H == 2^(length - 1)
           bits == ToBits(raw, length)
<1>1. length \in Nat /\ length - 1 \in Nat /\ length = (length - 1) + 1
  OBVIOUS
<1>2. H \in Nat \ {0} /\ 2^length = 2 * H
  BY <1>1, Powers
<1>3. IF item.type = "UInteger" THEN raw \in 0..(2^length - 1) ELSE raw \in (-H)..(H - 1)
  BY DEF Counts
<1>4. raw \in Int
  BY <1>3
<1>5. Unsigned(bits) = raw % (2 * H)
  BY <1>1, <1>2, <1>4, BitsOfCount
<1>6. length - 1 \in bits <=> (raw \div H) % 2 = 1
  BY <1>1 DEF ToBits
<1> HIDE DEF length, H, bits
<1>7. CASE item.type = "UInteger"
  <2>1. raw \in 0..(2 * H - 1)
    BY <1>2, <1>3, <1>7
  <2> DEFINE d == 2 * H
  <2>2. d \in Nat \ {0} /\ raw < d /\ raw >= 0
    BY <1>2, <2>1
  <2> HIDE DEF d
  <2>3. raw % d = raw
    BY <1>4, <2>2
  <2>4. QED
    BY <1>4, <1>5, <1>7, <2>3 DEF d, length, bits
<1>8. CASE item.type = "Integer"
  <2>1. raw >= -H /\ raw <= H - 1
    BY <1>2, <1>3, <1>8
  <2> DEFINE d == 2 * H
  <2>2. d \in Nat \ {0} /\ H < d
    BY <1>2
  <2>3. ToSigned(bits, length) = Unsigned(bits) - (IF length - 1 \in bits THEN d ELSE 0)
    BY <1>2 DEF ToSigned
  <2>4. CASE raw >= 0
    <3>1. raw \div H = 0
      BY <1>2, <1>4, <2>1, <2>4
    <3>2. length - 1 \notin bits
      BY <1>6, <3>1
    <3>3. raw < d
      BY <1>2, <1>4, <2>1, <2>2
    <3>4. Unsigned(bits) = raw
      <4> HIDE DEF d
      <4>1. raw % d = raw
        BY <1>4, <2>2, <2>4, <3>3
      <4>2. QED
        BY <1>5, <4>1 DEF d
    <3>5. QED
      BY <1>4, <1>8, <2>3, <3>2, <3>4 DEF length, bits
  <2>5. CASE raw < 0
    <3>1. raw \div H = -1
      <4>1. raw + H \in Int /\ raw + H >= 0 /\ raw + H < H /\ raw = H * (-1) + (raw + H)
        BY <1>2, <1>4, <2>1, <2>5
      <4>2. QED
        BY <1>2, <1>4, <4>1
    <3>2. length - 1 \in bits
      BY <1>6, <3>1
    <3>3. Unsigned(bits) = raw + d
      <4>1. raw + d \in Int /\ raw + d >= 0 /\ raw + d < d /\ raw = d * (-1) + (raw + d)
        BY <1>2, <1>4, <2>1, <2>5
      <4> HIDE DEF d
      <4>2. raw % d = raw + d
        BY <1>4, <2>2, <4>1
      <4>3. QED
        BY <1>5, <4>2 DEF d
    <3>4. QED
      <4> HIDE DEF d
      <4>1. ToSigned(bits, length) = raw
        BY <1>4, <2>2, <2>3, <3>2, <3>3
      <4>2. QED
        BY <1>4, <1>8, <4>1 DEF length, bits
  <2>6. QED
    BY <1>4, <2>4, <2>5
<1>9. QED
  BY <1>4, <1>7, <1>8 DEF IsNumeric

\* Rounding to a count and scaling it again misses by half a count at most.
LEMMA HalfACount ==
  ASSUME NEW g \in Int \ {0}, NEW s \in Int, NEW x \in Int
  PROVE  LET raw == Round(x - s, g)
             shown == raw * g + s IN
         /\ raw \in Int
         /\ 2 * (shown - x) <= Max({g, -g}) /\ 2 * (x - shown) <= Max({g, -g})
<1> DEFINE a == x - s
           m == Max({g, -g})
<1>1. m = (IF g > 0 THEN g ELSE -g)
  <2>1. m \in {g, -g} /\ m >= g /\ m >= -g
    <3>1. \E y \in {g, -g} : \A z \in {g, -g} : y >= z
      OBVIOUS
    <3>2. m \in {g, -g} /\ \A z \in {g, -g} : m >= z
      BY <3>1 DEF Max
    <3>3. QED
      BY <3>2
  <2> HIDE DEF m
  <2>2. QED
    BY <2>1
<1>2. a \in Int /\ x = a + s
  OBVIOUS
<1> HIDE DEF a, m
<1>3. ASSUME NEW b \in Nat \ {0}, NEW c \in Int
      PROVE  LET q == (2 * c + b) \div (2 * b) IN
             q \in Int /\ 2 * (q * b - c) <= b /\ 2 * (c - q * b) <= b
  OBVIOUS
<1>4. CASE g > 0
  <2> DEFINE q == Round(a, g)
  <2>1. q = (2 * a + g) \div (2 * g)
    BY <1>4 DEF Round
  <2>2. q \in Int /\ 2 * (q * g - a) <= g /\ 2 * (a - q * g) <= g
    BY <1>2, <1>3, <1>4, <2>1
  <2> HIDE DEF q
  <2>3. 2 * (q * g + s - x) <= m /\ 2 * (x - (q * g + s)) <= m
    <3> DEFINE p == q * g
    <3>1. p \in Int /\ 2 * (p - a) <= g /\ 2 * (a - p) <= g
      BY <2>2
    <3> HIDE DEF p
    <3>2. 2 * (p + s - x) <= m /\ 2 * (x - (p + s)) <= m
      BY <1>1, <1>2, <1>4, <3>1
    <3>3. QED
      BY <3>2 DEF p
  <2>4. QED
    BY <2>2, <2>3 DEF q, a, m
<1>5. CASE ~(g > 0)
  <2> DEFINE q == Round(a, g)
             b == -g
             c == -a
  <2>1. b \in Nat \ {0} /\ c \in Int
    BY <1>2, <1>5
  <2>2. q = (2 * c + b) \div (2 * b)
    <3>1. -(2 * a) - g = 2 * c + b /\ -(2 * g) = 2 * b
      BY <1>2
    <3>2. q = (-(2 * a) - g) \div (-(2 * g))
      BY <1>5 DEF Round
    <3>3. QED
      BY <3>1, <3>2
  <2> HIDE DEF b, c, q
  <2>3. q \in Int /\ 2 * (q * b - c) <= b /\ 2 * (c - q * b) <= b
    BY <1>3, <2>1, <2>2
  <2> DEFINE p == q * b
  <2>4. p \in Int /\ 2 * (p - c) <= b /\ 2 * (c - p) <= b
    BY <2>1, <2>3
  <2>5. q * g = -p
    BY <2>3 DEF b
  <2> HIDE DEF p
  <2>6. 2 * (q * g + s - x) <= m /\ 2 * (x - (q * g + s)) <= m
    BY <1>1, <1>2, <1>5, <2>4, <2>5 DEF b, c
  <2>7. QED
    BY <2>3, <2>6 DEF q, a, m
<1>6. QED
  BY <1>4, <1>5

\* What a well-formed file says of a value.
ItemOK(item) ==
    /\ FieldOK(item) /\ item.length > 0 /\ item.type \in Types
    /\ item.gradient \in Int \ {0} /\ item.shift \in Int
    /\ \A text \in DOMAIN item.values : item.values[text] \in Int

\* What is read of a field is a number.
LEMMA FieldRead ==
  ASSUME NEW n \in Nat, NEW b \in Blocks(n), NEW item, FieldOK(item)
  PROVE  LET bits == ReadBits(b, item.offset, item.length) IN
         bits \in SUBSET Nat /\ IsFiniteSet(bits) /\ Unsigned(bits) \in Int
<1> DEFINE bits == ReadBits(b, item.offset, item.length)
           top == item.length - 1
<1>1. bits \subseteq 0..top /\ item.length \in Nat
  BY DEF ReadBits, Mask, FieldOK
<1>2. 0 \in Int /\ top \in Int
  BY <1>1
<1> HIDE DEF bits, top
<1>3. IsFiniteSet(0..top)
  BY <1>2, FS_Interval, Zenon
<1>4. bits \in SUBSET Nat
  BY <1>1, <1>2
<1>5. IsFiniteSet(bits)
  <2> DEFINE all == 0..top
  <2>1. bits \in SUBSET all /\ IsFiniteSet(all)
    BY <1>1, <1>3
  <2> HIDE DEF all
  <2>2. QED
    BY <2>1, FS_Subset
<1>6. QED
  BY <1>4, <1>5, UnsignedFolds DEF bits

\* What is decoded is near itself, whatever the block says.
LEMMA NearItself ==
  ASSUME NEW n \in Nat, NEW b \in Blocks(n), NEW item, ItemOK(item)
  PROVE  Near(item, DecodeItem(b, item), DecodeItem(b, item))
<1> DEFINE bits == ReadBits(b, item.offset, item.length)
           v == DecodeItem(b, item)
<1>1. CASE ~IsNumeric(item)
  BY <1>1 DEF Near
<1>2. CASE IsNumeric(item)
  <2> DEFINE raw == IF item.type = "UInteger" THEN Unsigned(bits)
                    ELSE ToSigned(bits, item.length)
             m == Max({item.gradient, -item.gradient})
  <2>1. v = Number(ApplyScale(item, raw))
    BY <1>2 DEF DecodeItem, IsNumeric
  <2>2. raw \in Int
    <3>1. Unsigned(bits) \in Int /\ item.length \in Nat
      BY FieldRead DEF ItemOK, FieldOK
    <3>2. 2^item.length \in Int
      BY <3>1, Powers
    <3> HIDE DEF bits
    <3>3. QED
      BY <3>1, <3>2 DEF ToSigned
  <2> HIDE DEF raw, v
  <2>3. v.of \in Int
    <3>1. v.of = raw * item.gradient + item.shift
      BY <2>1 DEF Number, ApplyScale
    <3>2. QED
      BY <2>2, <3>1 DEF ItemOK
  <2>4. m \in Int /\ 0 <= m
    <3> DEFINE g == item.gradient
    <3>1. g \in Int
      BY DEF ItemOK
    <3> HIDE DEF g
    <3>2. \E y \in {g, -g} : \A z \in {g, -g} : y >= z
      BY <3>1
    <3>3. Max({g, -g}) \in {g, -g} /\ \A z \in {g, -g} : Max({g, -g}) >= z
      BY <3>2 DEF Max
    <3>4. QED
      BY <3>1, <3>3 DEF g
  <2> HIDE DEF m
  <2>5. 2 * (v.of - v.of) <= m
    BY <2>3, <2>4
  <2>6. QED
    BY <1>2, <2>5 DEF Near, m, v
<1>3. QED
  BY <1>1, <1>2

\* A number that is accepted reads back to half a count.
LEMMA NumberHolds ==
  ASSUME NEW n \in Nat, NEW base \in Blocks(n), NEW b \in Blocks(n),
         NEW item, ItemOK(item), IsNumeric(item), NEW x \in Int,
         EncodesItem(base, item, Number(x))
  PROVE  Near(item, DecodeItem(EncodeItem(b, item, Number(x)), item), Number(x))
<1> DEFINE raw == RemoveScale(item, x)
           bits == ToBits(raw, item.length)
           new == EncodeItem(b, item, Number(x))
           g == item.gradient
           s == item.shift
<1>1. /\ item.offset \in Nat /\ item.length \in Nat \ {0} /\ item.length \in Nat
      /\ g \in Int \ {0} /\ s \in Int
  BY DEF ItemOK, FieldOK
<1>2. raw \in Counts(item)
  BY DEF EncodesItem, Number
<1>3. /\ raw \in Int
      /\ item.type = "UInteger" => Unsigned(bits) = raw
      /\ item.type = "Integer" => ToSigned(bits, item.length) = raw
  <2> HIDE DEF raw
  <2>1. QED
    BY <1>1, <1>2, CountsHold
<1>4. Fits(b, item.offset, item.length)
  BY BlockLength DEF EncodesItem, Fits
<1>5. new = WriteBits(b, item.offset, item.length, bits)
  BY DEF EncodeItem, IsNumeric, IsString, Number
<1>6. bits \subseteq Mask(item.length)
  <2> HIDE DEF raw
  <2>1. QED
    BY <1>1, <1>3, ToBitsFinite
<1> HIDE DEF bits, new
<1>7. ReadBits(new, item.offset, item.length) = bits
  <2>1. ReadBits(new, item.offset, item.length) = bits \cap Mask(item.length)
    BY <1>1, <1>4, <1>5, ReadAfterWrite
  <2>2. QED
    BY <1>6, <2>1
<1>8. DecodeItem(new, item) = Number(raw * g + s)
  BY <1>3, <1>7 DEF DecodeItem, IsNumeric, ApplyScale
<1>9. raw = Round(x - s, g)
  BY <1>1 DEF RemoveScale
<1> DEFINE y == raw * g + s
<1> HIDE DEF raw, g, s
<1>10. 2 * (y - x) <= Max({g, -g}) /\ 2 * (x - y) <= Max({g, -g})
  <2> DEFINE r == Round(x - s, g)
  <2>1. /\ 2 * ((r * g + s) - x) <= Max({g, -g})
        /\ 2 * (x - (r * g + s)) <= Max({g, -g})
    BY <1>1, HalfACount
  <2> HIDE DEF r
  <2>2. r = raw
    BY <1>9 DEF r
  <2>3. QED
    BY <2>1, <2>2
<1> HIDE DEF y
<1>11. Number(x).of = x /\ Number(y).of = y
  BY DEF Number
<1>12. Near(item, Number(y), Number(x))
  BY <1>10, <1>11 DEF Near, g
<1>13. QED
  BY <1>8, <1>12 DEF new, y

\* A Boolean reads as true exactly if it was asked to.
LEMMA BooleanHolds ==
  ASSUME NEW n \in Nat, NEW base \in Blocks(n), NEW b \in Blocks(n),
         NEW item, ItemOK(item), item.type = "Boolean", NEW v, EncodesItem(base, item, v)
  PROVE  DecodeItem(EncodeItem(b, item, v), item) = Truth(IF IsTrue(item, v) THEN 1 ELSE 0)
<1> DEFINE bits == IF IsTrue(item, v) THEN {0} ELSE {}
           new == EncodeItem(b, item, v)
<1>1. item.offset \in Nat /\ item.length \in Nat /\ item.length > 0
  BY DEF ItemOK, FieldOK
<1>2. Fits(b, item.offset, item.length)
  BY BlockLength DEF EncodesItem, Fits
<1>3. new = WriteBits(b, item.offset, item.length, bits)
  BY DEF EncodeItem, IsString
<1>4. bits \cap Mask(item.length) = bits
  BY <1>1 DEF Mask
<1>5. 0 \in bits <=> IsTrue(item, v)
  OBVIOUS
<1> HIDE DEF bits, new
<1>6. ReadBits(new, item.offset, item.length) = bits
  BY <1>1, <1>2, <1>3, <1>4, ReadAfterWrite
<1>7. DecodeItem(new, item) = Truth(IF 0 \in bits THEN 1 ELSE 0)
  BY <1>6 DEF DecodeItem
<1>8. QED
  BY <1>5, <1>7 DEF new

\* Padding a string with blanks does not change what is left when they are stripped.
LEMMA PaddingGoes ==
  ASSUME NEW s \in Seq(Octets), NEW r \in Seq(Octets), NEW blank, Len(s) <= Len(r),
         \A i \in 1..Len(r) : r[i] = IF i <= Len(s) THEN s[i] ELSE blank
  PROVE  Stripped(r, blank) = Stripped(s, blank)
<1> DEFINE a == Len(s)
           b == Len(r)
           N == {0} \cup {i \in 1..a : s[i] # blank}
           m == Max(N)
<1>1. a \in Nat /\ b \in Nat /\ a <= b /\ DOMAIN s = 1..a /\ DOMAIN r = 1..b
  OBVIOUS
<1>2. {i \in 1..b : r[i] # blank} = {i \in 1..a : s[i] # blank}
  <2> HIDE DEF a, b
  <2>1. \A i \in 1..b : r[i] = IF i <= a THEN s[i] ELSE blank
    BY DEF a, b
  <2>2. \A i \in 1..a : i \in 1..b /\ i <= a
    BY <1>1
  <2>3. \A i \in 1..b : i <= a => i \in 1..a
    BY <1>1
  <2>4. QED
    BY <2>1, <2>2, <2>3
<1>3. m \in 0..a
  <2>1. N \subseteq 0..a /\ N # {}
    BY <1>1
  <2> HIDE DEF N, a
  <2>2. PICK k \in N : \A i \in N : i <= k
    BY <1>1, <2>1, Greatest
  <2>3. \A i \in N : k >= i
    BY <1>1, <2>1, <2>2
  <2>4. \E y \in N : \A z \in N : y >= z
    BY <2>2, <2>3
  <2>5. m \in N
    BY <2>4 DEF Max
  <2>6. QED
    BY <2>1, <2>5
<1>4. Stripped(s, blank) = SubSeq(s, 1, m)
  BY <1>1 DEF Stripped
<1>5. Stripped(r, blank) = SubSeq(r, 1, m)
  BY <1>1, <1>2 DEF Stripped
<1> HIDE DEF m, N
<1>6. m \in Nat /\ m <= a /\ m <= b
  BY <1>1, <1>3
<1>7. \A i \in 1..m : r[i] = s[i]
  <2>1. \A i \in 1..m : i \in 1..b /\ i <= a
    BY <1>1, <1>6
  <2>2. QED
    BY <2>1 DEF a, b
<1>8. /\ SubSeq(s, 1, m) \in Seq(Octets) /\ Len(SubSeq(s, 1, m)) = m
      /\ \A i \in 1..m : SubSeq(s, 1, m)[i] = s[i]
  BY <1>6, Taken DEF a
<1>9. /\ SubSeq(r, 1, m) \in Seq(Octets) /\ Len(SubSeq(r, 1, m)) = m
      /\ \A i \in 1..m : SubSeq(r, 1, m)[i] = r[i]
  BY <1>6, Taken DEF b
<1>10. SubSeq(r, 1, m) = SubSeq(s, 1, m)
  BY <1>7, <1>8, <1>9, SeqEqual
<1>11. QED
  BY <1>4, <1>5, <1>10

\* A string that fits comes back, padded with NUL.
LEMMA StringHolds ==
  ASSUME NEW n \in Nat, NEW base \in Blocks(n), NEW b \in Blocks(n),
         NEW item, ItemOK(item), IsString(item),
         NEW s \in Seq(Octets), EncodesItem(base, item, Characters(s))
  PROVE  LET octets == ReadOctets(EncodeItem(b, item, Characters(s)), item.offset, item.length)
         IN  /\ octets \in Seq(Octets) /\ Len(octets) = Width8(item) /\ Len(s) <= Width8(item)
             /\ Width8(item) \in Nat
             /\ \A i \in 1..Width8(item) : octets[i] = IF i <= Len(s) THEN s[i] ELSE Nul
<1> DEFINE offset == item.offset
           length == item.length
           new == EncodeItem(b, item, Characters(s))
           w == length \div 8
           start == Start(new, offset, length)
           octets == ReadOctets(new, offset, length)
<1>1. offset \in Nat /\ length \in Nat
  BY DEF ItemOK, FieldOK
<1>2. Characters(s).of = s
  BY DEF Characters
<1>3. new = WriteOctets(b, offset, length, s)
  BY <1>2 DEF EncodeItem
<1>4. Len(s) <= w /\ Aligned(offset, length)
  BY <1>2 DEF EncodesItem, Width8
<1>5. Fits(b, offset, length) /\ Width(b) = 8 * n
  BY BlockLength DEF EncodesItem, Fits
<1> HIDE DEF new, offset, length
<1>6. /\ new \in Blocks(n)
      /\ \A i \in 1..w : octets[i] = IF i <= Len(s) THEN s[i] ELSE {}
  BY <1>1, <1>3, <1>4, <1>5, OctetsHold
<1>7. Len(new) = n /\ Width(new) = 8 * n /\ new \in Seq(Octets)
  BY <1>6, BlockLength DEF Blocks
<1>8. start \in Nat /\ w \in Nat /\ start + w <= n
  BY <1>1, <1>4, <1>5, <1>7 DEF Start, Aligned, Fits
<1>9. octets = SubSeq(new, start + 1, start + w)
  BY DEF ReadOctets
<1> HIDE DEF start, w, octets
<1>10. octets \in Seq(Octets) /\ Len(octets) = w
  BY <1>7, <1>8, <1>9, Cut
<1>11. Width8(item) = w
  BY DEF Width8, w, length
<1>12. QED
  BY <1>4, <1>6, <1>8, <1>10, <1>11 DEF octets, new, offset, length, Nul

\* Whatever a flow may ask of a value, if it is accepted the block says it, to half a
\* count (encodeItem, decodeItem).
THEOREM ValueHolds ==
  ASSUME NEW n \in Nat, NEW base \in Blocks(n), NEW b \in Blocks(n),
         NEW item, ItemOK(item), NEW v \in MaySupply(item) \cup {Number(0)},
         EncodesItem(base, item, ResolveEnum(item, v))
  PROVE  Near(item, DecodeItem(EncodeItem(b, item, ResolveEnum(item, v)), item),
              Asks(item, v))
<1> DEFINE w == ResolveEnum(item, v)
           shown == DecodeItem(EncodeItem(b, item, w), item)
<1>1. CASE IsString(item)
  <2>1. PICK s \in Strings : v = Characters(s)
    <3>1. v # Number(0)
      BY <1>1 DEF EncodesItem, ResolveEnum, Number
    <3>2. QED
      BY <1>1, <3>1 DEF MaySupply
  <2>2. s \in Seq(Octets) /\ v.kind = "octets" /\ v.of = s
    BY <2>1, LayoutsAssumption DEF Characters
  <2>3. w = v
    BY <2>2 DEF ResolveEnum
  <2> DEFINE octets == ReadOctets(EncodeItem(b, item, v), item.offset, item.length)
             width == Width8(item)
  <2>4. /\ octets \in Seq(Octets) /\ Len(octets) = width /\ Len(s) <= width /\ width \in Nat
        /\ \A i \in 1..width : octets[i] = IF i <= Len(s) THEN s[i] ELSE Nul
    BY <1>1, <2>1, <2>2, <2>3, StringHolds
  <2>5. CASE item.type = "String"
    <3>1. shown = Characters(TrimString(octets))
      BY <2>3, <2>5 DEF DecodeItem
    <3>2. Asks(item, v) = Characters(TrimString(s))
      BY <2>2, <2>5 DEF Asks, IsNumeric
    <3> HIDE DEF octets, width
    <3>3. Stripped(octets, Nul) = Stripped(s, Nul)
      BY <2>2, <2>4, PaddingGoes
    <3>4. TrimString(octets) = TrimString(s)
      BY <3>3 DEF TrimString
    <3>5. QED
      BY <2>5, <3>1, <3>2, <3>4 DEF Near, IsNumeric
  <2>6. CASE item.type = "OctetString"
    <3> DEFINE padded == [i \in 1..width |-> IF i <= Len(s) THEN s[i] ELSE Nul]
    <3>1. shown = Characters(octets)
      BY <2>3, <2>6 DEF DecodeItem
    <3>2. Asks(item, v) = Characters(padded)
      BY <2>2, <2>6 DEF Asks, IsNumeric
    <3> HIDE DEF octets, width
    <3>3. octets = padded
      <4>1. octets \in [1..width -> Octets]
        BY <2>4
      <4>2. QED
        BY <2>4, <4>1
    <3>4. QED
      BY <2>6, <3>1, <3>2, <3>3 DEF Near, IsNumeric
  <2>7. QED
    BY <1>1, <2>5, <2>6 DEF IsString
<1>2. CASE item.type = "Boolean"
  <2>1. shown = Truth(IF IsTrue(item, w) THEN 1 ELSE 0)
    BY <1>2, BooleanHolds
  <2>2. Asks(item, v) = Truth(IF IsTrue(item, w) THEN 1 ELSE 0)
    BY <1>2 DEF Asks, IsNumeric
  <2>3. QED
    BY <1>2, <2>1, <2>2 DEF Near, IsNumeric
<1>3. CASE IsNumeric(item)
  <2>1. CASE v.kind = "text" /\ IsScaled(item)
    <3>1. Asks(item, v) = Anything
      BY <1>3, <2>1 DEF Asks, IsNumeric
    <3>2. QED
      BY <3>1 DEF Near
  <2>2. CASE ~(v.kind = "text" /\ IsScaled(item))
    <3>1. Asks(item, v) = w
      BY <1>3, <2>2 DEF Asks, IsNumeric
    <3>2. w.kind = "number"
      BY <1>3 DEF EncodesItem
    <3>3. PICK x \in Int : w = Number(x)
      <4>1. CASE \E k \in Numbers \cup {0} : v = Number(k)
        <5>1. PICK k \in Numbers \cup {0} : v = Number(k)
          BY <4>1
        <5>2. k \in Int
          BY FieldsAssumption
        <5>3. v.kind # "text"
          BY <5>1 DEF Number
        <5>4. w = Number(k)
          BY <5>1, <5>3 DEF ResolveEnum
        <5>5. QED
          BY <5>2, <5>4
      <4>2. CASE \E t \in Texts : v = Text(t)
        <5>1. PICK t \in Texts : v = Text(t)
          BY <4>2
        <5>2. v.kind = "text" /\ v.of = t
          BY <5>1 DEF Text
        <5>3. t \in DOMAIN item.values
          BY <3>2, <5>2 DEF ResolveEnum
        <5>4. w = Number(One * item.values[t])
          BY <1>3, <5>2, <5>3 DEF ResolveEnum, IsNumeric
        <5>5. One * item.values[t] \in Int
          BY <5>3 DEF One, ItemOK
        <5>6. QED
          BY <5>4, <5>5
      <4>3. v # Truth(0) /\ v # Truth(1)
        BY <3>2 DEF ResolveEnum, Truth
      <4>4. QED
        BY <1>3, <4>1, <4>2, <4>3 DEF MaySupply, IsString, IsNumeric
    <3> HIDE DEF w
    <3>4. Near(item, DecodeItem(EncodeItem(b, item, w), item), w)
      BY <1>3, <3>3, NumberHolds DEF w
    <3>5. QED
      BY <3>1, <3>4 DEF w
  <2>3. QED
    BY <2>1, <2>2
<1>4. QED
  BY <1>1, <1>2, <1>3 DEF ItemOK, Types, IsString, IsNumeric

\* A block has the length of its layout, whose items are as its file has them.
BlockTrue ==
    /\ file \in Files
    /\ variant # NoVariant => variant \in file.variants
    /\ IsList(items)
    /\ \A i \in 1..Len(items) : FieldOK(items[i])
    /\ block # <<>> => /\ Built
                       /\ block \in Blocks(Layout.octets)
                       /\ ToBigInt(block) \ Covered = rest

LEMMA LayoutParts ==
  ASSUME BlockTrue, variant # NoVariant
  PROVE  /\ Layout.octets \in Nat /\ Layout.items = items
         /\ \A p \in PartsOf(variant.datatype) : p.offset \in Nat /\ p.item.length \in Nat
BY LayoutsAssumption DEF BlockTrue, Layout

\* An item of the layout is found under each of its keys.
LEMMA ItemAt ==
  ASSUME BlockTrue, NEW key \in Keys
  PROVE  \E i \in 1..Len(items) : ItemOf(Layout, key) = items[i] /\ items[i].key = key
<1> DEFINE n == Len(items)
           N == {i \in 1..n : items[i].key = key}
<1>1. n \in Nat /\ DOMAIN items = 1..n
  BY DEF BlockTrue, IsList
<1>2. Layout.items = items
  BY DEF Layout
<1>3. N # {} /\ N \subseteq 0..n
  BY <1>1, <1>2 DEF Keys, KeysOf
<1>4. PICK m \in N : \A i \in N : i <= m
  <2> HIDE DEF N, n
  <2>1. QED
    BY <1>1, <1>3, Greatest
<1>5. Max(N) \in N
  <2>1. \A i \in N : m >= i
    BY <1>1, <1>4
  <2> HIDE DEF N
  <2>2. \E x \in N : \A y \in N : x >= y
    BY <1>4, <2>1
  <2>3. QED
    BY <2>2 DEF Max
<1>6. ItemOf(Layout, key) = items[Max(N)]
  BY <1>1, <1>2 DEF ItemOf
<1>7. QED
  BY <1>5, <1>6

LEMMA ItemFound ==
  ASSUME BlockTrue, NEW key \in Keys
  PROVE  /\ FieldOK(ItemOf(Layout, key))
         /\ Field(ItemOf(Layout, key)) \subseteq Covered
<1>1. PICK i \in 1..Len(items) : ItemOf(Layout, key) = items[i]
  BY ItemAt
<1>2. FieldOK(items[i])
  BY DEF BlockTrue
<1>3. Field(items[i]) \subseteq Covered
  BY DEF BlockTrue, IsList, Covered
<1>4. QED
  BY <1>1, <1>2, <1>3

LEMMA KeysFinite ==
  ASSUME BlockTrue, NEW T, T \subseteq Keys
  PROVE  IsFiniteSet(T)
<1> DEFINE n == Len(items)
           U == {i \in 1..n : items[i].key \in T}
           f == [i \in U |-> items[i].key]
<1>1. n \in Nat /\ DOMAIN items = 1..n /\ Layout.items = items
  BY DEF BlockTrue, IsList, Layout
<1>2. IsFiniteSet(1..n)
  <2>1. 1 \in Int /\ n \in Int
    BY <1>1
  <2> HIDE DEF n
  <2>2. QED
    BY <2>1, FS_Interval, Zenon
<1>3. IsFiniteSet(U)
  BY <1>2, FS_Subset
<1>4. f \in Surjection(U, T)
  <2>1. f \in [U -> T]
    OBVIOUS
  <2>2. \A t \in T : \E i \in U : f[i] = t
    BY <1>1 DEF Keys, KeysOf
  <2>3. QED
    BY <2>1, <2>2 DEF Surjection
<1> HIDE DEF U, f
<1>5. QED
  BY <1>3, <1>4, FS_Surjection

\* A block is its own leading octets.
LEMMA WholeBlock ==
  ASSUME NEW n \in Nat, NEW b \in Blocks(n)
  PROVE  Leading(b, n) = b
<1>1. b \in Seq(Octets) /\ Len(b) = n /\ n <= Len(b)
  BY BlockLength DEF Blocks
<1>2. /\ SubSeq(b, 1, n) \in Seq(Octets) /\ Len(SubSeq(b, 1, n)) = n
      /\ \A i \in 1..n : SubSeq(b, 1, n)[i] = b[i]
  BY <1>1, Taken
<1>3. QED
  BY <1>1, <1>2, SeqEqual DEF Leading

LEMMA ZerosOK ==
  ASSUME NEW n \in Nat
  PROVE  /\ Zeros(n) \in Blocks(n) /\ Leading(Zeros(n), n) = Zeros(n)
         /\ ToBigInt(Zeros(n)) = {}
<1>1. Zeros(n) \in Blocks(n)
  BY DEF Zeros, Nul, Blocks, Octets
<1>2. Len(Zeros(n)) = n /\ Zeros(n) \in Seq(Octets)
  BY <1>1, BlockLength DEF Blocks
<1>3. Leading(Zeros(n), n) = Zeros(n)
  BY <1>1, WholeBlock
<1>4. ToBigInt(Zeros(n)) = {}
  <2>1. ASSUME NEW k \in 0..(8 * n - 1)
        PROVE  n - (k \div 8) \in 1..n
    OBVIOUS
  <2>2. QED
    BY <1>1, <1>2, <2>1, BlockLength DEF ToBigInt, Zeros, Nul
<1>5. QED
  BY <1>1, <1>3, <1>4

LEMMA PaddedOK ==
  ASSUME NEW n \in Nat, NEW b \in Blocks(n), NEW pad \in Seq(Octets)
  PROVE  Leading(b \o pad, n) = b
<1>1. b \in Seq(Octets) /\ Len(b) = n
  BY BlockLength DEF Blocks
<1> DEFINE c == b \o pad
<1>2. /\ c \in Seq(Octets) /\ Len(c) = n + Len(pad)
      /\ \A i \in 1..n : c[i] = b[i]
  BY <1>1
<1>3. Len(pad) \in Nat
  OBVIOUS
<1> HIDE DEF c
<1>4. n <= Len(c)
  BY <1>2, <1>3
<1>5. /\ SubSeq(c, 1, n) \in Seq(Octets) /\ Len(SubSeq(c, 1, n)) = n
      /\ \A i \in 1..n : SubSeq(c, 1, n)[i] = c[i]
  BY <1>2, <1>4, Taken
<1>6. SubSeq(c, 1, n) = b
  BY <1>1, <1>2, <1>5, SeqEqual
<1>7. QED
  BY <1>6 DEF Leading, c

\* A value a flow supplies is what the codec may be given.
LEMMA MaySupplyOK ==
  ASSUME NEW any, NEW v \in MaySupply(any), NEW item
  PROVE  ValueOK(ResolveEnum(item, v))
<1>1. CASE v.kind # "octets"
  <2>1. ResolveEnum(item, v).kind # "octets"
    BY <1>1 DEF ResolveEnum, Number, Truth
  <2>2. QED
    BY <2>1 DEF ValueOK
<1>2. CASE v.kind = "octets"
  <2>1. v \in {Characters(s) : s \in Strings}
    BY <1>2 DEF MaySupply, Number, Text, Truth
  <2>2. v.of \in Seq(Octets)
    BY <2>1, LayoutsAssumption DEF Characters
  <2>3. ResolveEnum(item, v) = v
    BY <1>2 DEF ResolveEnum
  <2>4. QED
    BY <2>2, <2>3 DEF ValueOK
<1>3. QED
  BY <1>1, <1>2

LEMMA SuppliedOK ==
  ASSUME NEW key, NEW v \in SupplyOf(key), NEW item
  PROVE  ValueOK(ResolveEnum(item, v))
<1>1. CASE key # Misspelt
  BY <1>1, MaySupplyOK DEF SupplyOf
<1>2. CASE key = Misspelt
  <2>1. v = Number(0)
    BY <1>2 DEF SupplyOf
  <2>2. ResolveEnum(item, v).kind # "octets"
    BY <2>1 DEF ResolveEnum, Number, Truth
  <2>3. QED
    BY <2>2 DEF ValueOK
<1>3. QED
  BY <1>1, <1>2

\* A write changes no bit but those of items, whatever it is written on.
LEMMA PayloadKeeps ==
  ASSUME BlockTrue, variant # NoVariant, NEW values \in Payloads, NEW base,
         Leading(base, Layout.octets) \in Blocks(Layout.octets), Encodes(values, Layout, base)
  PROVE  LET new == EncodeLayout(values, Layout, base) IN
         /\ new \in Blocks(Layout.octets)
         /\ SameBeyond(Leading(base, Layout.octets), new, Covered)
<1> DEFINE n == Layout.octets
           first == Leading(base, n)
           new == EncodeLayout(values, Layout, base)
           written == UNION {Field(ItemOf(Layout, key)) : key \in DOMAIN values}
<1>1. n \in Nat
  BY LayoutParts
<1>2. DOMAIN values \subseteq Keys
  BY DEF Encodes, Keys
<1>3. IsFiniteSet(DOMAIN values)
  BY <1>2, KeysFinite
<1>4. ASSUME NEW key \in DOMAIN values
      PROVE  /\ FieldOK(ItemOf(Layout, key))
             /\ ValueOK(ResolveEnum(ItemOf(Layout, key), values[key]))
  <2>1. key \in Keys
    BY <1>2
  <2>2. values[key] \in SupplyOf(key)
    <3>1. PICK keys : values \in PayloadsOf(keys)
      BY DEF Payloads
    <3>2. QED
      BY <3>1 DEF PayloadsOf
  <2>3. QED
    BY <2>1, <2>2, ItemFound, SuppliedOK
<1>5. written \subseteq Covered
  BY <1>2, ItemFound
<1>6. new \in Blocks(n) /\ SameBeyond(first, new, written)
  <2>1. Writable(n, Layout, base, values)
    BY <1>3, <1>4 DEF Writable
  <2> HIDE DEF n
  <2>2. QED
    BY <1>1, <2>1, EncodeLayoutKeeps
<1> HIDE DEF n, first, new, written
<1>7. SameBeyond(first, new, Covered)
  BY <1>5, <1>6 DEF SameBeyond
<1>8. QED
  BY <1>6, <1>7 DEF n, first, new

LEMMA BlockTrueInit == Init => BlockTrue
BY DEF Init, BlockTrue, IsList

LEMMA BlockTrueStep == BlockTrue /\ [Next]_vars => BlockTrue'
<1>1. SUFFICES ASSUME BlockTrue, [Next]_vars PROVE BlockTrue'
  OBVIOUS
<1>2. ASSUME UNCHANGED <<file, variant, items, block, rest>>
      PROVE  BlockTrue'
  BY <1>1, <1>2 DEF BlockTrue, IsList, Built, Pending, Layout, Covered
<1>3. CASE Parse
  BY <1>2, <1>3 DEF Parse, deviceVars
<1>4. CASE SelectVariant \/ NameVariant
  <2>1. block = <<>>
    BY <1>1, <1>4 DEF SelectVariant, NameVariant, BlockTrue, Built
  <2>2. /\ file' = file /\ items' = items /\ block' = block
        /\ variant' \in file.variants
    BY <1>4 DEF SelectVariant, NameVariant
  <2>3. QED
    BY <1>1, <2>1, <2>2 DEF BlockTrue, IsList
<1>5. CASE Build
  <2>1. PICK part \in Pending : \E key :
          items' = Append(items, ItemFrom(part, key,
                     ResolveCandidates(CandidatesFor(part.subindex))))
    BY <1>5 DEF Build
  <2>2. PICK key :
          items' = Append(items, ItemFrom(part, key,
                     ResolveCandidates(CandidatesFor(part.subindex))))
    BY <2>1
  <2> DEFINE new == ItemFrom(part, key, ResolveCandidates(CandidatesFor(part.subindex)))
  <2>3. variant # NoVariant /\ block' = block /\ file' = file /\ variant' = variant
    BY <1>5 DEF Build
  <2>4. block = <<>>
    BY <1>1, <2>1 DEF BlockTrue, Built
  <2>5. FieldOK(new)
    BY <1>1, <2>1, <2>3, LayoutParts DEF Pending, ItemFrom, FieldOK
  <2> HIDE DEF new
  <2>6. /\ IsList(items')
        /\ Len(items') = Len(items) + 1
        /\ \A i \in 1..Len(items) : items'[i] = items[i]
        /\ items'[Len(items) + 1] = new
    BY <1>1, <2>2, Appended DEF BlockTrue, new
  <2>7. \A i \in 1..Len(items') : i \in 1..Len(items) \/ i = Len(items) + 1
    <3>1. Len(items) \in Nat
      BY <1>1 DEF BlockTrue, IsList
    <3>2. QED
      BY <2>6, <3>1
  <2>8. \A i \in 1..Len(items') : FieldOK(items'[i])
    BY <1>1, <2>5, <2>6, <2>7 DEF BlockTrue
  <2>9. QED
    BY <1>1, <2>3, <2>4, <2>6, <2>8 DEF BlockTrue, IsList
<1>6. ASSUME UNCHANGED <<file, variant, items>>,
             variant # NoVariant, Built, block' \in Blocks(Layout.octets),
             ToBigInt(block') \ Covered = rest'
      PROVE  BlockTrue'
  <2>1. Layout' = Layout /\ Covered' = Covered /\ Built' = Built
    BY <1>6 DEF Layout, Covered, Built, Pending
  <2>2. QED
    BY <1>1, <1>6, <2>1 DEF BlockTrue, IsList
<1>7. CASE ReadBack
  <2>1. variant # NoVariant /\ Built
    BY <1>7 DEF ReadBack, Built
  <2>2. Layout.octets \in Nat
    BY <1>1, <2>1, LayoutParts
  <2>3. block' \in Blocks(Layout.octets)
    <3>1. block' = Zeros(Layout.octets) \/ block' = [i \in 1..Layout.octets |-> 0..7]
      BY <1>7 DEF ReadBack
    <3>2. [i \in 1..Layout.octets |-> 0..7] \in Blocks(Layout.octets)
      BY DEF Blocks, Octets
    <3>3. QED
      BY <2>2, <3>1, <3>2, ZerosOK
  <2>4. QED
    BY <1>6, <1>7, <2>1, <2>3 DEF ReadBack
<1>8. CASE EncodeOut
  <2>1. /\ block # <<>> /\ UNCHANGED <<file, variant, items>>
    BY <1>8 DEF EncodeOut
  <2>2. /\ variant # NoVariant /\ Built /\ block \in Blocks(Layout.octets)
        /\ ToBigInt(block) \ Covered = rest
    BY <1>1, <2>1 DEF BlockTrue, Built
  <2> DEFINE n == Layout.octets
  <2>3. n \in Nat
    BY <1>1, <2>2, LayoutParts
  <2>4. PICK values \in Payloads, alone \in BOOLEAN :
          \E base \in IF alone THEN {Zeros(n)} ELSE {block \o pad : pad \in Paddings} :
            /\ Encodes(values, Layout, base)
            /\ block' = EncodeLayout(values, Layout, base)
            /\ rest' = IF alone THEN {} ELSE rest
    BY <1>8 DEF EncodeOut
  <2>5. PICK base \in IF alone THEN {Zeros(n)} ELSE {block \o pad : pad \in Paddings} :
            /\ Encodes(values, Layout, base)
            /\ block' = EncodeLayout(values, Layout, base)
            /\ rest' = IF alone THEN {} ELSE rest
    BY <2>4
  <2> DEFINE first == Leading(base, n)
  <2>6. first \in Blocks(n) /\ ToBigInt(first) \ Covered = rest'
    <3>1. CASE alone
      <4>1. base = Zeros(n) /\ rest' = {}
        BY <2>5, <3>1
      <4>2. QED
        BY <2>3, <4>1, ZerosOK
    <3>2. CASE ~alone
      <4>1. PICK pad \in Paddings : base = block \o pad
        BY <2>5, <3>2
      <4>2. pad \in Seq(Octets)
        BY LayoutsAssumption
      <4> HIDE DEF n
      <4>3. Leading(block \o pad, n) = block
        BY <2>2, <2>3, <4>2, PaddedOK DEF n
      <4>4. QED
        BY <2>2, <2>5, <3>2, <4>1, <4>3 DEF n
    <3>3. QED
      BY <3>1, <3>2
  <2>7. block' \in Blocks(n) /\ SameBeyond(first, block', Covered)
    BY <1>1, <2>2, <2>5, <2>6, PayloadKeeps
  <2>8. ToBigInt(first) \subseteq Int /\ ToBigInt(block') \subseteq Int
    BY DEF ToBigInt, Width
  <2>9. ToBigInt(block') \ Covered = rest'
    <3> HIDE DEF first
    <3>1. QED
      BY <2>6, <2>7, <2>8 DEF SameBeyond
  <2>10. QED
    BY <1>6, <2>1, <2>2, <2>7, <2>9
<1>9. CASE UNCHANGED vars
  BY <1>2, <1>9 DEF vars, deviceVars
<1>10. QED
  BY <1>1, <1>3, <1>4, <1>5, <1>7, <1>8, <1>9 DEF Next

\* However many values are written, on the block that was read or on none, padded or
\* not: the bits of a block that belong to no item stay as they were (encodeLayout).
THEOREM RestIsKept == Spec => []RestKept
<1>1. BlockTrue => RestKept
  BY DEF BlockTrue, RestKept
<1>2. QED
  BY <1>1, BlockTrueInit, BlockTrueStep, PTL DEF Spec



\* The same of a parameter, whose block is its own.
LEMMA ParameterHolds ==
  ASSUME NEW part, NEW key, NEW scaling, NEW item, item = ItemFrom(part, key, scaling),
         ItemOK(item), NEW v \in MaySupply(item), EncodesParameter(item, v)
  PROVE  Near(item, DecodeParameter(item, EncodeParameter(item, v)), Asks(item, v))
<1> DEFINE own == ItemFor(item)
           n == ParameterOctets(item)
           w == ResolveEnum(own, v)
           buf == EncodeItem(Zeros(n), own, w)
<1>1. /\ own.offset = 0 /\ own.length = item.length /\ own.type = item.type
      /\ own.values = item.values /\ own.gradient = item.gradient /\ own.shift = item.shift
      /\ own.min = item.min /\ own.max = item.max
  BY DEF ItemFor, ItemFrom
<1>0. [own EXCEPT !.length = item.length] = own
  <2>1. /\ own = [d \in DOMAIN item |-> IF d = "offset" THEN 0 ELSE item[d]]
        /\ "length" \in DOMAIN item
    BY DEF ItemFor, ItemFrom
  <2>2. own.length = item.length /\ own = [d \in DOMAIN own |-> own[d]]
    BY <1>1, <2>1
  <2> HIDE DEF own
  <2>3. QED
    BY <2>2
<1> HIDE DEF own
<1>2. item.length \in Nat /\ n \in Nat
  BY DEF ItemOK, FieldOK, ParameterOctets
<1>3. ItemOK(own)
  BY <1>1 DEF ItemOK, FieldOK
<1>4. MaySupply(own) = MaySupply(item) /\ ResolveEnum(item, v) = w
  BY <1>1 DEF MaySupply, IsString, ResolveEnum
<1>5. Asks(own, v) = Asks(item, v)
  BY <1>1 DEF Asks, IsTrue, RemoveScale, ResolveEnum, IsNumeric, IsScaled, Width8
<1>6. \A x, y : Near(own, x, y) <=> Near(item, x, y)
  BY <1>1 DEF Near, IsNumeric
<1>7. EncodesItem(Zeros(n), own, w)
  BY <1>4 DEF EncodesParameter, own
<1>8. Zeros(n) \in Blocks(n)
  BY <1>2, ZerosOK
<1>9. EncodeParameter(item, v) = buf
  BY <1>4 DEF EncodeParameter, own
<1>10. Near(own, DecodeItem(buf, own), Asks(own, v))
  <2> HIDE DEF n
  <2>1. QED
    BY <1>2, <1>3, <1>4, <1>7, <1>8, ValueHolds
<1>11. DecodeParameter(item, buf) = DecodeItem(buf, own)
  <2>1. CASE ~IsString(item)
    BY <2>1 DEF DecodeParameter, own
  <2>2. CASE IsString(item)
    <3>1. Width(buf) = 8 * n
      <4>1. ValueOK(w)
        BY <1>4, MaySupplyOK
      <4> HIDE DEF n, w
      <4>2. FieldOK(own)
        BY <1>3 DEF ItemOK
      <4>3. buf \in Blocks(n)
        BY <1>2, <1>7, <1>8, <4>1, <4>2, EncodeItemKeeps
      <4>4. QED
        BY <1>2, <4>3, BlockLength
    <3>2. item.length % 8 = 0
      BY <1>1, <1>7, <2>2 DEF EncodesItem, IsString, Aligned
    <3>3. 8 * n = item.length
      BY <1>2, <3>2 DEF ParameterOctets
    <3> HIDE DEF n, buf
    <3>4. DecodeParameter(item, buf) = DecodeItem(buf, [own EXCEPT !.length = Width(buf)])
      BY <2>2 DEF DecodeParameter, own
    <3>5. QED
      BY <1>0, <3>1, <3>3, <3>4
  <2>3. QED
    BY <2>1, <2>2
<1>12. QED
  BY <1>5, <1>6, <1>9, <1>10, <1>11

\* A scaling a well-formed file may declare.
ScalingOK(scaling) == scaling = Raw \/ (scaling[1] \in Int \ {0} /\ scaling[2] \in Int)

\* A value has one of the scalings it is shown in, or none.
LEMMA ScalingFrom ==
  ASSUME NEW C
  PROVE  ResolveCandidates(C) = Raw \/ ResolveCandidates(C) \in ScalingsOf(C)
<1>1. ASSUME NEW D
      PROVE  Agreed(D) = Raw \/ Agreed(D) \in ScalingsOf(D)
  <2>1. CASE Cardinality(ScalingsOf(D)) = 1
    <3>1. ScalingsOf(D) # {}
      BY <2>1, FS_EmptySet
    <3>2. QED
      BY <2>1, <3>1 DEF Agreed
  <2>2. CASE Cardinality(ScalingsOf(D)) # 1
    BY <2>2 DEF Agreed
  <2>3. QED
    BY <2>1, <2>2
<1>2. ASSUME NEW D \in SUBSET C
      PROVE  ScalingsOf(D) \subseteq ScalingsOf(C)
  BY DEF ScalingsOf
<1>3. PICK D \in SUBSET C : ResolveCandidates(C) = Agreed(D)
  <2> DEFINE pool == Pool(C)
             chosen == IF Scaled(pool) # {} THEN Scaled(pool) ELSE pool
  <2>1. pool \in SUBSET C /\ Scaled(C) \in SUBSET C /\ Scaled(pool) \in SUBSET pool
    BY DEF Pool, Scaled
  <2>2. chosen \in SUBSET C /\ Deepest(chosen) \in SUBSET chosen
    BY <2>1 DEF Deepest
  <2>3. ResolveCandidates(C) \in {Agreed(Scaled(C)), Agreed(chosen), Agreed(Deepest(chosen))}
    BY DEF ResolveCandidates
  <2> HIDE DEF chosen, pool
  <2>4. QED
    BY <2>1, <2>2, <2>3
<1>4. QED
  BY <1>1, <1>2, <1>3

\* So the scaling of a value that is built is one a file may declare.
LEMMA ScalingGiven ==
  ASSUME WalkTrue, NEW i
  PROVE  ScalingOK(ResolveCandidates(CandidatesFor(i)))
<1>0. \A s \in menus.shown \cup menus.direct : s.scaling = Bare \/ ScalingOK(s.scaling)
  BY FieldsAssumption DEF WalkTrue, ScalingOK
<1>1. \A s \in Own(menus.direct, i) \cup Own(menus.shown, i) :
        s.scaling # Bare /\ s \in menus.shown \cup menus.direct
  BY DEF Own
<1>2. \A s \in Own(menus.direct, i) \cup Own(menus.shown, i) : ScalingOK(s.scaling)
  BY <1>0, <1>1
<1>3. ASSUME NEW t \in ScalingsOf(CandidatesFor(i))
      PROVE  ScalingOK(t)
  <2>1. PICK c \in CandidatesFor(i) : t = c.scaling
    BY DEF ScalingsOf
  <2>2. \E s \in Own(menus.direct, i) \cup Own(menus.shown, i) : c.scaling = s.scaling
    BY DEF CandidatesFor
  <2>3. QED
    BY <1>2, <2>1, <2>2
<1>4. QED
  BY <1>3, ScalingFrom DEF ScalingOK

\* The items are parts of the layout that was selected, each once.
ItemsTrue ==
    /\ variant = NoVariant => items = <<>>
    /\ \A i \in 1..Len(items) : \E part \in PartsOf(variant.datatype) : \E key, scaling :
         items[i] = ItemFrom(part, key, scaling) /\ ScalingOK(scaling)
    /\ \A i, j \in 1..Len(items) : i # j => items[i].subindex # items[j].subindex

\* The block says of every value what was last asked of it.
Says ==
    block # <<>> =>
      \A key \in Keys : Near(ItemOf(Layout, key),
                           DecodeItem(block, ItemOf(Layout, key)), held[key])

\* The inductive invariant: FieldsHold alone says nothing of where a scaling is from.
HeldTrue == WalkTrue /\ BlockTrue /\ ItemsTrue /\ Says

\* So they are well formed, inside the block.
LEMMA ItemsWellFormed ==
  ASSUME BlockTrue, ItemsTrue, variant # NoVariant, NEW i \in 1..Len(items)
  PROVE  /\ ItemOK(items[i])
         /\ items[i].offset + items[i].length <= 8 * Layout.octets
         /\ IsString(items[i]) => Aligned(items[i].offset, items[i].length)
<1>1. PICK part \in PartsOf(variant.datatype) : \E key, scaling :
         items[i] = ItemFrom(part, key, scaling) /\ ScalingOK(scaling)
  BY DEF ItemsTrue
<1>0. PICK key, scaling : items[i] = ItemFrom(part, key, scaling) /\ ScalingOK(scaling)
  BY <1>1
<1> DEFINE item == items[i]
<1>2. /\ part.offset \in Nat /\ part.item.length \in Nat
      /\ Layout.octets = OctetLength(variant.datatype)
  BY LayoutsAssumption DEF BlockTrue, Layout
<1>3. /\ part.item.type \in Types /\ part.item.length > 0
      /\ part.offset + part.item.length <= 8 * Layout.octets
      /\ IsString(part.item) => Aligned(part.offset, part.item.length)
      /\ \A text \in DOMAIN part.item.values : part.item.values[text] \in Int
  BY <1>2, FieldsAssumption DEF BlockTrue
<1>4. /\ item.offset = part.offset /\ item.length = part.item.length
      /\ item.type = part.item.type /\ item.values = part.item.values
      /\ item.gradient = (IF scaling = Raw THEN One ELSE scaling[1])
      /\ item.shift = (IF scaling = Raw THEN 0 ELSE scaling[2])
  BY <1>0 DEF ItemFrom
<1> HIDE DEF item
<1>5. item.gradient \in Int \ {0} /\ item.shift \in Int
  BY <1>0, <1>4 DEF ScalingOK, One
<1>6. ItemOK(item)
  BY <1>2, <1>3, <1>4, <1>5 DEF ItemOK, FieldOK
<1>7. IsString(item) => Aligned(item.offset, item.length)
  BY <1>3, <1>4 DEF IsString
<1>8. QED
  BY <1>3, <1>4, <1>6, <1>7 DEF item

\* And apart.
LEMMA ItemsApart ==
  ASSUME BlockTrue, ItemsTrue, variant # NoVariant,
         NEW i \in 1..Len(items), NEW j \in 1..Len(items), i # j
  PROVE  Field(items[i]) \cap Field(items[j]) = {}
<1>1. PICK p \in PartsOf(variant.datatype) : \E key, scaling :
         items[i] = ItemFrom(p, key, scaling)
  BY DEF ItemsTrue
<1>2. PICK q \in PartsOf(variant.datatype) : \E key, scaling :
         items[j] = ItemFrom(q, key, scaling)
  BY DEF ItemsTrue
<1>3. /\ items[i].offset = p.offset /\ items[i].length = p.item.length
      /\ items[i].subindex = p.subindex
  BY <1>1 DEF ItemFrom
<1>4. /\ items[j].offset = q.offset /\ items[j].length = q.item.length
      /\ items[j].subindex = q.subindex
  BY <1>2 DEF ItemFrom
<1>5. p # q
  BY <1>3, <1>4 DEF ItemsTrue
<1>6. /\ p.offset \in Nat /\ p.item.length \in Nat
      /\ q.offset \in Nat /\ q.item.length \in Nat
  BY LayoutsAssumption DEF BlockTrue
<1>7. p.offset + p.item.length <= q.offset \/ q.offset + q.item.length <= p.offset
  BY <1>5, FieldsAssumption DEF BlockTrue
<1> DEFINE s1 == p.offset
           e1 == p.offset + p.item.length
           s2 == q.offset
           e2 == q.offset + q.item.length
<1>8. Field(items[i]) = s1..(e1 - 1) /\ Field(items[j]) = s2..(e2 - 1)
  BY <1>3, <1>4, <1>6 DEF Field
<1>9. s1 \in Int /\ e1 \in Int /\ s2 \in Int /\ e2 \in Int /\ (e1 <= s2 \/ e2 <= s1)
  BY <1>6, <1>7
<1> HIDE DEF s1, e1, s2, e2
<1>10. QED
  BY <1>8, <1>9

\* What writing values makes of all the values of a block.
LEMMA EncodedSays ==
  ASSUME BlockTrue, ItemsTrue, variant # NoVariant, NEW values \in Payloads, NEW base,
         Leading(base, Layout.octets) \in Blocks(Layout.octets), Encodes(values, Layout, base),
         NEW key \in Keys
  PROVE  LET item == ItemOf(Layout, key)
             shown == DecodeItem(EncodeLayout(values, Layout, base), item) IN
         /\ key \in DOMAIN values => Near(item, shown, Asks(item, values[key]))
         /\ key \notin DOMAIN values =>
              shown = DecodeItem(Leading(base, Layout.octets), item)
<1> DEFINE n == Layout.octets
           first == Leading(base, n)
           item == ItemOf(Layout, key)
           new == EncodeLayout(values, Layout, base)
<1>1. n \in Nat
  BY LayoutParts
<1>2. DOMAIN values \subseteq Keys
  BY DEF Encodes, Keys
<1>3. PICK i \in 1..Len(items) : item = items[i] /\ items[i].key = key
  BY ItemAt
<1>4. /\ ItemOK(item) /\ FieldOK(item) /\ item.type \in Types
      /\ item.offset + item.length <= 8 * n
      /\ IsString(item) => Aligned(item.offset, item.length)
  BY <1>3, ItemsWellFormed DEF ItemOK
<1>5. ASSUME NEW other \in Keys, other # key
      PROVE  Field(ItemOf(Layout, other)) \cap Field(item) = {}
  <2>1. PICK j \in 1..Len(items) : ItemOf(Layout, other) = items[j] /\ items[j].key = other
    BY ItemAt
  <2>2. j # i
    BY <1>3, <1>5, <2>1
  <2>3. QED
    BY <1>3, <2>1, <2>2, ItemsApart
<1>6. ASSUME NEW k \in DOMAIN values
      PROVE  /\ FieldOK(ItemOf(Layout, k))
             /\ values[k] \in SupplyOf(k)
             /\ ValueOK(ResolveEnum(ItemOf(Layout, k), values[k]))
  <2>1. k \in Keys
    BY <1>2
  <2>2. values[k] \in SupplyOf(k)
    <3>1. PICK keys : values \in PayloadsOf(keys)
      BY DEF Payloads
    <3>2. QED
      BY <3>1 DEF PayloadsOf
  <2>3. QED
    BY <2>1, <2>2, ItemFound, SuppliedOK
<1>7. Writable(n, Layout, base, values)
  <2>1. IsFiniteSet(DOMAIN values)
    BY <1>2, KeysFinite
  <2>2. QED
    BY <1>6, <2>1 DEF Writable
<1>8. first \in Blocks(n) /\ Width(first) = 8 * n
  BY <1>1, BlockLength
<1>9. ASSUME key \notin DOMAIN values
      PROVE  DecodeItem(new, item) = DecodeItem(first, item)
  <2>1. \A k \in DOMAIN values : Field(item) \cap Field(ItemOf(Layout, k)) = {}
    BY <1>2, <1>5, <1>9
  <2>2. Fits(first, item.offset, item.length)
    BY <1>4, <1>8 DEF Fits, ItemOK
  <2> HIDE DEF n, item
  <2>3. QED
    BY <1>1, <1>4, <1>7, <2>1, <2>2, OthersReadAlike
<1>10. ASSUME key \in DOMAIN values
       PROVE  Near(item, DecodeItem(new, item), Asks(item, values[key]))
  <2> DEFINE v == values[key]
             w == ResolveEnum(item, v)
  <2>1. \A k \in DOMAIN values :
          k # key => Field(ItemOf(Layout, k)) \cap Field(item) = {}
    BY <1>2, <1>5
  <2>2. DecodeItem(new, item) = DecodeItem(EncodeItem(first, item, w), item)
    <3> HIDE DEF n
    <3>1. QED
      BY <1>1, <1>4, <1>7, <1>10, <2>1, EachReadsAsAlone
  <2>3. EncodesItem(first, item, w)
    BY <1>10 DEF Encodes
  <2>5. v \in MaySupply(item) \cup {Number(0)}
    BY <1>6, <1>10 DEF SupplyOf
  <2> HIDE DEF first, item, new, n, v, w
  <2>6. Near(item, DecodeItem(EncodeItem(first, item, w), item), Asks(item, v))
    BY <1>1, <1>4, <1>8, <2>3, <2>5, ValueHolds DEF w
  <2>7. QED
    BY <2>2, <2>6 DEF v
<1>11. QED
  BY <1>9, <1>10



\* Only Build adds to the items, and never a part that is there already.
LEMMA ItemsTrueStep == WalkTrue /\ BlockTrue /\ ItemsTrue /\ [Next]_vars => ItemsTrue'
<1>1. SUFFICES ASSUME WalkTrue, BlockTrue, ItemsTrue, [Next]_vars PROVE ItemsTrue'
  OBVIOUS
<1>2. CASE UNCHANGED <<variant, items>>
  BY <1>1, <1>2 DEF ItemsTrue
<1>3. CASE SelectVariant \/ NameVariant
  <2>1. items = <<>> /\ items' = <<>>
    BY <1>1, <1>3 DEF SelectVariant, NameVariant, ItemsTrue
  <2>2. QED
    BY <2>1 DEF ItemsTrue
<1>4. CASE Build
  <2> DEFINE scalingFor(p) == ResolveCandidates(CandidatesFor(p.subindex))
             n == Len(items)
  <2>1. PICK part \in Pending : \E key : items' = Append(items, ItemFrom(part, key, scalingFor(part)))
    BY <1>4 DEF Build
  <2>2. PICK key : items' = Append(items, ItemFrom(part, key, scalingFor(part)))
    BY <2>1
  <2> DEFINE scaling == scalingFor(part)
             new == ItemFrom(part, key, scaling)
  <2>3. variant # NoVariant /\ variant' = variant
    BY <1>4 DEF Build
  <2>4. ScalingOK(scaling)
    BY <1>1, ScalingGiven
  <2>5. n \in Nat /\ DOMAIN items = 1..n
    BY <1>1 DEF BlockTrue, IsList
  <2>6. /\ part \in PartsOf(variant.datatype) /\ new.subindex = part.subindex
        /\ \A i \in 1..n : items[i].subindex # part.subindex
    BY <2>1, <2>5 DEF Pending, ItemFrom
  <2> HIDE DEF scalingFor, scaling
  <2>7. \E p \in PartsOf(variant.datatype) : \E k, s : new = ItemFrom(p, k, s) /\ ScalingOK(s)
    BY <2>4, <2>6
  <2> HIDE DEF new
  <2>8. /\ Len(items') = n + 1
        /\ \A i \in 1..n : items'[i] = items[i]
        /\ items'[n + 1] = new
    BY <1>1, <2>2, Appended DEF BlockTrue, new, scaling
  <2> HIDE DEF n
  <2>9. \A i \in 1..(n + 1) : i \in 1..n \/ i = n + 1
    BY <2>5
  <2>10. \A i \in 1..Len(items') : \E p \in PartsOf(variant.datatype) : \E k, s :
           items'[i] = ItemFrom(p, k, s) /\ ScalingOK(s)
    BY <1>1, <2>7, <2>8, <2>9 DEF ItemsTrue, n
  <2>11. \A i, j \in 1..Len(items') : i # j => items'[i].subindex # items'[j].subindex
    BY <1>1, <2>6, <2>8, <2>9 DEF ItemsTrue, n
  <2>12. QED
    BY <2>3, <2>10, <2>11 DEF ItemsTrue
<1>5. QED
  BY <1>1, <1>2, <1>3, <1>4
     DEF Next, Parse, deviceVars, ReadBack, EncodeOut, vars

\* What an item of the layout is, found under its key.
LEMMA ItemOfOK ==
  ASSUME BlockTrue, ItemsTrue, variant # NoVariant, NEW key \in Keys
  PROVE  ItemOK(ItemOf(Layout, key))
BY ItemAt, ItemsWellFormed

\* No step makes the block say anything else of a value than what was asked.
LEMMA SaysStep == WalkTrue /\ BlockTrue /\ ItemsTrue /\ Says /\ [Next]_vars => Says'
<1>1. SUFFICES ASSUME WalkTrue, BlockTrue, ItemsTrue, Says, [Next]_vars PROVE Says'
  OBVIOUS
<1>2. CASE UNCHANGED <<variant, items, block, held>>
  BY <1>1, <1>2 DEF Says, Keys, Layout
<1>3. CASE SelectVariant \/ NameVariant \/ Build
  <2>1. block = <<>>
    BY <1>1, <1>3 DEF SelectVariant, NameVariant, Build, BlockTrue, Built
  <2>2. block' = <<>>
    BY <1>3, <2>1 DEF SelectVariant, NameVariant, Build
  <2>3. QED
    BY <2>2 DEF Says
<1> DEFINE n == Layout.octets
<1>4. ASSUME UNCHANGED <<variant, items>>,
             \A key \in Keys : Near(ItemOf(Layout, key),
                                    DecodeItem(block', ItemOf(Layout, key)), held'[key])
      PROVE  Says'
  <2>1. Layout' = Layout /\ Keys' = Keys
    BY <1>4 DEF Layout, Keys
  <2>2. QED
    BY <1>4, <2>1 DEF Says
<1>5. CASE ReadBack
  <2>1. variant # NoVariant /\ UNCHANGED <<variant, items>>
    BY <1>5 DEF ReadBack, Built
  <2>2. n \in Nat
    BY <1>1, <2>1, LayoutParts
  <2>3. block' \in Blocks(n)
    <3>1. block' = Zeros(n) \/ block' = [i \in 1..n |-> 0..7]
      BY <1>5 DEF ReadBack
    <3>2. [i \in 1..n |-> 0..7] \in Blocks(n)
      BY DEF Blocks, Octets
    <3>3. QED
      BY <2>2, <3>1, <3>2, ZerosOK
  <2>4. Leading(block', n) = block'
    BY <2>2, <2>3, WholeBlock
  <2>5. ASSUME NEW key \in Keys
        PROVE  held'[key] = DecodeItem(block', ItemOf(Layout, key))
    BY <1>5, <2>4 DEF ReadBack, DecodeLayout, Keys
  <2> HIDE DEF n
  <2>6. ASSUME NEW key \in Keys
        PROVE  Near(ItemOf(Layout, key), DecodeItem(block', ItemOf(Layout, key)), held'[key])
    BY <1>1, <2>1, <2>2, <2>3, <2>5, ItemOfOK, NearItself
  <2>7. QED
    BY <1>4, <2>1, <2>6
<1>6. CASE EncodeOut
  <2>1. block # <<>> /\ UNCHANGED <<variant, items>>
    BY <1>6 DEF EncodeOut
  <2>2. variant # NoVariant /\ block \in Blocks(n)
    BY <1>1, <2>1 DEF BlockTrue, Built
  <2>3. n \in Nat
    BY <1>1, <2>2, LayoutParts
  <2> DEFINE heldNow(values, alone, base) ==
               [key \in Keys |->
                  IF key \in DOMAIN values THEN Asks(ItemOf(Layout, key), values[key])
                  ELSE IF alone THEN DecodeItem(base, ItemOf(Layout, key))
                  ELSE held[key]]
  <2>4. PICK values \in Payloads, alone \in BOOLEAN :
          \E base \in IF alone THEN {Zeros(n)} ELSE {block \o pad : pad \in Paddings} :
            /\ Encodes(values, Layout, base)
            /\ block' = EncodeLayout(values, Layout, base)
            /\ held' = heldNow(values, alone, base)
    BY <1>6 DEF EncodeOut
  <2>5. PICK base \in IF alone THEN {Zeros(n)} ELSE {block \o pad : pad \in Paddings} :
            /\ Encodes(values, Layout, base)
            /\ block' = EncodeLayout(values, Layout, base)
            /\ held' = heldNow(values, alone, base)
    BY <2>4
  <2> DEFINE first == Leading(base, n)
  <2>6. alone => base = Zeros(n) /\ first = base
    BY <2>3, <2>5, ZerosOK
  <2>7. ~alone => first = block
    <3>1. SUFFICES ASSUME ~alone PROVE first = block
      OBVIOUS
    <3>2. PICK pad \in Paddings : base = block \o pad
      BY <2>5, <3>1
    <3>3. pad \in Seq(Octets)
      BY LayoutsAssumption
    <3> HIDE DEF n
    <3>4. Leading(block \o pad, n) = block
      BY <2>2, <2>3, <3>3, PaddedOK
    <3>5. QED
      BY <3>2, <3>4
  <2>8. first \in Blocks(n)
    BY <2>2, <2>3, <2>6, <2>7, ZerosOK
  <2>9. ASSUME NEW key \in Keys
        PROVE  Near(ItemOf(Layout, key), DecodeItem(block', ItemOf(Layout, key)), held'[key])
    <3> DEFINE item == ItemOf(Layout, key)
               shown == DecodeItem(block', item)
    <3>1. /\ key \in DOMAIN values => Near(item, shown, Asks(item, values[key]))
          /\ key \notin DOMAIN values => shown = DecodeItem(first, item)
      BY <1>1, <2>2, <2>5, <2>8, EncodedSays
    <3>2. CASE key \in DOMAIN values
      <4>1. held'[key] = Asks(item, values[key])
        BY <2>5, <3>2
      <4>2. QED
        BY <3>1, <3>2, <4>1
    <3>3. CASE key \notin DOMAIN values /\ alone
      <4>1. held'[key] = DecodeItem(first, item)
        BY <2>5, <2>6, <3>3
      <4>2. ItemOK(item)
        BY <1>1, <2>2, ItemOfOK
      <4> HIDE DEF n, first, item
      <4>3. Near(item, DecodeItem(first, item), DecodeItem(first, item))
        BY <2>3, <2>8, <4>2, NearItself
      <4>4. QED
        BY <3>1, <3>3, <4>1, <4>3 DEF item
    <3>4. CASE key \notin DOMAIN values /\ ~alone
      <4>1. held'[key] = held[key] /\ first = block
        BY <2>5, <2>7, <3>4
      <4>2. Near(item, DecodeItem(block, item), held[key])
        BY <1>1, <2>1 DEF Says
      <4>3. QED
        BY <3>1, <3>4, <4>1, <4>2
    <3>5. QED
      BY <3>2, <3>3, <3>4
  <2>10. QED
    BY <1>4, <2>1, <2>9
<1>7. QED
  BY <1>1, <1>2, <1>3, <1>5, <1>6 DEF Next, Parse, deviceVars, vars

\* Padding is cut off, and a parameter has its block to itself.
LEMMA HeldTrueHolds == HeldTrue => FieldsHold
<1>1. SUFFICES ASSUME HeldTrue PROVE FieldsHold
  OBVIOUS
<1>2. BlockTrue /\ ItemsTrue /\ Says
  BY <1>1 DEF HeldTrue
<1>3. RestKept
  BY <1>2 DEF BlockTrue, RestKept
<1>4. SUFFICES ASSUME block # <<>>
      PROVE  /\ \A pad \in Paddings :
                  /\ Decodes(block \o pad, Layout)
                  /\ \A key \in Keys : Near(ItemOf(Layout, key),
                                            DecodeLayout(block \o pad, Layout)[key], held[key])
             /\ \A i \in DOMAIN items : \A v \in MaySupply(items[i]) :
                  EncodesParameter(items[i], v) =>
                    Near(items[i], DecodeParameter(items[i], EncodeParameter(items[i], v)),
                         Asks(items[i], v))
  BY <1>3 DEF FieldsHold
<1> DEFINE n == Layout.octets
<1>5. variant # NoVariant /\ block \in Blocks(n) /\ n \in Nat
  BY <1>2, <1>4, LayoutParts DEF BlockTrue, Built
<1>6. ASSUME NEW pad \in Paddings
      PROVE  /\ Decodes(block \o pad, Layout)
             /\ \A key \in Keys : Near(ItemOf(Layout, key),
                                       DecodeLayout(block \o pad, Layout)[key], held[key])
  <2>1. pad \in Seq(Octets)
    BY LayoutsAssumption
  <2>2. block \in Seq(Octets) /\ Len(block) = n
    <3> HIDE DEF n
    <3>1. QED
      BY <1>5, BlockLength DEF Blocks
  <2>3. Leading(block \o pad, n) = block
    <3> HIDE DEF n
    <3>1. QED
      BY <1>5, <2>1, PaddedOK
  <2>4. Len(block \o pad) >= n
    <3> HIDE DEF n
    <3>1. QED
      BY <1>5, <2>1, <2>2
  <2>5. Decodes(block \o pad, Layout)
    BY <2>4 DEF Decodes
  <2>6. ASSUME NEW key \in Keys
        PROVE  DecodeLayout(block \o pad, Layout)[key] = DecodeItem(block, ItemOf(Layout, key))
    BY <2>3 DEF DecodeLayout, Keys
  <2>7. QED
    BY <1>2, <1>4, <2>5, <2>6 DEF Says
<1>7. ASSUME NEW i \in DOMAIN items, NEW v \in MaySupply(items[i]),
             EncodesParameter(items[i], v)
      PROVE  Near(items[i], DecodeParameter(items[i], EncodeParameter(items[i], v)),
                  Asks(items[i], v))
  <2>1. i \in 1..Len(items)
    BY <1>2 DEF BlockTrue, IsList
  <2>2. \E part, key, scaling : items[i] = ItemFrom(part, key, scaling)
    BY <1>2, <2>1 DEF ItemsTrue
  <2>3. ItemOK(items[i])
    BY <1>2, <1>5, <2>1, ItemsWellFormed
  <2> DEFINE item == items[i]
  <2>4. PICK part, key, scaling : item = ItemFrom(part, key, scaling)
    BY <2>2
  <2>5. ItemOK(item) /\ v \in MaySupply(item) /\ EncodesParameter(item, v)
    BY <1>7, <2>3
  <2> HIDE DEF item
  <2>6. Near(item, DecodeParameter(item, EncodeParameter(item, v)), Asks(item, v))
    BY <2>4, <2>5, ParameterHolds
  <2>7. QED
    BY <2>6 DEF item
<1>8. QED
  BY <1>6, <1>7

\* Whatever the file, the numbers and the strings: a block says of every item what was
\* last asked of it.
THEOREM FieldsAreHeld == Spec => []FieldsHold
<1>1. Init => HeldTrue
  <2>1. Init => items = <<>> /\ block = <<>>
    BY DEF Init
  <2>2. Init => ItemsTrue /\ Says
    BY <2>1 DEF ItemsTrue, Says
  <2>3. QED
    BY <2>2, WalkTrueInit, BlockTrueInit DEF HeldTrue
<1>2. HeldTrue /\ [Next]_vars => HeldTrue'
  BY WalkTrueStep, BlockTrueStep, ItemsTrueStep, SaysStep DEF HeldTrue
<1>3. QED
  BY <1>1, <1>2, HeldTrueHolds, PTL DEF Spec
=============================================================================
