-------------------------------- MODULE Bits --------------------------------
(***************************************************************************)
(* Bit addressing of process data: lib/iodd/codec/bits.js.                 *)
(*                                                                         *)
(* A BigInt that is not negative is the set of its bits that are 1, so     *)
(* that & | ~ are set operations and << >> move a set; an octet is a set   *)
(* of numbers below 8.  A block is the sequence of its octets as they are  *)
(* on the wire, the most significant first.                                *)
(***************************************************************************)
EXTENDS Integers, Sequences

Octets == SUBSET (0..7)
Blocks(n) == [1..n -> Octets]
Width(buf) == 8 * Len(buf)

Mask(length) == 0..(length - 1)
ShiftLeft(bits, by) == {k + by : k \in bits}
ShiftRight(bits, by) == {k - by : k \in {j \in bits : j >= by}}

\* Octet i of n holds the bits from 8 (n - i) on.
ToBigInt(buf) ==
    {k \in 0..(Width(buf) - 1) : k % 8 \in buf[Len(buf) - (k \div 8)]}

FromBigInt(bits, n) == [i \in 1..n |-> {b \in 0..7 : 8 * (n - i) + b \in bits}]

\* Mutant: offsets count from the first octet on the wire.
FromTheLeft(buf, offset, length) ==
    ShiftRight(ToBigInt(buf), Width(buf) - offset - length) \cap Mask(length)

\* The code refuses a field that does not fit into what was supplied.
Fits(buf, offset, length) == length > 0 /\ offset + length <= Width(buf)

ReadBits(buf, offset, length) ==
    ShiftRight(ToBigInt(buf), offset) \cap Mask(length)

\* Mutant: the old value of the field is not cleared first.
OrInto(buf, offset, length, bits) ==
    FromBigInt(ToBigInt(buf) \cup ShiftLeft(bits \cap Mask(length), offset), Len(buf))

WriteBits(buf, offset, length, bits) ==
    FromBigInt((ToBigInt(buf) \ ShiftLeft(Mask(length), offset))
               \cup ShiftLeft(bits \cap Mask(length), offset), Len(buf))

\* Strings are aligned to octets; they are addressed from the same end.
Aligned(offset, length) == offset % 8 = 0 /\ length % 8 = 0

Start(buf, offset, length) == (Width(buf) - offset - length) \div 8

ReadOctets(buf, offset, length) ==
    SubSeq(buf, Start(buf, offset, length) + 1,
           Start(buf, offset, length) + length \div 8)

\* A value shorter than its field is padded with NUL on the right.
WriteOctets(buf, offset, length, octets) ==
    [i \in 1..Len(buf) |->
       LET at == i - Start(buf, offset, length) IN
       IF at \notin 1..(length \div 8) THEN buf[i]
       ELSE IF at <= Len(octets) THEN octets[at] ELSE {}]
=============================================================================
