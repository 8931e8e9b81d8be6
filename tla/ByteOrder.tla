------------------------------ MODULE ByteOrder ------------------------------
(***************************************************************************)
(* The conversions of util.c between the byte order of a little-endian     *)
(* machine and that of the network, on words as the sets of the places of  *)
(* their bits: a shift moves a set, a mask intersects it, | unites two.    *)
(***************************************************************************)
EXTENDS Integers, FiniteSets

CONSTANT MaxOnes   \* bound: the bits of the word that are 1

VARIABLE x   \* the word converted, which gets its bits one by one

Init == x = {}
SetBit(i) == Cardinality(x) < MaxOnes /\ x' = x \cup {i}
Next == \E i \in 0..63 : SetBit(i)
Spec == Init /\ [][Next]_x

-----------------------------------------------------------------------------

\* Bits from one place to another: a mask of ones there.
Mask(from, to) == from..to

ShiftLeft(w, n, bits) == {i + n : i \in w} \cap (0..(bits - 1))
ShiftRight(w, n) == {i - n : i \in {j \in w : j >= n}}

\* lws_htobe16, lws_be16toh
Swap16(w) == ShiftLeft(w \cap Mask(0, 7), 8, 16) \cup ShiftRight(w \cap Mask(8, 15), 8)

\* (An operator named after another with a suffix is a plausible error in it.)
Swap64Unmasked(w) ==
  ShiftRight(w, 56) \cup ShiftLeft(w, 56, 64)
    \cup (ShiftLeft(w, 40, 64) \cap Mask(48, 55)) \cup (ShiftLeft(w, 24, 64) \cap Mask(40, 47))
    \cup (ShiftLeft(w, 8, 64) \cap Mask(32, 39)) \cup (ShiftRight(w, 8) \cap Mask(24, 31))
    \cup (ShiftRight(w, 24) \cap Mask(16, 23)) \cup ShiftRight(w, 40)

\* lws_htobe64, lws_be64toh
Swap64(w) ==
  ShiftRight(w, 56) \cup ShiftLeft(w, 56, 64)
    \cup (ShiftLeft(w, 40, 64) \cap Mask(48, 55)) \cup (ShiftLeft(w, 24, 64) \cap Mask(40, 47))
    \cup (ShiftLeft(w, 8, 64) \cap Mask(32, 39)) \cup (ShiftRight(w, 8) \cap Mask(24, 31))
    \cup (ShiftRight(w, 24) \cap Mask(16, 23)) \cup (ShiftRight(w, 40) \cap Mask(8, 15))

-----------------------------------------------------------------------------
(* The properties.                                                         *)

\* The bits of the byte at the other end of a word of n bytes.
Reversed(w, n) == {8 * (n - 1 - (i \div 8)) + (i % 8) : i \in w}

\* Every byte lands at the mirrored place with its bits in order, and nothing
\* is shifted in: no byte is masked twice or left out.
BytesReversed == /\ Swap64(x) = Reversed(x, 8)
                 /\ Swap16(x \cap (0..15)) = Reversed(x \cap (0..15), 2)

\* What be64toh and be16toh read is what htobe64 and htobe16 were given.
SwapsBack == /\ Swap64(Swap64(x)) = x
             /\ Swap16(Swap16(x \cap (0..15))) = x \cap (0..15)
=============================================================================
