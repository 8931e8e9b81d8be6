----------------------------- MODULE Base64Codec -----------------------------
(* base64.c against a definition of Base64 by bits: bytes to encode, and   *)
(* text to decode, that grow one at a time.                                *)
EXTENDS Base64

CONSTANTS Bytes, Characters,
          MaxBytes,      \* bound: the bytes encoded
          MaxCharacters  \* bound: the characters decoded

\* Assumed of the constants.
InputsAssumption ==
  /\ Bytes \subseteq Byte
  /\ 0 \notin Characters
  /\ {MaxBytes, MaxCharacters} \subseteq Nat

VARIABLES source, text

Init == source = <<>> /\ text = <<>>

AddByte(b) == /\ text = <<>> /\ Len(source) < MaxBytes
              /\ source' = Append(source, b)
              /\ UNCHANGED text

AddCharacter(c) == /\ source = <<>> /\ Len(text) < MaxCharacters
                   /\ text' = Append(text, c)
                   /\ UNCHANGED source

Next == (\E b \in Bytes : AddByte(b)) \/ (\E c \in Characters : AddCharacter(c))

Spec == Init /\ [][Next]_<<source, text>>

-----------------------------------------------------------------------------
Bit(n, k) == (n \div 2^k) % 2
Bits(s, width) == FlattenSeq([i \in DOMAIN s |-> [j \in 1..width |-> Bit(s[i], width - j)]])
Zeros(n) == [i \in 1..n |-> 0]
Unpadded(s) == SelectSeq(s, LAMBDA c : c # EQUALS)

\* The characters stand for the bits of the bytes, six at a time, with zeros
\* to the end of the last and '=' to a multiple of four.
EncodingIsBase64 ==
  LET chars == Unpadded(Encoded(source))
      bits  == Bits([i \in DOMAIN chars |-> CharValue(chars[i])], 6)
  IN  /\ bits = Bits(source, 8) \o Zeros(Len(bits) - 8 * Len(source))
      /\ Len(bits) - 8 * Len(source) < 6
      /\ Len(Encoded(source)) = 4 * ((Len(source) + 2) \div 3)

\* Decoding gives back what was encoded, with or without the padding and with
\* a line break anywhere; a target too short for it is refused.
RoundTrip ==
  LET e == Encoded(source)
  IN  /\ Decoded(e) = source
      /\ \A n \in 0..(MaxBytes + 1) :
           DecodedLength(e, n) = IF n < Len(source) THEN -1 ELSE Len(source)
      /\ Decoded(Unpadded(e)) = source
      /\ \A k \in 0..Len(e) : Decoded(SubSeq(e, 1, k) \o <<10>> \o SubSeq(e, k + 1, Len(e))) = source

\* The encoder never writes past the target, its NUL included, and refuses
\* no target that is long enough.
EncoderStaysInside ==
  \A targetlen \in 1..(2 * MaxBytes + 4) :
    EncodeFits(source, targetlen) <=> Len(Encoded(source)) + 1 <= targetlen

\* The decoder "won't reach the end" (base64.c) of its copy of any text,
\* padded or not, well-formed or not: some round ends it before.
DecoderStops == Stops(text) # {}
=============================================================================
