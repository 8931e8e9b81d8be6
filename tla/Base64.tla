------------------------------- MODULE Base64 -------------------------------
(***************************************************************************)
(* base64.c: the encoder that makes the accept value of the handshake, and *)
(* the decoder beside it, on ASCII codes.                                  *)
(***************************************************************************)
EXTENDS Integers, Sequences, SequencesExt, FiniteSetsExt

Byte == 0..255
EQUALS == 61

\* BASE64_CHARS[v]
Char(v) == IF v < 26 THEN 65 + v
           ELSE IF v < 52 THEN 97 + v - 26
           ELSE IF v < 62 THEN 48 + v - 52
           ELSE IF v = 62 THEN 43 ELSE 47

\* _base64_char_value, by the ranges of the characters.
CharValue(c) == IF c \in 65..90 THEN c - 65
                ELSE IF c \in 97..122 THEN c - 97 + 26
                ELSE IF c \in 48..57 THEN c - 48 + 2 * 26
                ELSE IF c = 43 THEN 2 * 26 + 10
                ELSE IF c = 47 THEN 2 * 26 + 11
                ELSE -1

-----------------------------------------------------------------------------
(* Encoding.                                                               *)

\* _base64_encode_triple
EncodeTriple(t) ==
  LET n == (t[1] * 256 + t[2]) * 256 + t[3]
  IN  <<Char((n \div 262144) % 64), Char((n \div 4096) % 64), Char((n \div 64) % 64), Char(n % 64)>>

\* The characters of the one or two bytes at the end.  (An operator named
\* after another with a suffix is a plausible error in it.)
EncodeRestShort(rest) ==
  LET q == EncodeTriple(rest \o [i \in 1..(3 - Len(rest)) |-> 0])
  IN  IF rest = <<>> THEN <<>> ELSE <<q[1], q[2], q[3], EQUALS>>
EncodeRest(rest) ==
  LET q == EncodeTriple(rest \o [i \in 1..(3 - Len(rest)) |-> 0])
  IN  IF rest = <<>> THEN <<>>
      ELSE <<q[1], q[2], IF Len(rest) = 1 THEN EQUALS ELSE q[3], EQUALS>>

\* What base64_encode writes, the terminating NUL aside.
Encoded(source) ==
  LET full == Len(source) \div 3
  IN  FlattenSeq([k \in 1..full |-> EncodeTriple(SubSeq(source, 3 * k - 2, 3 * k))])
        \o EncodeRest(SubSeq(source, 3 * full + 1, Len(source)))

\* base64_encode goes on, for a targetlen of at least 1.
EncodeFits(source, targetlen) == ~ (((Len(source) + 2) \div 3) * 4 > targetlen - 1)

-----------------------------------------------------------------------------
(* Decoding.                                                               *)

\* The number of '=' at the end of four characters.
Equals(q) == Cardinality({i \in 1..4 : \A j \in i..4 : q[j] = EQUALS})

\* The bytes of the values of four characters.
TripleOf(v) ==
  LET n == ((v[1] * 64 + v[2]) * 64 + v[3]) * 64 + v[4]
  IN  <<(n \div 65536) % 256, (n \div 256) % 256, n % 256>>

\* _base64_decode_triple: 0 to 3 bytes; '=' may stand only at the end.
DecodeTriple(q) ==
  LET v == [i \in 1..4 |-> IF q[i] = EQUALS THEN 0 ELSE CharValue(q[i])]
  IN  IF \E i \in 1..(4 - Equals(q)) : q[i] = EQUALS \/ CharValue(q[i]) < 0 THEN <<>>
      ELSE SubSeq(TripleOf(v), 1, 3 - Equals(q))

\* The characters base64_decode does not skip, of the source and the four '='
\* it appends.
Read(source) ==
  SelectSeq(source \o <<EQUALS, EQUALS, EQUALS, EQUALS>>,
            LAMBDA c : c = EQUALS \/ CharValue(c) >= 0)

Quadruple(source, k) == SubSeq(Read(source), 4 * k - 3, 4 * k)

\* The rounds of its loop that stop it, those that end inside what was read.
Stops(source) ==
  {k \in 1..(Len(Read(source)) \div 4) : Len(DecodeTriple(Quadruple(source, k))) # 3}

Decoded(source) ==
  FlattenSeq([k \in 1..Min(Stops(source)) |-> DecodeTriple(Quadruple(source, k))])

\* What base64_decode returns.
DecodedLength(source, targetlen) ==
  IF Len(Decoded(source)) > targetlen THEN -1 ELSE Len(Decoded(source))
=============================================================================
