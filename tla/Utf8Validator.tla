---------------------------- MODULE Utf8Validator ----------------------------
(***************************************************************************)
(* The loop of validate_utf8_sequence as a state machine: one Feed per     *)
(* byte that precedes the terminating NUL.  `seen' is the part of the      *)
(* string before the pointer s, `state' the decoder's state there; the     *)
(* function's answer for the string `seen' is state = ACCEPT.              *)
(***************************************************************************)
EXTENDS Utf8

CONSTANTS
  Bytes,    \* the byte values fed to the decoder
  MaxLen    \* bound: the longest string explored

ASSUME BytesAssumption == Bytes \subseteq Byte \ {0}
ASSUME MaxLenAssumption == MaxLen \in Nat

VARIABLES seen, state
vars == <<seen, state>>

Init == /\ seen = <<>>
        /\ state = ACCEPT

Feed(b) == /\ Len(seen) < MaxLen
           /\ seen' = Append(seen, b)
           /\ state' = Decode(state, b)

Next == \E b \in Bytes : Feed(b)

Spec == Init /\ [][Next]_vars

-----------------------------------------------------------------------------
(* The reference: RFC 3629's well-formedness, by code-point arithmetic.    *)

\* What UTF-8 encodes: all code points but the surrogates.
Scalar(n) == n <= 1114111 /\ ~ (55296 <= n /\ n <= 57343)

LeadRange == <<0..127, 192..223, 224..239, 240..247>>
LeadMark  == <<0, 192, 224, 240>>
Shortest  == <<0, 128, 2048, 65536>>

\* The bits of a continuation byte, and of the first byte of c.
Cont(b) == b - 128
Lead(c) == c[1] - LeadMark[Len(c)]

CodePoint(c) ==
  CASE Len(c) = 1 -> Lead(c)
    [] Len(c) = 2 -> 64 * Lead(c) + Cont(c[2])
    [] Len(c) = 3 -> 64 * (64 * Lead(c) + Cont(c[2])) + Cont(c[3])
    [] Len(c) = 4 -> 64 * (64 * (64 * Lead(c) + Cont(c[2])) + Cont(c[3])) + Cont(c[4])

\* c is the shortest encoding of a Unicode scalar value.
Encodes(c) ==
  /\ c[1] \in LeadRange[Len(c)]
  /\ \A i \in 2..Len(c) : c[i] \in 128..191
  /\ Scalar(CodePoint(c))
  /\ CodePoint(c) >= Shortest[Len(c)]

\* s is a concatenation of such encodings.
WellFormed(s) ==
  LET wf[i \in 0..Len(s)] ==
        \/ i = 0
        \/ \E n \in 1..4 : n <= i /\ wf[i - n] /\ Encodes(SubSeq(s, i - n + 1, i))
  IN  wf[Len(s)]

\* Any prefix of a well-formed string has one of these completions: only the
\* byte after E0, ED, F0 and F4 is more restricted than 80..BF.
Completions ==
  {<<>>} \cup {<<b>> : b \in {128, 144, 160}}
         \cup {<<b, 128>> : b \in {128, 144, 160}}
         \cup {<<b, 128, 128>> : b \in {128, 144, 160}}

-----------------------------------------------------------------------------
(* The properties.                                                         *)

\* The decoder only ever reads inside its table: its state is one of the
\* nine rows of utf8d.
TypeOK == /\ seen \in Seq(Bytes)
          /\ state \in DecoderState

\* validate_utf8_sequence accepts a string if, and only if, it is a sequence
\* of shortest-form encodings of scalar values: no overlong form, no
\* surrogate, nothing above U+10FFFF, no truncated character.  And it refuses
\* a character at the first byte that makes it impossible: a string that can
\* still be completed is never in the REJECT state, and any other is.
AcceptsExactlyUtf8 ==
  /\ (state = ACCEPT) <=> WellFormed(seen)
  /\ (state = REJECT) <=> ~ \E e \in Completions : WellFormed(seen \o e)

\* Once a string is refused, no continuation of it is accepted: the loop,
\* which never stops early, cannot recover.
RejectIsAbsorbing == [][state = REJECT => state' = REJECT]_vars
=============================================================================
