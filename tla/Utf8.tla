-------------------------------- MODULE Utf8 --------------------------------
(***************************************************************************)
(* utf.c and validate_utf8_sequence of util.c: the table-driven UTF-8      *)
(* decoder that accepts or refuses the text of messages and of close       *)
(* reasons.  The code point the C decoder also computes is never read by   *)
(* its callers and is left out.                                            *)
(***************************************************************************)
EXTENDS Naturals, Sequences, SequencesExt

Byte == 0..255

ACCEPT == 0
REJECT == 1

DecoderState == 0..8
ByteType == 0..11

\* The first half of utf8d: the class of each byte.
Type(b) ==
  IF b <= 127 THEN 0
  ELSE IF b <= 143 THEN 1
  ELSE IF b <= 159 THEN 9
  ELSE IF b <= 191 THEN 7
  ELSE IF b <= 193 THEN 8
  ELSE IF b <= 223 THEN 2
  ELSE IF b = 224  THEN 10
  ELSE IF b = 237  THEN 4
  ELSE IF b <= 239 THEN 3
  ELSE IF b = 240  THEN 11
  ELSE IF b <= 243 THEN 6
  ELSE IF b = 244  THEN 5
  ELSE 8

\* The second half of utf8d: for each state, the byte classes that lead on
\* from it, and where to.  Every other class leads to REJECT.
Start(type) == IF type \in {0, 2, 3} THEN type
               ELSE IF type = 4  THEN 5
               ELSE IF type = 5  THEN 8
               ELSE IF type = 6  THEN 7
               ELSE IF type = 10 THEN 4
               ELSE IF type = 11 THEN 6
               ELSE REJECT

Step(state, type) ==
  IF state = 0 THEN Start(type)
  ELSE IF state = 2 /\ type \in {1, 7, 9} THEN 0
  ELSE IF state = 3 /\ type \in {1, 7, 9} THEN 2
  ELSE IF state = 4 /\ type = 7           THEN 2
  ELSE IF state = 5 /\ type \in {1, 9}    THEN 2
  ELSE IF state = 6 /\ type \in {7, 9}    THEN 3
  ELSE IF state = 7 /\ type \in {1, 7, 9} THEN 3
  ELSE IF state = 8 /\ type = 1           THEN 3
  ELSE REJECT

\* Plausible errors in the table (forms of Decode that the checks try): E0
\* treated like the other three-byte leads, and F4 leading past the last row.
DecodeOverlong(state, byte) ==
  IF state = 0 /\ byte = 224 THEN 3 ELSE Step(state, Type(byte))
DecodeShortTable(state, byte) ==
  IF state = 0 /\ byte = 244 THEN 9 ELSE Step(state, Type(byte))

Decode(state, byte) == Step(state, Type(byte))

\* A C string ends at its first NUL byte.
UpToNul(s) ==
  LET i == SelectInSeq(s, LAMBDA b : b = 0)
  IN  IF i = 0 THEN s ELSE SubSeq(s, 1, i - 1)

\* The states the loop goes through on s.
DecoderStates(s) ==
  LET state[n \in 0..Len(s)] == IF n = 0 THEN ACCEPT ELSE Decode(state[n - 1], s[n])
  IN  state

ValidateUtf8(s) == LET t == UpToNul(s) IN DecoderStates(t)[Len(t)] = ACCEPT
=============================================================================
