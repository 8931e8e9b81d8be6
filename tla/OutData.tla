------------------------------- MODULE OutData -------------------------------
(***************************************************************************)
(* The bytes of out_data: the three forms of header libwebsock_make_       *)
(* fragment writes, the limit it puts on a payload, the growth of out_data, *)
(* the int it returns, and the payload of a close frame with a reason.     *)
(* The connection is writable throughout (Connection has the guards).      *)
(*                                                                         *)
(* Numbers are scaled: BASE is 256 in the code and SMALL is 125; what the  *)
(* code derives from them is derived from them here.  The second byte of a *)
(* frame, of 7 bits, is a number up to SMALL + 2.                          *)
(***************************************************************************)
EXTENDS Integers, Sequences

CONSTANTS
  BASE, SMALL,
  Lengths,    \* the payloads of data frames, by their length
  Reasons,    \* the reasons of close frames, by their length
  MaxFrames   \* bound: the frames in out_data

SHORT == BASE * BASE     \* an unsigned short
WORD == SHORT * SHORT    \* an unsigned int
LIMIT == WORD - 16       \* 0xfffffff0
REASON == SMALL - 2      \* the characters snprintf leaves in buf: 123
BUF == SMALL + 3         \* sizeof(buf): 128

\* Assumed of the constants.
NumbersAssumption ==
  /\ {BASE, SMALL, MaxFrames} \subseteq Nat /\ SMALL >= 3
  /\ SMALL < SHORT /\ 10 < WORD \div 2
\* The same; a reason that does not fit in buf makes the code read behind it.
InputsAssumption == Lengths \subseteq 0..(WORD - 1) /\ Reasons \subseteq 0..(BUF - 2)

VARIABLES
  out_data,  \* its bytes, <<>> for NULL
  result,    \* what the last call returned
  made       \* history: the frames out_data should hold

vars == <<out_data, result, made>>

Init == out_data = <<>> /\ result = 0 /\ made = <<>>

-----------------------------------------------------------------------------
\* n in k digits, the most significant first: htons, htonl.
BigEndian(n, k) ==
  LET shifted[i \in 0..k] == IF i = 0 THEN n ELSE shifted[i - 1] \div BASE
  IN  [i \in 1..k |-> shifted[k - i] % BASE]

\* The int that holds an unsigned.
Signed(n) == IF n < WORD \div 2 THEN n ELSE n - WORD

\* (As in Connection, an operator named after another with a suffix is a
\* plausible error in it.)
HeaderInclusive(b0, len) ==
  IF len <= SMALL THEN <<b0, len>>
  ELSE IF len <= SHORT THEN <<b0, SMALL + 1>> \o BigEndian(len, 2)
  ELSE <<b0, SMALL + 2, 0, 0, 0, 0>> \o BigEndian(len, 4)

Header(b0, len) ==
  IF len <= SMALL THEN <<b0, len>>
  ELSE IF len < SHORT THEN <<b0, SMALL + 1>> \o BigEndian(len, 2)
  ELSE <<b0, SMALL + 2, 0, 0, 0, 0>> \o BigEndian(len, 4)

MakeFragmentUnmargined(b0, data) ==
  LET frame == Header(b0, Len(data)) \o data
  IN  IF Len(data) > WORD - 1
      THEN result' = -1 /\ UNCHANGED <<out_data, made>>
      ELSE /\ result' = Signed(Len(frame))
           /\ out_data' = out_data \o frame
           /\ made' = Append(made, [b0 |-> b0, data |-> data])

\* libwebsock_make_fragment
MakeFragment(b0, data) ==
  LET frame == Header(b0, Len(data)) \o data
  IN  IF Len(data) > LIMIT
      THEN result' = -1 /\ UNCHANGED <<out_data, made>>
      ELSE /\ result' = Signed(Len(frame))
           /\ out_data' = out_data \o frame
           /\ made' = Append(made, [b0 |-> b0, data |-> data])

BINARY == 130
CLOSE == 136

\* Bound: what waits in out_data is shorter than an unsigned can count (in the
\* code the host could write no more than an int counts).
Room(len) == /\ Len(made) < MaxFrames
             /\ out_data = <<>> \/ Len(out_data) + 10 + len < WORD

Pattern(len) == [i \in 1..len |-> i % BASE]

MakeData(len) == /\ Room(len)
                 /\ MakeFragment(BINARY, Pattern(len))

CodeBytes == <<3, 232>>

\* libwebsock_make_close_frame_with_reason: len counts the whole reason, buf
\* holds what snprintf kept of it.
MakeClose(len) ==
  /\ Room(len + 2)
  /\ MakeFragment(CLOSE, CodeBytes \o [i \in 1..len |-> IF i <= REASON THEN i ELSE 0])

\* libwebsock_cleanup_outdata, when the host has written it.
CleanupOutdata == /\ out_data # <<>>
                  /\ out_data' = <<>>
                  /\ made' = <<>>
                  /\ UNCHANGED result

Next == \/ \E len \in Lengths : MakeData(len)
        \/ \E len \in Reasons : MakeClose(len)
        \/ CleanupOutdata

Spec == Init /\ [][Next]_vars

-----------------------------------------------------------------------------
(* The properties.                                                         *)

\* The number s writes in base BASE, its first digit the most significant.
Number(s) ==
  LET upTo[i \in 0..Len(s)] == IF i = 0 THEN 0 ELSE BASE * upTo[i - 1] + s[i]
  IN  upTo[Len(s)]

\* Reference, RFC 6455, 5.2: the frame at place p of s, by what its second
\* byte says; "the minimal number of bytes MUST be used" for a length.
HeaderAt(s, p) ==
  IF s[p + 1] <= SMALL THEN 2 ELSE IF s[p + 1] = SMALL + 1 THEN 4 ELSE 10
LengthAt(s, p) ==
  IF s[p + 1] <= SMALL THEN s[p + 1] ELSE Number(SubSeq(s, p + 2, p + HeaderAt(s, p) - 1))
EndAt(s, p) == p + HeaderAt(s, p) + LengthAt(s, p)
LeastHeader(len) == IF len <= SMALL THEN 2 ELSE IF len < SHORT THEN 4 ELSE 10
IsFrameAt(s, p) ==
  /\ p < Len(s) /\ p + HeaderAt(s, p) <= Len(s) + 1
  /\ EndAt(s, p) <= Len(s) + 1
  /\ HeaderAt(s, p) = LeastHeader(LengthAt(s, p))
FrameAt(s, p) == [b0 |-> s[p], data |-> SubSeq(s, p + HeaderAt(s, p), EndAt(s, p) - 1)]

\* The frames of s, one behind the other; what is no frame ends them.
Malformed == [b0 |-> -1, data |-> <<>>]
FramesOf(s) ==
  LET frames[p \in 1..(Len(s) + 1)] ==
        IF p > Len(s) THEN <<>>
        ELSE IF ~ IsFrameAt(s, p) THEN <<Malformed>>
        ELSE <<FrameAt(s, p)>> \o frames[EndAt(s, p)]
  IN  frames[1]

\* The peer finds in the bytes the frames that were made, one behind the
\* other, whatever form each length takes.
StreamParses == FramesOf(out_data) = made

\* -1 tells a refused frame from every frame that was made: the length of a
\* long one, returned as an int, is negative, and is never that.
ResultTells == [][Len(made') >= Len(made) => (result' = -1 <=> made' = made)]_vars

\* "control frame cannot be greater than 125 bytes" (default_callbacks.c,
\* which refuses such a frame): true of the close frames made as long as
\* snprintf keeps their reasons whole, and of the longest of these.
ControlFramesShort ==
  Reasons \subseteq 0..REASON =>
    \A i \in DOMAIN made : made[i].b0 = CLOSE => Len(made[i].data) <= SMALL
=============================================================================
