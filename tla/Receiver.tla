------------------------------ MODULE Receiver ------------------------------
(***************************************************************************)
(* libwebsock_handle_recv: the bytes that arrive, in whatever pieces the   *)
(* host reads them, are cut into frames and each complete frame is given   *)
(* to its handler (module Connection).  The host is single-threaded: it    *)
(* calls handle_recv, or an API function, only when no call is running.    *)
(*                                                                         *)
(* The peer encodes lengths below 2^31 (the arithmetic of longer ones is   *)
(* not modelled here), in any of the three forms, shortest or not.         *)
(***************************************************************************)
EXTENDS Connection

CONSTANTS
  PeerFrames,  \* what the peer may send: [b0, data, mask, form]
  ChunkLength, \* FRAME_CHUNK_LENGTH, the first size of rawdata: 1024
  ReadMax,     \* the most the host reads at once
  NoFrame      \* current_frame = NULL

VARIABLES
  peer,       \* history: the frames the peer has sent
  ends,       \* history: at the end of each, the bytes sent
  wire,       \* their bytes the host has not read yet
  buf,        \* the bytes of the running call not looked at yet
  call,       \* "none", or where the running call is: "loop" or "exit"
  current,    \* current_frame
  needs_more, \* STATE_NEEDS_MORE_DATA
  result      \* handle_recv's retval: of the running call, then of the last

bytes == <<peer, ends, wire, buf, call, current, needs_more, result>>
recvVars == <<vars, bytes>>

FrameOf(p) == [b0 |-> p.b0, data |-> p.data]

MASK_LENGTH == 4

Form == {"short", "ext16", "ext64"}
PeerFrame == [b0 : Byte, data : Seq(Byte), mask : [1..MASK_LENGTH -> Byte], form : Form]

\* A peer encodes a length in a form that can hold it, and no frame is so long
\* that its size, rounded up to a power of two, exceeds 2^30.
ASSUME PeerAssumption ==
  /\ PeerFrames \subseteq PeerFrame
  /\ \A p \in PeerFrames :
       /\ FrameOf(p) \in RxFrames
       /\ p.form = "short" => Len(p.data) < 126
       /\ p.form = "ext16" => Len(p.data) < 65536
       /\ Len(p.data) + 14 <= 2^30
ASSUME ReadAssumption == ReadMax \in Nat \ {0}
\* The longest header, and one byte, fit in a new frame.
ASSUME ChunkAssumption == ChunkLength \in Nat /\ ChunkLength >= 15

-----------------------------------------------------------------------------
(* Bytes on the wire.                                                      *)

\* The exclusive or of two bytes.
Bit(b, w) == (b \div w) % 2
XorBit(a, b, w) == w * ((Bit(a, w) + Bit(b, w)) % 2)
Xor(a, b) == XorBit(a, b, 1) + XorBit(a, b, 2) + XorBit(a, b, 4) + XorBit(a, b, 8)
             + XorBit(a, b, 16) + XorBit(a, b, 32) + XorBit(a, b, 64) + XorBit(a, b, 128)

Masked(data, mask) == [i \in DOMAIN data |-> Xor(data[i], mask[1 + ((i - 1) % MASK_LENGTH)])]

\* A number in two bytes, and in four, the most significant first; and what
\* is read from two and from four bytes at a place.
Two(n) == <<n \div 256, n % 256>>
Four(n) == Two(n \div 65536) \o Two(n % 65536)
ReadTwo(s, i) == s[i] * 256 + s[i + 1]
ReadFour(s, i) == ReadTwo(s, i) * 65536 + ReadTwo(s, i + 2)

LengthBytes(p) ==
  IF p.form = "short" THEN <<128 + Len(p.data)>>
  ELSE IF p.form = "ext16" THEN <<254>> \o Two(Len(p.data))
  ELSE <<255, 0, 0, 0, 0>> \o Four(Len(p.data))

Encode(p) == <<p.b0>> \o LengthBytes(p) \o p.mask \o Masked(p.data, p.mask)

-----------------------------------------------------------------------------
(* The frame being read.  Its state is enum WS_FRAME_STATE; rawdata_idx is *)
(* the length of raw.  fin, opcode and payload_len_short are read off raw. *)

sw_start == 0
sw_got_two == 1
sw_got_short_len == 2
sw_got_full_len == 3
sw_loaded_mask == 4

ReadFrame == [state : sw_start..sw_loaded_mask, raw : Seq(Byte), mask_offset : Nat,
              payload_len : Nat, rawdata_sz : Nat]
ASSUME NoFrameAssumption == NoFrame \notin ReadFrame

NewFrame == [state |-> sw_start, raw |-> <<>>, mask_offset |-> 0,
             payload_len |-> 0, rawdata_sz |-> ChunkLength]

PayloadOffset(c) == c.mask_offset + MASK_LENGTH
Size(c) == PayloadOffset(c) + c.payload_len

MaskOf(c) == SubSeq(c.raw, c.mask_offset + 1, PayloadOffset(c))
\* (As in Connection, an operator named after another with a suffix is a
\* plausible error in it.)
DecodedMasked(c) ==
  [b0 |-> c.raw[1], data |-> SubSeq(c.raw, PayloadOffset(c) + 1, Size(c))]
Decoded(c) ==
  [b0 |-> c.raw[1],
   data |-> Masked(SubSeq(c.raw, PayloadOffset(c) + 1, Size(c)), MaskOf(c))]

\* The cases of libwebsock_read_header, which fall through: each applies to
\* the frame the one before it leaves.
GotTwo(c) ==
  IF c.state \in {sw_start, sw_got_two}
  THEN [c EXCEPT !.mask_offset = 2, !.state = sw_got_short_len]
  ELSE c

GotLength(c, offset, length) ==
  IF Len(c.raw) < offset THEN c
  ELSE [c EXCEPT !.mask_offset = offset, !.payload_len = length, !.state = sw_got_full_len]

GotShortLenHigh(c) ==
  LET short == c.raw[2] % 128
  IN  IF c.state # sw_got_short_len THEN c
      ELSE IF short = 126 THEN GotLength(c, 4, ReadTwo(c.raw, 3))
      ELSE IF short = 127 THEN GotLength(c, 10, ReadFour(c.raw, 3))
      ELSE GotLength(c, 2, short)
GotShortLen(c) ==
  LET short == c.raw[2] % 128
  IN  IF c.state # sw_got_short_len THEN c
      ELSE IF short = 126 THEN GotLength(c, 4, ReadTwo(c.raw, 3))
      ELSE IF short = 127 THEN GotLength(c, 10, ReadFour(c.raw, 7))
      ELSE GotLength(c, 2, short)

\* rawdata grows to the next power of two.
Powers == {2^k : k \in 0..30}
PowerOfTwoBelow(n) == Max({m \in Powers : m <= n})
PowerOfTwo(n) == Min({m \in Powers : m >= n})

GotFullLen(c) ==
  IF c.state # sw_got_full_len \/ Len(c.raw) < PayloadOffset(c) THEN c
  ELSE [c EXCEPT !.state = sw_loaded_mask,
                 !.rawdata_sz = IF Size(c) > @ THEN PowerOfTwo(Size(c)) ELSE @]

ReadHeader(c) ==
  IF Len(c.raw) < 2 THEN c ELSE GotFullLen(GotShortLen(GotTwo(c)))

-----------------------------------------------------------------------------
(* The peer and the host.                                                  *)

RecvInit == /\ Init
            /\ peer = <<>>
            /\ ends = <<>>
            /\ wire = <<>>
            /\ buf = <<>>
            /\ call = "none"
            /\ current = NoFrame
            /\ needs_more = FALSE
            /\ result = 0

\* All the bytes the peer has sent, and those the host has read.
Sent == IF ends = <<>> THEN 0 ELSE Last(ends)
Taken == Sent - Len(wire)

\* Bytes are being cut into frames: none is left in place to swallow them, and
\* no error has them ignored.
Aligned == ~ stuck /\ "PROCESSING_ERROR" \notin flags

\* While a call is running the host does not read: what the peer sends then
\* may as well be sent before or after it.  A peer may go on after its close
\* frame, but only once that frame has been handled, or no longer will be:
\* bytes of the same read are dropped with it when handle_recv returns -1,
\* and the frames that follow would be cut in the wrong places.
PeerSend(p) ==
  /\ call = "none"
  /\ Aligned => \A k \in DOMAIN peer : peer[k].b0 = CLOSE => k \in DOMAIN rx
  /\ Len(peer) < MaxRx
  /\ peer' = Append(peer, p)
  /\ ends' = Append(ends, Sent + Len(Encode(p)))
  /\ wire' = wire \o Encode(p)
  /\ UNCHANGED <<vars, buf, call, current, needs_more, result>>

\* The handshake; it resets NEEDS_MORE_DATA with the other flags.
RecvHandshake ==
  /\ call = "none"
  /\ PopulateHandshake
  /\ needs_more' = FALSE
  /\ UNCHANGED <<peer, ends, wire, buf, call, current, result>>

RecvApp == call = "none" /\ App /\ UNCHANGED bytes

\* The host reads n bytes and calls handle_recv.
RecvCall(n) ==
  /\ call = "none"
  /\ "CONNECTED" \in flags
  /\ n \in 1..Len(wire) /\ n <= ReadMax
  /\ buf' = SubSeq(wire, 1, n)
  /\ wire' = SubSeq(wire, n + 1, Len(wire))
  /\ call' = "loop"
  /\ result' = -1
  /\ UNCHANGED <<vars, peer, ends, current, needs_more>>

-----------------------------------------------------------------------------
(* One iteration of handle_recv's loop.                                    *)

\* The top of the loop: one byte is stored, and read_header is called if the
\* header is not complete yet.
Stored ==
  LET c == IF current = NoFrame THEN NewFrame ELSE current
      d == [c EXCEPT !.raw = Append(@, Head(buf))]
  IN  IF d.state = sw_loaded_mask THEN d ELSE ReadHeader(d)

Iterating == call = "loop" /\ buf # <<>> /\ "PROCESSING_ERROR" \notin flags

HeaderIncompleteForgetting ==
  /\ Iterating
  /\ Stored.state # sw_loaded_mask
  /\ current' = Stored
  /\ buf' = Tail(buf)
  /\ needs_more' = FALSE
  /\ result' = -1
  /\ UNCHANGED <<vars, peer, ends, wire, call>>

HeaderIncomplete ==
  /\ Iterating
  /\ Stored.state # sw_loaded_mask
  /\ current' = Stored
  /\ buf' = Tail(buf)
  /\ needs_more' = FALSE
  /\ UNCHANGED <<vars, peer, ends, wire, call, result>>

\* The bytes of the payload that are still to come after the stored one.
Missing(c) == IF Len(c.raw) < Size(c) THEN Size(c) - Len(c.raw) ELSE 0

PayloadIncompleteUnflagged ==
  /\ Iterating
  /\ Stored.state = sw_loaded_mask
  /\ Len(buf) - 1 < Missing(Stored)
  /\ current' = [Stored EXCEPT !.raw = @ \o Tail(buf)]
  /\ buf' = <<>>
  /\ needs_more' = FALSE
  /\ UNCHANGED <<vars, peer, ends, wire, call, result>>

PayloadIncomplete ==
  /\ Iterating
  /\ Stored.state = sw_loaded_mask
  /\ Len(buf) - 1 < Missing(Stored)
  /\ current' = [Stored EXCEPT !.raw = @ \o Tail(buf)]
  /\ buf' = <<>>
  /\ needs_more' = TRUE
  /\ UNCHANGED <<vars, peer, ends, wire, call, result>>

\* What the handler of a complete frame leaves as current_frame: NULL after
\* an error or a delivery, the same frame emptied after a control frame, a
\* new one after a fragment, the same one if there was nothing to do.
CurrentAfter(c, handler) ==
  IF "PROCESSING_ERROR" \in flags' THEN NoFrame
  ELSE IF handler = "control" THEN [c EXCEPT !.state = sw_start, !.raw = <<>>]
  ELSE IF handler = "continuation" THEN NewFrame
  ELSE IF stuck' THEN c
  ELSE NoFrame

FrameComplete ==
  /\ Iterating
  /\ Stored.state = sw_loaded_mask
  /\ Len(buf) - 1 >= Missing(Stored)
  /\ LET n == Missing(Stored)
         c == [Stored EXCEPT !.raw = @ \o SubSeq(buf, 2, n + 1)]
     IN  /\ IF stuck THEN Redispatch ELSE Receive(Decoded(c))
         /\ current' = CurrentAfter(c, HandlerOf(Decoded(c)))
         /\ buf' = SubSeq(buf, n + 2, Len(buf))
  /\ needs_more' = FALSE
  /\ result' = retval'
  /\ call' = IF retval' = -1 THEN "exit" ELSE "loop"
  /\ UNCHANGED <<peer, ends, wire>>

\* The bytes that follow an error are ignored.
ReturnIgnoring ==
  /\ call = "loop" /\ buf # <<>> /\ "PROCESSING_ERROR" \in flags
  /\ call' = "none"
  /\ buf' = <<>>
  /\ result' = 0
  /\ UNCHANGED <<vars, peer, ends, wire, current, needs_more>>

ReturnOffByOne ==
  /\ call = "exit" \/ (call = "loop" /\ buf = <<>>)
  /\ call' = "none"
  /\ buf' = <<>>
  /\ needs_more' = (needs_more \/ (current # NoFrame /\ current.state < sw_got_full_len))
  /\ UNCHANGED <<vars, peer, ends, wire, current, result>>

\* After the loop.  A handler that returned -1 has ended it early: the rest
\* of buf is never looked at.
Return ==
  /\ call = "exit" \/ (call = "loop" /\ buf = <<>>)
  /\ call' = "none"
  /\ buf' = <<>>
  /\ needs_more' = (needs_more \/ (current # NoFrame /\ current.state <= sw_got_full_len))
  /\ UNCHANGED <<vars, peer, ends, wire, current, result>>

HandleRecv == \/ HeaderIncomplete \/ PayloadIncomplete \/ FrameComplete
              \/ ReturnIgnoring \/ Return

RecvNext == \/ \E p \in PeerFrames : PeerSend(p)
            \/ RecvHandshake
            \/ RecvApp
            \/ \E n \in 1..Len(wire) : RecvCall(n)
            \/ HandleRecv

RecvSpec == RecvInit /\ [][RecvNext]_recvVars

-----------------------------------------------------------------------------
(* The properties.                                                         *)

RecvTypeOK ==
  /\ TypeOK
  /\ peer \in Seq(PeerFrames)
  /\ ends \in Seq(Nat)
  /\ wire \in Seq(Byte)
  /\ buf \in Seq(Byte)
  /\ call \in {"none", "loop", "exit"}
  /\ current \in ReadFrame \cup {NoFrame}
  /\ needs_more \in BOOLEAN
  /\ result \in {0, -1}

\* The host has read frame k to its last byte.
Complete(k) == ends[k] <= Taken

\* Chunks do not matter: the frames handled are the frames sent, in order,
\* unmasked, however their bytes were cut into reads and whatever form their
\* lengths have; and until a close frame has been made, when handle_recv
\* returns none of the frames that were complete has been left out.
EveryFrameHandled ==
  /\ IsPrefix(rx, [k \in DOMAIN peer |-> FrameOf(peer[k])])
  /\ call = "none" /\ "SENT_CLOSE" \notin flags =>
       \A k \in DOMAIN peer : k \in DOMAIN rx <=> Complete(k)

\* All the bytes handle_recv has looked at.
Looked == Taken - Len(buf)

\* rawdata is long enough for the bytes stored in it and, once the length is
\* known, for the whole frame - also in a frame reused after a control frame
\* and in the fresh one of a continuation.  A frame left in place fitted when
\* it was complete and has grown by every byte looked at since: rawdata is long
\* enough exactly while the peer has sent no more than rawdata_sz - Size bytes
\* after it.
StoredBytesFit ==
  /\ RecvTypeOK
  /\ current # NoFrame /\ ~ stuck =>
       /\ Len(current.raw) <= current.rawdata_sz
       /\ current.state = sw_loaded_mask => /\ Len(current.raw) < Size(current)
                                            /\ Size(current) <= current.rawdata_sz
  /\ stuck => /\ Size(current) <= current.rawdata_sz
              /\ Len(current.raw) = Size(current) + (Looked - ends[Len(rx)])

\* rawdata holds every byte stored in it, whatever arrives: nothing is left to
\* store once "nothing to do" has been said of a frame (the log line of
\* libwebsock_dispatch_message).
RawdataHolds == current # NoFrame => Len(current.raw) <= current.rawdata_sz

\* When a call returns in the middle of a frame, the host is told.
IncompleteIsReported ==
  call = "none" /\ ~ stuck /\ current # NoFrame /\ current.raw # <<>> => needs_more

\* A result of -1 means that more bytes are needed or that the connection is
\* closing, never that a frame was refused silently (with a callback that
\* does not fail).
MinusOneExplained ==
  call = "none" /\ result = -1 => needs_more \/ "SENT_CLOSE" \in flags

\* The frames cut from the bytes are a history of Connection.
ConnectionSpec == Spec

\* After our close frame, the peer's own is noticed as its "acknowledgement
\* to the sent close frame": the control callback sees it.
CloseAnswerNoticed ==
  call = "none" /\ flags \cap {"SENT_CLOSE", "RECEIVED_CLOSE", "PROCESSING_ERROR"} = {"SENT_CLOSE"}
    => \A k \in DOMAIN peer :
         Complete(k) /\ peer[k].b0 = CLOSE => \E j \in DOMAIN rx : rx[j].b0 = CLOSE
=============================================================================
