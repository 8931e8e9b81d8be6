------------------------------ MODULE FrameSize ------------------------------
(***************************************************************************)
(* The size arithmetic of libwebsock_read_header: what becomes of the      *)
(* length of a frame in unsigned and int, and of the buffer it is read to. *)
(* (Receiver has the bytes and the states of the frame, for lengths far    *)
(* from these limits.)                                                     *)
(*                                                                         *)
(* An int has BITS bits, 32 in the code.                                   *)
(***************************************************************************)
EXTENDS Integers, Sequences, SequencesExt
LOCAL INSTANCE Bitwise

CONSTANTS
  BITS,
  CHUNK,    \* FRAME_CHUNK_LENGTH: 1024
  Headers   \* what may arrive: payload_offset, and the two halves of the length

WORD == 2^BITS
HALF == 2^(BITS - 1)
Header == [offset : {6, 8, 14}, high : 0..(WORD - 1), low : 0..(WORD - 1)]

\* Assumed of the constants.
SizesAssumption ==
  /\ BITS \in 5..32 /\ CHUNK \in 14..(HALF - 1)
  /\ \E k \in 0..BITS : CHUNK = 2^k
\* The same.  Only the third form of length has a high half.
HeadersAssumption ==
  /\ Headers \subseteq Header
  /\ \A h \in Headers : h.offset # 14 => h.high = 0

VARIABLES
  header,      \* history: the header read to its end, or that of the last frame
  loaded,      \* current_frame is in state sw_loaded_mask
  payload_len, size, rawdata_sz,  \* of current_frame
  allocated,   \* the bytes rawdata points to
  largest,     \* history: the largest size of a frame read into this rawdata
  process      \* "running" or "exited"

vars == <<header, loaded, payload_len, size, rawdata_sz, allocated, largest, process>>

Init == /\ header = CHOOSE h \in Headers : TRUE
        /\ loaded = FALSE
        /\ payload_len = WORD - 1 /\ size = 0
        /\ rawdata_sz = CHUNK /\ allocated = CHUNK
        /\ largest = 0 /\ process = "running"

-----------------------------------------------------------------------------
Signed(n) == IF n < HALF THEN n ELSE n - WORD
Unsigned(i) == i % WORD

\* new_size |= new_size >> k, of an int: its sign fills up from the left.
Smear(i, k) == Signed(Unsigned(i) | Unsigned(i \div 2^k))

\* new_size at the call of lws_realloc.  The first decrement of the least int
\* wraps; the last increment may overflow too, where the build wraps or adds
\* in the wider type of the argument.
Rounded(n) ==
  LET ones == FoldLeft(Smear, IF Signed(n) = -HALF THEN HALF - 1 ELSE Signed(n) - 1, <<1, 2, 4, 8, 16>>)
  IN  IF ones = HALF - 1 THEN {HALF, -HALF} ELSE {ones + 1}

\* lws_realloc, in a process with memory enough for what an unsigned counts:
\* a negative size is beyond any memory, and glibc frees a block given 0 and
\* returns NULL.  NULL ends the process.
Realloc(new_size) ==
  IF new_size > 0
  THEN allocated' = new_size /\ UNCHANGED process
  ELSE process' = "exited" /\ UNCHANGED allocated

\* (As in Connection, an operator named after another with a suffix is a
\* plausible error in it.)
ReadFullLengthTrusting(h) ==
  /\ process = "running" /\ ~ loaded
  /\ header' = h
  /\ payload_len' = h.low
  /\ size' = (h.offset + h.low) % WORD
  /\ largest' = IF largest < size' THEN size' ELSE largest
  /\ \/ size' <= rawdata_sz /\ UNCHANGED <<rawdata_sz, allocated, process>>
     \/ /\ size' > rawdata_sz
        /\ \E new_size \in Rounded(size') : /\ rawdata_sz' = Unsigned(new_size)
                                            /\ allocated' = Unsigned(new_size)
                                            /\ UNCHANGED process
  /\ loaded' = TRUE

\* libwebsock_read_header, when the last byte of the header is there.
ReadFullLength(h) ==
  /\ process = "running" /\ ~ loaded
  /\ header' = h
  /\ payload_len' = h.low
  /\ size' = (h.offset + h.low) % WORD
  /\ largest' = IF largest < size' THEN size' ELSE largest
  /\ \/ size' <= rawdata_sz /\ UNCHANGED <<rawdata_sz, allocated, process>>
     \/ /\ size' > rawdata_sz
        /\ \E new_size \in Rounded(size') : rawdata_sz' = Unsigned(new_size) /\ Realloc(new_size)
  /\ loaded' = TRUE

\* libwebsock_handle_control_frame empties the frame and keeps its rawdata.
ReuseFrame == /\ process = "running" /\ loaded
              /\ loaded' = FALSE
              /\ UNCHANGED <<header, payload_len, size, rawdata_sz, allocated, largest, process>>

\* A message was dispatched or a fragment kept: another frame is allocated.
NewFrame == /\ process = "running" /\ loaded
            /\ loaded' = FALSE
            /\ payload_len' = WORD - 1 /\ size' = 0
            /\ rawdata_sz' = CHUNK /\ allocated' = CHUNK
            /\ largest' = 0
            /\ UNCHANGED <<header, process>>

Next == (\E h \in Headers : ReadFullLength(h)) \/ ReuseFrame \/ NewFrame

Spec == Init /\ [][Next]_vars

-----------------------------------------------------------------------------
(* The properties.                                                         *)

TypeOK == /\ header \in Headers /\ loaded \in BOOLEAN /\ process \in {"running", "exited"}
          /\ {payload_len, size, rawdata_sz, largest} \subseteq 0..(WORD - 1)
          /\ allocated \in 1..HALF

\* The sum of the header's bytes and the payload's, as libwebsock_read_header
\* adds them, is one an unsigned can hold.
SizeHolds(h) == h.offset + h.low < WORD

\* Once the header is read, the block is long enough for the whole frame, or
\* the process has ended, whatever the block was enlarged for before: for
\* every frame whose size an unsigned can hold.  Of the others the code
\* promises the block for the size it has computed, and no more.
FrameFits ==
  process = "running" /\ loaded =>
    /\ SizeHolds(header) => header.offset + header.low <= allocated
    /\ size <= rawdata_sz /\ rawdata_sz <= allocated

\* Payloads over 0xfffffff0 bytes are not supported, says the code that makes
\* frames (its log line): a frame that claims to be so long is refused, or its
\* block is long enough, as that of every other frame is.
AnyFrameFits == process = "running" /\ loaded => header.offset + header.low <= allocated

\* The shifts and increments make powers of two, and the least that will do.
GrowthIsLeast ==
  process = "running" =>
    \E k \in 0..BITS : /\ rawdata_sz = 2^k
                       /\ largest <= 2^k
                       /\ rawdata_sz = CHUNK \/ 2^(k - 1) < largest

\* A frame of up to a quarter of an unsigned's range, 1 GiB, never ends the
\* process: the rounding leaves the range of int for longer ones only.
OnlyHugeExits == process = "exited" => largest > HALF \div 2
=============================================================================
