-------------------------------- MODULE Sha1 --------------------------------
(***************************************************************************)
(* sha1.c as the handshake uses it: SHA1Reset, SHA1Input any number of     *)
(* times, SHA1Result.  This module is about the stream: the block that     *)
(* fills up, the length kept in two words, the padding, and the two flags; *)
(* the compression of one block is the constant Compress (module           *)
(* Sha1Compress is the code's).                                            *)
(*                                                                         *)
(* Sizes are constants so that a message can pass every limit: a byte has  *)
(* BYTE_BITS bits (8 in the code), a length word is WORD_BYTES bytes (4),  *)
(* a block BLOCK bytes (64).                                               *)
(***************************************************************************)
EXTENDS Integers, Sequences, SequencesExt

CONSTANTS
  BYTE_BITS, WORD_BYTES, BLOCK,
  WORD,            \* the modulus of a length word: 2^32
  Chunks,          \* what is passed to one call of SHA1Input
  MaxBytes,        \* bound: the bytes passed in all
  InitialDigest,   \* Message_Digest after SHA1Reset
  Compress(_, _)   \* the digest after a block

BASE == 2^BYTE_BITS
Byte == 0..(BASE - 1)
TOP_BIT == BASE \div 2                    \* 0x80
LENGTH_BYTES == 2 * WORD_BYTES            \* 8
LENGTH_AT == BLOCK - LENGTH_BYTES         \* 56

\* Assumed of the constants.
SizesAssumption ==
  /\ {BYTE_BITS, WORD_BYTES, BLOCK, WORD, MaxBytes} \subseteq Nat \ {0}
  /\ WORD % BYTE_BITS = 0
  /\ LENGTH_AT > 0
ChunksAssumption == Chunks \subseteq Seq(Byte)

VARIABLES
  context,   \* SHA1Context
  message,   \* history: the bytes passed since SHA1Reset
  misused,   \* history: bytes were passed after SHA1Result
  result     \* what SHA1Result returned last

vars == <<context, message, misused, result>>

\* SHA1Reset.  The part of Message_Block below Message_Block_Index is block.
Reset == [digest |-> InitialDigest, Length_Low |-> 0, Length_High |-> 0,
          block |-> <<>>, Computed |-> FALSE, Corrupted |-> FALSE]

Init == /\ context = Reset
        /\ message = <<>>
        /\ misused = FALSE
        /\ result = 1

-----------------------------------------------------------------------------
(* The operations, on a context.                                           *)

\* SHA1ProcessMessageBlock, for a block that is full.
ProcessMessageBlock(c) ==
  [c EXCEPT !.digest = Compress(@, c.block), !.block = <<>>]

\* The length in bits, over two words; a message whose length does not fit
\* in them is corrupted.
CountByte(c) ==
  LET low  == (c.Length_Low + BYTE_BITS) % WORD
      high == IF low = 0 THEN (c.Length_High + 1) % WORD ELSE c.Length_High
  IN  [c EXCEPT !.Length_Low = low, !.Length_High = high,
                !.Corrupted = low = 0 /\ high = 0]

\* One round of SHA1Input's loop.  A corrupted context ends the loop.
InputByte(c, byte) ==
  LET d == CountByte([c EXCEPT !.block = Append(@, byte)])
  IN  IF c.Corrupted THEN c
      ELSE IF Len(d.block) = BLOCK THEN ProcessMessageBlock(d) ELSE d

\* Its rounds, the context after each.
Rounds(c, bytes) ==
  LET after[n \in 0..Len(bytes)] == IF n = 0 THEN c ELSE InputByte(after[n - 1], bytes[n])
  IN  after

\* SHA1Input
Input(c, bytes) ==
  IF bytes = <<>> THEN c
  ELSE IF c.Computed \/ c.Corrupted THEN [c EXCEPT !.Corrupted = TRUE]
  ELSE Rounds(c, bytes)[Len(bytes)]

Zeros(n) == [i \in 1..n |-> 0]

\* w in k bytes, the most significant first.
BigEndian(w, k) ==
  LET shifted[i \in 0..k] == IF i = 0 THEN w ELSE shifted[i - 1] \div BASE
  IN  [i \in 1..k |-> shifted[k - i] % BASE]

\* SHA1PadMessage: a block with no room for the length behind the first bit
\* of padding is filled up and processed, and the length goes into another.
PadMessageOffByOne(c) ==
  LET d == IF Len(c.block) > LENGTH_AT
           THEN ProcessMessageBlock([c EXCEPT !.block = @ \o <<TOP_BIT>> \o Zeros(BLOCK - Len(@) - 1)])
           ELSE [c EXCEPT !.block = Append(@, TOP_BIT)]
  IN  ProcessMessageBlock(
        [d EXCEPT !.block = @ \o Zeros(LENGTH_AT - Len(@))
                              \o BigEndian(c.Length_High, WORD_BYTES) \o BigEndian(c.Length_Low, WORD_BYTES)])

PadMessage(c) ==
  LET d == IF Len(c.block) > LENGTH_AT - 1
           THEN ProcessMessageBlock([c EXCEPT !.block = @ \o <<TOP_BIT>> \o Zeros(BLOCK - Len(@) - 1)])
           ELSE [c EXCEPT !.block = Append(@, TOP_BIT)]
  IN  ProcessMessageBlock(
        [d EXCEPT !.block = @ \o Zeros(LENGTH_AT - Len(@))
                              \o BigEndian(c.Length_High, WORD_BYTES) \o BigEndian(c.Length_Low, WORD_BYTES)])

\* SHA1Result
Result(c) == IF c.Corrupted \/ c.Computed THEN c
             ELSE [PadMessage(c) EXCEPT !.Computed = TRUE]

-----------------------------------------------------------------------------
(* The caller, in any order.                                               *)

SHA1Reset == /\ context' = Reset
             /\ message' = <<>>
             /\ misused' = FALSE
             /\ UNCHANGED result

SHA1Input(bytes) == /\ Len(message) + Len(bytes) <= MaxBytes
                    /\ context' = Input(context, bytes)
                    /\ message' = message \o bytes
                    /\ misused' = (misused \/ (context.Computed /\ bytes # <<>>))
                    /\ UNCHANGED result

SHA1Result == /\ context' = Result(context)
              /\ result' = IF context.Corrupted THEN 0 ELSE 1
              /\ UNCHANGED <<message, misused>>

Next == SHA1Reset \/ SHA1Result \/ \E bytes \in Chunks : SHA1Input(bytes)

Spec == Init /\ [][Next]_vars

-----------------------------------------------------------------------------
(* The properties.                                                         *)

TypeOK == /\ context.Length_Low \in 0..(WORD - 1) /\ context.Length_High \in 0..(WORD - 1)
          /\ context.block \in Seq(Byte) /\ Len(context.block) < BLOCK
          /\ context.Computed \in BOOLEAN /\ context.Corrupted \in BOOLEAN
          /\ result \in {0, 1}

\* Reference, from FIPS 180: the message, one bit, the least number of zeros,
\* and the two words of the length in bits at the end of a block.
Padded(m) ==
  LET room(k) == (Len(m) + 1 + k + LENGTH_BYTES) % BLOCK = 0
      zeros   == CHOOSE k \in 0..(BLOCK - 1) : room(k)
      bits    == BYTE_BITS * Len(m)
  IN  m \o <<TOP_BIT>> \o Zeros(zeros)
        \o BigEndian(bits \div WORD, WORD_BYTES) \o BigEndian(bits % WORD, WORD_BYTES)

Blocks(s) == [k \in 1..(Len(s) \div BLOCK) |-> SubSeq(s, BLOCK * (k - 1) + 1, BLOCK * k)]

Digest(blocks) ==
  LET digest[k \in 0..Len(blocks)] ==
        IF k = 0 THEN InitialDigest ELSE Compress(digest[k - 1], blocks[k])
  IN  digest[Len(blocks)]

TooLong == BYTE_BITS * Len(message) >= WORD * WORD

\* However a message is cut into calls, and whatever its length leaves in
\* the last block, the digest is that of the message padded as a whole; and
\* asking for it again does not change it.
DigestOfMessage ==
  context.Computed /\ ~ context.Corrupted =>
    context.digest = Digest(Blocks(Padded(message)))

\* A context is corrupted exactly when the length does not fit in its two
\* words or bytes came after the result; a digest is never given for one.
CorruptedExactly == context.Corrupted <=> TooLong \/ misused

\* Until then nothing of the message is lost: what is not in the digest yet
\* is in the block.
BlockIsRest ==
  ~ context.Corrupted /\ ~ context.Computed =>
    context.block = SubSeq(message, BLOCK * (Len(message) \div BLOCK) + 1, Len(message))
=============================================================================
