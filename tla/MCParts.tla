------------------------------ MODULE MCParts ------------------------------
(***************************************************************************)
(* One run for the parts that do not share a state: the processes of the   *)
(* server, and what is called for its result alone (SHA-1, the accept      *)
(* value, Base64, byte order, the bytes and sizes of frames).              *)
(* A behaviour is one of one part; the others stay as they began.          *)
(***************************************************************************)
EXTENDS Server, Sequences, SequencesExt

VARIABLES
  part,
  context, message, misused, sha1_result,
  key, concat, shactx, sha1buf, sha1mac, base64buf, accept_pc,
  source, text,
  out_data, fragment_result, made,
  header, loaded, payload_len, size, rawdata_sz, allocated, largest, process,
  x

-----------------------------------------------------------------------------
(* Bytes of two bits, words of one byte, blocks of five bytes: a message of *)
(* two bytes carries into the second word, one of eight is too long.  The  *)
(* digest is the blocks it was made from.                                  *)
History(digest, block) == Append(digest, block)
MCChunks == {<<>>, <<1>>, <<2, 0>>, <<3, 1, 2>>, <<0, 2, 2, 1, 3>>}
Stream == INSTANCE Sha1 WITH
  BYTE_BITS <- 2, WORD_BYTES <- 1, BLOCK <- 5, WORD <- 4, MaxBytes <- 10,
  Chunks <- MCChunks, InitialDigest <- <<>>, Compress <- History, result <- sha1_result

(* The key of the RFC, and keys whose message ends at either side of every *)
(* limit of the padding: one block, two, three.                            *)
RfcKey == <<100, 71, 104, 108, 73, 72, 78, 104, 98, 88, 66, 115, 90, 83, 66, 117, 98, 50, 53, 106, 90, 81, 61, 61>>
MCKeys == {RfcKey} \cup
  {[i \in 1..n |-> 65 + ((i * n) % 26)] : n \in {0, 1, 17, 18, 19, 20, 21, 22, 23, 24, 26, 27, 28, 29, 30,
                                               82, 83, 84, 91, 92, 93}}
Value == INSTANCE Accept WITH Keys <- MCKeys, pc <- accept_pc

(* Bytes at the ends of the ranges; characters at both ends of the         *)
(* alphabet, the padding, and one that is skipped.                         *)
Codec == INSTANCE Base64Codec WITH
  Bytes <- {0, 3, 64, 191, 252, 255}, Characters <- {65, 47, 61, 10, 122},
  MaxBytes <- 5, MaxCharacters <- 6

(* Lengths on either side of the borders 5, 15 and 240, and those a header *)
(* takes over 255; reasons that snprintf keeps whole.                      *)
Out == INSTANCE OutData WITH
  BASE <- 4, SMALL <- 5, MaxFrames <- 3, Reasons <- 0..3,
  Lengths <- {0, 1, 5, 6, 15, 16, 17, 100, 239, 240, 241, 245, 255},
  result <- fragment_result

(* An int of seven bits; every length its third form can give, those whose *)
(* sum with the header wraps among them, and those of the other two forms  *)
(* as far as they go.                                                      *)
MCHeaders ==
  [offset : {6}, high : {0}, low : 0..5] \cup [offset : {8}, high : {0}, low : 0..15]
    \cup [offset : {14}, high : {0}, low : 0..127] \cup [offset : {14}, high : {1}, low : {0, 20, 100}]
Sizes == INSTANCE FrameSize WITH BITS <- 7, CHUNK <- 16, Headers <- MCHeaders

(* Words of up to two ones, wherever they are.                             *)
Order == INSTANCE ByteOrder WITH MaxOnes <- 2

ASSUME Stream!SizesAssumption /\ Stream!ChunksAssumption
ASSUME Value!KeysAssumption
ASSUME Codec!InputsAssumption
ASSUME Out!NumbersAssumption /\ Out!InputsAssumption
ASSUME Sizes!SizesAssumption /\ Sizes!HeadersAssumption

-----------------------------------------------------------------------------
streamVars == <<context, message, misused, sha1_result>>
valueVars == <<key, concat, shactx, sha1buf, sha1mac, base64buf, accept_pc>>
codecVars == <<source, text>>
outVars == <<out_data, fragment_result, made>>
sizesVars == <<header, loaded, payload_len, size, rawdata_sz, allocated, largest, process>>
partsVars == <<part, vars, streamVars, valueVars, codecVars, outVars, sizesVars, x>>

\* Every part is in an initial state of its own; the choices some have there
\* are made when the behaviour is theirs.
PartsInit ==
  /\ part \in {"server", "sha1", "accept", "base64", "out_data", "frame_size", "byte_order"}
  /\ Init
  /\ Stream!Init
  /\ Value!Init /\ (part # "accept" => key = RfcKey)
  /\ Codec!Init
  /\ Out!Init
  /\ Sizes!Init
  /\ Order!Init

PartsNext ==
  /\ UNCHANGED part
  /\ IF part = "server" THEN Next ELSE UNCHANGED vars
  /\ IF part = "sha1" THEN Stream!Next ELSE UNCHANGED streamVars
  /\ IF part = "accept" THEN Value!Next ELSE UNCHANGED valueVars
  /\ IF part = "base64" THEN Codec!Next ELSE UNCHANGED codecVars
  /\ IF part = "out_data" THEN Out!Next ELSE UNCHANGED outVars
  /\ IF part = "frame_size" THEN Sizes!Next ELSE UNCHANGED sizesVars
  /\ IF part = "byte_order" THEN Order!Next ELSE UNCHANGED x

PartsSpec == PartsInit /\ [][PartsNext]_partsVars /\ Fairness

-----------------------------------------------------------------------------
(* The properties, each stated in the module of its part.                  *)

\* Every variable of the parts has its type, and every buffer holds what is
\* written to it: the text of the digest, its bytes, the accept value.
TypesOK == Stream!TypeOK /\ Value!TypeOK /\ Sizes!TypeOK

\* The digest is that of the message padded as a whole, however it was cut
\* into calls; what is not in it yet is in the block; and there is none
\* exactly for too long a message and after misuse.
DigestOfMessage == Stream!DigestOfMessage /\ Stream!BlockIsRest /\ Stream!CorruptedExactly

\* The accept value is that of the key, and the example of RFC 6455 comes out
\* as it says.
AcceptOfKey == Value!AcceptOfKey /\ Value!RfcExample

\* The encoder is Base64 by the definition in bits, written inside its target
\* or not at all; decoding ends on every text, and gives back what was encoded.
Base64Correct ==
  Codec!EncodingIsBase64 /\ Codec!EncoderStaysInside /\ Codec!RoundTrip /\ Codec!DecoderStops

\* The peer reads back from the bytes of out_data the frames made, and no
\* close frame is longer than a control frame may be.
StreamParses == Out!StreamParses /\ Out!ControlFramesShort

\* -1 tells a refused frame from every frame made.
ResultTells == Out!ResultTells

\* The block a frame is read into is long enough for it if an unsigned can hold
\* its size, and is the least power of two that is; only a frame of more than
\* 1 GiB ends the process.
FrameFits == Sizes!FrameFits /\ Sizes!GrowthIsLeast /\ Sizes!OnlyHugeExits

\* The block is long enough for any frame, or the frame is refused: what the
\* limit of 0xfffffff0 bytes, named where frames are made, says of all frames.
AnyFrameFits == Sizes!AnyFrameFits

\* The conversions reverse the bytes of a word, and each undoes itself.
BytesReversed == Order!BytesReversed /\ Order!SwapsBack
=============================================================================
