------------------------------- MODULE Accept -------------------------------
(***************************************************************************)
(* The accept value of libwebsock_populate_handshake (websock.c:585-600):  *)
(* the key and the GUID put together, hashed by the three calls of sha1.c, *)
(* the digest printed in hexadecimal, the bytes scanned back from that, and *)
(* encoded by base64.c.  Characters are ASCII codes.                       *)
(***************************************************************************)
EXTENDS Base64, Sha1Compress

CONSTANT Keys   \* the values of the key header

\* sizeof(concat), sizeof(sha1buf), sizeof(sha1mac), the block of base64buf
CONCAT == 1024
SHA1BUF == 45
SHA1MAC == 20
BASE64BUF == 256

\* "258EAFA5-E914-47DA-95CA-C5AB0DC85B11"
GID == <<50, 53, 56, 69, 65, 70, 65, 53, 45, 69, 57, 49, 52, 45, 52, 55, 68, 65, 45,
         57, 53, 67, 65, 45, 67, 53, 65, 66, 48, 68, 67, 56, 53, 66, 49, 49>>

\* Assumed of the constant; the code puts no limit on the key.
KeysAssumption ==
  \A k \in Keys : Len(k) + Len(GID) < CONCAT /\ \A i \in DOMAIN k : k[i] \in 1..255

VARIABLES key, concat, shactx, sha1buf, sha1mac, base64buf, pc

vars == <<key, concat, shactx, sha1buf, sha1mac, base64buf, pc>>

\* Words of length hold 2^32 in the code; no length comes near either.
Stream == INSTANCE Sha1 WITH
  BYTE_BITS <- 8, WORD_BYTES <- 4, BLOCK <- 64, WORD <- 2^30, Chunks <- {}, MaxBytes <- CONCAT,
  context <- shactx, message <- concat, misused <- FALSE, result <- 1

Init == /\ key \in Keys
        /\ concat = <<>>
        /\ shactx = Stream!Reset
        /\ sha1buf = <<>>
        /\ sha1mac = <<>>
        /\ base64buf = <<>>
        /\ pc = "concat"

Concatenate == /\ pc = "concat"
               /\ concat' = key \o GID
               /\ pc' = "hash"
               /\ UNCHANGED <<key, shactx, sha1buf, sha1mac, base64buf>>

Hash == /\ pc = "hash"
        /\ shactx' = Stream!Result(Stream!Input(shactx, concat))
        /\ pc' = "print"
        /\ UNCHANGED <<key, concat, sha1buf, sha1mac, base64buf>>

-----------------------------------------------------------------------------
(* From the words of the digest to its bytes.                              *)

HexDigit(v) == IF v < 10 THEN 48 + v ELSE 97 + v - 10
HexValue(c) == IF c >= 97 THEN c - 97 + 10 ELSE c - 48

\* %x, for a word that is not 0.
HexadecimalUnpadded(w) ==
  LET digits == [i \in 1..8 |-> (w[1 + ((i - 1) \div 4)] \div 16^(3 - ((i - 1) % 4))) % 16]
      from   == Min({i \in 1..8 : digits[i] # 0} \cup {8})
  IN  [i \in 1..(9 - from) |-> HexDigit(digits[from + i - 1])]

\* %08x
Hexadecimal(w) ==
  [i \in 1..8 |-> HexDigit((w[1 + ((i - 1) \div 4)] \div 16^(3 - ((i - 1) % 4))) % 16)]

PrintDigest == /\ pc = "print"
               /\ sha1buf' = FlattenSeq([i \in 1..5 |-> Hexadecimal(shactx.digest[i])])
               /\ pc' = "scan"
               /\ UNCHANGED <<key, concat, shactx, sha1mac, base64buf>>

\* Two digits at a time, as many as there are whole pairs.
ScanBytes == /\ pc = "scan"
             /\ sha1mac' = [n \in 1..(Len(sha1buf) \div 2) |->
                              16 * HexValue(sha1buf[2 * n - 1]) + HexValue(sha1buf[2 * n])]
             /\ pc' = "encode"
             /\ UNCHANGED <<key, concat, shactx, sha1buf, base64buf>>

\* base64_encode, which writes nothing when it does not fit.
Encode == /\ pc = "encode"
          /\ base64buf' = IF EncodeFits(sha1mac, BASE64BUF) THEN Encoded(sha1mac) ELSE <<>>
          /\ pc' = "done"
          /\ UNCHANGED <<key, concat, shactx, sha1buf, sha1mac>>

Next == Concatenate \/ Hash \/ PrintDigest \/ ScanBytes \/ Encode

Spec == Init /\ [][Next]_vars

-----------------------------------------------------------------------------
(* The properties.                                                         *)

\* Every buffer holds what is written to it, terminated, and no more than
\* it was declared for.
TypeOK ==
  /\ concat \in Seq(1..255) /\ Len(concat) < CONCAT
  /\ Len(sha1buf) < SHA1BUF
  /\ sha1mac \in Seq(Byte) /\ pc \in {"encode", "done"} => Len(sha1mac) = SHA1MAC
  /\ Len(base64buf) < BASE64BUF
  /\ pc \in {"concat", "hash", "print", "scan", "encode", "done"}

\* Reference: RFC 6455, 4.2.2, over the message padded as a whole and the
\* other method of FIPS 180-1.
AcceptOf(k) ==
  LET digest == FoldLeft(FipsBlock, InitialDigest, Stream!Blocks(Stream!Padded(k \o GID)))
      mac    == FlattenSeq([i \in 1..5 |-> <<digest[i][1] \div 256, digest[i][1] % 256,
                                             digest[i][2] \div 256, digest[i][2] % 256>>])
  IN  Encoded(mac)

\* The accept value is that of the key, for keys that end anywhere in a block
\* and digests with zeros anywhere.
AcceptOfKey == pc = "done" => base64buf = AcceptOf(key)

\* "dGhlIHNhbXBsZSBub25jZQ==" and "s3pPLMBiTxaQ9kYGzzhZRbK+xOo=", the
\* example of RFC 6455, 1.3.
RfcKey == <<100, 71, 104, 108, 73, 72, 78, 104, 98, 88, 66, 115, 90, 83, 66, 117, 98, 50, 53, 106, 90, 81, 61, 61>>
RfcAccept == <<115, 51, 112, 80, 76, 77, 66, 105, 84, 120, 97, 81, 57, 107, 89, 71, 122, 122, 104, 90, 82, 98, 75,
               43, 120, 79, 111, 61>>

\* The example of the RFC comes out as the RFC says, whatever the reference
\* above shares with the code.
RfcExample == pc = "done" /\ key = RfcKey => base64buf = RfcAccept
=============================================================================
