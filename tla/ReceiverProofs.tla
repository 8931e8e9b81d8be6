--------------------------- MODULE ReceiverProofs ---------------------------
(* Proofs for Receiver and EchoHost.                                       *)
EXTENDS EchoHost, ConnectionProofs

-----------------------------------------------------------------------------
(* Masks.                                                                  *)

BitRange == {0, 1}

\* A byte is the sum of its bits.
LEMMA SumOfBits ==
  ASSUME NEW a \in Byte
  PROVE  /\ \A w \in {1, 2, 4, 8, 16, 32, 64, 128} : Bit(a, w) \in BitRange
         /\ a = Bit(a, 1) + 2 * Bit(a, 2) + 4 * Bit(a, 4) + 8 * Bit(a, 8)
                + 16 * Bit(a, 16) + 32 * Bit(a, 32) + 64 * Bit(a, 64) + 128 * Bit(a, 128)
BY SMT DEF Byte, Bit, BitRange

\* And the bits of such a sum are the bits it was made of.
LEMMA BitsOfSum ==
  ASSUME NEW f, NEW n, \A w \in {1, 2, 4, 8, 16, 32, 64, 128} : f[w] \in BitRange,
         n = f[1] + 2 * f[2] + 4 * f[4] + 8 * f[8] + 16 * f[16] + 32 * f[32] + 64 * f[64] + 128 * f[128]
  PROVE  n \in Byte /\ \A w \in {1, 2, 4, 8, 16, 32, 64, 128} : Bit(n, w) = f[w]
PROOF
<1> DEFINE good(x1, x2, x4, x8, x16, x32, x64, x128) ==
             n = x1 + 2 * x2 + 4 * x4 + 8 * x8 + 16 * x16 + 32 * x32 + 64 * x64 + 128 * x128 =>
               /\ n \in Byte
               /\ Bit(n, 1) = x1 /\ Bit(n, 2) = x2 /\ Bit(n, 4) = x4 /\ Bit(n, 8) = x8
               /\ Bit(n, 16) = x16 /\ Bit(n, 32) = x32 /\ Bit(n, 64) = x64 /\ Bit(n, 128) = x128
<1>1. ASSUME NEW x1 \in BitRange, NEW x2 \in BitRange, NEW x4 \in BitRange, NEW x8 \in BitRange,
             NEW x16 \in BitRange, NEW x32 \in BitRange, NEW x64 \in BitRange, NEW x128 \in BitRange
      PROVE  good(x1, x2, x4, x8, x16, x32, x64, x128)
  BY ONLY SMT DEF Byte, Bit, BitRange
<1>2. good(f[1], f[2], f[4], f[8], f[16], f[32], f[64], f[128])
  <2> HIDE DEF good
  <2> QED BY <1>1
<1> QED BY <1>2

LEMMA BitTwice ==
  ASSUME NEW x \in BitRange, NEW y \in BitRange
  PROVE  (x + y) % 2 \in BitRange /\ (((x + y) % 2) + y) % 2 = x
BY DEF BitRange

\* Masking twice with the same byte gives back what was masked.
LEMMA XorTwice ==
  ASSUME NEW a \in Byte, NEW m \in Byte
  PROVE  Xor(a, m) \in Byte /\ Xor(Xor(a, m), m) = a
PROOF
<1> DEFINE n == Xor(a, m)
           x == [w \in {1, 2, 4, 8, 16, 32, 64, 128} |-> (Bit(a, w) + Bit(m, w)) % 2]
<1>1. \A w \in {1, 2, 4, 8, 16, 32, 64, 128} :
        /\ Bit(a, w) \in BitRange /\ Bit(m, w) \in BitRange
        /\ x[w] \in BitRange /\ (x[w] + Bit(m, w)) % 2 = Bit(a, w)
  BY SumOfBits, BitTwice
<1>2. n = x[1] + 2 * x[2] + 4 * x[4] + 8 * x[8] + 16 * x[16] + 32 * x[32] + 64 * x[64] + 128 * x[128]
  <2>1. \A w \in {1, 2, 4, 8, 16, 32, 64, 128} : x[w] \in Int
    BY <1>1 DEF BitRange
  <2>2. n = 1 * x[1] + 2 * x[2] + 4 * x[4] + 8 * x[8] + 16 * x[16] + 32 * x[32] + 64 * x[64] + 128 * x[128]
    BY DEF Xor, XorBit
  <2> QED BY <2>1, <2>2
<1>3. /\ n \in Byte
      /\ \A w \in {1, 2, 4, 8, 16, 32, 64, 128} : Bit(n, w) = x[w]
  <2> HIDE DEF x, n
  <2> QED BY <1>1, <1>2, BitsOfSum
<1>4. Xor(n, m) = 1 * Bit(a, 1) + 2 * Bit(a, 2) + 4 * Bit(a, 4) + 8 * Bit(a, 8)
                  + 16 * Bit(a, 16) + 32 * Bit(a, 32) + 64 * Bit(a, 64) + 128 * Bit(a, 128)
  <2> HIDE DEF n
  <2>1. \A w \in {1, 2, 4, 8, 16, 32, 64, 128} : XorBit(n, m, w) = w * Bit(a, w)
    BY <1>1, <1>3 DEF XorBit
  <2> QED BY <2>1 DEF Xor
<1>5. Xor(n, m) = a
  <2>1. \A w \in {1, 2, 4, 8, 16, 32, 64, 128} : Bit(a, w) \in Int
    BY <1>1 DEF BitRange
  <2> HIDE DEF n
  <2> QED BY <1>4, <2>1, SumOfBits
<1> QED BY <1>3, <1>5

-----------------------------------------------------------------------------
(* The size of rawdata.                                                    *)

LEMMA PowersAreNat == Powers \in SUBSET Nat /\ 2^30 \in Powers
BY DEF Powers

\* rawdata grows to what was asked for, or more.
LEMMA PowerIsEnough ==
  ASSUME NEW n \in Nat, n <= 2^30
  PROVE  PowerOfTwo(n) \in Nat /\ PowerOfTwo(n) >= n
PROOF
<1> DEFINE S == {m \in Powers : m >= n}
<1>1. S \in SUBSET Nat /\ S # {}
  BY PowersAreNat
<1>2. Min(S) \in S
  <2> HIDE DEF S
  <2> QED BY <1>1, MinOfNats
<1> QED BY <1>1, <1>2 DEF PowerOfTwo

-----------------------------------------------------------------------------
(* The bytes of a frame.                                                   *)

\* Where its mask is, and how long it is.
Offset(p) == IF p.form = "short" THEN 2 ELSE IF p.form = "ext16" THEN 4 ELSE 10
FrameLength(p) == Offset(p) + MASK_LENGTH + Len(p.data)

LEMMA PeerFrameType ==
  ASSUME NEW p \in PeerFrames
  PROVE  /\ p.b0 \in Byte /\ p.data \in Seq(Byte) /\ p.mask \in [1..4 -> Byte]
         /\ p.form \in {"short", "ext16", "ext64"} /\ Len(p.data) \in Nat
         /\ p.form = "short" => Len(p.data) < 126
         /\ p.form = "ext16" => Len(p.data) < 65536
         /\ Len(p.data) + 14 <= 1073741824
         /\ FrameOf(p) \in RxFrames
PROOF
<1>1. p \in PeerFrame
  BY PeerAssumption
<1>2. p.b0 \in Byte /\ p.data \in Seq(Byte) /\ p.mask \in [1..4 -> Byte] /\ p.form \in Form
  BY <1>1 DEF PeerFrame, MASK_LENGTH
<1>3. 2^30 = 1073741824
  OBVIOUS
<1>4. Len(p.data) \in Nat
  BY <1>2
<1> QED BY <1>2, <1>3, <1>4, PeerAssumption DEF Form

\* u is s followed by t.
Joined(u, s, t) ==
  /\ Len(u) = Len(s) + Len(t)
  /\ \A i \in 1..Len(s) : u[i] = s[i]
  /\ \A i \in 1..Len(t) : u[Len(s) + i] = t[i]

LEMMA ConcatJoins ==
  ASSUME NEW S, NEW s \in Seq(S), NEW t \in Seq(S)
  PROVE  Joined(s \o t, s, t)
PROOF
<1>1. Len(s) \in Nat /\ Len(t) \in Nat
  OBVIOUS
<1>2. \A i \in 1..Len(s) + Len(t) : (s \o t)[i] = IF i <= Len(s) THEN s[i] ELSE t[i - Len(s)]
  BY ConcatProperties
<1>3. \A i \in 1..Len(s) : (s \o t)[i] = s[i]
  BY <1>1, <1>2
<1>4. \A i \in 1..Len(t) : (s \o t)[Len(s) + i] = t[i]
  <2> TAKE i \in 1..Len(t)
  <2>1. Len(s) + i \in 1..Len(s) + Len(t) /\ ~ (Len(s) + i <= Len(s)) /\ Len(s) + i - Len(s) = i
    BY <1>1
  <2> QED BY <1>2, <2>1
<1> QED BY <1>3, <1>4, ConcatProperties DEF Joined

\* A number written in bytes is read back.
LEMMA TwoRead ==
  ASSUME NEW n \in Nat, n < 65536
  PROVE  /\ Two(n) \in Seq(Byte) /\ Len(Two(n)) = 2
         /\ Two(n)[1] * 256 + Two(n)[2] = n
BY DEF Two, Byte

LEMMA FourRead ==
  ASSUME NEW n \in Nat, n <= 1073741824
  PROVE  /\ Four(n) \in Seq(Byte) /\ Len(Four(n)) = 4 /\ ReadFour(Four(n), 1) = n
PROOF
<1> DEFINE h == n \div 65536
           l == n % 65536
<1>1. h \in Nat /\ h < 65536 /\ l \in Nat /\ l < 65536 /\ h * 65536 + l = n
  <2>1. h \in Int /\ l \in Int /\ 0 <= l /\ l < 65536
    BY SMT
  <2>2. l = n - 65536 * h
    BY SMT
  <2> HIDE DEF h, l
  <2> QED BY <2>1, <2>2, SMT
<1>2. /\ Two(h) \in Seq(Byte) /\ Len(Two(h)) = 2 /\ Two(h)[1] * 256 + Two(h)[2] = h
      /\ Two(l) \in Seq(Byte) /\ Len(Two(l)) = 2 /\ Two(l)[1] * 256 + Two(l)[2] = l
  BY <1>1, TwoRead
<1>3. Four(n) = Two(h) \o Two(l)
  BY DEF Four
<1> HIDE DEF h, l
<1>4. /\ Four(n) \in Seq(Byte) /\ Len(Four(n)) = 4
      /\ Four(n)[1] = Two(h)[1] /\ Four(n)[2] = Two(h)[2]
      /\ Four(n)[3] = Two(l)[1] /\ Four(n)[4] = Two(l)[2]
  <2>1. /\ Two(h) \in Seq(Byte) /\ Len(Two(h)) = 2
        /\ Two(l) \in Seq(Byte) /\ Len(Two(l)) = 2
    BY <1>2
  <2>2. Joined(Four(n), Two(h), Two(l)) /\ Four(n) \in Seq(Byte)
    BY <1>3, <2>1, ConcatJoins, ConcatProperties
  <2> QED BY ONLY <2>1, <2>2 DEF Joined
<1>5. ReadFour(Four(n), 1) = h * 65536 + l
  BY <1>2, <1>4 DEF ReadFour, ReadTwo
<1>6. ReadFour(Four(n), 1) = n
  BY ONLY <1>1, <1>5, SMT
<1> QED BY ONLY <1>4, <1>6, Zenon

\* The second byte, which says where the length is, and the length.
LEMMA LengthRead ==
  ASSUME NEW p \in PeerFrames
  PROVE  /\ LengthBytes(p) \in Seq(Byte) /\ Len(LengthBytes(p)) = Offset(p) - 1
         /\ p.form = "short" => LengthBytes(p)[1] = 128 + Len(p.data)
         /\ p.form = "ext16" => /\ LengthBytes(p)[1] = 254
                                /\ ReadTwo(LengthBytes(p), 2) = Len(p.data)
         /\ p.form = "ext64" => /\ LengthBytes(p)[1] = 255
                                /\ ReadFour(LengthBytes(p), 6) = Len(p.data)
PROOF
<1> DEFINE n == Len(p.data)
<1>1. n \in Nat /\ p.form \in {"short", "ext16", "ext64"} /\ n <= 1073741824
  BY PeerFrameType
<1>2. CASE p.form = "short"
  <2>1. n < 126 /\ LengthBytes(p) = <<128 + n>> /\ Offset(p) = 2
    BY <1>2, PeerFrameType DEF LengthBytes, Offset
  <2> HIDE DEF n
  <2>2. LengthBytes(p) \in Seq(Byte) /\ Len(LengthBytes(p)) = 1 /\ LengthBytes(p)[1] = 128 + n
    BY <1>1, <2>1 DEF Byte
  <2> QED BY ONLY <1>2, <2>1, <2>2 DEF n
<1>3. CASE p.form = "ext16"
  <2> DEFINE z == <<254>>
  <2>1. n \in Nat /\ n < 65536 /\ LengthBytes(p) = z \o Two(n) /\ Offset(p) = 4
    BY <1>1, <1>3, PeerFrameType DEF LengthBytes, Offset
  <2>2. /\ Two(n) \in Seq(Byte) /\ Len(Two(n)) = 2 /\ Two(n)[1] * 256 + Two(n)[2] = n
    BY <2>1, TwoRead
  <2>3. z \in Seq(Byte) /\ Len(z) = 1 /\ z[1] = 254
    BY DEF Byte
  <2> HIDE DEF n, z
  <2>4. /\ LengthBytes(p) \in Seq(Byte) /\ Len(LengthBytes(p)) = 3
        /\ LengthBytes(p)[1] = 254
        /\ LengthBytes(p)[2] = Two(n)[1] /\ LengthBytes(p)[3] = Two(n)[2]
    <3>1. Joined(LengthBytes(p), z, Two(n)) /\ LengthBytes(p) \in Seq(Byte)
      <4>1. LengthBytes(p) = z \o Two(n) /\ z \in Seq(Byte) /\ Two(n) \in Seq(Byte)
        BY <2>1, <2>2, <2>3
      <4> QED BY <4>1, ConcatJoins, ConcatProperties
    <3> QED BY ONLY <2>2, <2>3, <3>1 DEF Joined
  <2>5. ReadTwo(LengthBytes(p), 2) = n
    BY <2>2, <2>4 DEF ReadTwo
  <2>6. Len(LengthBytes(p)) = Offset(p) - 1
    BY ONLY <2>1, <2>4
  <2> QED BY ONLY <1>3, <2>4, <2>5, <2>6 DEF n
<1>4. CASE p.form = "ext64"
  <2> DEFINE z == <<255, 0, 0, 0, 0>>
  <2>1. LengthBytes(p) = z \o Four(n) /\ Offset(p) = 10
    BY <1>4 DEF LengthBytes, Offset
  <2>2. /\ Four(n) \in Seq(Byte) /\ Len(Four(n)) = 4 /\ ReadFour(Four(n), 1) = n
    BY <1>1, FourRead
  <2>3. z \in Seq(Byte) /\ Len(z) = 5 /\ z[1] = 255
    BY DEF Byte
  <2> HIDE DEF n, z
  <2>4. /\ LengthBytes(p) \in Seq(Byte) /\ Len(LengthBytes(p)) = 9
        /\ LengthBytes(p)[1] = 255
        /\ \A i \in 1..4 : LengthBytes(p)[5 + i] = Four(n)[i]
    <3>1. Joined(LengthBytes(p), z, Four(n)) /\ LengthBytes(p) \in Seq(Byte)
      BY <2>1, <2>2, <2>3, ConcatJoins, ConcatProperties
    <3> QED BY ONLY <2>2, <2>3, <3>1 DEF Joined
  <2>5. ReadFour(LengthBytes(p), 6) = n
    <3>1. /\ LengthBytes(p)[6] = Four(n)[1] /\ LengthBytes(p)[7] = Four(n)[2]
          /\ LengthBytes(p)[8] = Four(n)[3] /\ LengthBytes(p)[9] = Four(n)[4]
      BY <2>4
    <3> QED BY <2>2, <3>1 DEF ReadFour, ReadTwo
  <2>6. Len(LengthBytes(p)) = Offset(p) - 1
    BY ONLY <2>1, <2>4
  <2> QED BY ONLY <1>4, <2>4, <2>5, <2>6 DEF n
<1> QED BY <1>1, <1>2, <1>3, <1>4

\* A function on 1..n is a sequence of length n.
LEMMA FunctionIsSeq ==
  ASSUME NEW S, NEW n \in Nat, NEW f \in [1..n -> S]
  PROVE  f \in Seq(S) /\ Len(f) = n
PROOF
<1>1. f \in Seq(S)
  BY SeqDef
<1> QED BY <1>1, LenProperties

\* The masked payload, and the whole frame, byte by byte.
LEMMA EncodeBytes ==
  ASSUME NEW p \in PeerFrames
  PROVE  LET e == Encode(p)
             o == Offset(p)
         IN  /\ e \in Seq(Byte) /\ Len(e) = FrameLength(p) /\ Len(e) \in Nat
             /\ e[1] = p.b0
             /\ \A i \in 1..(o - 1) : e[1 + i] = LengthBytes(p)[i]
             /\ \A i \in 1..4 : e[o + i] = p.mask[i]
             /\ \A i \in 1..Len(p.data) :
                  e[o + 4 + i] = Xor(p.data[i], p.mask[1 + ((i - 1) % MASK_LENGTH)])
PROOF
<1> DEFINE o == Offset(p)
           n == Len(p.data)
           m == Masked(p.data, p.mask)
           lb == LengthBytes(p)
           h == <<p.b0>>
<1>1. n \in Nat /\ o \in 2..10 /\ p.b0 \in Byte /\ p.data \in Seq(Byte) /\ p.mask \in [1..4 -> Byte]
  BY PeerFrameType DEF Offset
<1>2. DOMAIN p.data = 1..n /\ \A i \in 1..n : p.data[i] \in Byte
  BY <1>1
<1>3. \A i \in 1..n : 1 + ((i - 1) % MASK_LENGTH) \in 1..4
  BY <1>1 DEF MASK_LENGTH
<1>4. \A i \in 1..n : Xor(p.data[i], p.mask[1 + ((i - 1) % MASK_LENGTH)]) \in Byte
  <2> TAKE i \in 1..n
  <2>1. p.mask[1 + ((i - 1) % MASK_LENGTH)] \in Byte
    BY <1>1, <1>3
  <2> QED BY <1>2, <2>1, XorTwice
<1>5. /\ m \in Seq(Byte) /\ Len(m) = n
      /\ \A i \in 1..n : m[i] = Xor(p.data[i], p.mask[1 + ((i - 1) % MASK_LENGTH)])
  <2>1. m = [i \in 1..n |-> Xor(p.data[i], p.mask[1 + ((i - 1) % MASK_LENGTH)])]
    BY <1>2 DEF Masked
  <2>2. m \in [1..n -> Byte]
    BY <1>4, <2>1
  <2> HIDE DEF m
  <2>3. m \in Seq(Byte)
    BY <1>1, <2>2, SeqDef
  <2>4. Len(m) = n
    BY <1>1, <2>2, <2>3, LenProperties
  <2>5. ASSUME NEW i \in 1..n
        PROVE  m[i] = Xor(p.data[i], p.mask[1 + ((i - 1) % MASK_LENGTH)])
    BY <2>1
  <2> QED BY <2>3, <2>4, <2>5
<1>6. lb \in Seq(Byte) /\ Len(lb) = o - 1
  BY LengthRead
<1>7. h \in Seq(Byte) /\ Len(h) = 1 /\ h[1] = p.b0
  BY <1>1
<1>8. p.mask \in Seq(Byte) /\ Len(p.mask) = 4
  <2>1. p.mask \in Seq(Byte)
    <3>1. 4 \in Nat
      OBVIOUS
    <3> QED BY <1>1, <3>1, FunctionIsSeq
  <2>2. Len(p.mask) = 4
    BY <1>1, <2>1, LenProperties
  <2> QED BY <2>1, <2>2
<1>9. Encode(p) = h \o lb \o p.mask \o m
  BY DEF Encode
<1>10. FrameLength(p) = o + 4 + n
  BY DEF FrameLength, MASK_LENGTH
<1> HIDE DEF o, n, m, lb, h
<1>11. h \o lb \in Seq(Byte) /\ Len(h \o lb) = o /\ (h \o lb)[1] = p.b0
       /\ \A i \in 1..(o - 1) : (h \o lb)[1 + i] = lb[i]
  <2>1. Joined(h \o lb, h, lb)
    BY <1>6, <1>7, ConcatJoins
  <2>2. h \o lb \in Seq(Byte)
    BY <1>6, <1>7
  <2>3. 1 \in 1..Len(h) /\ Len(h) = 1 /\ Len(lb) = o - 1
    BY <1>6, <1>7
  <2> QED BY <1>1, <1>7, <2>1, <2>2, <2>3 DEF Joined
<1> DEFINE hl == h \o lb
           hm == hl \o p.mask
<1> HIDE DEF hl
<1>12. /\ hm \in Seq(Byte) /\ Len(hm) = o + 4 /\ hm[1] = p.b0
       /\ \A i \in 1..(o - 1) : hm[1 + i] = lb[i]
       /\ \A i \in 1..4 : hm[o + i] = p.mask[i]
  <2>1. hl \in Seq(Byte) /\ Len(hl) = o /\ hl[1] = p.b0 /\ \A i \in 1..(o - 1) : hl[1 + i] = lb[i]
    BY <1>11 DEF hl
  <2>2. Joined(hm, hl, p.mask)
    BY <1>8, <2>1, ConcatJoins
  <2>3. hm \in Seq(Byte)
    BY <1>8, <2>1
  <2> HIDE DEF hm
  <2> QED BY <1>1, <1>8, <2>1, <2>2, <2>3 DEF Joined
<1> HIDE DEF hm
<1>13. Encode(p) = hm \o m
  BY <1>9 DEF hm, hl
<1>14. /\ Encode(p) \in Seq(Byte) /\ Len(Encode(p)) = o + 4 + n /\ o + 4 + n \in Nat
       /\ Encode(p)[1] = p.b0
       /\ \A i \in 1..(o - 1) : Encode(p)[1 + i] = lb[i]
       /\ \A i \in 1..4 : Encode(p)[o + i] = p.mask[i]
       /\ \A i \in 1..n : Encode(p)[o + 4 + i] = m[i]
  <2>1. Joined(hm \o m, hm, m)
    BY <1>5, <1>12, ConcatJoins
  <2>6. hm \o m \in Seq(Byte)
    BY <1>5, <1>12
  <2>2. Len(hm) = o + 4 /\ Len(m) = n
    BY <1>5, <1>12
  <2>3. \A i \in 1..(o - 1) : 1 + i \in 1..Len(hm)
    BY <1>1, <2>2
  <2>4. \A i \in 1..4 : o + i \in 1..Len(hm)
    BY <1>1, <2>2
  <2>5. 1 \in 1..Len(hm) /\ o + 4 + n \in Nat
    BY <1>1, <2>2
  <2> QED BY <1>12, <1>13, <2>1, <2>2, <2>3, <2>4, <2>5, <2>6 DEF Joined
<1> QED BY <1>5, <1>10, <1>14 DEF o, n, lb

-----------------------------------------------------------------------------
(* Reading a header.                                                       *)

\* What current_frame says of p when the bytes stored are the first of p's.
LengthKnown(c, p) == c.mask_offset = Offset(p) /\ c.payload_len = Len(p.data)

HeaderState(c, p) ==
  \/ c.state = sw_start /\ Len(c.raw) <= 1
  \/ c.state = sw_got_short_len /\ 2 <= Len(c.raw) /\ Len(c.raw) < Offset(p)
  \/ /\ c.state = sw_got_full_len /\ LengthKnown(c, p)
     /\ Offset(p) <= Len(c.raw) /\ Len(c.raw) < Offset(p) + MASK_LENGTH
  \/ /\ c.state = sw_loaded_mask /\ LengthKnown(c, p)
     /\ Offset(p) + MASK_LENGTH <= Len(c.raw) /\ Len(c.raw) <= FrameLength(p)
     /\ FrameLength(p) <= c.rawdata_sz

StartOfFrame(s, p) == \A i \in 1..Len(s) : s[i] = Encode(p)[i]

LEMMA ReadFrameType ==
  ASSUME NEW c \in ReadFrame
  PROVE  /\ c.state \in 0..4 /\ c.raw \in Seq(Byte) /\ Len(c.raw) \in Nat
         /\ c.mask_offset \in Nat /\ c.payload_len \in Nat /\ c.rawdata_sz \in Nat
PROOF
<1>1. c.raw \in Seq(Byte)
  BY DEF ReadFrame
<1> QED BY <1>1 DEF ReadFrame, sw_start, sw_loaded_mask

\* One field changes, and the others stay.
Differs(d, c, state, raw, offset, length, size) ==
  /\ d \in ReadFrame
  /\ d.state = state /\ d.raw = raw /\ d.mask_offset = offset
  /\ d.payload_len = length /\ d.rawdata_sz = size

LEMMA FieldSet ==
  ASSUME NEW c \in ReadFrame, NEW n \in Nat, NEW s \in Seq(Byte), NEW k \in 0..4
  PROVE  /\ Differs([c EXCEPT !.state = k], c, k, c.raw, c.mask_offset, c.payload_len, c.rawdata_sz)
         /\ Differs([c EXCEPT !.raw = s], c, c.state, s, c.mask_offset, c.payload_len, c.rawdata_sz)
         /\ Differs([c EXCEPT !.mask_offset = n], c, c.state, c.raw, n, c.payload_len, c.rawdata_sz)
         /\ Differs([c EXCEPT !.payload_len = n], c, c.state, c.raw, c.mask_offset, n, c.rawdata_sz)
         /\ Differs([c EXCEPT !.rawdata_sz = n], c, c.state, c.raw, c.mask_offset, c.payload_len, n)
PROOF
<1>1. 0..4 = sw_start..sw_loaded_mask
  BY DEF sw_start, sw_loaded_mask
<1>2. Differs([c EXCEPT !.state = k], c, k, c.raw, c.mask_offset, c.payload_len, c.rawdata_sz)
  BY <1>1 DEF Differs, ReadFrame
<1>3. Differs([c EXCEPT !.raw = s], c, c.state, s, c.mask_offset, c.payload_len, c.rawdata_sz)
  BY DEF Differs, ReadFrame
<1>4. Differs([c EXCEPT !.mask_offset = n], c, c.state, c.raw, n, c.payload_len, c.rawdata_sz)
  BY DEF Differs, ReadFrame
<1>5. Differs([c EXCEPT !.payload_len = n], c, c.state, c.raw, c.mask_offset, n, c.rawdata_sz)
  BY DEF Differs, ReadFrame
<1>6. Differs([c EXCEPT !.rawdata_sz = n], c, c.state, c.raw, c.mask_offset, c.payload_len, n)
  BY DEF Differs, ReadFrame
<1> QED BY <1>2, <1>3, <1>4, <1>5, <1>6

LEMMA OffsetRange ==
  ASSUME NEW p \in PeerFrames
  PROVE  /\ Offset(p) \in 2..10 /\ Len(p.data) \in Nat /\ FrameLength(p) \in Nat
         /\ FrameLength(p) = Offset(p) + 4 + Len(p.data) /\ FrameLength(p) <= 1073741824
PROOF
<1> DEFINE n == Len(p.data)
           o == Offset(p)
<1>1. n \in Nat /\ n + 14 <= 1073741824
  BY PeerFrameType
<1>2. o \in 2..10
  BY DEF Offset
<1>3. FrameLength(p) = o + 4 + n
  BY DEF FrameLength, MASK_LENGTH
<1> HIDE DEF n, o
<1>4. FrameLength(p) \in Nat /\ FrameLength(p) <= 1073741824
  BY <1>1, <1>2, <1>3
<1> QED BY <1>1, <1>2, <1>3, <1>4 DEF n, o

\* The second case of libwebsock_read_header finds where the length is and,
\* when its last byte is there, what it is.
LEMMA ShortLenRead ==
  ASSUME NEW p \in PeerFrames, NEW c \in ReadFrame, c.state = sw_got_short_len,
         2 <= Len(c.raw), Len(c.raw) <= Offset(p), StartOfFrame(c.raw, p)
  PROVE  GotShortLen(c) = IF Len(c.raw) < Offset(p) THEN c
                          ELSE [c EXCEPT !.mask_offset = Offset(p), !.payload_len = Len(p.data),
                                         !.state = sw_got_full_len]
PROOF
<1> DEFINE n == Len(p.data)
           lb == LengthBytes(p)
           o == Offset(p)
           e == Encode(p)
<1>1. c.raw \in Seq(Byte) /\ Len(c.raw) \in Nat
  BY ReadFrameType
<1>2. n \in Nat /\ o \in 2..10 /\ p.form \in {"short", "ext16", "ext64"}
  BY OffsetRange, PeerFrameType
<1>3. lb \in Seq(Byte) /\ Len(lb) = o - 1
  BY LengthRead
<1>4. \A i \in 1..(o - 1) : e[1 + i] = lb[i]
  BY EncodeBytes
<1>5. \A i \in 1..Len(c.raw) : c.raw[i] = e[i]
  BY DEF StartOfFrame
<1>6. \A i \in 1..(o - 1) : 1 + i <= Len(c.raw) => c.raw[1 + i] = lb[i]
  <2> HIDE DEF o, e, lb
  <2> QED BY <1>1, <1>2, <1>4, <1>5
<1>7. c.raw[2] = lb[1]
  <2> HIDE DEF o, lb
  <2>1. 1 \in 1..(o - 1) /\ 1 + 1 <= Len(c.raw) /\ 1 + 1 = 2
    BY <1>1, <1>2
  <2> QED BY <1>6, <2>1
<1>8. CASE p.form = "short"
  <2>1. n < 126 /\ lb[1] = 128 + n /\ o = 2
    BY <1>8, PeerFrameType, LengthRead DEF Offset
  <2>2. c.raw[2] % 128 = n
    <3> HIDE DEF n, lb
    <3> QED BY <1>2, <1>7, <2>1
  <2>3. GotShortLen(c) = GotLength(c, 2, n)
    <3> HIDE DEF n
    <3> QED BY <1>2, <2>1, <2>2 DEF GotShortLen
  <2> QED BY <2>1, <2>3 DEF GotLength
<1>9. CASE p.form = "ext16"
  <2>1. lb[1] = 254 /\ o = 4 /\ ReadTwo(lb, 2) = n
    BY <1>9, LengthRead DEF Offset
  <2>2. c.raw[2] % 128 = 126
    <3> HIDE DEF lb
    <3> QED BY <1>7, <2>1
  <2>3. GotShortLen(c) = GotLength(c, 4, ReadTwo(c.raw, 3))
    BY <2>2 DEF GotShortLen
  <2>4. Len(c.raw) >= 4 => ReadTwo(c.raw, 3) = n
    <3> HIDE DEF lb, n
    <3>1. 2 \in 1..(o - 1) /\ 3 \in 1..(o - 1) /\ 1 + 2 = 3 /\ 1 + 3 = 4
      BY <2>1
    <3>2. Len(c.raw) >= 4 => c.raw[3] = lb[2] /\ c.raw[4] = lb[3]
      BY <1>1, <1>6, <3>1
    <3> QED BY <2>1, <3>2 DEF ReadTwo
  <2>5. CASE Len(c.raw) < 4
    BY <2>1, <2>3, <2>5 DEF GotLength
  <2>6. CASE Len(c.raw) >= 4
    <3> HIDE DEF n
    <3>1. ~ (Len(c.raw) < 4)
      BY <1>1, <2>6
    <3> QED BY <2>1, <2>3, <2>4, <2>6, <3>1 DEF GotLength, n
  <2> QED BY <1>1, <2>5, <2>6
<1>10. CASE p.form = "ext64"
  <2>1. lb[1] = 255 /\ o = 10 /\ ReadFour(lb, 6) = n
    BY <1>10, LengthRead DEF Offset
  <2>2. c.raw[2] % 128 = 127
    <3> HIDE DEF lb
    <3> QED BY <1>7, <2>1
  <2>3. GotShortLen(c) = GotLength(c, 10, ReadFour(c.raw, 7))
    BY <2>2 DEF GotShortLen
  <2>4. Len(c.raw) >= 10 => ReadFour(c.raw, 7) = n
    <3> HIDE DEF lb, n
    <3>1. \A i \in 6..9 : i \in 1..(o - 1)
      BY <2>1
    <3>2. Len(c.raw) >= 10 => /\ c.raw[7] = lb[6] /\ c.raw[8] = lb[7]
                              /\ c.raw[9] = lb[8] /\ c.raw[10] = lb[9]
      <4>1. Len(c.raw) >= 10 => \A i \in 6..9 : c.raw[1 + i] = lb[i]
        BY <1>1, <1>6, <3>1
      <4> QED BY <4>1
    <3> QED BY <2>1, <3>2 DEF ReadFour, ReadTwo
  <2>5. CASE Len(c.raw) < 10
    BY <2>1, <2>3, <2>5 DEF GotLength
  <2>6. CASE Len(c.raw) >= 10
    <3> HIDE DEF n
    <3>1. ~ (Len(c.raw) < 10)
      BY <1>1, <2>6
    <3> QED BY <2>1, <2>3, <2>4, <2>6, <3>1 DEF GotLength, n
  <2> QED BY <1>1, <2>5, <2>6
<1> QED BY <1>2, <1>8, <1>9, <1>10

\* The third case, once the mask is there, knows how long the frame is.
LEMMA FullLenRead ==
  ASSUME NEW p \in PeerFrames, NEW c \in ReadFrame, c.state = sw_got_full_len, LengthKnown(c, p),
         Offset(p) <= Len(c.raw), Len(c.raw) <= Offset(p) + MASK_LENGTH
  PROVE  LET e == GotFullLen(c)
         IN  /\ e \in ReadFrame /\ e.raw = c.raw /\ HeaderState(e, p)
             /\ e.rawdata_sz >= c.rawdata_sz
PROOF
<1> DEFINE n == FrameLength(p)
           z == IF n > c.rawdata_sz THEN PowerOfTwo(n) ELSE c.rawdata_sz
<1>1. /\ c.raw \in Seq(Byte) /\ Len(c.raw) \in Nat /\ c.rawdata_sz \in Nat
      /\ c.mask_offset \in Nat /\ c.payload_len \in Nat /\ c.state \in 0..4
  BY ReadFrameType
<1>2. /\ Offset(p) \in 2..10 /\ Len(p.data) \in Nat /\ n \in Nat
      /\ n = Offset(p) + 4 + Len(p.data) /\ n <= 2^30
  <2>1. 2^30 = 1073741824
    OBVIOUS
  <2> QED BY <2>1, OffsetRange
<1>3. PayloadOffset(c) = Offset(p) + 4 /\ Size(c) = n
  BY <1>2 DEF PayloadOffset, Size, LengthKnown, MASK_LENGTH
<1>4. z \in Nat /\ z >= n /\ z >= c.rawdata_sz
  <2>1. PowerOfTwo(n) \in Nat /\ PowerOfTwo(n) >= n
    BY <1>2, PowerIsEnough
  <2> HIDE DEF n
  <2> QED BY <1>1, <1>2, <2>1
<1>5. CASE Len(c.raw) < Offset(p) + 4
  <2>1. GotFullLen(c) = c
    BY <1>3, <1>5 DEF GotFullLen
  <2>2. HeaderState(c, p)
    BY <1>5 DEF HeaderState, MASK_LENGTH
  <2> QED BY <1>1, <2>1, <2>2
<1>6. CASE ~ (Len(c.raw) < Offset(p) + 4)
  <2> DEFINE e == [c EXCEPT !.state = sw_loaded_mask, !.rawdata_sz = z]
  <2>1. GotFullLen(c) = e
    BY <1>3, <1>6 DEF GotFullLen
  <2>2. /\ e.state = 4 /\ e.raw = c.raw /\ e.mask_offset = c.mask_offset
        /\ e.payload_len = c.payload_len /\ e.rawdata_sz = z /\ e \in ReadFrame
    <3> DEFINE c1 == [c EXCEPT !.state = sw_loaded_mask]
    <3>1. sw_loaded_mask = 4 /\ 4 \in 0..4
      BY DEF sw_loaded_mask
    <3>2. Differs(c1, c, 4, c.raw, c.mask_offset, c.payload_len, c.rawdata_sz)
      <4> DEFINE k == sw_loaded_mask
      <4>1. k \in 0..4
        BY <3>1
      <4> HIDE DEF k
      <4>2. Differs([c EXCEPT !.state = k], c, k, c.raw, c.mask_offset, c.payload_len, c.rawdata_sz)
        BY <4>1, <1>1, FieldSet
      <4> QED BY <3>1, <4>2 DEF k
    <3>3. e = [c1 EXCEPT !.rawdata_sz = z]
      OBVIOUS
    <3> HIDE DEF z, c1, e
    <3>4. c1 \in ReadFrame
      BY <3>2 DEF Differs
    <3>5. Differs(e, c1, c1.state, c1.raw, c1.mask_offset, c1.payload_len, z)
      BY <1>1, <1>4, <3>3, <3>4, FieldSet
    <3> QED BY <3>2, <3>5 DEF Differs
  <2>3. e \in ReadFrame
    BY <2>2
  <2> HIDE DEF e, z
  <2>4. HeaderState(e, p)
    BY <1>1, <1>2, <1>4, <1>6, <2>2 DEF HeaderState, LengthKnown, MASK_LENGTH, sw_loaded_mask
  <2> QED BY <1>4, <2>1, <2>2, <2>3, <2>4
<1> QED BY <1>5, <1>6

\* What libwebsock_read_header makes of one byte more.
LEMMA HeaderRead ==
  ASSUME NEW p \in PeerFrames, NEW c \in ReadFrame, HeaderState(c, p),
         Len(c.raw) < FrameLength(p), NEW b \in Byte, StartOfFrame(Append(c.raw, b), p)
  PROVE  LET d == [c EXCEPT !.raw = Append(@, b)]
             e == IF d.state = sw_loaded_mask THEN d ELSE ReadHeader(d)
         IN  /\ e \in ReadFrame /\ e.raw = Append(c.raw, b) /\ HeaderState(e, p)
             /\ e.rawdata_sz >= c.rawdata_sz
PROOF
<1> DEFINE s == Append(c.raw, b)
           d == [c EXCEPT !.raw = Append(@, b)]
           e == IF d.state = sw_loaded_mask THEN d ELSE ReadHeader(d)
<1> SUFFICES e \in ReadFrame /\ e.raw = s /\ HeaderState(e, p) /\ e.rawdata_sz >= c.rawdata_sz
  OBVIOUS
<1>1. /\ c.raw \in Seq(Byte) /\ Len(c.raw) \in Nat /\ c.rawdata_sz \in Nat
      /\ c.mask_offset \in Nat /\ c.payload_len \in Nat /\ c.state \in 0..4
  BY ReadFrameType
<1>2. s \in Seq(Byte) /\ Len(s) = Len(c.raw) + 1
  BY <1>1
<1>3. /\ d.raw = s /\ d.state = c.state /\ d.mask_offset = c.mask_offset
      /\ d.payload_len = c.payload_len /\ d.rawdata_sz = c.rawdata_sz
  BY DEF ReadFrame
<1>4. d \in ReadFrame
  <2>1. d = [c EXCEPT !.raw = s]
    BY DEF ReadFrame
  <2> HIDE DEF s, d
  <2> QED BY <1>2, <2>1 DEF ReadFrame
<1>5. Offset(p) \in 2..10 /\ Len(p.data) \in Nat /\ FrameLength(p) \in Nat
      /\ FrameLength(p) = Offset(p) + 4 + Len(p.data)
  BY OffsetRange
<1>6. Len(d.raw) = Len(c.raw) + 1 /\ StartOfFrame(d.raw, p)
  BY <1>2, <1>3
<1> HIDE DEF d, e, s
<1>7. CASE c.state = sw_loaded_mask
  <2>1. e = d
    BY <1>3, <1>7 DEF e
  <2>2. /\ LengthKnown(c, p) /\ Offset(p) + MASK_LENGTH <= Len(c.raw)
        /\ FrameLength(p) <= c.rawdata_sz
    BY <1>7 DEF HeaderState, sw_start, sw_got_short_len, sw_got_full_len, sw_loaded_mask
  <2>3. HeaderState(d, p)
    BY <1>1, <1>3, <1>5, <1>6, <1>7, <2>2 DEF HeaderState, LengthKnown, MASK_LENGTH
  <2> QED BY <1>1, <1>3, <1>4, <2>1, <2>3
<1>8. CASE c.state = sw_got_full_len
  <2>1. /\ LengthKnown(d, p) /\ Offset(p) <= Len(d.raw) /\ Len(d.raw) <= Offset(p) + MASK_LENGTH
        /\ 2 <= Len(d.raw)
    <3>1. LengthKnown(c, p) /\ Offset(p) <= Len(c.raw) /\ Len(c.raw) < Offset(p) + MASK_LENGTH
      BY <1>8 DEF HeaderState, sw_start, sw_got_short_len, sw_got_full_len, sw_loaded_mask
    <3> QED BY <1>1, <1>3, <1>5, <1>6, <3>1 DEF LengthKnown, MASK_LENGTH
  <2>2. e = GotFullLen(d)
    <3>1. GotTwo(d) = d
      BY <1>3, <1>8 DEF GotTwo, sw_start, sw_got_two, sw_got_full_len
    <3>2. GotShortLen(d) = d
      BY <1>3, <1>8 DEF GotShortLen, sw_got_short_len, sw_got_full_len
    <3>3. ReadHeader(d) = GotFullLen(d)
      BY <1>1, <1>6, <2>1, <3>1, <3>2 DEF ReadHeader
    <3>4. d.state # sw_loaded_mask
      BY <1>3, <1>8 DEF sw_loaded_mask, sw_got_full_len
    <3> QED BY <3>3, <3>4 DEF e
  <2>3. d.state = sw_got_full_len
    BY <1>3, <1>8
  <2>4. /\ GotFullLen(d) \in ReadFrame /\ GotFullLen(d).raw = d.raw
        /\ HeaderState(GotFullLen(d), p) /\ GotFullLen(d).rawdata_sz >= d.rawdata_sz
    BY <1>4, <2>1, <2>3, FullLenRead
  <2> QED BY <1>3, <2>2, <2>4
<1>9. CASE c.state = sw_start /\ Len(c.raw) = 0
  <2>1. e = d
    <3>1. Len(d.raw) < 2 /\ d.state # sw_loaded_mask
      BY <1>1, <1>3, <1>6, <1>9 DEF sw_start, sw_loaded_mask
    <3> QED BY <3>1 DEF ReadHeader, e
  <2>2. HeaderState(d, p)
    BY <1>1, <1>3, <1>6, <1>9 DEF HeaderState
  <2> QED BY <1>1, <1>3, <1>4, <2>1, <2>2
<1>10. CASE \/ c.state = sw_start /\ Len(c.raw) = 1
            \/ c.state = sw_got_short_len
  <2> DEFINE f == GotTwo(d)
             g == GotShortLen(f)
  <2>1. /\ f \in ReadFrame /\ f.raw = s /\ f.state = sw_got_short_len
        /\ f.rawdata_sz = c.rawdata_sz
    <3>1. CASE c.state = sw_start
      <4>1. f = [d EXCEPT !.mask_offset = 2, !.state = sw_got_short_len]
        BY <1>3, <3>1 DEF GotTwo
      <4> DEFINE d1 == [d EXCEPT !.mask_offset = 2]
                 k == sw_got_short_len
      <4>2. f = [d1 EXCEPT !.state = k] /\ k \in 0..4 /\ 2 \in Nat
        BY <4>1 DEF sw_got_short_len
      <4> HIDE DEF f
      <4>3. Differs(d1, d, d.state, d.raw, 2, d.payload_len, d.rawdata_sz)
        BY <1>2, <1>4, <4>2, FieldSet
      <4> HIDE DEF d1, k
      <4>4. d1 \in ReadFrame
        BY <4>3 DEF Differs
      <4>5. Differs(f, d1, k, d1.raw, d1.mask_offset, d1.payload_len, d1.rawdata_sz)
        BY <1>2, <4>2, <4>4, FieldSet
      <4> QED BY <1>3, <4>3, <4>5 DEF Differs, k
    <3>2. CASE c.state = sw_got_short_len
      <4>1. f = d
        BY <1>3, <3>2 DEF GotTwo, sw_got_short_len, sw_start, sw_got_two
      <4> QED BY <1>3, <1>4, <3>2, <4>1
    <3> QED BY <1>10, <3>1, <3>2
  <2>2. 2 <= Len(s) /\ Len(s) <= Offset(p)
    <3>1. CASE c.state = sw_start
      <4>1. Len(c.raw) = 1
        BY <1>10, <3>1 DEF sw_start, sw_got_short_len
      <4> QED BY ONLY <1>2, <1>5, <4>1
    <3>2. CASE c.state = sw_got_short_len
      <4>1. 2 <= Len(c.raw) /\ Len(c.raw) < Offset(p)
        BY <3>2 DEF HeaderState, sw_start, sw_got_short_len, sw_got_full_len, sw_loaded_mask
      <4> QED BY <1>1, <1>2, <1>5, <4>1
    <3> QED BY <1>10, <3>1, <3>2
  <2>3. StartOfFrame(f.raw, p)
    BY <1>3, <1>6, <2>1
  <2>4. e = GotFullLen(g)
    <3>1. ReadHeader(d) = GotFullLen(g)
      BY <1>2, <1>3, <2>2 DEF ReadHeader
    <3>2. d.state # sw_loaded_mask
      BY <1>3, <1>10 DEF sw_loaded_mask, sw_got_short_len, sw_start
    <3> QED BY <3>1, <3>2 DEF e
  <2> HIDE DEF f
  <2>5. g = IF Len(f.raw) < Offset(p) THEN f
            ELSE [f EXCEPT !.mask_offset = Offset(p), !.payload_len = Len(p.data),
                           !.state = sw_got_full_len]
    BY <2>1, <2>2, <2>3, ShortLenRead
  <2> HIDE DEF g
  <2>6. CASE Len(s) < Offset(p)
    <3>1. g = f
      BY <2>1, <2>5, <2>6
    <3>2. GotFullLen(g) = f
      BY <2>1, <3>1 DEF GotFullLen, sw_got_short_len, sw_got_full_len
    <3>3. HeaderState(f, p)
      BY <2>1, <2>2, <2>6 DEF HeaderState
    <3> QED BY <1>1, <2>1, <2>4, <3>2, <3>3
  <2>7. CASE ~ (Len(s) < Offset(p))
    <3>1. g = [f EXCEPT !.mask_offset = Offset(p), !.payload_len = Len(p.data),
                        !.state = sw_got_full_len]
      BY <2>1, <2>5, <2>7
    <3>2. /\ g \in ReadFrame /\ g.raw = s /\ g.state = sw_got_full_len
          /\ LengthKnown(g, p) /\ g.rawdata_sz = c.rawdata_sz
      <4> DEFINE o == Offset(p)
                 n == Len(p.data)
                 k == sw_got_full_len
                 f1 == [f EXCEPT !.mask_offset = o]
                 f2 == [f1 EXCEPT !.payload_len = n]
      <4>1. g = [f2 EXCEPT !.state = k] /\ k \in 0..4 /\ o \in Nat /\ n \in Nat
        BY <1>5, <3>1 DEF sw_got_full_len
      <4> HIDE DEF o, n, k
      <4>2. Differs(f1, f, f.state, f.raw, o, f.payload_len, f.rawdata_sz)
        BY <1>2, <2>1, <4>1, FieldSet
      <4> HIDE DEF f1
      <4>3. f1 \in ReadFrame
        BY <4>2 DEF Differs
      <4>4. Differs(f2, f1, f1.state, f1.raw, f1.mask_offset, n, f1.rawdata_sz)
        BY <1>2, <4>1, <4>3, FieldSet
      <4> HIDE DEF f2
      <4>5. f2 \in ReadFrame
        BY <4>4 DEF Differs
      <4>6. Differs(g, f2, k, f2.raw, f2.mask_offset, f2.payload_len, f2.rawdata_sz)
        BY <1>2, <4>1, <4>5, FieldSet
      <4> QED BY <2>1, <4>2, <4>4, <4>6 DEF Differs, LengthKnown, o, n, k
    <3>3. Offset(p) <= Len(g.raw) /\ Len(g.raw) <= Offset(p) + MASK_LENGTH
      <4>1. Len(g.raw) = Len(s) /\ Len(s) \in Nat /\ Offset(p) \in Nat /\ Len(s) <= Offset(p)
        BY <1>2, <1>5, <2>2, <3>2
      <4> QED BY ONLY <2>7, <4>1 DEF MASK_LENGTH
    <3>4. /\ GotFullLen(g) \in ReadFrame /\ GotFullLen(g).raw = g.raw
          /\ HeaderState(GotFullLen(g), p) /\ GotFullLen(g).rawdata_sz >= g.rawdata_sz
      BY <3>2, <3>3, FullLenRead
    <3> QED BY <2>4, <3>2, <3>4
  <2> QED BY <2>6, <2>7
<1>11. c.state \in {sw_start, sw_got_short_len, sw_got_full_len, sw_loaded_mask}
  BY DEF HeaderState
<1>12. c.state = sw_start => Len(c.raw) = 0 \/ Len(c.raw) = 1
  <2>1. c.state = sw_start => Len(c.raw) <= 1
    BY DEF HeaderState, sw_start, sw_got_short_len, sw_got_full_len, sw_loaded_mask
  <2>2. Len(c.raw) \in Nat
    BY <1>1
  <2>3. \A n \in Nat : n <= 1 => n = 0 \/ n = 1
    OBVIOUS
  <2> QED BY ONLY <2>1, <2>2, <2>3, Zenon
<1> QED BY <1>7, <1>8, <1>9, <1>10, <1>11, <1>12

\* The payload of a frame that is there to its last byte is unmasked.
LEMMA FrameDecoded ==
  ASSUME NEW p \in PeerFrames, NEW c \in ReadFrame, LengthKnown(c, p), c.raw = Encode(p)
  PROVE  Decoded(c) = FrameOf(p)
PROOF
<1> DEFINE e == Encode(p)
           o == Offset(p)
           n == Len(p.data)
           s == SubSeq(e, o + 5, o + 4 + n)
           m == SubSeq(e, o + 1, o + 4)
           at(i) == 1 + ((i - 1) % MASK_LENGTH)
<1>1. /\ o \in 2..10 /\ n \in Nat /\ FrameLength(p) = o + 4 + n
      /\ p.data \in Seq(Byte) /\ p.mask \in [1..4 -> Byte]
  BY OffsetRange, PeerFrameType
<1>2. /\ e \in Seq(Byte) /\ Len(e) = o + 4 + n /\ e[1] = p.b0
      /\ \A i \in 1..4 : e[o + i] = p.mask[i]
      /\ \A i \in 1..n : e[o + 4 + i] = Xor(p.data[i], p.mask[at(i)])
  BY <1>1, EncodeBytes
<1>3. \A i \in 1..n : at(i) \in 1..4
  BY <1>1 DEF MASK_LENGTH
<1>4. PayloadOffset(c) = o + 4 /\ Size(c) = o + 4 + n /\ MaskOf(c) = m
  BY DEF PayloadOffset, Size, LengthKnown, MaskOf, MASK_LENGTH
<1>5. Decoded(c) = [b0 |-> p.b0, data |-> Masked(s, m)]
  <2>1. o + 4 + 1 = o + 5
    BY <1>1
  <2> QED BY <1>2, <1>4, <2>1 DEF Decoded
<1> HIDE DEF at, o, n, e
<1>6. \A i \in 1..Len(e) : e[i] \in Byte
  BY <1>2
<1>7. s \in Seq(Byte) /\ Len(s) = n /\ \A i \in 1..n : s[i] = e[o + 4 + i]
  <2> DEFINE k == o + 5
             l == o + 4 + n
  <2>1. k \in Int /\ l \in Int /\ l - k + 1 = n /\ \A i \in k..l : i \in 1..Len(e)
    BY <1>1, <1>2
  <2>2. \A i \in 1..n : k + i - 1 = o + 4 + i
    BY <1>1
  <2>3. k <= l <=> n > 0
    BY <1>1
  <2>4. \A i \in k..l : e[i] \in Byte
    BY <1>6, <2>1
  <2> HIDE DEF k, l
  <2>5. /\ SubSeq(e, k, l) \in Seq(Byte)
        /\ Len(SubSeq(e, k, l)) = IF k <= l THEN l - k + 1 ELSE 0
        /\ \A i \in 1..l - k + 1 : SubSeq(e, k, l)[i] = e[k + i - 1]
    BY <2>1, <2>4, SubSeqProperties
  <2>6. s = SubSeq(e, k, l)
    BY DEF k, l
  <2> HIDE DEF s
  <2>7. Len(s) = n
    BY <1>1, <2>1, <2>3, <2>5, <2>6
  <2>8. \A i \in 1..n : s[i] = e[o + 4 + i]
    BY <2>1, <2>2, <2>5, <2>6
  <2> QED BY <2>5, <2>6, <2>7, <2>8
<1>8. \A i \in 1..4 : m[i] = p.mask[i]
  <2> DEFINE k == o + 1
             l == o + 4
  <2>1. k \in Int /\ l \in Int /\ l - k + 1 = 4 /\ \A i \in k..l : i \in 1..Len(e)
    BY <1>1, <1>2
  <2>2. \A i \in 1..4 : k + i - 1 = o + i
    BY <1>1
  <2>4. \A i \in k..l : e[i] \in Byte
    BY <1>6, <2>1
  <2> HIDE DEF k, l
  <2>5. \A i \in 1..l - k + 1 : SubSeq(e, k, l)[i] = e[k + i - 1]
    BY <2>1, <2>4, SubSeqProperties
  <2>6. m = SubSeq(e, k, l)
    BY DEF k, l
  <2> HIDE DEF m
  <2> QED BY <1>2, <2>1, <2>2, <2>5, <2>6
<1> HIDE DEF s, m
<1>9. DOMAIN s = 1..n /\ DOMAIN p.data = 1..n
  BY <1>1, <1>7 DEF n
<1>10. \A i \in 1..n : Xor(s[i], m[at(i)]) = p.data[i]
  <2> TAKE i \in 1..n
  <2>1. s[i] = Xor(p.data[i], p.mask[at(i)])
    BY <1>2, <1>7
  <2>2. at(i) \in 1..4 /\ m[at(i)] = p.mask[at(i)] /\ p.mask[at(i)] \in Byte
    BY <1>1, <1>3, <1>8
  <2>3. p.data[i] \in Byte
    BY <1>1, <1>9
  <2> QED BY <2>1, <2>2, <2>3, XorTwice
<1>11. Masked(s, m) = p.data
  <2>1. Masked(s, m) = [i \in 1..n |-> Xor(s[i], m[at(i)])]
    BY <1>9 DEF Masked, at
  <2>2. [i \in 1..n |-> Xor(s[i], m[at(i)])] = [i \in 1..n |-> p.data[i]]
    BY <1>10
  <2>3. [i \in 1..n |-> p.data[i]] = p.data
    BY <1>1, <1>9
  <2> QED BY <2>1, <2>2, <2>3
<1> QED BY <1>5, <1>11 DEF FrameOf

-----------------------------------------------------------------------------
(* The invariant of the bytes.                                             *)

\* A callback does not fail, and one that echoes is never refused because the
\* application is in the middle of a message of its own.  (After a handler
\* that returns -1 handle_recv leaves the rest of what it was given.)
Steady == /\ "fail" \notin Callbacks
          /\ "echo" \in Callbacks => {"init_text", "init_binary"} \cap AppCalls = {}

\* The bytes of the current frame.
Raw == IF current = NoFrame THEN <<>> ELSE current.raw

RecvTypes ==
  /\ peer \in Seq(PeerFrames)
  /\ ends \in Seq(Nat)
  /\ wire \in Seq(Byte)
  /\ buf \in Seq(Byte)
  /\ call \in {"none", "loop", "exit"}
  /\ current \in ReadFrame \cup {NoFrame}
  /\ needs_more \in BOOLEAN
  /\ result \in {0, -1}

CallInv ==
  /\ call = "none" => buf = <<>>
  /\ "CONNECTING" \in flags => call = "none" /\ current = NoFrame /\ result = 0
  /\ "PROCESSING_ERROR" \in flags => current = NoFrame
  /\ stuck => /\ current # NoFrame /\ current.state = sw_loaded_mask
              /\ current.raw # <<>> /\ current.raw[1] = Last(frames).b0
  /\ "echo" \in Callbacks => "CONTINUOUS" \notin flags

\* What handle_recv returns, and what it is about to return.
ReportInv ==
  /\ IncompleteIsReported
  /\ MinusOneExplained
  /\ call = "loop" =>
       /\ result = -1 => \/ buf # <<>> \/ needs_more
                         \/ current # NoFrame /\ current.state <= sw_got_full_len
       /\ ~ stuck /\ current # NoFrame /\ current.raw # <<>> =>
            buf # <<>> \/ needs_more \/ current.state <= sw_got_full_len
  /\ call = "exit" =>
       /\ ~ stuck /\ current # NoFrame => current.raw = <<>>
       /\ result = -1 => "SENT_CLOSE" \in flags

\* While bytes are being cut into frames, a close frame is the last the peer
\* has sent or has been handled; and the frames handled are the first of those
\* sent.
PeerInv ==
  /\ Aligned => \A k \in 1..Len(peer) : peer[k].b0 = CLOSE => k = Len(peer) \/ k <= Len(rx)
  /\ Len(rx) <= Len(peer)
  /\ \A k \in 1..Len(rx) : rx[k] = FrameOf(peer[k])

\* The bytes stored are the first of the next frame, and the state says how
\* much of it they are.
CurrentInv ==
  Aligned /\ current # NoFrame =>
    /\ current.rawdata_sz >= 15
    /\ current.raw = <<>> => current.state = sw_start
    /\ current.raw # <<>> =>
         /\ Len(rx) < Len(peer)
         /\ HeaderState(current, peer[Len(rx) + 1])
         /\ Len(current.raw) < FrameLength(peer[Len(rx) + 1])

\* r[k] is the bytes of the frames from the k-th on.
Chain(r) ==
  /\ r \in [1..(Len(peer) + 1) -> Seq(Byte)]
  /\ r[Len(peer) + 1] = <<>>
  /\ \A k \in 1..Len(peer) : r[k] = Encode(peer[k]) \o r[k + 1]
  /\ \A j \in 1..(Len(peer) + 1), k \in 1..(Len(peer) + 1) : j <= k => Len(r[k]) <= Len(r[j])
  /\ Len(ends) = Len(peer)
  /\ \A k \in 1..Len(peer) : ends[k] = Sent - Len(r[k + 1])

\* Nothing of the frames not handled yet has been dropped: their bytes are
\* those stored, those not looked at, those not read and those that will
\* never arrive.
InPlace(r, lost) ==
  Aligned => r[Len(rx) + 1] = Raw \o (buf \o (wire \o lost))

\* When handle_recv has left its loop early, nothing was left to look at.
ExitInv == call = "exit" /\ Aligned => buf = <<>>

\* A frame left in place had room for all of itself, and has grown since by
\* every byte looked at.  It never makes handle_recv leave its loop.
LeftInv(lost) ==
  /\ call = "exit" => ~ stuck
  /\ stuck => /\ Len(rx) \in 1..Len(peer)
              /\ Size(current) <= current.rawdata_sz
              /\ Len(current.raw) + (Len(buf) + (Len(wire) + Len(lost))) =
                   Size(current) + (Sent - ends[Len(rx)])

StateInv == RecvTypes /\ CallInv /\ ReportInv /\ PeerInv /\ CurrentInv /\ ExitInv

RInv(lost) == /\ IInv /\ StateInv /\ LeftInv(lost)
              /\ \E r : Chain(r) /\ InPlace(r, lost)

-----------------------------------------------------------------------------
(* What the handlers return.                                               *)

\* Only a close frame and an error make a handler return -1, and both leave
\* SENT_CLOSE set; only a whole message is left in place, and 0 returned.
Results(f) ==
  /\ stuck' => HandlerOf(f) = "dispatch" /\ frames' = Append(frames, f) /\ retval' = 0
  /\ retval' = -1 => /\ "SENT_CLOSE" \in flags'
                     /\ "PROCESSING_ERROR" \in flags' \/ f.b0 = CLOSE
  /\ "CONTINUOUS" \in flags' => "CONTINUOUS" \in flags
  /\ "CONNECTING" \in flags' => "CONNECTING" \in flags

LEMMA ErrorResults ==
  ASSUME ~ stuck, NEW fl, NEW code, Error(fl, code), NEW f,
         "CONTINUOUS" \in fl => "CONTINUOUS" \in flags,
         "CONNECTING" \in fl => "CONNECTING" \in flags
  PROVE  Results(f)
PROOF
<1>1. /\ "PROCESSING_ERROR" \in flags' /\ "SENT_CLOSE" \in flags' /\ stuck' = FALSE
      /\ "CONTINUOUS" \in flags' => "CONTINUOUS" \in flags
      /\ "CONNECTING" \in flags' => "CONNECTING" \in flags
  BY DEF Error, MakeClose
<1> QED BY <1>1 DEF Results

LEMMA DispatchResults ==
  ASSUME Steady, "echo" \in Callbacks => "CONTINUOUS" \notin flags, Receiving, ~ stuck,
         NEW f, HandlerOf(f) = "dispatch", Dispatch(Append(frames, f))
  PROVE  Results(f)
PROOF
<1> DEFINE fl == flags \ {"RECEIVING_FRAGMENT"}
           fs == Append(frames, f)
           m  == [opcode |-> fs[1].b0 % 16, payload |-> Payload(fs)]
<1>1. CASE IgnoreMessage(fl, fs)
  BY <1>1 DEF IgnoreMessage, Results
<1>2. CASE Error(fl, 1007)
  <2>1. /\ "CONTINUOUS" \in fl => "CONTINUOUS" \in flags
        /\ "CONNECTING" \in fl => "CONNECTING" \in flags
    OBVIOUS
  <2> HIDE DEF fl
  <2> QED BY <1>2, <2>1, ErrorResults
<1>3. CASE /\ "SENT_CLOSE" \notin fl /\ stuck' = FALSE
           /\ \E callback \in Callbacks : OnMessage(callback, fl, m)
  <2>1. Result(fl) = 0
    BY <1>3 DEF Receiving, Result, Writable
  <2>2. PICK callback \in Callbacks : OnMessage(callback, fl, m)
    BY <1>3
  <2>3. callback # "fail" /\ (callback = "echo" => "CONTINUOUS" \notin flags)
    BY <2>2 DEF Steady
  <2>4. retval' = 0
    BY <2>1, <2>2, <2>3 DEF OnMessage
  <2>5. flags' = fl \/ flags' = fl \cup {"SENT_CLOSE"}
    BY <2>2 DEF OnMessage, MakeClose
  <2> QED BY <1>3, <2>4, <2>5 DEF Results
<1>4. \/ IgnoreMessage(fl, fs)
      \/ Error(fl, 1007)
      \/ /\ "SENT_CLOSE" \notin fl /\ stuck' = FALSE
         /\ \E callback \in Callbacks : OnMessage(callback, fl, m)
  BY DEF Dispatch
<1> QED BY <1>1, <1>2, <1>3, <1>4

LEMMA CloseResults ==
  ASSUME Receiving, ~ stuck, NEW f, f.b0 = CLOSE, Close(f.data)
  PROVE  Results(f)
PROOF
<1> DEFINE info == NewCloseInfo(f.data)
<1>1. CASE Fail(flags)
  <2> DEFINE fl == flags \cup {"SHOULD_CLOSE"}
             code == 1002
  <2>1. /\ Error(fl, code) /\ ("CONTINUOUS" \in fl => "CONTINUOUS" \in flags)
        /\ "CONNECTING" \in fl => "CONNECTING" \in flags
    BY <1>1 DEF Fail
  <2> HIDE DEF fl, code
  <2> QED BY <2>1, ErrorResults
<1>2. CASE Error(flags, 1002)
  <2> DEFINE code == 1002
  <2>1. Error(flags, code)
    BY <1>2
  <2> HIDE DEF code
  <2> QED BY <2>1, ErrorResults
<1>3. CASE /\ OnClose(flags \cup {"RECEIVED_CLOSE"}, info)
           /\ UNCHANGED <<frames, stuck, delivered>>
  <2>1. flags' = (flags \cup {"RECEIVED_CLOSE"}) \cup {"SENT_CLOSE"}
    BY <1>3 DEF OnClose, MakeClose
  <2> QED BY <1>3, <2>1 DEF Results
<1>4. CASE "SENT_CLOSE" \in flags /\ UNCHANGED <<flags, frames, stuck, made, delivered>>
  BY <1>4 DEF Results
<1> QED BY <1>1, <1>2, <1>3, <1>4 DEF Close

LEMMA ControlResults ==
  ASSUME Receiving, ~ stuck, NEW f, Control(f)
  PROVE  Results(f)
PROOF
<1>1. CASE /\ retval' = 0
           /\ UNCHANGED <<flags, frames, stuck, close_info, made, delivered>>
  BY <1>1 DEF Results
<1>2. CASE Error(flags, 1002)
  <2> DEFINE code == 1002
  <2>1. Error(flags, code)
    BY <1>2
  <2> HIDE DEF code
  <2> QED BY <2>1, ErrorResults
<1>3. CASE f.b0 = CLOSE /\ Close(f.data)
  BY <1>3, CloseResults
<1>4. CASE "SENT_CLOSE" \notin flags /\ Ping(f.data)
  <2>1. Result(flags) = 0
    BY <1>4 DEF Receiving, Result, Writable
  <2> QED BY <1>4, <2>1 DEF Ping, Results
<1> QED BY <1>1, <1>2, <1>3, <1>4 DEF Control, PING, CLOSE

LEMMA ReceiveResults ==
  ASSUME Steady, "echo" \in Callbacks => "CONTINUOUS" \notin flags,
         NEW f, Receive(f)
  PROVE  Results(f) /\ Receiving /\ ~ stuck /\ rx' = Append(rx, f)
PROOF
<1>1. Receiving /\ ~ stuck /\ rx' = Append(rx, f) /\ HandleFrame(f)
  BY DEF Receive
<1>2. CASE Control(f)
  BY <1>1, <1>2, ControlResults
<1>3. CASE NewContinuation(f)
  BY <1>1, <1>3 DEF NewContinuation, Results
<1>4. CASE HandlerOf(f) = "dispatch" /\ Dispatch(Append(frames, f))
  BY <1>1, <1>4, DispatchResults
<1>5. CASE Fail(flags)
  <2> DEFINE fl == flags \cup {"SHOULD_CLOSE"}
             code == 1002
  <2>1. /\ Error(fl, code) /\ ("CONTINUOUS" \in fl => "CONTINUOUS" \in flags)
        /\ "CONNECTING" \in fl => "CONNECTING" \in flags
    BY <1>5 DEF Fail
  <2> HIDE DEF fl, code
  <2> QED BY <1>1, <2>1, ErrorResults
<1> QED BY <1>1, <1>2, <1>3, <1>4, <1>5 DEF HandleFrame

\* A frame left in place stays there, or fails the connection.
LEMMA RedispatchResults ==
  ASSUME IInv, Redispatch
  PROVE  /\ stuck /\ rx' = rx
         /\ stuck' => HandlerOf(Last(frames)) = "dispatch" /\ frames' = frames /\ retval' = 0
         /\ ~ stuck' => "PROCESSING_ERROR" \in flags'
         /\ retval' = -1 => "SENT_CLOSE" \in flags'
         /\ "CONTINUOUS" \in flags' => "CONTINUOUS" \in flags
PROOF
<1> DEFINE f == Last(frames)
           fl == flags \ {"RECEIVING_FRAGMENT"}
<1>1. stuck /\ rx' = rx /\ "SENT_CLOSE" \in flags
  BY DEF Redispatch, IInv, StuckFrame
<1>2. CASE HandlerOf(f) = "dispatch" /\ Dispatch(frames)
  <2>1. IgnoreMessage(fl, frames)
    BY <1>1, <1>2 DEF Dispatch
  <2> QED BY <1>1, <1>2, <2>1 DEF IgnoreMessage
<1>3. CASE Fail(flags)
  <2>1. /\ "PROCESSING_ERROR" \in flags' /\ "SENT_CLOSE" \in flags' /\ stuck' = FALSE
        /\ "CONTINUOUS" \in flags' => "CONTINUOUS" \in flags
    BY <1>3 DEF Fail, Error, MakeClose
  <2> QED BY <1>1, <2>1
<1> QED BY <1>2, <1>3 DEF Redispatch

\* What the application's calls leave as it is.
LEMMA AppKeeps ==
  ASSUME App
  PROVE  /\ UNCHANGED <<frames, stuck, retval, rx>>
         /\ \A x \in {"PROCESSING_ERROR", "CONNECTING", "CONNECTED"} : x \in flags' <=> x \in flags
         /\ "SENT_CLOSE" \in flags => "SENT_CLOSE" \in flags'
         /\ {"init_text", "init_binary"} \cap AppCalls = {} =>
              ("CONTINUOUS" \in flags' => "CONTINUOUS" \in flags)
PROOF
<1> DEFINE P == /\ UNCHANGED <<frames, stuck, retval, rx>>
                /\ \A x \in {"PROCESSING_ERROR", "CONNECTING", "CONNECTED"} : x \in flags' <=> x \in flags
                /\ "SENT_CLOSE" \in flags => "SENT_CLOSE" \in flags'
                /\ {"init_text", "init_binary"} \cap AppCalls = {} =>
                     ("CONTINUOUS" \in flags' => "CONTINUOUS" \in flags)
<1>1. CASE AppPing
  BY <1>1 DEF AppPing, Call
<1>2. ASSUME NEW info \in AppCloses, AppClose(info) PROVE P
  BY <1>2 DEF AppClose, Call, MakeClose
<1>3. ASSUME NEW data \in AppData, AppPong(data) PROVE P
  BY <1>3 DEF AppPong, Call
<1>4. ASSUME NEW data \in AppData, AppWhole("text", TEXT, data) \/ AppWhole("binary", BINARY, data)
      PROVE  P
  BY <1>4 DEF AppWhole, Call
<1>5. ASSUME NEW data \in AppData,
             AppInit("init_text", TEXT, data) \/ AppInit("init_binary", BINARY, data)
      PROVE  P
  BY <1>5 DEF AppInit, Call
<1>6. ASSUME NEW data \in AppData, AppContinuation(data) PROVE P
  BY <1>6 DEF AppContinuation, Call
<1>7. ASSUME NEW data \in AppData, AppEnd(data) PROVE P
  BY <1>7 DEF AppEnd, Call
<1> QED BY <1>1, <1>2, <1>3, <1>4, <1>5, <1>6, <1>7 DEF App

-----------------------------------------------------------------------------
(* Bytes that move from one sequence to the next.                          *)

\* In which order three sequences are joined does not matter.
SameJoin(s, t, u) == (s \o t) \o u = s \o (t \o u)

LEMMA Grouped ==
  ASSUME NEW S, NEW s \in Seq(S), NEW t \in Seq(S), NEW u \in Seq(S)
  PROVE  SameJoin(s, t, u)
PROOF
<1> DEFINE a == s \o t
           b == t \o u
           v == a \o u
           w == s \o b
<1>1. a \in Seq(S) /\ b \in Seq(S) /\ Joined(a, s, t) /\ Joined(b, t, u)
  BY ConcatJoins
<1> HIDE DEF a, b
<1>2. v \in Seq(S) /\ w \in Seq(S) /\ Joined(v, a, u) /\ Joined(w, s, b)
  BY <1>1, ConcatJoins
<1> HIDE DEF v, w
<1>3. Len(s) \in Nat /\ Len(t) \in Nat /\ Len(u) \in Nat
  OBVIOUS
<1>4. /\ Len(a) = Len(s) + Len(t) /\ Len(b) = Len(t) + Len(u)
      /\ Len(v) = Len(a) + Len(u) /\ Len(w) = Len(s) + Len(b)
  BY <1>1, <1>2 DEF Joined
<1>5. ASSUME NEW i \in 1..Len(s) PROVE v[i] = w[i]
  <2>1. i \in 1..Len(a)
    BY <1>3, <1>4
  <2> QED BY <1>1, <1>2, <2>1 DEF Joined
<1>6. ASSUME NEW i \in 1..Len(t) PROVE v[Len(s) + i] = w[Len(s) + i]
  <2>1. Len(s) + i \in 1..Len(a) /\ i \in 1..Len(b)
    BY <1>3, <1>4
  <2> QED BY <1>1, <1>2, <2>1 DEF Joined
<1>7. ASSUME NEW i \in 1..Len(u) PROVE v[Len(s) + Len(t) + i] = w[Len(s) + Len(t) + i]
  <2>1. /\ Len(t) + i \in 1..Len(b) /\ Len(a) + i = Len(s) + Len(t) + i
        /\ Len(s) + (Len(t) + i) = Len(s) + Len(t) + i
    BY <1>3, <1>4
  <2>2. v[Len(a) + i] = u[i] /\ w[Len(s) + (Len(t) + i)] = b[Len(t) + i] /\ b[Len(t) + i] = u[i]
    BY <1>1, <1>2, <2>1 DEF Joined
  <2> QED BY <2>1, <2>2
<1>8. ASSUME NEW i \in 1..Len(v) PROVE v[i] = w[i]
  <2>1. CASE i <= Len(s)
    BY <1>3, <1>4, <1>5, <2>1
  <2>2. CASE Len(s) < i /\ i <= Len(s) + Len(t)
    <3>1. i - Len(s) \in 1..Len(t) /\ Len(s) + (i - Len(s)) = i
      BY <1>3, <1>4, <2>2
    <3> QED BY <1>6, <3>1
  <2>3. CASE Len(s) + Len(t) < i
    <3>1. i - (Len(s) + Len(t)) \in 1..Len(u) /\ Len(s) + Len(t) + (i - (Len(s) + Len(t))) = i
      BY <1>3, <1>4, <2>3
    <3> QED BY <1>7, <3>1
  <2> QED BY <1>3, <1>4, <2>1, <2>2, <2>3
<1>9. Len(v) = Len(w)
  BY <1>3, <1>4
<1>10. v = w
  BY <1>2, <1>8, <1>9, SeqEqual
<1> QED BY <1>10 DEF SameJoin, v, w, a, b

HeadMoves(s, t, u) == s \o (t \o u) = Append(s, Head(t)) \o (Tail(t) \o u)

LEMMA MoveHead ==
  ASSUME NEW S, NEW s \in Seq(S), NEW t \in Seq(S), t # <<>>, NEW u \in Seq(S)
  PROVE  HeadMoves(s, t, u)
PROOF
<1> DEFINE h == Head(t)
           l == Tail(t)
<1>1. h \in S /\ l \in Seq(S)
  BY HeadTailProperties
<1>2. t = <<h>> \o l
  <2>1. 1 \in 1..Len(t) /\ Len(t) \in 1..Len(t) /\ Len(t) >= 1
    BY EmptySeq
  <2>2. SubSeq(t, 1, Len(t)) = <<t[1]>> \o SubSeq(t, 1 + 1, Len(t))
    BY <2>1, SubSeqRecursiveFirst
  <2>3. SubSeq(t, 1, Len(t)) = t
    BY SubSeqFull
  <2>4. Tail(t) = SubSeq(t, 2, Len(t))
    BY TailIsSubSeq
  <2>5. Head(t) = t[1]
    OBVIOUS
  <2> QED BY <2>2, <2>3, <2>4, <2>5
<1> HIDE DEF h, l
<1>3. <<h>> \in Seq(S) /\ s \o <<h>> \in Seq(S) /\ l \o u \in Seq(S)
  BY <1>1
<1>4. t \o u = <<h>> \o (l \o u)
  <2>1. SameJoin(<<h>>, l, u)
    BY <1>1, <1>3, Grouped
  <2> QED BY <1>2, <2>1 DEF SameJoin
<1>5. s \o (t \o u) = (s \o <<h>>) \o (l \o u)
  <2>1. SameJoin(s, <<h>>, l \o u)
    BY <1>1, <1>3, Grouped
  <2> QED BY <1>4, <2>1 DEF SameJoin
<1>6. Append(s, h) = s \o <<h>>
  BY <1>1, AppendIsConcat
<1> QED BY <1>5, <1>6 DEF HeadMoves, h, l

LEMMA SubSeqType ==
  ASSUME NEW S, NEW t \in Seq(S), NEW m \in Nat, 1 <= m, NEW k \in Nat, k <= Len(t)
  PROVE  /\ SubSeq(t, m, k) \in Seq(S)
         /\ Len(SubSeq(t, m, k)) = IF m <= k THEN k - m + 1 ELSE 0
         /\ \A i \in 1..(k - m + 1) : SubSeq(t, m, k)[i] = t[m + i - 1]
PROOF
<1>1. Len(t) \in Nat /\ \A i \in 1..Len(t) : t[i] \in S
  OBVIOUS
<1>2. \A i \in m..k : t[i] \in S
  <2>1. \A i \in m..k : i \in 1..Len(t)
    BY <1>1
  <2> QED BY <1>1, <2>1
<1>3. m \in Int /\ k \in Int
  OBVIOUS
<1> QED BY <1>2, <1>3, SubSeqProperties

PartMoves(s, t, u, m, k) ==
  s \o (SubSeq(t, m, Len(t)) \o u) = (s \o SubSeq(t, m, k)) \o (SubSeq(t, k + 1, Len(t)) \o u)

LEMMA MovePart ==
  ASSUME NEW S, NEW s \in Seq(S), NEW t \in Seq(S), NEW u \in Seq(S),
         NEW m \in 1..(Len(t) + 1), NEW k \in (m - 1)..Len(t)
  PROVE  PartMoves(s, t, u, m, k)
PROOF
<1> DEFINE n == Len(t)
           a == SubSeq(t, m, k)
           b == SubSeq(t, k + 1, n)
<1>1. n \in Nat /\ n \in k..Len(t) /\ k \in Nat /\ k <= n /\ m \in Nat /\ 1 <= m /\ 1 <= k + 1
  OBVIOUS
<1>2. a \o b = SubSeq(t, m, n)
  BY <1>1, ConcatAdjacentSubSeq
<1>3. a \in Seq(S)
  BY <1>1, SubSeqType
<1>4. b \in Seq(S)
  <2>1. k + 1 \in Nat
    BY <1>1
  <2> QED BY <1>1, <2>1, SubSeqType
<1> HIDE DEF a, b
<1>5. (a \o b) \o u = a \o (b \o u)
  <2>1. SameJoin(a, b, u)
    BY <1>3, <1>4, Grouped
  <2> QED BY <2>1 DEF SameJoin
<1>6. b \o u \in Seq(S)
  BY <1>4
<1>7. s \o (a \o (b \o u)) = (s \o a) \o (b \o u)
  <2>1. SameJoin(s, a, b \o u)
    BY <1>3, <1>6, Grouped
  <2> QED BY <2>1 DEF SameJoin
<1> QED BY <1>2, <1>5, <1>7 DEF PartMoves, a, b

LEMMA SameStart ==
  ASSUME NEW S, NEW s \in Seq(S), NEW t \in Seq(S), NEW e \in Seq(S), NEW v \in Seq(S),
         s \o t = e \o v, Len(s) <= Len(e)
  PROVE  /\ \A i \in 1..Len(s) : s[i] = e[i]
         /\ Len(s) = Len(e) => s = e /\ t = v
PROOF
<1>1. Len(s) \in Nat /\ Len(e) \in Nat
  OBVIOUS
<1>2. Joined(s \o t, s, t) /\ Joined(e \o v, e, v)
  BY ConcatJoins
<1> DEFINE w == s \o t
<1>3. /\ \A i \in 1..Len(s) : w[i] = s[i]
      /\ \A i \in 1..Len(e) : w[i] = e[i]
  BY <1>2 DEF Joined
<1> HIDE DEF w
<1>4. \A i \in 1..Len(s) : s[i] = e[i]
  BY <1>1, <1>3
<1>5. ASSUME Len(s) = Len(e) PROVE s = e /\ t = v
  <2>1. s = e
    BY <1>4, <1>5, SeqEqual
  <2>2. s \o t = s \o v
    BY <2>1
  <2> QED BY <2>1, <2>2, ConcatSimplifications, Zenon
<1> QED BY <1>4, <1>5

-----------------------------------------------------------------------------
(* The top of the loop.                                                    *)

\* The frame the next byte belongs to, before the byte is stored.
Opened == IF current = NoFrame THEN NewFrame ELSE current

LEMMA NewFrameType ==
  /\ NewFrame \in ReadFrame /\ NewFrame.state = sw_start /\ NewFrame.raw = <<>>
  /\ NewFrame.rawdata_sz >= 15
BY ChunkAssumption DEF NewFrame, ReadFrame, sw_start, sw_loaded_mask

LEMMA OpenedRight ==
  ASSUME RecvTypes, CurrentInv
  PROVE  /\ Opened \in ReadFrame /\ Opened.raw = Raw /\ Raw \in Seq(Byte)
         /\ Aligned => /\ Opened.rawdata_sz >= 15
                       /\ Raw = <<>> => Opened.state = sw_start
PROOF
<1>1. CASE current = NoFrame
  <2>1. Opened = NewFrame /\ Raw = <<>>
    BY <1>1 DEF Opened, Raw
  <2> QED BY <2>1, NewFrameType
<1>2. CASE current # NoFrame
  <2>1. Opened = current /\ Raw = current.raw /\ current \in ReadFrame
    BY <1>2 DEF Opened, Raw, RecvTypes
  <2>2. current.raw \in Seq(Byte)
    BY <2>1, ReadFrameType
  <2> QED BY <1>2, <2>1, <2>2 DEF CurrentInv
<1> QED BY <1>1, <1>2

\* What the invariant says of the frame the next byte belongs to.
LEMMA NextFrame ==
  ASSUME IInv, RecvTypes, PeerInv, NEW r, Chain(r), r[Len(rx) + 1] # <<>>
  PROVE  /\ Len(rx) \in Nat /\ Len(peer) \in Nat /\ Len(rx) < Len(peer)
         /\ peer[Len(rx) + 1] \in PeerFrames
         /\ r[Len(rx) + 1] = Encode(peer[Len(rx) + 1]) \o r[Len(rx) + 2]
         /\ r[Len(rx) + 2] \in Seq(Byte)
PROOF
<1>1. Len(rx) \in Nat /\ Len(peer) \in Nat /\ Len(rx) <= Len(peer) /\ peer \in Seq(PeerFrames)
  <2>1. rx \in Seq(Frame)
    BY DEF IInv, TypeOK
  <2> QED BY <2>1 DEF RecvTypes, PeerInv
<1>2. Len(rx) # Len(peer)
  BY DEF Chain
<1>3. Len(rx) < Len(peer) /\ Len(rx) + 1 \in 1..Len(peer) /\ Len(rx) + 1 + 1 = Len(rx) + 2
      /\ Len(rx) + 2 \in 1..(Len(peer) + 1)
  BY <1>1, <1>2
<1>4. r[Len(rx) + 1] = Encode(peer[Len(rx) + 1]) \o r[Len(rx) + 1 + 1]
  BY <1>3 DEF Chain
<1>5. r[Len(rx) + 2] \in Seq(Byte)
  BY <1>3 DEF Chain
<1>6. peer[Len(rx) + 1] \in PeerFrames
  BY <1>1, <1>3, ElementOfSeq
<1> QED BY <1>1, <1>3, <1>4, <1>5, <1>6

StoredInv(r, lost) ==
  LET p == peer[Len(rx) + 1]
  IN  /\ Len(rx) < Len(peer)
      /\ HeaderState(Stored, p) /\ Len(Stored.raw) <= FrameLength(p)
      /\ Stored.rawdata_sz >= 15
      /\ r[Len(rx) + 1] = Stored.raw \o (Tail(buf) \o (wire \o lost))

LEMMA StoredRight ==
  ASSUME IInv, RecvTypes, CallInv, PeerInv, CurrentInv, NEW lost \in Seq(Byte),
         NEW r, Chain(r), InPlace(r, lost), Iterating
  PROVE  /\ Stored \in ReadFrame /\ Stored.raw = Append(Raw, Head(buf))
         /\ Stored.raw \in Seq(Byte) /\ Len(Stored.raw) = Len(Raw) + 1 /\ Tail(buf) \in Seq(Byte)
         /\ stuck => Stored.state = sw_loaded_mask
         /\ ~ stuck => StoredInv(r, lost)
PROOF
<1> DEFINE b == Head(buf)
           c == Opened
           d == [c EXCEPT !.raw = Append(@, b)]
           s == Append(Raw, b)
           k == Len(rx) + 1
           u == Tail(buf) \o (wire \o lost)
<1>1. buf \in Seq(Byte) /\ buf # <<>> /\ wire \in Seq(Byte)
  BY DEF RecvTypes, Iterating
<1>2. b \in Byte /\ Tail(buf) \in Seq(Byte)
  BY <1>1, HeadTailProperties
<1>3. c \in ReadFrame /\ c.raw = Raw /\ Raw \in Seq(Byte)
  BY OpenedRight
<1>4. s \in Seq(Byte) /\ Len(s) = Len(Raw) + 1 /\ s # <<>>
  BY <1>2, <1>3, AppendProperties
<1>5. Stored = IF d.state = sw_loaded_mask THEN d ELSE ReadHeader(d)
  BY DEF Stored, Opened
<1>6. Differs(d, c, c.state, s, c.mask_offset, c.payload_len, c.rawdata_sz)
  <2>1. d = [c EXCEPT !.raw = s]
    BY <1>3
  <2>2. 0 \in Nat /\ 0 \in 0..4
    OBVIOUS
  <2> HIDE DEF d, c, s
  <2> QED BY <1>3, <1>4, <2>1, <2>2, FieldSet
<1> HIDE DEF b, c, d, s
<1>7. CASE stuck
  <2>1. c.state = sw_loaded_mask
    BY <1>7 DEF CallInv, c, Opened
  <2>2. Stored = d
    BY <1>5, <1>6, <2>1 DEF Differs
  <2> QED BY <1>2, <1>4, <1>6, <1>7, <2>1, <2>2 DEF Differs, s, b
<1>8. CASE ~ stuck
  <2>1. Aligned
    BY <1>8 DEF Aligned, Iterating
  <2>2. r[k] = s \o u
    <3>1. r[k] = Raw \o (buf \o (wire \o lost))
      BY <2>1 DEF InPlace
    <3>2. wire \o lost \in Seq(Byte)
      BY <1>1
    <3> DEFINE w == wire \o lost
    <3> HIDE DEF w
    <3>3. w \in Seq(Byte)
      BY <3>2 DEF w
    <3>4. HeadMoves(Raw, buf, w)
      BY <1>1, <1>3, <3>3, MoveHead
    <3> QED BY <3>1, <3>4 DEF HeadMoves, w, s, b
  <2>3. u \in Seq(Byte)
    BY <1>1, <1>2
  <2>4. r[k] # <<>>
    <3> HIDE DEF u
    <3>1. Joined(s \o u, s, u)
      BY <1>4, <2>3, ConcatJoins
    <3>2. Len(s) > 0 /\ Len(u) \in Nat /\ Len(s) \in Nat
      BY <1>3, <1>4, <2>3
    <3>3. Len(s \o u) # 0
      BY <3>1, <3>2 DEF Joined
    <3> QED BY <2>2, <3>3
  <2> DEFINE p == peer[Len(rx) + 1]
             e == Encode(p)
             v == r[Len(rx) + 2]
  <2>5. /\ Len(rx) < Len(peer) /\ p \in PeerFrames /\ r[k] = e \o v /\ v \in Seq(Byte)
    BY <2>4, NextFrame
  <2>6. e \in Seq(Byte) /\ Len(e) = FrameLength(p)
    BY <2>5, EncodeBytes
  <2>7. HeaderState(c, p) /\ Len(Raw) < FrameLength(p) /\ c.rawdata_sz >= 15
    <3>1. c.rawdata_sz >= 15 /\ (Raw = <<>> => c.state = sw_start)
      BY <2>1, OpenedRight DEF c
    <3>2. CASE Raw = <<>>
      <4>1. Len(Raw) = 0 /\ FrameLength(p) > 0
        <5>1. /\ Offset(p) \in 2..10 /\ Len(p.data) \in Nat
              /\ FrameLength(p) = Offset(p) + 4 + Len(p.data)
          BY <2>5, OffsetRange
        <5>2. Len(Raw) = 0
          BY <3>2
        <5>3. FrameLength(p) > 0
          <6> DEFINE o == Offset(p)
                     n == Len(p.data)
                     l == FrameLength(p)
          <6> HIDE DEF o, n, l
          <6>1. o \in 2..10 /\ n \in Nat /\ l = o + 4 + n
            BY <5>1 DEF o, n, l
          <6>2. l > 0
            BY ONLY <6>1
          <6> QED BY <6>2 DEF l
        <5> QED BY <5>2, <5>3
      <4>2. HeaderState(c, p)
        BY <1>3, <3>1, <3>2, <4>1 DEF HeaderState
      <4> QED BY <3>1, <4>1, <4>2
    <3>3. CASE Raw # <<>>
      <4>1. current # NoFrame /\ c = current /\ current.raw = Raw
        BY <3>3 DEF Raw, c, Opened
      <4> QED BY <2>1, <3>1, <3>3, <4>1 DEF CurrentInv
    <3> QED BY <3>2, <3>3
  <2> HIDE DEF u, e, p, v
  <2>8. Len(s) <= Len(e)
    <3>1. Len(Raw) \in Nat /\ FrameLength(p) \in Nat
      BY <1>3, <2>5, OffsetRange
    <3> QED BY <1>4, <2>6, <2>7, <3>1
  <2>9. StartOfFrame(s, p)
    <3>1. s \o u = e \o v
      BY <2>2, <2>5
    <3>2. \A i \in 1..Len(s) : s[i] = e[i]
      BY <1>4, <2>3, <2>5, <2>6, <2>8, <3>1, SameStart
    <3> QED BY <3>2 DEF StartOfFrame, e
  <2>10. /\ Stored \in ReadFrame /\ Stored.raw = s /\ HeaderState(Stored, p)
         /\ Stored.rawdata_sz >= c.rawdata_sz
    <3>1. s = Append(c.raw, b)
      BY <1>3 DEF s
    <3>2. Len(c.raw) < FrameLength(p) /\ StartOfFrame(Append(c.raw, b), p)
      BY <1>3, <2>7, <2>9, <3>1
    <3>3. LET dd == [c EXCEPT !.raw = Append(@, b)]
              ee == IF dd.state = sw_loaded_mask THEN dd ELSE ReadHeader(dd)
          IN  /\ ee \in ReadFrame /\ ee.raw = Append(c.raw, b) /\ HeaderState(ee, p)
              /\ ee.rawdata_sz >= c.rawdata_sz
      BY ONLY <1>2, <1>3, <2>5, <2>7, <3>2, HeaderRead, c \in ReadFrame
    <3> QED BY <1>5, <3>1, <3>3 DEF d
  <2>11. Stored.rawdata_sz >= 15
    <3>1. c.rawdata_sz \in Nat /\ Stored.rawdata_sz \in Nat
      BY <1>3, <2>10, ReadFrameType
    <3> QED BY <2>7, <2>10, <3>1
  <2> QED BY <1>2, <1>4, <1>8, <2>2, <2>5, <2>6, <2>8, <2>10, <2>11 DEF StoredInv, u, p, s, b
<1> QED BY <1>7, <1>8

-----------------------------------------------------------------------------
(* The steps of handle_recv.                                               *)

LEMMA ChainKept ==
  ASSUME NEW r, Chain(r), UNCHANGED <<peer, ends>>
  PROVE  Chain(r)'
BY DEF Chain, Sent

LEMMA IterationTypes ==
  ASSUME IInv, CallInv, Iterating
  PROVE  call = "loop" /\ "CONNECTING" \notin flags /\ "PROCESSING_ERROR" \notin flags
BY DEF CallInv, Iterating

LEMMA InHeader ==
  ASSUME NEW o \in 2..10, NEW n \in Nat, NEW k \in Nat, k <= 1 \/ k < o \/ k < o + 4
  PROVE  k < o + 4 + n
OBVIOUS

\* A byte of the header has been stored.
LEMMA HeaderStep ==
  ASSUME IInv, StateInv, NEW lost \in Seq(Byte), NEW r, Chain(r), InPlace(r, lost),
         HeaderIncomplete
  PROVE  StateInv' /\ Chain(r)' /\ InPlace(r, lost)'
PROOF
<1> DEFINE p == peer[Len(rx) + 1]
           u == Tail(buf) \o (wire \o lost)
<1>1. /\ Iterating /\ Stored.state # sw_loaded_mask /\ current' = Stored /\ buf' = Tail(buf)
      /\ needs_more' = FALSE /\ UNCHANGED <<peer, ends, wire, call, result>>
      /\ UNCHANGED <<flags, frames, stuck, close_info, retval, made, delivered, rx>>
  BY DEF HeaderIncomplete, vars
<1>2. /\ Stored \in ReadFrame /\ Stored.raw = Append(Raw, Head(buf))
      /\ Stored.raw \in Seq(Byte) /\ Len(Stored.raw) = Len(Raw) + 1 /\ Tail(buf) \in Seq(Byte)
      /\ stuck => Stored.state = sw_loaded_mask
      /\ ~ stuck => StoredInv(r, lost)
  BY <1>1, StoredRight DEF StateInv
<1>3. ~ stuck /\ StoredInv(r, lost)
  BY <1>1, <1>2
<1>4. /\ Len(rx) < Len(peer) /\ HeaderState(Stored, p) /\ Len(Stored.raw) <= FrameLength(p)
      /\ Stored.rawdata_sz >= 15 /\ r[Len(rx) + 1] = Stored.raw \o u
  BY <1>3 DEF StoredInv
<1>5. call = "loop" /\ "CONNECTING" \notin flags /\ "PROCESSING_ERROR" \notin flags
  BY <1>1, IterationTypes DEF StateInv
<1>6. Stored # NoFrame /\ Stored.state <= sw_got_full_len /\ Stored.raw # <<>>
  <2>1. Stored.state \in 0..4 /\ Stored.state # 4
    BY <1>1, <1>2, ReadFrameType DEF sw_loaded_mask
  <2>2. Len(Stored.raw) > 0
    <3>1. Len(Raw) \in Nat
      BY OpenedRight DEF StateInv
    <3> QED BY <1>2, <3>1
  <2> QED BY <1>2, <2>1, <2>2, NoFrameAssumption DEF sw_got_full_len
<1>7. Len(Stored.raw) < FrameLength(p)
  <2>1. p \in PeerFrames
    <3>1. Len(rx) \in Nat /\ Len(peer) \in Nat /\ peer \in Seq(PeerFrames)
      BY DEF IInv, TypeOK, StateInv, RecvTypes
    <3>2. Len(rx) + 1 \in 1..Len(peer)
      BY <1>4, <3>1
    <3> QED BY <3>1, <3>2, ElementOfSeq
  <2>2. /\ Offset(p) \in 2..10 /\ Len(p.data) \in Nat
        /\ FrameLength(p) = Offset(p) + 4 + Len(p.data)
    BY <2>1, OffsetRange
  <2>3. Len(Stored.raw) \in Nat
    BY <1>2
  <2>4. \/ Len(Stored.raw) <= 1 \/ Len(Stored.raw) < Offset(p)
        \/ Len(Stored.raw) < Offset(p) + MASK_LENGTH
    BY <1>1, <1>4 DEF HeaderState
  <2> DEFINE o == Offset(p)
             n == Len(p.data)
             k == Len(Stored.raw)
  <2>5. o \in 2..10 /\ n \in Nat /\ k \in Nat /\ (k <= 1 \/ k < o \/ k < o + 4)
    BY <2>2, <2>3, <2>4 DEF MASK_LENGTH
  <2>6. FrameLength(p) = o + 4 + n
    BY <2>2
  <2> HIDE DEF p, o, n, k
  <2>7. k < o + 4 + n
    BY <2>5, InHeader
  <2> QED BY <2>6, <2>7 DEF k
<1> HIDE DEF p, u
<1>8. RecvTypes'
  BY <1>1, <1>2 DEF StateInv, RecvTypes
<1>9. CallInv'
  BY <1>1, <1>3, <1>5 DEF StateInv, CallInv
<1>10. ReportInv'
  BY <1>1, <1>5, <1>6 DEF ReportInv, IncompleteIsReported, MinusOneExplained
<1>11. PeerInv' /\ ExitInv'
  BY <1>1, <1>5 DEF StateInv, PeerInv, ExitInv, Aligned
<1>12. CurrentInv'
  BY <1>1, <1>4, <1>6, <1>7 DEF CurrentInv, p
<1>13. Chain(r)'
  BY <1>1, ChainKept
<1>14. InPlace(r, lost)'
  <2>1. Raw' = Stored.raw
    BY <1>1, <1>6 DEF Raw
  <2> QED BY <1>1, <1>4, <2>1 DEF InPlace, u
<1> QED BY <1>8, <1>9, <1>10, <1>11, <1>12, <1>13, <1>14 DEF StateInv

\* What is known of a frame whose header is complete.
LEMMA LoadedRight ==
  ASSUME NEW p \in PeerFrames, NEW c \in ReadFrame, HeaderState(c, p), c.state = sw_loaded_mask
  PROVE  /\ LengthKnown(c, p) /\ Size(c) = FrameLength(p) /\ FrameLength(p) \in Nat
         /\ Offset(p) + MASK_LENGTH <= Len(c.raw) /\ Len(c.raw) <= FrameLength(p)
         /\ FrameLength(p) <= c.rawdata_sz
PROOF
<1>1. /\ LengthKnown(c, p) /\ Offset(p) + MASK_LENGTH <= Len(c.raw) /\ Len(c.raw) <= FrameLength(p)
      /\ FrameLength(p) <= c.rawdata_sz
  BY DEF HeaderState, sw_start, sw_got_short_len, sw_got_full_len, sw_loaded_mask
<1>2. Size(c) = FrameLength(p)
  BY <1>1 DEF Size, PayloadOffset, LengthKnown, FrameLength
<1> QED BY <1>1, <1>2, OffsetRange

\* A frame that has only got more bytes of its payload says what it said.
MoreLoaded(d, c, s, p) ==
  /\ d \in ReadFrame /\ d.raw = s /\ d.state = sw_loaded_mask
  /\ HeaderState(d, p) /\ LengthKnown(d, p) /\ d.rawdata_sz = c.rawdata_sz

LEMMA LoadedStays ==
  ASSUME NEW p \in PeerFrames, NEW c \in ReadFrame, HeaderState(c, p), c.state = sw_loaded_mask,
         NEW s \in Seq(Byte), Len(c.raw) <= Len(s), Len(s) <= FrameLength(p)
  PROVE  MoreLoaded([c EXCEPT !.raw = s], c, s, p)
PROOF
<1> DEFINE d == [c EXCEPT !.raw = s]
<1>1. 0 \in Nat /\ 0 \in 0..4
  OBVIOUS
<1>2. Differs(d, c, c.state, s, c.mask_offset, c.payload_len, c.rawdata_sz)
  BY <1>1, FieldSet
<1> HIDE DEF d
<1>3. d \in ReadFrame /\ d.raw = s /\ d.state = sw_loaded_mask /\ d.rawdata_sz = c.rawdata_sz
  BY <1>2 DEF Differs
<1>4. /\ LengthKnown(c, p) /\ Offset(p) + MASK_LENGTH <= Len(c.raw)
      /\ FrameLength(p) <= c.rawdata_sz
  BY LoadedRight
<1>5. LengthKnown(d, p)
  BY <1>2, <1>4 DEF Differs, LengthKnown
<1>6. Offset(p) + MASK_LENGTH <= Len(s)
  <2>1. c.raw \in Seq(Byte) /\ Offset(p) \in 2..10
    BY ReadFrameType, OffsetRange
  <2> DEFINE o == Offset(p)
  <2> HIDE DEF o
  <2>2. o \in 2..10 /\ Len(c.raw) \in Nat /\ Len(s) \in Nat /\ o + 4 <= Len(c.raw)
    BY <1>4, <2>1 DEF MASK_LENGTH, o
  <2> QED BY <2>2 DEF MASK_LENGTH, o
<1>7. HeaderState(d, p)
  BY <1>3, <1>4, <1>5, <1>6 DEF HeaderState
<1> QED BY <1>3, <1>5, <1>7 DEF MoreLoaded, d

\* The bytes that were given end inside the payload.
LEMMA PayloadStep ==
  ASSUME IInv, StateInv, NEW lost \in Seq(Byte), NEW r, Chain(r), InPlace(r, lost),
         PayloadIncomplete
  PROVE  StateInv' /\ Chain(r)' /\ InPlace(r, lost)'
PROOF
<1> DEFINE p == peer[Len(rx) + 1]
           w == wire \o lost
           s == Stored.raw \o Tail(buf)
<1>1. /\ Iterating /\ Stored.state = sw_loaded_mask /\ Len(buf) - 1 < Missing(Stored)
      /\ current' = [Stored EXCEPT !.raw = @ \o Tail(buf)] /\ buf' = <<>> /\ needs_more' = TRUE
      /\ UNCHANGED <<peer, ends, wire, call, result>>
      /\ UNCHANGED <<flags, frames, stuck, close_info, retval, made, delivered, rx>>
  BY DEF PayloadIncomplete, vars
<1>2. /\ Stored \in ReadFrame /\ Stored.raw = Append(Raw, Head(buf))
      /\ Stored.raw \in Seq(Byte) /\ Len(Stored.raw) = Len(Raw) + 1 /\ Tail(buf) \in Seq(Byte)
      /\ ~ stuck => StoredInv(r, lost)
  BY <1>1, StoredRight DEF StateInv
<1>3. Raw \in Seq(Byte) /\ buf \in Seq(Byte) /\ buf # <<>> /\ wire \in Seq(Byte) /\ w \in Seq(Byte)
  BY <1>1, OpenedRight DEF StateInv, RecvTypes, Iterating
<1>4. call = "loop" /\ "CONNECTING" \notin flags /\ "PROCESSING_ERROR" \notin flags
  BY <1>1, IterationTypes DEF StateInv
<1>5. s \in Seq(Byte) /\ Joined(s, Stored.raw, Tail(buf))
  <2>1. s \in Seq(Byte)
    BY <1>2
  <2>2. Joined(s, Stored.raw, Tail(buf))
    BY <1>2, ConcatJoins
  <2> QED BY <2>1, <2>2
<1>6. Len(Tail(buf)) = Len(buf) - 1 /\ Len(buf) \in Nat
  BY <1>3, HeadTailProperties
<1>7. /\ current' \in ReadFrame /\ current'.raw = s /\ current'.state = sw_loaded_mask
  <2>1. current' = [Stored EXCEPT !.raw = s]
    BY <1>1
  <2>2. 0 \in Nat /\ 0 \in 0..4
    OBVIOUS
  <2> HIDE DEF s
  <2>3. Differs(current', Stored, Stored.state, s, Stored.mask_offset, Stored.payload_len, Stored.rawdata_sz)
    BY <1>2, <1>5, <2>1, <2>2, FieldSet
  <2> QED BY <1>1, <2>3 DEF Differs
<1> HIDE DEF s, w
<1>8. current' # NoFrame /\ s # <<>>
  <2>1. Len(s) = Len(Raw) + 1 + Len(Tail(buf)) /\ Len(Raw) \in Nat /\ Len(Tail(buf)) \in Nat
    BY <1>2, <1>3, <1>5 DEF Joined
  <2>2. Len(s) # 0
    <3>1. \A i \in Nat, j \in Nat : i + 1 + j # 0
      OBVIOUS
    <3> QED BY ONLY <2>1, <3>1, Zenon
  <2> QED BY <1>7, <2>2, NoFrameAssumption
<1>9. RecvTypes'
  <2>1. buf' \in Seq(Byte) /\ needs_more' \in BOOLEAN
    BY <1>1
  <2>2. UNCHANGED <<peer, ends, wire, call, result>> /\ current' \in ReadFrame
    BY <1>1, <1>7
  <2> QED BY <2>1, <2>2 DEF StateInv, RecvTypes
<1>10. CallInv'
  <2>1. stuck => s[1] = Last(frames).b0
    <3> SUFFICES ASSUME stuck PROVE s[1] = Last(frames).b0
      OBVIOUS
    <3>1. Raw # <<>> /\ Raw[1] = Last(frames).b0
      BY DEF StateInv, CallInv, Raw
    <3>2. 1 \in 1..Len(Raw) /\ Len(Raw) \in Nat
      BY <1>3, <3>1
    <3>3. Append(Raw, Head(buf))[1] = Raw[1]
      BY <1>3, <3>2, HeadTailProperties, AppendProperties
    <3>4. 1 \in 1..Len(Stored.raw)
      BY <1>2, <3>2
    <3>5. s[1] = Stored.raw[1]
      BY <1>5, <3>4 DEF Joined
    <3> QED BY <1>2, <3>1, <3>3, <3>5
  <2> QED BY <1>1, <1>4, <1>7, <1>8, <2>1 DEF StateInv, CallInv
<1>11. ReportInv'
  BY <1>1, <1>4 DEF ReportInv, IncompleteIsReported, MinusOneExplained
<1>12. PeerInv' /\ ExitInv'
  BY <1>1, <1>4 DEF StateInv, PeerInv, ExitInv, Aligned
<1>13. CurrentInv' /\ InPlace(r, lost)'
  <2>1. CASE stuck
    BY <1>1, <2>1 DEF CurrentInv, InPlace, Aligned
  <2>2. CASE ~ stuck
    <3>1. /\ Len(rx) < Len(peer) /\ HeaderState(Stored, p) /\ Len(Stored.raw) <= FrameLength(p)
          /\ Stored.rawdata_sz >= 15 /\ r[Len(rx) + 1] = Stored.raw \o (Tail(buf) \o w)
      BY <1>2, <2>2 DEF StoredInv, w
    <3>2. p \in PeerFrames
      <4>1. Len(rx) \in Nat /\ Len(peer) \in Nat /\ peer \in Seq(PeerFrames)
        BY DEF IInv, TypeOK, StateInv, RecvTypes
      <4>2. Len(rx) + 1 \in 1..Len(peer)
        BY <3>1, <4>1
      <4> QED BY <4>1, <4>2, ElementOfSeq
    <3> HIDE DEF p
    <3>3. Size(Stored) = FrameLength(p) /\ FrameLength(p) \in Nat
      BY <1>1, <1>2, <3>1, <3>2, LoadedRight
    <3>4. Len(s) < FrameLength(p) /\ Len(Stored.raw) <= Len(s)
      <4>1. Len(s) = Len(Stored.raw) + (Len(buf) - 1) /\ Len(Stored.raw) \in Nat
        BY <1>2, <1>5, <1>6 DEF Joined
      <4>2. Missing(Stored) = IF Len(Stored.raw) < FrameLength(p)
                              THEN FrameLength(p) - Len(Stored.raw) ELSE 0
        BY <3>3 DEF Missing
      <4>3. Len(buf) >= 1
        BY <1>3, <1>6, EmptySeq
      <4> QED BY <1>1, <1>6, <3>3, <4>1, <4>2, <4>3
    <3>5. /\ HeaderState(current', p) /\ current'.rawdata_sz = Stored.rawdata_sz
      <4>1. current' = [Stored EXCEPT !.raw = s]
        BY <1>1 DEF s
      <4>2. Len(s) <= FrameLength(p)
        BY <1>5, <3>3, <3>4
      <4>3. MoreLoaded([Stored EXCEPT !.raw = s], Stored, s, p)
        BY <1>1, <1>2, <1>5, <3>1, <3>2, <3>4, <4>2, LoadedStays
      <4> QED BY <4>1, <4>3 DEF MoreLoaded
    <3>6. CurrentInv'
      BY <1>1, <1>7, <1>8, <3>1, <3>4, <3>5 DEF CurrentInv, p
    <3>7. InPlace(r, lost)'
      <4>1. SameJoin(Stored.raw, Tail(buf), w)
        BY <1>2, <1>3, Grouped
      <4>2. r[Len(rx) + 1] = s \o w
        BY <3>1, <4>1 DEF SameJoin, s
      <4>3. <<>> \o w = w
        BY <1>3, ConcatEmptySeq
      <4>4. Raw' = s
        BY <1>7, <1>8 DEF Raw
      <4> QED BY <1>1, <4>2, <4>3, <4>4 DEF InPlace, w
    <3> QED BY <3>6, <3>7
  <2> QED BY <2>1, <2>2
<1>14. Chain(r)'
  BY <1>1, ChainKept
<1> QED BY <1>9, <1>10, <1>11, <1>12, <1>13, <1>14 DEF StateInv

\* The complete frame, and the bytes after it.
FilledRaw == Stored.raw \o SubSeq(buf, 2, Missing(Stored) + 1)
Filled == [Stored EXCEPT !.raw = FilledRaw]
Remainder == SubSeq(buf, Missing(Stored) + 2, Len(buf))

LEMMA FilledType ==
  ASSUME RecvTypes, Iterating, Stored \in ReadFrame, Len(buf) - 1 >= Missing(Stored)
  PROVE  /\ Missing(Stored) \in Nat /\ Len(buf) \in Nat /\ Missing(Stored) + 1 <= Len(buf)
         /\ SubSeq(buf, 2, Missing(Stored) + 1) \in Seq(Byte) /\ Remainder \in Seq(Byte)
         /\ Len(SubSeq(buf, 2, Missing(Stored) + 1)) = Missing(Stored)
         /\ FilledRaw \in Seq(Byte)
         /\ Joined(FilledRaw, Stored.raw, SubSeq(buf, 2, Missing(Stored) + 1))
         /\ Differs(Filled, Stored, Stored.state, FilledRaw, Stored.mask_offset,
                    Stored.payload_len, Stored.rawdata_sz)
PROOF
<1> DEFINE n == Missing(Stored)
           t == SubSeq(buf, 2, n + 1)
<1>1. buf \in Seq(Byte) /\ buf # <<>> /\ Stored.raw \in Seq(Byte)
  BY ReadFrameType DEF RecvTypes, Iterating
<1>2. Size(Stored) \in Nat /\ Len(Stored.raw) \in Nat /\ Len(buf) \in Nat
  BY <1>1, ReadFrameType DEF Size, PayloadOffset, MASK_LENGTH
<1>3. n \in Nat /\ n + 1 <= Len(buf)
  <2>1. n \in Nat
    BY <1>2 DEF Missing
  <2> QED BY <1>2, <2>1
<1> HIDE DEF n
<1>4. t \in Seq(Byte) /\ Len(t) = n
  <2>1. n + 1 \in Nat /\ 2 \in Nat /\ 1 <= 2
    BY <1>3
  <2>2. t \in Seq(Byte) /\ Len(t) = IF 2 <= n + 1 THEN n + 1 - 2 + 1 ELSE 0
    BY <1>1, <1>3, <2>1, SubSeqType
  <2> HIDE DEF t
  <2> QED BY <1>3, <2>2
<1>5. SubSeq(buf, n + 2, Len(buf)) \in Seq(Byte)
  <2>1. n + 2 \in Nat /\ 1 <= n + 2
    BY <1>3
  <2> QED BY <1>1, <1>2, <2>1, SubSeqType
<1> HIDE DEF t
<1>6. FilledRaw = Stored.raw \o t
  BY DEF FilledRaw, t, n
<1>7. FilledRaw \in Seq(Byte)
  BY <1>1, <1>4, <1>6
<1>8. Joined(FilledRaw, Stored.raw, t)
  BY <1>1, <1>4, <1>6, ConcatJoins
<1>9. Differs(Filled, Stored, Stored.state, FilledRaw, Stored.mask_offset,
              Stored.payload_len, Stored.rawdata_sz)
  <2>1. 0 \in Nat /\ 0 \in 0..4
    OBVIOUS
  <2> QED BY <1>7, <2>1, FieldSet DEF Filled
<1> QED BY <1>2, <1>3, <1>4, <1>5, <1>7, <1>8, <1>9 DEF Remainder, t, n

\* What the completion of a frame does.
LEMMA CompletionIs ==
  ASSUME FrameComplete
  PROVE  /\ Iterating /\ Stored.state = sw_loaded_mask /\ Len(buf) - 1 >= Missing(Stored)
         /\ IF stuck THEN Redispatch ELSE Receive(Decoded(Filled))
         /\ current' = CurrentAfter(Filled, HandlerOf(Decoded(Filled)))
         /\ buf' = Remainder /\ needs_more' = FALSE /\ result' = retval'
         /\ call' = IF retval' = -1 THEN "exit" ELSE "loop"
         /\ UNCHANGED <<peer, ends, wire>>
BY DEF FrameComplete, Filled, FilledRaw, Remainder

\* A byte more, and the frame left in place is handled again.
LEMMA AgainStep ==
  ASSUME IInv, StateInv, NEW lost \in Seq(Byte), NEW r, Chain(r), InPlace(r, lost),
         FrameComplete, stuck
  PROVE  /\ StateInv' /\ Chain(r)' /\ InPlace(r, lost)' /\ Redispatch
         /\ stuck' => current' = Filled /\ retval' = 0 /\ rx' = rx
PROOF
<1>1. /\ Iterating /\ Stored.state = sw_loaded_mask /\ Len(buf) - 1 >= Missing(Stored)
      /\ Redispatch /\ current' = CurrentAfter(Filled, HandlerOf(Decoded(Filled)))
      /\ buf' = Remainder /\ needs_more' = FALSE /\ result' = retval'
      /\ call' = IF retval' = -1 THEN "exit" ELSE "loop"
      /\ UNCHANGED <<peer, ends, wire>>
  BY CompletionIs
<1>2. /\ rx' = rx
      /\ stuck' => HandlerOf(Last(frames)) = "dispatch" /\ frames' = frames /\ retval' = 0
      /\ ~ stuck' => "PROCESSING_ERROR" \in flags'
      /\ retval' = -1 => "SENT_CLOSE" \in flags'
      /\ "CONTINUOUS" \in flags' => "CONTINUOUS" \in flags
  BY <1>1, RedispatchResults
<1>3. IInv'
  BY <1>1, NextStep DEF Next
<1>4. /\ stuck' => "PROCESSING_ERROR" \notin flags' /\ "CONNECTING" \notin flags'
      /\ "CONNECTING" \in flags' => "PROCESSING_ERROR" \notin flags'
      /\ retval' \in {0, -1} /\ stuck' \in BOOLEAN
  <2>1. stuck' => "PROCESSING_ERROR" \notin flags'
    BY <1>3 DEF IInv, StuckFrame
  <2>2. "CONNECTING" \in flags' => ~ stuck' /\ "PROCESSING_ERROR" \notin flags'
    BY <1>3 DEF IInv, FlagsAgree
  <2>3. retval' \in {0, -1} /\ stuck' \in BOOLEAN
    BY <1>3 DEF IInv, TypeOK
  <2> QED BY <2>1, <2>2, <2>3
<1>5. call = "loop" /\ "CONNECTING" \notin flags /\ "PROCESSING_ERROR" \notin flags
  BY <1>1, IterationTypes DEF StateInv
<1>6. /\ Stored \in ReadFrame /\ Stored.raw = Append(Raw, Head(buf)) /\ Stored.raw \in Seq(Byte)
      /\ Len(Stored.raw) = Len(Raw) + 1
  BY <1>1, StoredRight DEF StateInv
<1>7. /\ Remainder \in Seq(Byte) /\ FilledRaw \in Seq(Byte)
      /\ Joined(FilledRaw, Stored.raw, SubSeq(buf, 2, Missing(Stored) + 1))
      /\ Differs(Filled, Stored, Stored.state, FilledRaw, Stored.mask_offset,
                 Stored.payload_len, Stored.rawdata_sz)
      /\ Len(SubSeq(buf, 2, Missing(Stored) + 1)) \in Nat
  BY <1>1, <1>6, FilledType DEF StateInv
<1>8. Filled \in ReadFrame /\ Filled.state = sw_loaded_mask /\ Filled.raw = FilledRaw
  BY <1>1, <1>7 DEF Differs
<1>9. FilledRaw # <<>> /\ FilledRaw[1] = Last(frames).b0
  <2>1. /\ Raw # <<>> /\ Raw[1] = Last(frames).b0 /\ Raw \in Seq(Byte)
        /\ buf \in Seq(Byte) /\ buf # <<>>
    BY <1>1, OpenedRight DEF StateInv, RecvTypes, CallInv, Raw, Iterating
  <2>2. 1 \in 1..Len(Raw) /\ Len(Raw) \in Nat
    BY <2>1
  <2>3. Append(Raw, Head(buf))[1] = Raw[1]
    BY <2>1, <2>2, HeadTailProperties, AppendProperties
  <2>4. 1 \in 1..Len(Stored.raw)
    BY <1>6, <2>2
  <2>5. FilledRaw[1] = Stored.raw[1]
    BY <1>7, <2>4 DEF Joined
  <2>6. Len(FilledRaw) = Len(Stored.raw) + Len(SubSeq(buf, 2, Missing(Stored) + 1))
    BY <1>7 DEF Joined
  <2>7. Len(FilledRaw) # 0
    <3>1. \A i \in Nat, j \in Nat : i + 1 + j # 0
      OBVIOUS
    <3> QED BY ONLY <1>6, <1>7, <2>2, <2>6, <3>1, Zenon
  <2> QED BY <1>6, <2>1, <2>3, <2>5, <2>7
<1>10. HandlerOf(Decoded(Filled)) = HandlerOf(Last(frames))
  <2>1. Decoded(Filled).b0 = Last(frames).b0
    BY <1>8, <1>9 DEF Decoded
  <2> QED BY <2>1 DEF HandlerOf
<1>11. current' = IF stuck' THEN Filled ELSE NoFrame
  BY <1>1, <1>2, <1>4, <1>10 DEF CurrentAfter
<1>12. RecvTypes'
  BY <1>1, <1>4, <1>5, <1>7, <1>8, <1>11 DEF StateInv, RecvTypes
<1>13. CallInv'
  BY <1>1, <1>2, <1>4, <1>5, <1>8, <1>9, <1>11, NoFrameAssumption DEF StateInv, CallInv
<1>14. ReportInv' /\ CurrentInv' /\ ExitInv' /\ InPlace(r, lost)'
  <2>1. Aligned' = FALSE
    BY <1>2, <1>4 DEF Aligned
  <2>2. CurrentInv' /\ ExitInv' /\ InPlace(r, lost)'
    BY <2>1 DEF CurrentInv, ExitInv, InPlace
  <2>3. ReportInv'
    BY <1>1, <1>2, <1>4, <1>11 DEF ReportInv, IncompleteIsReported, MinusOneExplained
  <2> QED BY <2>2, <2>3
<1>15. PeerInv'
  BY <1>1, <1>2 DEF StateInv, PeerInv, Aligned
<1>16. Chain(r)'
  BY <1>1, ChainKept
<1> QED BY <1>1, <1>2, <1>11, <1>12, <1>13, <1>14, <1>15, <1>16 DEF StateInv

\* The frame cut from the bytes is the one the peer sent.
LEMMA CompletedRight ==
  ASSUME IInv, StateInv, NEW lost \in Seq(Byte), NEW r, Chain(r), InPlace(r, lost),
         FrameComplete, ~ stuck
  PROVE  LET p == peer[Len(rx) + 1]
         IN  /\ Len(rx) < Len(peer) /\ p \in PeerFrames
             /\ Decoded(Filled) = FrameOf(p)
             /\ Remainder \in Seq(Byte) /\ Remainder \o (wire \o lost) = r[Len(rx) + 2]
             /\ Filled \in ReadFrame /\ Filled.state = sw_loaded_mask
             /\ Filled.raw # <<>> /\ Filled.raw[1] = p.b0 /\ Filled.rawdata_sz >= 15
             /\ Len(Filled.raw) = Size(Filled) /\ Size(Filled) <= Filled.rawdata_sz
PROOF
<1> DEFINE p == peer[Len(rx) + 1]
           w == wire \o lost
           e == Encode(p)
           v == r[Len(rx) + 2]
           n == Missing(Stored)
           t == SubSeq(buf, 2, n + 1)
<1>1. Iterating /\ Stored.state = sw_loaded_mask /\ Len(buf) - 1 >= n
  BY CompletionIs
<1>2. /\ Stored \in ReadFrame /\ Stored.raw = Append(Raw, Head(buf))
      /\ Stored.raw \in Seq(Byte) /\ Tail(buf) \in Seq(Byte) /\ StoredInv(r, lost)
  BY <1>1, StoredRight DEF StateInv
<1>3. /\ Len(rx) < Len(peer) /\ HeaderState(Stored, p) /\ Len(Stored.raw) <= FrameLength(p)
      /\ Stored.rawdata_sz >= 15 /\ r[Len(rx) + 1] = Stored.raw \o (Tail(buf) \o w)
  BY <1>2 DEF StoredInv
<1>4. buf \in Seq(Byte) /\ buf # <<>> /\ wire \in Seq(Byte) /\ w \in Seq(Byte)
  BY <1>1 DEF StateInv, RecvTypes, Iterating
<1>5. /\ n \in Nat /\ Len(buf) \in Nat /\ n + 1 <= Len(buf)
      /\ t \in Seq(Byte) /\ Remainder \in Seq(Byte) /\ Len(t) = n /\ FilledRaw \in Seq(Byte)
      /\ Joined(FilledRaw, Stored.raw, t)
      /\ Differs(Filled, Stored, Stored.state, FilledRaw, Stored.mask_offset,
                 Stored.payload_len, Stored.rawdata_sz)
  BY <1>1, <1>2, FilledType DEF StateInv
<1>6. /\ Filled \in ReadFrame /\ Filled.state = sw_loaded_mask /\ Filled.raw = FilledRaw
      /\ Filled.rawdata_sz >= 15
  BY <1>1, <1>3, <1>5 DEF Differs
<1>7. p \in PeerFrames
  <2>1. Len(rx) \in Nat /\ Len(peer) \in Nat /\ peer \in Seq(PeerFrames)
    BY DEF IInv, TypeOK, StateInv, RecvTypes
  <2>2. Len(rx) + 1 \in 1..Len(peer)
    BY <1>3, <2>1
  <2> QED BY <2>1, <2>2, ElementOfSeq
<1>8. r[Len(rx) + 1] = FilledRaw \o (Remainder \o w)
  <2>1. Tail(buf) = SubSeq(buf, 2, Len(buf))
    BY <1>4, TailIsSubSeq
  <2> DEFINE k == n + 1
  <2>2. 2 \in 1..(Len(buf) + 1) /\ k \in (2 - 1)..Len(buf) /\ k + 1 = n + 2
    BY <1>5
  <2> HIDE DEF w, k
  <2>3. PartMoves(Stored.raw, buf, w, 2, k)
    BY <1>2, <1>4, <2>2, MovePart
  <2> QED BY <1>3, <2>1, <2>2, <2>3 DEF PartMoves, FilledRaw, Remainder, k
<1> HIDE DEF p
<1>9. LengthKnown(Stored, p) /\ Size(Stored) = FrameLength(p) /\ FrameLength(p) \in Nat
  BY <1>1, <1>2, <1>3, <1>7, LoadedRight
<1>10. e \in Seq(Byte) /\ Len(e) = FrameLength(p) /\ e[1] = p.b0
  BY <1>7, EncodeBytes
<1>11. Len(FilledRaw) = Len(e)
  <2>1. Len(Stored.raw) \in Nat /\ Len(FilledRaw) = Len(Stored.raw) + Len(t)
    BY <1>2, <1>5 DEF Joined
  <2>2. n = IF Len(Stored.raw) < FrameLength(p)
            THEN FrameLength(p) - Len(Stored.raw) ELSE 0
    BY <1>9 DEF Missing
  <2> DEFINE a == Len(Stored.raw)
             b == FrameLength(p)
             c == Len(FilledRaw)
  <2>3. a \in Nat /\ b \in Nat /\ c = a + n /\ a <= b /\ n = IF a < b THEN b - a ELSE 0
    BY <1>3, <1>5, <1>9, <2>1, <2>2
  <2> HIDE DEF a, b, c, n
  <2>4. c = b
    BY ONLY <2>3
  <2> QED BY <1>10, <2>4 DEF b, c
<1>12. r[Len(rx) + 1] # <<>>
  <2> DEFINE x == Remainder \o w
  <2> HIDE DEF x
  <2>0. x \in Seq(Byte)
    BY <1>4, <1>5 DEF x
  <2>1. Joined(FilledRaw \o x, FilledRaw, x)
    BY <1>5, <2>0, ConcatJoins
  <2>2. Len(FilledRaw) \in Nat /\ Len(Remainder \o w) \in Nat
    BY <1>4, <1>5
  <2>3. Len(FilledRaw) # 0
    <3>1. /\ Offset(p) \in 2..10 /\ Len(p.data) \in Nat
          /\ FrameLength(p) = Offset(p) + 4 + Len(p.data)
      BY <1>7, OffsetRange
    <3> DEFINE o == Offset(p)
               m == Len(p.data)
               l == FrameLength(p)
    <3> HIDE DEF o, m, l
    <3>2. o \in 2..10 /\ m \in Nat /\ l = o + 4 + m
      BY <3>1 DEF o, m, l
    <3>3. l # 0
      BY ONLY <3>2
    <3> QED BY <1>10, <1>11, <3>3 DEF l
  <2>4. Len(FilledRaw \o (Remainder \o w)) = Len(FilledRaw) + Len(Remainder \o w)
    BY <2>1 DEF Joined, x
  <2>5. Len(r[Len(rx) + 1]) # 0
    BY <1>8, <2>2, <2>3, <2>4
  <2> QED BY <2>5
<1>13. r[Len(rx) + 1] = e \o v /\ v \in Seq(Byte)
  BY <1>12, NextFrame DEF StateInv, p
<1>14. FilledRaw = e /\ Remainder \o w = v
  <2>1. FilledRaw \o (Remainder \o w) = e \o v /\ Remainder \o w \in Seq(Byte)
    BY <1>4, <1>5, <1>8, <1>13
  <2>2. Len(FilledRaw) <= Len(e)
    <3>1. Len(e) \in Nat
      BY <1>10
    <3> QED BY <1>11, <3>1
  <2> DEFINE x == Remainder \o w
  <2> HIDE DEF x, e, v
  <2>3. FilledRaw \o x = e \o v /\ x \in Seq(Byte)
    BY <2>1 DEF x
  <2>4. FilledRaw = e /\ x = v
    BY <1>5, <1>10, <1>11, <1>13, <2>2, <2>3, SameStart
  <2> QED BY <2>4 DEF x
<1>15. LengthKnown(Filled, p)
  BY <1>5, <1>9 DEF Differs, LengthKnown
<1>16. Decoded(Filled) = FrameOf(p)
  BY <1>6, <1>7, <1>14, <1>15, FrameDecoded
<1>17. Filled.raw # <<>>
  <2>1. Filled.raw = e /\ e \in Seq(Byte) /\ Len(e) # 0
    <3>1. /\ Offset(p) \in 2..10 /\ Len(p.data) \in Nat
          /\ FrameLength(p) = Offset(p) + 4 + Len(p.data)
      BY <1>7, OffsetRange
    <3> DEFINE o == Offset(p)
               m == Len(p.data)
               l == FrameLength(p)
    <3> HIDE DEF o, m, l
    <3>2. o \in 2..10 /\ m \in Nat /\ l = o + 4 + m
      BY <3>1 DEF o, m, l
    <3>3. l # 0
      BY ONLY <3>2
    <3> QED BY <1>6, <1>10, <1>14, <3>3 DEF l
  <2> QED BY <2>1
<1>18. Len(Filled.raw) = Size(Filled) /\ Size(Filled) <= Filled.rawdata_sz
  <2>1. FrameLength(p) <= Stored.rawdata_sz
    BY <1>1, <1>2, <1>3, <1>7, LoadedRight
  <2>2. Size(Filled) = Size(Stored) /\ Filled.rawdata_sz = Stored.rawdata_sz
    BY <1>5 DEF Differs, Size, PayloadOffset
  <2> QED BY <1>6, <1>9, <1>10, <1>11, <2>1, <2>2
<1> QED BY <1>3, <1>5, <1>6, <1>7, <1>10, <1>14, <1>16, <1>17, <1>18 DEF p

\* A frame is complete and its handler runs.
LEMMA CompleteStep ==
  ASSUME Steady, IInv, StateInv, NEW lost \in Seq(Byte), NEW r, Chain(r), InPlace(r, lost),
         FrameComplete, ~ stuck
  PROVE  /\ StateInv' /\ Chain(r)' /\ InPlace(r, lost)'
         /\ \E f \in RxFrames : Receive(f)
         /\ Len(rx') = Len(rx) + 1
         /\ stuck' => current' = Filled /\ retval' = 0
PROOF
<1> DEFINE p == peer[Len(rx) + 1]
           f == FrameOf(p)
           w == wire \o lost
<1>1. /\ Iterating /\ Receive(Decoded(Filled))
      /\ current' = CurrentAfter(Filled, HandlerOf(Decoded(Filled)))
      /\ buf' = Remainder /\ needs_more' = FALSE /\ result' = retval'
      /\ call' = IF retval' = -1 THEN "exit" ELSE "loop"
      /\ UNCHANGED <<peer, ends, wire>>
  BY CompletionIs
<1>2. /\ Len(rx) < Len(peer) /\ p \in PeerFrames /\ Decoded(Filled) = f
      /\ Remainder \in Seq(Byte) /\ Remainder \o w = r[Len(rx) + 2]
      /\ Filled \in ReadFrame /\ Filled.state = sw_loaded_mask
      /\ Filled.raw # <<>> /\ Filled.raw[1] = p.b0 /\ Filled.rawdata_sz >= 15
  BY CompletedRight
<1> HIDE DEF p, w
<1>3. f \in RxFrames /\ f.b0 = p.b0 /\ Receive(f) /\ current' = CurrentAfter(Filled, HandlerOf(f))
  BY <1>1, <1>2, PeerAssumption DEF FrameOf
<1> HIDE DEF f
<1>4. "echo" \in Callbacks => "CONTINUOUS" \notin flags
  BY DEF StateInv, CallInv
<1>5. Results(f) /\ rx' = Append(rx, f)
  BY <1>3, <1>4, ReceiveResults
<1>6. IInv'
  BY <1>3, NextStep DEF Next
<1>7. /\ stuck' => /\ "PROCESSING_ERROR" \notin flags' /\ HandlerOf(f) = "dispatch"
                   /\ frames' = Append(frames, f) /\ retval' = 0
      /\ retval' = -1 => /\ "SENT_CLOSE" \in flags'
                         /\ "PROCESSING_ERROR" \in flags' \/ f.b0 = CLOSE
      /\ "CONTINUOUS" \in flags' => "CONTINUOUS" \in flags
      /\ "CONNECTING" \in flags' => "CONNECTING" \in flags
      /\ retval' \in {0, -1} /\ stuck' \in BOOLEAN
  <2>1. stuck' => "PROCESSING_ERROR" \notin flags'
    BY <1>6 DEF IInv, StuckFrame
  <2>2. retval' \in {0, -1} /\ stuck' \in BOOLEAN
    BY <1>6 DEF IInv, TypeOK
  <2> QED BY <1>5, <2>1, <2>2 DEF Results
<1>8. call = "loop" /\ "CONNECTING" \notin flags /\ "PROCESSING_ERROR" \notin flags
  BY <1>1, IterationTypes DEF StateInv
<1>9. /\ rx \in Seq(Frame) /\ Len(rx) \in Nat /\ Len(peer) \in Nat /\ f \in Frame
      /\ peer \in Seq(PeerFrames)
  BY <1>3, FramesAssumption DEF IInv, TypeOK, StateInv, RecvTypes
<1>10. /\ Len(rx') = Len(rx) + 1
       /\ \A k \in 1..Len(rx) : rx'[k] = rx[k]
       /\ rx'[Len(rx) + 1] = f
  BY <1>5, <1>9, AppendProperties
<1>11. /\ current' \in ReadFrame \cup {NoFrame}
       /\ stuck' => current' = Filled /\ Last(frames').b0 = p.b0
       /\ "PROCESSING_ERROR" \in flags' => current' = NoFrame
       /\ ~ stuck' /\ current' # NoFrame =>
            current'.raw = <<>> /\ current'.state = sw_start /\ current'.rawdata_sz >= 15
  <2>1. CASE "PROCESSING_ERROR" \in flags'
    BY <1>3, <1>7, <2>1 DEF CurrentAfter
  <2>2. CASE "PROCESSING_ERROR" \notin flags' /\ HandlerOf(f) = "control"
    <3> DEFINE c1 == [Filled EXCEPT !.state = sw_start]
               c2 == [c1 EXCEPT !.raw = <<>>]
    <3>1. current' = c2 /\ ~ stuck'
      BY <1>3, <1>7, <2>2 DEF CurrentAfter
    <3>2. <<>> \in Seq(Byte) /\ 0 \in Nat /\ 0 \in 0..4 /\ sw_start \in 0..4
      BY DEF sw_start
    <3>3. Differs(c1, Filled, sw_start, Filled.raw, Filled.mask_offset, Filled.payload_len,
                  Filled.rawdata_sz)
      BY <1>2, <3>2, FieldSet
    <3> HIDE DEF c1
    <3>4. c1 \in ReadFrame
      BY <3>3 DEF Differs
    <3>5. Differs(c2, c1, c1.state, <<>>, c1.mask_offset, c1.payload_len, c1.rawdata_sz)
      BY <3>2, <3>4, FieldSet
    <3> HIDE DEF c2
    <3> QED BY <1>2, <2>2, <3>1, <3>3, <3>5 DEF Differs
  <2>3. CASE "PROCESSING_ERROR" \notin flags' /\ HandlerOf(f) = "continuation"
    <3>1. current' = NewFrame /\ ~ stuck'
      BY <1>3, <1>7, <2>3 DEF CurrentAfter
    <3> QED BY <2>3, <3>1, NewFrameType
  <2>4. CASE /\ "PROCESSING_ERROR" \notin flags'
             /\ HandlerOf(f) # "continuation" /\ HandlerOf(f) # "control"
    <3>1. current' = IF stuck' THEN Filled ELSE NoFrame
      BY <1>3, <2>4 DEF CurrentAfter
    <3>2. stuck' => Last(frames').b0 = p.b0
      <4> SUFFICES ASSUME stuck' PROVE Last(frames').b0 = p.b0
        OBVIOUS
      <4>1. frames' = Append(frames, f) /\ frames \in Seq(Frame)
        BY <1>7 DEF IInv, TypeOK
      <4>2. Last(frames') = f
        BY <1>9, <4>1, AppendProperties DEF Last
      <4> QED BY <1>3, <4>2
    <3> QED BY <1>2, <2>4, <3>1, <3>2
  <2> QED BY <2>1, <2>2, <2>3, <2>4
<1>12. RecvTypes'
  BY <1>1, <1>2, <1>7, <1>8, <1>11 DEF StateInv, RecvTypes
<1>13. CallInv'
  BY <1>1, <1>2, <1>4, <1>7, <1>8, <1>11, NoFrameAssumption DEF CallInv
<1>14. PeerInv'
  <2>0. Aligned
    BY <1>1 DEF Iterating, Aligned
  <2>1. \A k \in 1..Len(peer) : peer[k].b0 = CLOSE => k = Len(peer) \/ k <= Len(rx')
    <3> TAKE k \in 1..Len(peer)
    <3>1. peer[k].b0 = CLOSE => k = Len(peer) \/ k <= Len(rx)
      BY <2>0 DEF StateInv, PeerInv
    <3>2. k <= Len(rx) => k <= Len(rx')
      BY <1>9, <1>10
    <3> QED BY <3>1, <3>2
  <2>2. Len(rx') <= Len(peer)
    BY <1>2, <1>9, <1>10
  <2>3. ASSUME NEW k \in 1..Len(rx') PROVE rx'[k] = FrameOf(peer[k])
    <3>1. CASE k \in 1..Len(rx)
      BY <1>10, <3>1 DEF StateInv, PeerInv
    <3>2. CASE k = Len(rx) + 1
      BY <1>10, <3>2 DEF f, p
    <3>3. k \in 1..Len(rx) \/ k = Len(rx) + 1
      BY <1>9, <1>10
    <3> QED BY <3>1, <3>2, <3>3
  <2> QED BY <1>1, <2>1, <2>2, <2>3 DEF PeerInv
<1>15. CurrentInv'
  BY <1>11 DEF CurrentInv, Aligned
<1>16. ReportInv'
  BY <1>1, <1>7, <1>11 DEF ReportInv, IncompleteIsReported, MinusOneExplained
<1>17. ExitInv'
  <2> SUFFICES ASSUME call' = "exit", Aligned' PROVE buf' = <<>>
    BY DEF ExitInv
  <2>1. p.b0 = CLOSE
    BY <1>1, <1>3, <1>7 DEF Aligned
  <2>2. Len(rx) + 1 = Len(peer)
    <3>1. Len(rx) + 1 \in 1..Len(peer) /\ ~ (Len(rx) + 1 <= Len(rx))
      BY <1>2, <1>9
    <3>2. Aligned
      BY <1>1 DEF Iterating, Aligned
    <3> QED BY <2>1, <3>1, <3>2 DEF StateInv, PeerInv, p
  <2>3. Remainder \o w = <<>>
    <3>1. Len(rx) + 2 = Len(peer) + 1
      BY <1>9, <2>2
    <3> QED BY <1>2, <3>1 DEF Chain
  <2>4. Remainder = <<>>
    <3>1. w \in Seq(Byte)
      BY DEF w, StateInv, RecvTypes
    <3>2. Joined(Remainder \o w, Remainder, w)
      BY <1>2, <3>1, ConcatJoins
    <3>3. Len(Remainder) + Len(w) = 0 /\ Len(Remainder) \in Nat /\ Len(w) \in Nat
      BY <1>2, <2>3, <3>1, <3>2 DEF Joined
    <3>4. Len(Remainder) = 0
      BY ONLY <3>3
    <3> QED BY <1>2, <3>4
  <2> QED BY <1>1, <2>4
<1>18. InPlace(r, lost)'
  <2> SUFFICES ASSUME Aligned' PROVE r[Len(rx') + 1] = Raw' \o (buf' \o (wire' \o lost))
    BY DEF InPlace
  <2>1. Raw' = <<>>
    BY <1>11 DEF Aligned, Raw
  <2>2. Len(rx') + 1 = Len(rx) + 2
    BY <1>9, <1>10
  <2>3. <<>> \o (Remainder \o w) = Remainder \o w
    <3>1. w \in Seq(Byte)
      BY DEF w, StateInv, RecvTypes
    <3> HIDE DEF w
    <3>0. Remainder \in Seq(Byte)
      BY <1>2
    <3>2. Remainder \o w \in Seq(Byte)
      BY <3>0, <3>1
    <3> QED BY <3>2, ConcatEmptySeq
  <2> QED BY <1>1, <1>2, <2>1, <2>2, <2>3 DEF w
<1>19. Chain(r)'
  BY <1>1, ChainKept
<1> QED BY <1>3, <1>7, <1>10, <1>11, <1>12, <1>13, <1>14, <1>15, <1>16, <1>17, <1>18, <1>19
        DEF StateInv

\* handle_recv returns.
LEMMA ReturnStep ==
  ASSUME IInv, StateInv, NEW lost \in Seq(Byte), NEW r, Chain(r), InPlace(r, lost),
         Return
  PROVE  StateInv' /\ Chain(r)' /\ InPlace(r, lost)'
PROOF
<1>1. /\ call = "exit" \/ (call = "loop" /\ buf = <<>>)
      /\ call' = "none" /\ buf' = <<>>
      /\ needs_more' = (needs_more \/ (current # NoFrame /\ current.state <= sw_got_full_len))
      /\ UNCHANGED <<peer, ends, wire, current, result>>
      /\ UNCHANGED <<flags, frames, stuck, close_info, retval, made, delivered, rx>>
  BY DEF Return, vars
<1>2. RecvTypes'
  <2>1. needs_more \in BOOLEAN
    BY DEF StateInv, RecvTypes
  <2>2. needs_more' \in BOOLEAN
    BY <1>1, <2>1
  <2>3. buf' \in Seq(Byte)
    BY <1>1
  <2> QED BY <1>1, <2>2, <2>3 DEF StateInv, RecvTypes
<1>3. CallInv'
  BY <1>1 DEF StateInv, CallInv
<1>4. ReportInv'
  BY <1>1 DEF StateInv, ReportInv, IncompleteIsReported, MinusOneExplained
<1>5. PeerInv' /\ CurrentInv' /\ ExitInv'
  BY <1>1 DEF StateInv, PeerInv, CurrentInv, Aligned, ExitInv
<1>6. Chain(r)'
  BY <1>1, ChainKept
<1>7. InPlace(r, lost)'
  <2>1. Aligned => buf = <<>>
    BY <1>1 DEF StateInv, ExitInv
  <2> QED BY <1>1, <2>1 DEF InPlace, Aligned, Raw
<1> QED BY <1>2, <1>3, <1>4, <1>5, <1>6, <1>7 DEF StateInv

LEMMA IgnoringStep ==
  ASSUME IInv, StateInv, NEW lost \in Seq(Byte), NEW r, Chain(r), InPlace(r, lost),
         ReturnIgnoring
  PROVE  StateInv' /\ Chain(r)' /\ InPlace(r, lost)'
PROOF
<1>1. /\ call = "loop" /\ "PROCESSING_ERROR" \in flags
      /\ call' = "none" /\ buf' = <<>> /\ result' = 0
      /\ UNCHANGED <<peer, ends, wire, current, needs_more>>
      /\ UNCHANGED <<flags, frames, stuck, close_info, retval, made, delivered, rx>>
  BY DEF ReturnIgnoring, vars
<1>2. RecvTypes'
  BY <1>1 DEF StateInv, RecvTypes
<1>3. CallInv'
  BY <1>1 DEF StateInv, CallInv
<1>4. ReportInv'
  BY <1>1 DEF StateInv, CallInv, ReportInv, IncompleteIsReported, MinusOneExplained
<1>5. PeerInv' /\ CurrentInv' /\ ExitInv' /\ InPlace(r, lost)'
  BY <1>1 DEF StateInv, PeerInv, CurrentInv, Aligned, ExitInv, InPlace
<1>6. Chain(r)'
  BY <1>1, ChainKept
<1> QED BY <1>2, <1>3, <1>4, <1>5, <1>6 DEF StateInv

\* The host reads some of what has arrived.
LEMMA CallStep ==
  ASSUME IInv, StateInv, NEW lost \in Seq(Byte), NEW r, Chain(r), InPlace(r, lost),
         NEW n \in 1..Len(wire), RecvCall(n)
  PROVE  StateInv' /\ Chain(r)' /\ InPlace(r, lost)'
PROOF
<1>1. /\ call = "none" /\ "CONNECTED" \in flags
      /\ buf' = SubSeq(wire, 1, n) /\ wire' = SubSeq(wire, n + 1, Len(wire))
      /\ call' = "loop" /\ result' = -1
      /\ UNCHANGED <<peer, ends, current, needs_more>>
      /\ UNCHANGED <<flags, frames, stuck, close_info, retval, made, delivered, rx>>
  BY DEF RecvCall, vars
<1>2. "CONNECTING" \notin flags /\ buf = <<>>
  BY <1>1 DEF IInv, FlagsAgree, StateInv, CallInv
<1>3. wire \in Seq(Byte) /\ Raw \in Seq(Byte) /\ Len(wire) \in Nat
  BY OpenedRight DEF StateInv, RecvTypes
<1>4. buf' \in Seq(Byte) /\ buf' # <<>> /\ wire' \in Seq(Byte)
  <2>1. /\ 1 \in Nat /\ n \in Nat /\ n + 1 \in Nat /\ 1 <= n + 1 /\ n <= Len(wire) /\ 1 <= n
        /\ n - 1 + 1 = n
    BY <1>3
  <2>2. SubSeq(wire, 1, n) \in Seq(Byte) /\ Len(SubSeq(wire, 1, n)) = n
    BY <1>3, <2>1, SubSeqType
  <2>3. SubSeq(wire, n + 1, Len(wire)) \in Seq(Byte)
    BY <1>3, <2>1, SubSeqType
  <2>4. SubSeq(wire, 1, n) # <<>>
    BY <2>1, <2>2
  <2> QED BY <1>1, <2>2, <2>3, <2>4
<1>5. RecvTypes'
  BY <1>1, <1>4 DEF StateInv, RecvTypes
<1>6. CallInv'
  BY <1>1, <1>2 DEF StateInv, CallInv
<1>7. ReportInv'
  BY <1>1, <1>4 DEF ReportInv, IncompleteIsReported, MinusOneExplained
<1>8. PeerInv' /\ CurrentInv' /\ ExitInv'
  BY <1>1 DEF StateInv, PeerInv, CurrentInv, Aligned, ExitInv
<1>9. Chain(r)'
  BY <1>1, ChainKept
<1>10. InPlace(r, lost)'
  <2> SUFFICES ASSUME Aligned' PROVE r[Len(rx') + 1] = Raw' \o (buf' \o (wire' \o lost))
    BY DEF InPlace
  <2>1. r[Len(rx) + 1] = Raw \o (<<>> \o (wire \o lost))
    BY <1>1, <1>2 DEF InPlace, Aligned
  <2>2. <<>> \o (wire \o lost) = wire \o lost
    <3> DEFINE x == wire \o lost
    <3>1. x \in Seq(Byte)
      BY <1>3
    <3> HIDE DEF x
    <3>2. <<>> \o x = x
      BY <3>1, ConcatEmptySeq
    <3> QED BY <3>2 DEF x
  <2>3. wire \o lost = SubSeq(wire, 1, n) \o (SubSeq(wire, n + 1, Len(wire)) \o lost)
    <3>1. SubSeq(wire, 1, Len(wire)) = wire
      BY <1>3, SubSeqFull
    <3>2. 1 \in 1..(Len(wire) + 1) /\ n \in (1 - 1)..Len(wire)
      BY <1>3
    <3> DEFINE z == SubSeq(wire, 1, n)
    <3>3. <<>> \o z = z
      <4>1. z \in Seq(Byte)
        BY <1>1, <1>4
      <4> HIDE DEF z
      <4> QED BY <4>1, ConcatEmptySeq
    <3>4. <<>> \in Seq(Byte)
      OBVIOUS
    <3>5. PartMoves(<<>>, wire, lost, 1, n)
      BY <1>3, <3>2, <3>4, MovePart
    <3> QED BY <2>2, <3>1, <3>3, <3>5 DEF PartMoves
  <2> QED BY <1>1, <2>1, <2>2, <2>3 DEF Raw
<1> QED BY <1>5, <1>6, <1>7, <1>8, <1>9, <1>10 DEF StateInv

-----------------------------------------------------------------------------
(* The other steps.                                                        *)

LEMMA HandshakeKeeps ==
  ASSUME IInv, StateInv, NEW lost \in Seq(Byte), NEW r, Chain(r), InPlace(r, lost),
         RecvHandshake
  PROVE  StateInv' /\ Chain(r)' /\ InPlace(r, lost)'
PROOF
<1>1. /\ call = "none" /\ "CONNECTING" \in flags /\ flags' = {"CONNECTED"} /\ needs_more' = FALSE
      /\ UNCHANGED <<peer, ends, wire, buf, call, current, result>>
      /\ UNCHANGED <<frames, stuck, close_info, retval, made, delivered, rx>>
  BY DEF RecvHandshake, PopulateHandshake
<1>2. ~ stuck /\ "PROCESSING_ERROR" \notin flags /\ current = NoFrame /\ result = 0
  BY <1>1 DEF IInv, FlagsAgree, StateInv, CallInv
<1>3. RecvTypes'
  BY <1>1 DEF StateInv, RecvTypes
<1>4. CallInv'
  BY <1>1, <1>2 DEF StateInv, CallInv
<1>5. ReportInv'
  BY <1>1, <1>2 DEF ReportInv, IncompleteIsReported, MinusOneExplained
<1>6. PeerInv' /\ CurrentInv' /\ ExitInv' /\ InPlace(r, lost)'
  BY <1>1, <1>2 DEF StateInv, PeerInv, CurrentInv, Aligned, ExitInv, InPlace, Raw
<1>7. Chain(r)'
  BY <1>1, ChainKept
<1> QED BY <1>3, <1>4, <1>5, <1>6, <1>7 DEF StateInv

LEMMA AppCallStep ==
  ASSUME Steady, IInv, StateInv, NEW lost \in Seq(Byte), NEW r, Chain(r), InPlace(r, lost),
         RecvApp
  PROVE  StateInv' /\ Chain(r)' /\ InPlace(r, lost)'
PROOF
<1>1. call = "none" /\ App
      /\ UNCHANGED <<peer, ends, wire, buf, call, current, needs_more, result>>
  BY DEF RecvApp, bytes
<1>2. /\ UNCHANGED <<frames, stuck, retval, rx>>
      /\ \A x \in {"PROCESSING_ERROR", "CONNECTING", "CONNECTED"} : x \in flags' <=> x \in flags
      /\ "SENT_CLOSE" \in flags => "SENT_CLOSE" \in flags'
      /\ {"init_text", "init_binary"} \cap AppCalls = {} =>
           ("CONTINUOUS" \in flags' => "CONTINUOUS" \in flags)
  BY <1>1, AppKeeps
<1>3. RecvTypes'
  BY <1>1 DEF StateInv, RecvTypes
<1>4. CallInv'
  BY <1>1, <1>2 DEF Steady, StateInv, CallInv
<1>5. ReportInv'
  BY <1>1, <1>2 DEF StateInv, ReportInv, IncompleteIsReported, MinusOneExplained
<1>6. PeerInv' /\ CurrentInv' /\ ExitInv' /\ InPlace(r, lost)'
  BY <1>1, <1>2 DEF StateInv, PeerInv, CurrentInv, Aligned, ExitInv, InPlace, Raw
<1>7. Chain(r)'
  BY <1>1, ChainKept
<1> QED BY <1>3, <1>4, <1>5, <1>6, <1>7 DEF StateInv

LEMMA SentNat ==
  ASSUME ends \in Seq(Nat)
  PROVE  Sent \in Nat
PROOF
<1>1. CASE ends = <<>>
  BY <1>1 DEF Sent
<1>2. CASE ends # <<>>
  <2>1. Len(ends) \in 1..Len(ends)
    BY <1>2
  <2>2. ends[Len(ends)] \in Nat
    BY <2>1, ElementOfSeq
  <2> QED BY <1>2, <2>2 DEF Sent, Last
<1> QED BY <1>1, <1>2

\* The bytes sent, after one frame more.
LEMMA SentMore ==
  ASSUME ends \in Seq(Nat), NEW n \in Nat, ends' = Append(ends, Sent + n)
  PROVE  /\ Sent \in Nat /\ Sent' = Sent + n /\ ends' \in Seq(Nat) /\ Len(ends') = Len(ends) + 1
         /\ \A k \in 1..Len(ends) : ends'[k] = ends[k]
         /\ ends'[Len(ends) + 1] = Sent + n
PROOF
<1>1. Sent \in Nat
  BY SentNat
<1> DEFINE m == Sent + n
<1>2. m \in Nat /\ ends' = Append(ends, m)
  BY <1>1
<1> HIDE DEF m
<1>3. /\ ends' \in Seq(Nat) /\ Len(ends') = Len(ends) + 1
      /\ \A k \in 1..Len(ends) : ends'[k] = ends[k]
      /\ ends'[Len(ends) + 1] = m
  BY <1>2, AppendProperties
<1>4. ends' # <<>>
  BY <1>3
<1>5. Sent' = ends'[Len(ends')]
  BY <1>4 DEF Sent, Last
<1> QED BY <1>1, <1>3, <1>5 DEF m

\* The chain of the bytes, one frame longer.
LEMMA ChainLonger ==
  ASSUME RecvTypes, NEW p \in PeerFrames, NEW r, Chain(r),
         peer' = Append(peer, p), ends' = Append(ends, Sent + Len(Encode(p)))
  PROVE  \E q : Chain(q)' /\ \A j \in 1..(Len(peer) + 1) : q[j] = r[j] \o Encode(p)
PROOF
<1> DEFINE e == Encode(p)
           l == Len(peer)
           n == Len(e)
<1>0. PICK q : q = [j \in 1..(l + 2) |-> IF j <= l + 1 THEN r[j] \o e ELSE <<>>]
  OBVIOUS
<1>1. e \in Seq(Byte) /\ n \in Nat
  <2>1. e \in Seq(Byte)
    BY EncodeBytes
  <2> QED BY <2>1
<1>2. peer \in Seq(PeerFrames) /\ l \in Nat /\ ends \in Seq(Nat)
  BY DEF RecvTypes
<1>3. /\ r \in [1..(l + 1) -> Seq(Byte)] /\ r[l + 1] = <<>>
      /\ \A k \in 1..l : r[k] = Encode(peer[k]) \o r[k + 1]
      /\ \A j \in 1..(l + 1), k \in 1..(l + 1) : j <= k => Len(r[k]) <= Len(r[j])
      /\ Len(ends) = l
      /\ \A k \in 1..l : ends[k] = Sent - Len(r[k + 1])
  BY DEF Chain
<1>4. /\ peer' \in Seq(PeerFrames) /\ Len(peer') = l + 1
      /\ \A k \in 1..l : peer'[k] = peer[k]
      /\ peer'[l + 1] = p
  BY <1>2, AppendProperties
<1>5. /\ Sent \in Nat /\ Sent' = Sent + n /\ Len(ends') = l + 1
      /\ \A k \in 1..l : ends'[k] = ends[k]
      /\ ends'[l + 1] = Sent + n
  BY <1>1, <1>2, <1>3, SentMore
<1>5a. l \in Nat
  BY <1>2
<1> HIDE DEF e, n, l
<1>6. /\ l + 1 \in 1..(l + 1) /\ l + 1 \in 1..(l + 2) /\ l + 2 \in 1..(l + 2) /\ ~ (l + 2 <= l + 1)
      /\ \A j \in 1..(l + 1) : j \in 1..(l + 2) /\ j <= l + 1
      /\ \A j \in 1..l : j \in 1..(l + 1) /\ j + 1 \in 1..(l + 1)
      /\ \A j \in 1..(l + 2) : j <= l + 1 => j \in 1..(l + 1)
      /\ \A j \in 1..(l + 2) : ~ (j <= l + 1) => j = l + 2
      /\ \A j \in 1..(l + 1) : j \in 1..l \/ j = l + 1
      /\ l + 1 + 1 = l + 2
  BY ONLY <1>5a
<1>7. /\ \A j \in 1..(l + 1) : q[j] = r[j] \o e
      /\ q[l + 2] = <<>>
  BY <1>0, <1>6
<1>8. \A j \in 1..(l + 1) : r[j] \in Seq(Byte)
  BY <1>3
<1>9. q \in [1..(l + 2) -> Seq(Byte)]
  <2>1. \A j \in 1..(l + 1) : r[j] \o e \in Seq(Byte)
    BY <1>1, <1>8
  <2>2. \A j \in 1..(l + 2) : (IF j <= l + 1 THEN r[j] \o e ELSE <<>>) \in Seq(Byte)
    BY <1>6, <2>1
  <2> QED BY <1>0, <2>2
<1>10. \A j \in 1..(l + 1) : Len(r[j]) \in Nat /\ Len(q[j]) = Len(r[j]) + n
  <2> TAKE j \in 1..(l + 1)
  <2> DEFINE x == r[j]
  <2>1. x \in Seq(Byte)
    BY <1>8
  <2> HIDE DEF x
  <2>2. Joined(x \o e, x, e)
    BY <1>1, <2>1, ConcatJoins
  <2>3. Len(x \o e) = Len(x) + Len(e) /\ Len(x) \in Nat
    BY <2>1, <2>2 DEF Joined
  <2>4. q[j] = x \o e
    BY <1>7 DEF x
  <2> QED BY <2>3, <2>4 DEF x, n
<1>11. ASSUME NEW k \in 1..(l + 1) PROVE q[k] = Encode(peer'[k]) \o q[k + 1]
  <2>1. CASE k \in 1..l
    <3> DEFINE x == Encode(peer[k])
               y == r[k + 1]
    <3>1. x \in Seq(Byte)
      <4>1. k \in 1..Len(peer)
        BY <2>1 DEF l
      <4>2. peer[k] \in PeerFrames
        BY <1>2, <4>1, ElementOfSeq
      <4> QED BY <4>2, EncodeBytes
    <3>2. y \in Seq(Byte) /\ q[k + 1] = y \o e /\ q[k] = (x \o y) \o e
      BY <1>3, <1>6, <1>7, <1>8, <2>1
    <3>3. peer'[k] = peer[k]
      BY <1>4, <2>1
    <3> HIDE DEF x, y
    <3>4. SameJoin(x, y, e)
      BY <1>1, <3>1, <3>2, Grouped
    <3>5. q[k] = x \o q[k + 1]
      BY <3>2, <3>4 DEF SameJoin
    <3> QED BY <3>3, <3>5 DEF x
  <2>2. CASE k = l + 1
    <3>1. q[l + 1] = r[l + 1] \o e
      BY <1>6, <1>7
    <3>2. q[l + 1] = <<>> \o e
      BY <1>3, <3>1
    <3>3. <<>> \o e = e /\ e \o <<>> = e
      BY <1>1, ConcatEmptySeq
    <3>4. q[l + 1 + 1] = <<>>
      BY <1>6, <1>7
    <3> QED BY <1>4, <2>2, <3>2, <3>3, <3>4 DEF e
  <2> QED BY <1>6, <2>1, <2>2
<1>12. ASSUME NEW j \in 1..(l + 2), NEW k \in 1..(l + 2), j <= k PROVE Len(q[k]) <= Len(q[j])
  <2>1. CASE k <= l + 1
    <3>1. j \in 1..(l + 1) /\ k \in 1..(l + 1)
      BY <1>2, <1>12, <2>1 DEF l
    <3>2. Len(r[k]) <= Len(r[j])
      BY <1>3, <1>12, <3>1
    <3>3. Len(q[k]) = Len(r[k]) + n /\ Len(q[j]) = Len(r[j]) + n /\ Len(r[k]) \in Nat /\ Len(r[j]) \in Nat
      BY <1>10, <3>1
    <3> QED BY <1>1, <3>2, <3>3
  <2>2. CASE ~ (k <= l + 1)
    <3>1. Len(q[k]) = 0
      BY <1>6, <1>7, <2>2
    <3>2. Len(q[j]) >= 0
      <4>1. q[j] \in Seq(Byte)
        BY <1>9
      <4> QED BY <4>1
    <3> QED BY <3>1, <3>2
  <2> QED BY <2>1, <2>2
<1>13. ASSUME NEW k \in 1..(l + 1) PROVE ends'[k] = Sent' - Len(q[k + 1])
  <2>1. CASE k \in 1..l
    <3>1. /\ ends'[k] = Sent - Len(r[k + 1]) /\ k + 1 \in 1..(l + 1)
      BY <1>3, <1>5, <1>6, <2>1
    <3>2. Len(q[k + 1]) = Len(r[k + 1]) + n /\ Len(r[k + 1]) \in Nat
      BY <1>10, <3>1
    <3>3. \A a \in Nat, b \in Nat, c \in Nat : a - b = (a + c) - (b + c)
      OBVIOUS
    <3>4. Sent - Len(r[k + 1]) = (Sent + n) - (Len(r[k + 1]) + n)
      BY ONLY <1>1, <1>5, <3>2, <3>3, Zenon
    <3> QED BY ONLY <1>5, <3>1, <3>2, <3>4, Zenon
  <2>2. CASE k = l + 1
    <3>1. Len(q[k + 1]) = 0
      BY <1>6, <1>7, <2>2
    <3> QED BY <1>1, <1>5, <2>2, <3>1
  <2> QED BY <1>6, <2>1, <2>2
<1>14. Chain(q)'
  <2>1. Len(peer') + 1 = l + 2
    BY <1>4, <1>6
  <2>2. q \in [1..(Len(peer') + 1) -> Seq(Byte)] /\ q[Len(peer') + 1] = <<>>
    BY <1>7, <1>9, <2>1
  <2>3. \A k \in 1..Len(peer') : q[k] = Encode(peer'[k]) \o q[k + 1]
    BY <1>4, <1>11
  <2>4. \A j \in 1..(Len(peer') + 1), k \in 1..(Len(peer') + 1) : j <= k => Len(q[k]) <= Len(q[j])
    BY <1>12, <2>1
  <2>5. Len(ends') = Len(peer') /\ \A k \in 1..Len(peer') : ends'[k] = Sent' - Len(q[k + 1])
    BY <1>4, <1>5, <1>13
  <2> QED BY <2>2, <2>3, <2>4, <2>5 DEF Chain
<1> QED BY <1>7, <1>14 DEF e, l

\* The peer sends a frame, nothing of what it sent before being lost.
LEMMA SendingStep ==
  ASSUME IInv, StateInv, NEW r, Chain(r), InPlace(r, <<>>),
         NEW p \in PeerFrames, PeerSend(p)
  PROVE  StateInv' /\ \E q : Chain(q)' /\ InPlace(q, <<>>)'
PROOF
<1> DEFINE e == Encode(p)
           l == Len(peer)
<1>1. /\ call = "none" /\ (Aligned => \A k \in DOMAIN peer : peer[k].b0 = CLOSE => k \in DOMAIN rx)
      /\ peer' = Append(peer, p) /\ ends' = Append(ends, Sent + Len(e)) /\ wire' = wire \o e
      /\ UNCHANGED <<buf, call, current, needs_more, result>>
      /\ UNCHANGED <<flags, frames, stuck, close_info, retval, made, delivered, rx>>
  BY DEF PeerSend, vars
<1>2. RecvTypes /\ CallInv /\ ReportInv /\ PeerInv /\ CurrentInv /\ ExitInv
  BY DEF StateInv
<1>3. e \in Seq(Byte) /\ Len(e) \in Nat
  <2>1. e \in Seq(Byte)
    BY EncodeBytes
  <2> QED BY <2>1
<1>4. /\ peer \in Seq(PeerFrames) /\ l \in Nat /\ ends \in Seq(Nat) /\ wire \in Seq(Byte)
      /\ DOMAIN peer = 1..l
  BY <1>2 DEF RecvTypes
<1>5. /\ peer' \in Seq(PeerFrames) /\ Len(peer') = l + 1
      /\ \A k \in 1..l : peer'[k] = peer[k]
      /\ peer'[l + 1] = p
  BY <1>1, <1>4, AppendProperties
<1>6. Len(rx) \in Nat /\ Len(rx) <= l
  BY <1>2 DEF IInv, TypeOK, PeerInv
<1>7. PICK q : Chain(q)' /\ \A j \in 1..(l + 1) : q[j] = r[j] \o e
  BY <1>1, <1>2, ChainLonger
<1>8. RecvTypes'
  <2>1. ends' \in Seq(Nat)
    BY <1>1, <1>3, <1>4, SentMore
  <2>2. wire' \in Seq(Byte)
    BY <1>1, <1>3, <1>4
  <2> QED BY <1>1, <1>2, <1>5, <2>1, <2>2 DEF RecvTypes
<1>9. CallInv' /\ ReportInv' /\ ExitInv'
  BY <1>1, <1>2 DEF CallInv, ReportInv, IncompleteIsReported, MinusOneExplained, ExitInv, Aligned
<1> HIDE DEF e, l
<1>10. PeerInv'
  <2>1. \A k \in 1..(l + 1) : k \in 1..l \/ k = l + 1
    BY <1>4
  <2>2. Aligned => \A k \in 1..Len(peer') : peer'[k].b0 = CLOSE => k = Len(peer') \/ k <= Len(rx)
    <3> SUFFICES ASSUME Aligned, NEW k \in 1..Len(peer'), peer'[k].b0 = CLOSE
                 PROVE  k = Len(peer') \/ k <= Len(rx)
      OBVIOUS
    <3>1. CASE k \in 1..l
      <4>1. k \in DOMAIN rx
        BY <1>1, <1>4, <1>5, <3>1
      <4>2. rx \in Seq(Frame)
        BY DEF IInv, TypeOK
      <4> QED BY <4>1, <4>2
    <3> QED BY <1>5, <2>1, <3>1
  <2>3. Len(rx) <= Len(peer') /\ \A k \in 1..Len(rx) : k \in 1..l
    BY <1>4, <1>5, <1>6
  <2>4. \A k \in 1..Len(rx) : rx[k] = FrameOf(peer'[k])
    BY <1>2, <1>5, <2>3 DEF PeerInv
  <2> QED BY <1>1, <2>2, <2>3, <2>4 DEF PeerInv, Aligned
<1>11. CurrentInv'
  <2>1. Aligned' = Aligned
    BY <1>1 DEF Aligned
  <2>2. Len(rx) < l => Len(rx) < Len(peer') /\ peer'[Len(rx) + 1] = peer[Len(rx) + 1]
    <3> SUFFICES ASSUME Len(rx) < l PROVE Len(rx) < Len(peer') /\ peer'[Len(rx) + 1] = peer[Len(rx) + 1]
      OBVIOUS
    <3>1. Len(rx) + 1 \in 1..l /\ Len(rx) < l + 1
      BY <1>4, <1>6
    <3> QED BY <1>5, <3>1
  <2> QED BY <1>1, <1>2, <2>1, <2>2 DEF CurrentInv, l
<1>12. InPlace(q, <<>>)'
  <2> SUFFICES ASSUME Aligned' PROVE q[Len(rx') + 1] = Raw' \o (buf' \o (wire' \o <<>>))
    BY DEF InPlace
  <2> DEFINE k == Len(rx) + 1
             s == Raw
  <2>1. k \in 1..(l + 1)
    BY <1>4, <1>6
  <2>2. buf = <<>> /\ s \in Seq(Byte)
    BY <1>1, <1>2, OpenedRight DEF CallInv
  <2>3. <<>> \o wire = wire /\ wire \o <<>> = wire
    BY <1>4, ConcatEmptySeq
  <2>4. r[k] = s \o wire
    <3>1. r[k] = s \o (buf \o (wire \o <<>>))
      BY <1>1 DEF InPlace, Aligned
    <3> QED BY <2>2, <2>3, <3>1
  <2>5. wire' \in Seq(Byte)
    BY <1>1, <1>3, <1>4
  <2>6. <<>> \o wire' = wire' /\ wire' \o <<>> = wire'
    BY <2>5, ConcatEmptySeq
  <2>7. Raw' = s
    BY <1>1 DEF Raw
  <2> HIDE DEF k, s
  <2>8. SameJoin(s, wire, e)
    BY <1>3, <1>4, <2>2, Grouped
  <2>9. q[k] = s \o wire'
    BY <1>1, <1>7, <2>1, <2>4, <2>8 DEF SameJoin
  <2> QED BY <1>1, <2>2, <2>6, <2>7, <2>9 DEF k
<1> QED BY <1>7, <1>8, <1>9, <1>10, <1>11, <1>12 DEF StateInv

\* The peer falls silent: some of what is on its way never arrives.
LEMMA SilentStep ==
  ASSUME IInv, StateInv, NEW r, Chain(r), InPlace(r, <<>>),
         call = "none", NEW n \in 0..Len(wire), wire' = SubSeq(wire, 1, n),
         UNCHANGED <<vars, peer, ends, buf, call, current, needs_more, result>>
  PROVE  /\ StateInv' /\ Chain(r)'
         /\ \E lost \in Seq(Byte) : lost = SubSeq(wire, n + 1, Len(wire)) /\ InPlace(r, lost)'
PROOF
<1> DEFINE lost == SubSeq(wire, n + 1, Len(wire))
<1>1. UNCHANGED <<flags, frames, stuck, close_info, retval, made, delivered, rx>>
  BY DEF vars
<1>2. RecvTypes /\ CallInv /\ ReportInv /\ PeerInv /\ CurrentInv /\ ExitInv
  BY DEF StateInv
<1>3. wire \in Seq(Byte) /\ Raw \in Seq(Byte) /\ Len(wire) \in Nat /\ buf = <<>>
  BY <1>2, OpenedRight DEF RecvTypes, CallInv
<1>4. wire' \in Seq(Byte) /\ lost \in Seq(Byte)
  <2>1. 1 \in Nat /\ n \in Nat /\ n + 1 \in Nat /\ 1 <= n + 1 /\ n <= Len(wire) /\ 1 <= 1
    BY <1>3
  <2>2. SubSeq(wire, 1, n) \in Seq(Byte)
    BY <1>3, <2>1, SubSeqType
  <2>3. SubSeq(wire, n + 1, Len(wire)) \in Seq(Byte)
    BY <1>3, <2>1, SubSeqType
  <2> QED BY <2>2, <2>3
<1>5. RecvTypes'
  BY <1>2, <1>4 DEF RecvTypes
<1>6. CallInv' /\ ReportInv' /\ PeerInv' /\ CurrentInv' /\ ExitInv'
  BY <1>1, <1>2 DEF CallInv, ReportInv, IncompleteIsReported, MinusOneExplained, PeerInv,
                    CurrentInv, ExitInv, Aligned
<1>7. Chain(r)'
  BY ChainKept
<1>8. PICK gone \in Seq(Byte) : gone = lost
  BY <1>4
<1>9. InPlace(r, gone)'
  <2> SUFFICES ASSUME Aligned' PROVE r[Len(rx') + 1] = Raw' \o (buf' \o (wire' \o gone))
    BY DEF InPlace
  <2>1. r[Len(rx) + 1] = Raw \o (buf \o (wire \o <<>>))
    BY <1>1 DEF InPlace, Aligned
  <2>2. wire \o <<>> = wire
    BY <1>3, ConcatEmptySeq
  <2>3. wire = wire' \o gone
    <3>1. SubSeq(wire, 1, Len(wire)) = wire
      BY <1>3, SubSeqFull
    <3>2. 1 \in 1..(Len(wire) + 1) /\ n \in (1 - 1)..Len(wire) /\ <<>> \in Seq(Byte)
      BY <1>3
    <3> DEFINE z == SubSeq(wire, 1, n)
    <3>3. <<>> \o z = z
      <4>1. z \in Seq(Byte)
        BY <1>4
      <4> HIDE DEF z
      <4> QED BY <4>1, ConcatEmptySeq
    <3>4. PartMoves(<<>>, wire, <<>>, 1, n)
      BY <1>3, <3>2, MovePart
    <3> DEFINE y == SubSeq(wire, n + 1, Len(wire))
    <3>5. y \o <<>> = y
      <4>1. y \in Seq(Byte)
        BY <1>4
      <4> HIDE DEF y
      <4> QED BY <4>1, ConcatEmptySeq
    <3>6. <<>> \o wire = wire
      BY <1>3, ConcatEmptySeq
    <3> QED BY <1>8, <2>2, <3>1, <3>3, <3>4, <3>5, <3>6 DEF PartMoves
  <2> QED BY <1>1, <2>1, <2>2, <2>3 DEF Raw
<1> QED BY <1>5, <1>6, <1>7, <1>8, <1>9 DEF StateInv

-----------------------------------------------------------------------------
(* A frame left in place.                                                  *)

LEMMA LeftTypes ==
  ASSUME IInv, StateInv, NEW r, Chain(r)
  PROVE  /\ Len(rx) \in Nat /\ Len(peer) \in Nat /\ Len(buf) \in Nat /\ Len(wire) \in Nat
         /\ Sent \in Nat
         /\ \A k \in 1..Len(peer) : ends[k] \in Nat
         /\ \A c \in ReadFrame : Size(c) \in Nat /\ Len(c.raw) \in Nat
PROOF
<1>1. /\ rx \in Seq(Frame) /\ peer \in Seq(PeerFrames) /\ buf \in Seq(Byte) /\ wire \in Seq(Byte)
      /\ ends \in Seq(Nat) /\ Len(ends) = Len(peer)
  BY DEF IInv, TypeOK, StateInv, RecvTypes, Chain
<1>2. \A k \in 1..Len(peer) : ends[k] \in Nat
  BY <1>1, ElementOfSeq
<1>3. Sent \in Nat
  BY <1>1, SentNat
<1>4. \A c \in ReadFrame : Size(c) \in Nat /\ Len(c.raw) \in Nat
  <2> TAKE c \in ReadFrame
  <2>1. c.raw \in Seq(Byte) /\ c.mask_offset \in Nat /\ c.payload_len \in Nat
    BY ReadFrameType
  <2> QED BY <2>1 DEF Size, PayloadOffset, MASK_LENGTH
<1> QED BY <1>1, <1>2, <1>3, <1>4

\* Another byte of a frame left in place changes only its bytes.
SameSize(d, c) == Size(d) = Size(c) /\ d.rawdata_sz = c.rawdata_sz

LEMMA StoredOfLeft ==
  ASSUME RecvTypes, CallInv, CurrentInv, Iterating, stuck
  PROVE  SameSize(Stored, current) /\ Raw = current.raw /\ current \in ReadFrame
PROOF
<1> DEFINE s == Append(current.raw, Head(buf))
           d == [current EXCEPT !.raw = s]
<1>1. current # NoFrame /\ current.state = sw_loaded_mask /\ current \in ReadFrame
  BY DEF CallInv, RecvTypes
<1>2. s \in Seq(Byte)
  <2>1. buf \in Seq(Byte) /\ buf # <<>> /\ current.raw \in Seq(Byte)
    BY <1>1, ReadFrameType DEF RecvTypes, Iterating
  <2>2. Head(buf) \in Byte
    BY <2>1, HeadTailProperties
  <2> QED BY <2>1, <2>2, AppendProperties
<1> HIDE DEF s
<1>3. Differs(d, current, current.state, s, current.mask_offset, current.payload_len,
              current.rawdata_sz)
  <2>1. 0 \in Nat /\ 0 \in 0..4
    OBVIOUS
  <2> QED BY <1>1, <1>2, <2>1, FieldSet
<1>4. Stored = IF d.state = sw_loaded_mask THEN d ELSE ReadHeader(d)
  BY <1>1 DEF Stored, s
<1> HIDE DEF d
<1>5. Stored = d
  BY <1>1, <1>3, <1>4 DEF Differs
<1>6. SameSize(Stored, current)
  BY <1>3, <1>5 DEF Differs, SameSize, Size, PayloadOffset
<1> QED BY <1>1, <1>6 DEF Raw

\* What has been looked at is stored, whether the frame is handled again or not.
LEMMA LeftPayload ==
  ASSUME IInv, StateInv, NEW lost \in Seq(Byte), LeftInv(lost), NEW r, Chain(r),
         InPlace(r, lost), PayloadIncomplete
  PROVE  LeftInv(lost)'
PROOF
<1> DEFINE s == Stored.raw \o Tail(buf)
<1>1. /\ Iterating /\ current' = [Stored EXCEPT !.raw = @ \o Tail(buf)] /\ buf' = <<>>
      /\ Stored.state = sw_loaded_mask
      /\ UNCHANGED <<peer, ends, wire, call>> /\ UNCHANGED <<stuck, rx>>
  BY DEF PayloadIncomplete, vars
<1>2. /\ Stored \in ReadFrame /\ Stored.raw \in Seq(Byte) /\ Len(Stored.raw) = Len(Raw) + 1
      /\ Tail(buf) \in Seq(Byte)
  BY <1>1, StoredRight DEF StateInv
<1>3. Sent' = Sent
  BY <1>1 DEF Sent
<1> SUFFICES ASSUME stuck
             PROVE  /\ Size(current') <= current'.rawdata_sz
                    /\ Len(current'.raw) + (Len(<<>>) + (Len(wire) + Len(lost))) =
                         Size(current') + (Sent - ends[Len(rx)])
  BY <1>1, <1>3 DEF LeftInv
<1>4. SameSize(Stored, current) /\ Raw = current.raw /\ current \in ReadFrame
  BY <1>1, StoredOfLeft DEF StateInv
<1>5. s \in Seq(Byte) /\ Joined(s, Stored.raw, Tail(buf))
  <2>1. s \in Seq(Byte)
    BY <1>2
  <2> QED BY <1>2, <2>1, ConcatJoins
<1>6. Differs(current', Stored, Stored.state, s, Stored.mask_offset, Stored.payload_len,
              Stored.rawdata_sz)
  <2>1. 0 \in Nat /\ 0 \in 0..4 /\ current' = [Stored EXCEPT !.raw = s]
    BY <1>1
  <2> HIDE DEF s
  <2> QED BY <1>2, <1>5, <2>1, FieldSet
<1> HIDE DEF s
<1>7. SameSize(current', current) /\ current'.raw = s
  BY <1>4, <1>6 DEF Differs, SameSize, Size, PayloadOffset
<1>8. Len(s) = Len(current.raw) + Len(buf) /\ Len(buf) \in Nat
  <2>1. Len(Tail(buf)) = Len(buf) - 1 /\ Len(buf) \in Nat
    <3>1. buf \in Seq(Byte) /\ buf # <<>>
      BY <1>1 DEF StateInv, RecvTypes, Iterating
    <3> QED BY <3>1, HeadTailProperties
  <2>2. Len(s) = Len(Stored.raw) + Len(Tail(buf))
    BY <1>5 DEF Joined
  <2>3. Len(current.raw) \in Nat
    BY <1>4, LeftTypes
  <2> DEFINE a == Len(s)
             b == Len(current.raw)
             c == Len(buf)
             d == Len(Stored.raw)
             k == Len(Tail(buf))
  <2>4. b \in Nat /\ c \in Nat /\ a = d + k /\ d = b + 1 /\ k = c - 1
    BY <1>2, <1>4, <2>1, <2>2, <2>3
  <2> HIDE DEF a, b, c, d, k
  <2>5. a = b + c
    BY ONLY <2>4
  <2> QED BY <2>1, <2>5 DEF a, b, c
<1>9. /\ Size(current) <= current.rawdata_sz
      /\ Len(current.raw) + (Len(buf) + (Len(wire) + Len(lost))) = Size(current) + (Sent - ends[Len(rx)])
  BY DEF LeftInv
<1>10. Size(current') = Size(current) /\ current'.rawdata_sz = current.rawdata_sz
  BY <1>7 DEF SameSize
<1>11. Len(s) + (0 + (Len(wire) + Len(lost))) = Len(current.raw) + (Len(buf) + (Len(wire) + Len(lost)))
  <2>1. Len(current.raw) \in Nat /\ Len(wire) \in Nat /\ Len(lost) \in Nat
    BY <1>4, LeftTypes
  <2> DEFINE a == Len(s)
             b == Len(current.raw)
             c == Len(buf)
             d == Len(wire)
             k == Len(lost)
  <2>2. b \in Nat /\ c \in Nat /\ d \in Nat /\ k \in Nat /\ a = b + c
    BY <1>8, <2>1
  <2> HIDE DEF a, b, c, d, k
  <2>3. a + (0 + (d + k)) = b + (c + (d + k))
    BY ONLY <2>2
  <2> QED BY <2>3 DEF a, b, c, d, k
<1>12. Len(<<>>) = 0
  OBVIOUS
<1> QED BY <1>7, <1>9, <1>10, <1>11, <1>12

\* The complete frame is the stored one and the bytes it missed; the others are
\* left to look at.
LEMMA FilledLengths ==
  ASSUME IInv, StateInv, NEW lost \in Seq(Byte), NEW r, Chain(r), InPlace(r, lost), FrameComplete
  PROVE  /\ Filled \in ReadFrame /\ SameSize(Filled, Stored)
         /\ Len(Filled.raw) \in Nat /\ Len(Remainder) \in Nat
         /\ Len(Filled.raw) + Len(Remainder) = Len(Raw) + Len(buf)
PROOF
<1>1. Iterating /\ Stored.state = sw_loaded_mask /\ Len(buf) - 1 >= Missing(Stored)
  BY CompletionIs
<1>2. /\ Stored \in ReadFrame /\ Stored.raw \in Seq(Byte) /\ Len(Stored.raw) = Len(Raw) + 1
      /\ Raw \in Seq(Byte)
  BY <1>1, StoredRight, OpenedRight DEF StateInv
<1>3. /\ Missing(Stored) \in Nat /\ Len(buf) \in Nat /\ Missing(Stored) + 1 <= Len(buf)
      /\ Len(SubSeq(buf, 2, Missing(Stored) + 1)) = Missing(Stored)
      /\ Joined(FilledRaw, Stored.raw, SubSeq(buf, 2, Missing(Stored) + 1))
      /\ Differs(Filled, Stored, Stored.state, FilledRaw, Stored.mask_offset,
                 Stored.payload_len, Stored.rawdata_sz)
  BY <1>1, <1>2, FilledType DEF StateInv
<1>4. Filled \in ReadFrame /\ SameSize(Filled, Stored) /\ Filled.raw = FilledRaw
  BY <1>3 DEF Differs, SameSize, Size, PayloadOffset
<1> DEFINE n == Missing(Stored)
           a == Len(FilledRaw)
           b == Len(Remainder)
           c == Len(Raw)
           d == Len(buf)
<1>5. a = Len(Stored.raw) + n /\ c \in Nat /\ Len(Stored.raw) = c + 1 /\ n \in Nat /\ d \in Nat
      /\ n + 1 <= d
  BY <1>2, <1>3 DEF Joined
<1>6. b = IF n + 2 <= d THEN d - (n + 2) + 1 ELSE 0
  <2>1. buf \in Seq(Byte)
    BY DEF StateInv, RecvTypes
  <2> HIDE DEF n
  <2>2. n + 2 \in Nat /\ 1 <= n + 2 /\ Len(buf) \in Nat /\ Len(buf) <= Len(buf)
    BY <1>5
  <2>3. Len(SubSeq(buf, n + 2, Len(buf))) = IF n + 2 <= Len(buf) THEN Len(buf) - (n + 2) + 1 ELSE 0
    BY <2>1, <2>2, SubSeqType
  <2> QED BY <2>3 DEF Remainder, n
<1> HIDE DEF n, a, b, c, d
<1>7. a \in Nat /\ b \in Nat /\ a + b = c + d
  BY <1>5, <1>6
<1> QED BY <1>4, <1>7 DEF a, b, c, d

LEMMA LeftComplete ==
  ASSUME Steady, IInv, StateInv, NEW lost \in Seq(Byte), LeftInv(lost), NEW r, Chain(r),
         InPlace(r, lost), FrameComplete
  PROVE  LeftInv(lost)'
PROOF
<1>1. /\ buf' = Remainder /\ call' = (IF retval' = -1 THEN "exit" ELSE "loop")
      /\ UNCHANGED <<peer, ends, wire>> /\ Iterating
  BY CompletionIs
<1>2. stuck' => /\ current' = Filled /\ retval' = 0
                /\ IF stuck THEN rx' = rx ELSE Len(rx') = Len(rx) + 1
  <2>1. CASE stuck
    BY <2>1, AgainStep
  <2>2. CASE ~ stuck
    BY <2>2, CompleteStep
  <2> QED BY <2>1, <2>2
<1>3. Sent' = Sent
  BY <1>1 DEF Sent
<1> DEFINE k == IF stuck THEN Len(rx) ELSE Len(rx) + 1
<1>0. stuck' => Len(rx') = k /\ current' = Filled /\ call' = "loop"
  BY <1>1, <1>2
<1> SUFFICES ASSUME stuck'
             PROVE  /\ k \in 1..Len(peer)
                    /\ Size(Filled) <= Filled.rawdata_sz
                    /\ Len(Filled.raw) + (Len(Remainder) + (Len(wire) + Len(lost))) =
                         Size(Filled) + (Sent - ends[k])
  <2> HIDE DEF k
  <2>1. ~ stuck' => LeftInv(lost)'
    BY DEF LeftInv
  <2>2. stuck' => /\ (call' = "exit" => ~ stuck')
                  /\ (LeftInv(lost)' <=> /\ k \in 1..Len(peer)
                                        /\ Size(Filled) <= Filled.rawdata_sz
                                        /\ Len(Filled.raw) + (Len(Remainder) + (Len(wire) + Len(lost))) =
                                             Size(Filled) + (Sent - ends[k]))
    BY <1>0, <1>1, <1>3 DEF LeftInv
  <2> QED BY <2>1, <2>2
<1>4. /\ Filled \in ReadFrame /\ SameSize(Filled, Stored)
      /\ Len(Filled.raw) \in Nat /\ Len(Remainder) \in Nat
      /\ Len(Filled.raw) + Len(Remainder) = Len(Raw) + Len(buf)
  BY FilledLengths
<1>5. /\ Len(rx) \in Nat /\ Len(peer) \in Nat /\ Len(buf) \in Nat /\ Len(wire) \in Nat
      /\ Sent \in Nat /\ (\A j \in 1..Len(peer) : ends[j] \in Nat) /\ Len(lost) \in Nat
      /\ Size(Filled) \in Nat
  BY <1>4, LeftTypes
<1>6. CASE stuck
  <2>1. /\ Len(rx) \in 1..Len(peer) /\ Size(current) <= current.rawdata_sz
        /\ Len(current.raw) + (Len(buf) + (Len(wire) + Len(lost))) = Size(current) + (Sent - ends[Len(rx)])
    BY <1>6 DEF LeftInv
  <2>2. SameSize(Stored, current) /\ Raw = current.raw /\ current \in ReadFrame
    BY <1>1, <1>6, StoredOfLeft DEF StateInv
  <2>3. Size(Filled) = Size(current) /\ Filled.rawdata_sz = current.rawdata_sz
    BY <1>4, <2>2 DEF SameSize
  <2>4. Len(current.raw) \in Nat
    BY <2>2, LeftTypes
  <2> DEFINE a == Len(Filled.raw)
             b == Len(Remainder)
             c == Len(current.raw)
             d == Len(buf)
             e == Len(wire)
             f == Len(lost)
  <2>5. /\ a \in Nat /\ b \in Nat /\ c \in Nat /\ d \in Nat /\ e \in Nat /\ f \in Nat
        /\ a + b = c + d
    BY <1>4, <1>5, <2>2, <2>4
  <2> HIDE DEF a, b, c, d, e, f
  <2>6. a + (b + (e + f)) = c + (d + (e + f))
    BY ONLY <2>5
  <2>7. Len(Filled.raw) + (Len(Remainder) + (Len(wire) + Len(lost))) =
          Len(current.raw) + (Len(buf) + (Len(wire) + Len(lost)))
    BY <2>6 DEF a, b, c, d, e, f
  <2> QED BY <1>6, <2>1, <2>3, <2>7
<1>7. CASE ~ stuck
  <2>1. /\ Len(rx) < Len(peer) /\ Remainder \in Seq(Byte)
        /\ Remainder \o (wire \o lost) = r[Len(rx) + 2]
        /\ Len(Filled.raw) = Size(Filled) /\ Size(Filled) <= Filled.rawdata_sz
    BY <1>7, CompletedRight
  <2>2. k = Len(rx) + 1 /\ k \in 1..Len(peer) /\ k + 1 = Len(rx) + 2
    BY <1>5, <1>7, <2>1
  <2>3. ends[k] = Sent - Len(r[k + 1])
    BY <2>2 DEF Chain
  <2>4. Len(r[Len(rx) + 2]) = Len(Remainder) + (Len(wire) + Len(lost))
    <3>1. wire \in Seq(Byte) /\ wire \o lost \in Seq(Byte) /\ Joined(wire \o lost, wire, lost)
      <4>1. wire \in Seq(Byte)
        BY DEF StateInv, RecvTypes
      <4>2. Joined(wire \o lost, wire, lost)
        BY <4>1, ConcatJoins
      <4> QED BY <4>1, <4>2
    <3> DEFINE w == wire \o lost
    <3>2. w \in Seq(Byte) /\ Len(w) = Len(wire) + Len(lost)
      BY <3>1 DEF Joined
    <3> HIDE DEF w
    <3>3. Joined(Remainder \o w, Remainder, w)
      BY <2>1, <3>2, ConcatJoins
    <3> QED BY <2>1, <3>2, <3>3 DEF Joined, w
  <2> HIDE DEF k
  <2>5. Sent - ends[k] = Len(Remainder) + (Len(wire) + Len(lost))
    <3> DEFINE a == Len(Remainder) + (Len(wire) + Len(lost))
               b == Sent
    <3>1. a \in Nat /\ b \in Nat
      BY <1>4, <1>5
    <3>2. ends[k] = b - a
      BY <2>2, <2>3, <2>4
    <3> HIDE DEF a, b
    <3>3. b - (b - a) = a
      BY ONLY <3>1
    <3> QED BY <3>2, <3>3 DEF a, b
  <2> QED BY <2>1, <2>2, <2>5
<1> QED BY <1>6, <1>7

\* What handle_recv does to a frame left in place.
LEMMA LeftHandled ==
  ASSUME Steady, IInv, StateInv, NEW lost \in Seq(Byte), LeftInv(lost), NEW r, Chain(r),
         InPlace(r, lost), HandleRecv
  PROVE  LeftInv(lost)'
PROOF
<1>1. CASE HeaderIncomplete
  <2>1. Iterating /\ Stored.state # sw_loaded_mask /\ UNCHANGED stuck
    BY <1>1 DEF HeaderIncomplete, vars
  <2>2. ~ stuck
    BY <2>1, StoredRight DEF StateInv
  <2> QED BY <2>1, <2>2 DEF LeftInv
<1>2. CASE PayloadIncomplete
  BY <1>2, LeftPayload
<1>3. CASE FrameComplete
  BY <1>3, LeftComplete
<1>4. CASE ReturnIgnoring
  <2>1. "PROCESSING_ERROR" \in flags /\ UNCHANGED stuck
    BY <1>4 DEF ReturnIgnoring, vars
  <2>2. ~ stuck
    BY <2>1 DEF IInv, StuckFrame
  <2> QED BY <2>1, <2>2 DEF LeftInv
<1>5. CASE Return
  <2>1. /\ call = "exit" \/ (call = "loop" /\ buf = <<>>)
        /\ call' = "none" /\ buf' = <<>>
        /\ UNCHANGED <<peer, ends, wire, current>> /\ UNCHANGED <<stuck, rx>>
    BY <1>5 DEF Return, vars
  <2>2. Sent' = Sent /\ (stuck => buf' = buf)
    BY <2>1 DEF Sent, LeftInv
  <2> QED BY <2>1, <2>2 DEF LeftInv
<1> QED BY <1>1, <1>2, <1>3, <1>4, <1>5 DEF HandleRecv

\* The bytes that move from the wire to handle_recv.
LEMMA LeftCall ==
  ASSUME IInv, StateInv, NEW lost \in Seq(Byte), LeftInv(lost), NEW r, Chain(r),
         NEW n \in 1..Len(wire), RecvCall(n)
  PROVE  LeftInv(lost)'
PROOF
<1>1. /\ call = "none" /\ call' = "loop"
      /\ buf' = SubSeq(wire, 1, n) /\ wire' = SubSeq(wire, n + 1, Len(wire))
      /\ UNCHANGED <<peer, ends, current>> /\ UNCHANGED <<stuck, rx>>
  BY DEF RecvCall, vars
<1>2. Sent' = Sent
  BY <1>1 DEF Sent
<1>3. buf = <<>> /\ wire \in Seq(Byte) /\ Len(wire) \in Nat /\ Len(lost) \in Nat /\ n \in Nat
      /\ n <= Len(wire) /\ 1 <= n
  <2>1. buf = <<>> /\ wire \in Seq(Byte)
    BY <1>1 DEF StateInv, CallInv, RecvTypes
  <2> QED BY <2>1
<1>4. Len(buf') = n /\ Len(wire') = Len(wire) - n
  <2>1. 1 \in Nat /\ n + 1 \in Nat /\ 1 <= n + 1 /\ 1 <= 1 /\ Len(wire) <= Len(wire)
    BY <1>3
  <2>2. Len(SubSeq(wire, 1, n)) = IF 1 <= n THEN n - 1 + 1 ELSE 0
    BY <1>3, <2>1, SubSeqType
  <2>3. Len(SubSeq(wire, n + 1, Len(wire))) = IF n + 1 <= Len(wire) THEN Len(wire) - (n + 1) + 1 ELSE 0
    BY <1>3, <2>1, SubSeqType
  <2> DEFINE l == Len(wire)
             a == Len(SubSeq(wire, 1, n))
             b == Len(SubSeq(wire, n + 1, Len(wire)))
  <2>4. a = (IF 1 <= n THEN n - 1 + 1 ELSE 0) /\ b = IF n + 1 <= l THEN l - (n + 1) + 1 ELSE 0
    BY <2>2, <2>3
  <2>5. l \in Nat /\ n \in Nat /\ n <= l /\ 1 <= n
    BY <1>3
  <2> HIDE DEF l, a, b
  <2>6. a = n /\ b = l - n
    BY ONLY <2>4, <2>5
  <2> QED BY <1>1, <2>6 DEF l, a, b
<1>5. Len(buf') + (Len(wire') + Len(lost)) = Len(buf) + (Len(wire) + Len(lost))
  <2>1. Len(buf) = 0
    BY <1>3
  <2> DEFINE l == Len(wire)
             a == Len(buf')
             b == Len(wire')
             c == Len(lost)
             d == Len(buf)
  <2>2. l \in Nat /\ n \in Nat /\ c \in Nat /\ a = n /\ b = l - n /\ d = 0
    BY <1>3, <1>4, <2>1
  <2> HIDE DEF l, a, b, c, d
  <2>3. a + (b + c) = d + (l + c)
    BY ONLY <2>2
  <2> QED BY <2>3 DEF l, a, b, c, d
<1> QED BY <1>1, <1>2, <1>5 DEF LeftInv

\* A frame more has been sent.
LEMMA LeftSends ==
  ASSUME IInv, StateInv, LeftInv(<<>>), NEW r, Chain(r), NEW p \in PeerFrames, PeerSend(p)
  PROVE  LeftInv(<<>>)'
PROOF
<1> DEFINE e == Encode(p)
<1>1. /\ peer' = Append(peer, p) /\ ends' = Append(ends, Sent + Len(e)) /\ wire' = wire \o e
      /\ UNCHANGED <<buf, call, current>> /\ UNCHANGED <<stuck, rx>>
  BY DEF PeerSend, vars
<1>2. /\ peer \in Seq(PeerFrames) /\ ends \in Seq(Nat) /\ wire \in Seq(Byte) /\ Len(ends) = Len(peer)
      /\ p \in PeerFrames
  BY DEF StateInv, RecvTypes, Chain
<1>3. e \in Seq(Byte) /\ Len(e) \in Nat
  <2>1. e \in Seq(Byte)
    BY EncodeBytes
  <2> QED BY <2>1
<1>4. /\ Len(rx) \in Nat /\ Len(peer) \in Nat /\ Len(buf) \in Nat /\ Len(wire) \in Nat
      /\ Sent \in Nat /\ (\A k \in 1..Len(peer) : ends[k] \in Nat)
      /\ \A c \in ReadFrame : Size(c) \in Nat /\ Len(c.raw) \in Nat
  BY LeftTypes
<1>5. Len(peer') = Len(peer) + 1
  BY <1>1, <1>2, AppendProperties
<1>6. Sent' = Sent + Len(e) /\ \A k \in 1..Len(ends) : ends'[k] = ends[k]
  BY <1>1, <1>2, <1>3, SentMore
<1>7. Len(wire') = Len(wire) + Len(e)
  <2> HIDE DEF e
  <2>1. Joined(wire \o e, wire, e)
    BY <1>2, <1>3, ConcatJoins
  <2> QED BY <1>1, <2>1 DEF Joined
<1> HIDE DEF e
<1> SUFFICES ASSUME stuck
             PROVE  /\ Len(rx) \in 1..Len(peer') /\ Size(current) <= current.rawdata_sz
                    /\ Len(current.raw) + (Len(buf) + (Len(wire') + Len(<<>>))) =
                         Size(current) + (Sent' - ends'[Len(rx)])
  BY <1>1 DEF LeftInv
<1>8. /\ Len(rx) \in 1..Len(peer) /\ Size(current) <= current.rawdata_sz
      /\ Len(current.raw) + (Len(buf) + (Len(wire) + Len(<<>>))) = Size(current) + (Sent - ends[Len(rx)])
      /\ current \in ReadFrame
  BY DEF LeftInv, StateInv, CallInv, RecvTypes
<1>9. Len(rx) \in 1..Len(peer') /\ ends'[Len(rx)] = ends[Len(rx)] /\ ends[Len(rx)] \in Nat
  BY <1>2, <1>4, <1>5, <1>6, <1>8
<1>10. Len(current.raw) + (Len(buf) + (Len(wire') + Len(<<>>))) =
         Size(current) + (Sent' - ends'[Len(rx)])
  <2> DEFINE a == Len(current.raw)
             b == Len(buf)
             c == Len(wire)
             d == Len(e)
             s == Size(current)
             m == Sent
             k == ends[Len(rx)]
             z == Len(<<>>)
             c1 == Len(wire')
             m1 == Sent'
             k1 == ends'[Len(rx)]
  <2>1. /\ a \in Nat /\ b \in Nat /\ c \in Nat /\ d \in Nat /\ s \in Nat /\ m \in Nat /\ k \in Nat
        /\ z = 0
    BY <1>3, <1>4, <1>8, <1>9
  <2>2. a + (b + (c + z)) = s + (m - k)
    BY <1>8
  <2>3. c1 = c + d /\ m1 = m + d /\ k1 = k
    BY <1>6, <1>7, <1>9
  <2> HIDE DEF a, b, c, d, s, m, k, z, c1, m1, k1
  <2>4. a + (b + (c1 + z)) = s + (m1 - k1)
    BY ONLY <2>1, <2>2, <2>3
  <2> QED BY <2>4 DEF a, b, c, s, m, k, z, c1, m1, k1
<1> QED BY <1>8, <1>9, <1>10

\* Bytes on the wire are lost.
LEMMA LeftSilent ==
  ASSUME LeftInv(<<>>), StateInv, NEW n \in 0..Len(wire), wire' = SubSeq(wire, 1, n),
         UNCHANGED <<vars, peer, ends, buf, call, current, needs_more, result>>,
         NEW gone, gone = SubSeq(wire, n + 1, Len(wire))
  PROVE  LeftInv(gone)'
PROOF
<1>1. UNCHANGED <<stuck, rx>> /\ UNCHANGED <<peer, ends, buf, call, current>> /\ Sent' = Sent
  BY DEF vars, Sent
<1>2. Len(wire') + Len(gone) = Len(wire) + Len(<<>>)
  <2>1. wire \in Seq(Byte)
    BY DEF StateInv, RecvTypes
  <2>2. /\ 1 \in Nat /\ n \in Nat /\ n + 1 \in Nat /\ 1 <= n + 1 /\ 1 <= 1 /\ n <= Len(wire)
        /\ Len(wire) <= Len(wire) /\ Len(wire) \in Nat /\ Len(<<>>) = 0
    BY <2>1
  <2>3. Len(SubSeq(wire, 1, n)) = IF 1 <= n THEN n - 1 + 1 ELSE 0
    BY <2>1, <2>2, SubSeqType
  <2>4. Len(SubSeq(wire, n + 1, Len(wire))) = IF n + 1 <= Len(wire) THEN Len(wire) - (n + 1) + 1 ELSE 0
    BY <2>1, <2>2, SubSeqType
  <2> DEFINE l == Len(wire)
             a == Len(wire')
             b == Len(gone)
             z == Len(<<>>)
  <2>5. a = (IF 1 <= n THEN n - 1 + 1 ELSE 0) /\ b = IF n + 1 <= l THEN l - (n + 1) + 1 ELSE 0
    BY <2>3, <2>4
  <2>6. l \in Nat /\ n \in Nat /\ n <= l /\ z = 0
    BY <2>2
  <2> HIDE DEF l, a, b, z
  <2>7. a + b = l + z
    BY ONLY <2>5, <2>6
  <2> QED BY <2>7 DEF l, a, b, z
<1> QED BY <1>1, <1>2 DEF LeftInv

-----------------------------------------------------------------------------
(* Every step.                                                             *)

\* One iteration of the loop, or the return, keeps the invariant, and handles
\* a frame, handles one again, or is no step of the connection.
Handled == (\E f \in RxFrames : Receive(f)) \/ Redispatch \/ UNCHANGED vars

LEMMA HandleStep ==
  ASSUME Steady, NEW lost \in Seq(Byte), RInv(lost), HandleRecv
  PROVE  RInv(lost)' /\ Handled
PROOF
<1>1. PICK r : Chain(r) /\ InPlace(r, lost)
  BY DEF RInv
<1>2. IInv /\ StateInv
  BY DEF RInv
<1>3. StateInv' /\ Chain(r)' /\ InPlace(r, lost)' /\ Handled
  <2>1. CASE HeaderIncomplete
    <3>1. UNCHANGED vars
      BY <2>1 DEF HeaderIncomplete
    <3> QED BY <1>1, <1>2, <2>1, <3>1, HeaderStep DEF Handled
  <2>2. CASE PayloadIncomplete
    <3>1. UNCHANGED vars
      BY <2>2 DEF PayloadIncomplete
    <3> QED BY <1>1, <1>2, <2>2, <3>1, PayloadStep DEF Handled
  <2>3. CASE FrameComplete /\ stuck
    <3>1. StateInv' /\ Chain(r)' /\ InPlace(r, lost)' /\ Redispatch
      BY <1>1, <1>2, <2>3, AgainStep
    <3> QED BY <3>1 DEF Handled
  <2>4. CASE FrameComplete /\ ~ stuck
    <3>1. /\ StateInv' /\ Chain(r)' /\ InPlace(r, lost)'
          /\ \E f \in RxFrames : Receive(f)
      BY <1>1, <1>2, <2>4, CompleteStep
    <3> QED BY <3>1 DEF Handled
  <2>5. CASE ReturnIgnoring
    <3>1. UNCHANGED vars
      BY <2>5 DEF ReturnIgnoring
    <3> QED BY <1>1, <1>2, <2>5, <3>1, IgnoringStep DEF Handled
  <2>6. CASE Return
    <3>1. UNCHANGED vars
      BY <2>6 DEF Return
    <3> QED BY <1>1, <1>2, <2>6, <3>1, ReturnStep DEF Handled
  <2> QED BY <2>1, <2>2, <2>3, <2>4, <2>5, <2>6 DEF HandleRecv
<1>4. IInv'
  <2>1. [Next]_vars
    BY <1>3 DEF Handled, Next
  <2> QED BY <1>2, <2>1, NextStep
<1>5. LeftInv(lost)'
  <2>1. LeftInv(lost)
    BY DEF RInv
  <2> QED BY <1>1, <1>2, <2>1, LeftHandled
<1> QED BY <1>3, <1>4, <1>5 DEF RInv

\* So does every other step of the host.
LEMMA OtherStep ==
  ASSUME Steady, NEW lost \in Seq(Byte), RInv(lost),
         \/ RecvHandshake \/ RecvApp
         \/ \E n \in 1..Len(wire) : RecvCall(n)
         \/ UNCHANGED recvVars
  PROVE  RInv(lost)' /\ [Next]_vars
PROOF
<1>1. PICK r : Chain(r) /\ InPlace(r, lost)
  BY DEF RInv
<1>2. IInv /\ StateInv
  BY DEF RInv
<1>3. StateInv' /\ Chain(r)' /\ InPlace(r, lost)' /\ [Next]_vars
  <2>1. CASE RecvHandshake
    <3>1. PopulateHandshake
      BY <2>1 DEF RecvHandshake
    <3>2. [Next]_vars
      BY <3>1 DEF Next
    <3> QED BY <1>1, <1>2, <2>1, <3>2, HandshakeKeeps
  <2>2. CASE RecvApp
    <3>1. App
      BY <2>2 DEF RecvApp
    <3>2. [Next]_vars
      BY <3>1 DEF Next
    <3> QED BY <1>1, <1>2, <2>2, <3>2, AppCallStep
  <2>3. ASSUME NEW n \in 1..Len(wire), RecvCall(n)
        PROVE  StateInv' /\ Chain(r)' /\ InPlace(r, lost)' /\ [Next]_vars
    <3>1. UNCHANGED vars
      BY <2>3 DEF RecvCall
    <3> QED BY <1>1, <1>2, <2>3, <3>1, CallStep
  <2>4. CASE UNCHANGED recvVars
    <3>1. /\ UNCHANGED <<peer, ends, wire, buf, call, current, needs_more, result>>
          /\ UNCHANGED <<flags, frames, stuck, close_info, retval, made, delivered, rx>>
          /\ UNCHANGED vars
      BY <2>4 DEF recvVars, vars, bytes
    <3>2. RecvTypes' /\ CallInv' /\ PeerInv'
      BY <1>2, <3>1 DEF StateInv, RecvTypes, CallInv, PeerInv, Aligned
    <3>3. ReportInv' /\ CurrentInv' /\ ExitInv' /\ InPlace(r, lost)'
      BY <1>1, <1>2, <3>1 DEF StateInv, ReportInv, IncompleteIsReported, MinusOneExplained,
                              CurrentInv, ExitInv, InPlace, Aligned, Raw
    <3>4. Chain(r)'
      BY <1>1, <3>1, ChainKept
    <3> QED BY <3>1, <3>2, <3>3, <3>4 DEF StateInv
  <2> QED BY <2>1, <2>2, <2>3, <2>4
<1>4. IInv'
  BY <1>2, <1>3, NextStep
<1>5. LeftInv(lost)'
  <2>1. LeftInv(lost)
    BY DEF RInv
  <2>2. CASE RecvHandshake
    <3>1. "CONNECTING" \in flags /\ stuck' = stuck
      BY <2>2 DEF RecvHandshake, PopulateHandshake
    <3>2. ~ stuck
      BY <1>2, <3>1 DEF IInv, FlagsAgree
    <3> QED BY <3>1, <3>2 DEF LeftInv
  <2>3. CASE RecvApp
    <3>1. App /\ UNCHANGED <<peer, ends, wire, buf, call, current>>
      BY <2>3 DEF RecvApp, bytes
    <3>2. UNCHANGED <<stuck, rx>>
      BY <3>1, AppKeeps
    <3> QED BY <2>1, <3>1, <3>2 DEF LeftInv, Sent
  <2>4. ASSUME NEW n \in 1..Len(wire), RecvCall(n) PROVE LeftInv(lost)'
    BY <1>1, <1>2, <2>1, <2>4, LeftCall
  <2>5. CASE UNCHANGED recvVars
    <3>1. UNCHANGED <<peer, ends, wire, buf, call, current, stuck, rx>>
      BY <2>5 DEF recvVars, vars, bytes
    <3> QED BY <2>1, <3>1 DEF LeftInv, Sent
  <2> QED BY <2>2, <2>3, <2>4, <2>5
<1> QED BY <1>3, <1>4, <1>5 DEF RInv

LEMMA SendsStep ==
  ASSUME RInv(<<>>), NEW p \in PeerFrames, PeerSend(p)
  PROVE  RInv(<<>>)' /\ [Next]_vars
PROOF
<1>1. PICK r : Chain(r) /\ InPlace(r, <<>>)
  BY DEF RInv
<1>2. IInv /\ StateInv
  BY DEF RInv
<1>3. StateInv' /\ \E q : Chain(q)' /\ InPlace(q, <<>>)'
  BY <1>1, <1>2, SendingStep
<1>4. [Next]_vars
  BY DEF PeerSend
<1>5. IInv'
  BY <1>2, <1>4, NextStep
<1>6. LeftInv(<<>>)'
  <2>1. LeftInv(<<>>)
    BY DEF RInv
  <2> QED BY <1>1, <1>2, <2>1, LeftSends
<1> QED BY <1>3, <1>4, <1>5, <1>6 DEF RInv

\* Before anything has been sent.
LEMMA InitRInv ==
  ASSUME RecvInit
  PROVE  RInv(<<>>)
PROOF
<1> DEFINE q == [k \in 1..1 |-> <<>>]
<1>1. /\ Init /\ peer = <<>> /\ ends = <<>> /\ wire = <<>> /\ buf = <<>> /\ call = "none"
      /\ current = NoFrame /\ needs_more = FALSE /\ result = 0
  BY DEF RecvInit
<1>2. IInv
  BY <1>1, InitIInv
<1>3. /\ flags = {"CONNECTING"} /\ frames = <<>> /\ stuck = FALSE /\ rx = <<>>
  BY <1>1 DEF Init
<1>4. RecvTypes
  <2>1. peer \in Seq(PeerFrames) /\ ends \in Seq(Nat) /\ wire \in Seq(Byte) /\ buf \in Seq(Byte)
    BY <1>1
  <2>2. call \in {"none", "loop", "exit"} /\ needs_more \in BOOLEAN /\ result \in {0, -1}
    BY <1>1
  <2>3. current \in ReadFrame \cup {NoFrame}
    BY <1>1
  <2> QED BY <2>1, <2>2, <2>3 DEF RecvTypes
<1>5. CallInv
  BY <1>1, <1>3 DEF CallInv
<1>6. ReportInv
  BY <1>1 DEF ReportInv, IncompleteIsReported, MinusOneExplained
<1>7. PeerInv
  BY <1>1, <1>3 DEF PeerInv
<1>8. CurrentInv /\ ExitInv
  BY <1>1 DEF CurrentInv, ExitInv
<1>9. Chain(q)
  <2>1. Len(peer) = 0 /\ Len(peer) + 1 = 1 /\ 1..0 = {} /\ Len(ends) = 0
    BY <1>1
  <2>2. q \in [1..1 -> Seq(Byte)] /\ q[1] = <<>> /\ Len(<<>>) <= Len(<<>>)
    OBVIOUS
  <2>3. \A j \in 1..1, k \in 1..1 : Len(q[k]) <= Len(q[j])
    <3>1. \A j \in 1..1 : q[j] = <<>>
      OBVIOUS
    <3> QED BY <2>2, <3>1
  <2> HIDE DEF q
  <2> QED BY <2>1, <2>2, <2>3 DEF Chain
<1>10. InPlace(q, <<>>)
  <2>1. Len(rx) + 1 = 1 /\ Raw = <<>>
    BY <1>1, <1>3 DEF Raw
  <2>2. q[1] = <<>>
    OBVIOUS
  <2>3. <<>> \o (<<>> \o (<<>> \o <<>>)) = <<>>
    <3>1. <<>> \in Seq(Byte)
      OBVIOUS
    <3>2. <<>> \o <<>> = <<>>
      BY <3>1, ConcatEmptySeq
    <3> QED BY <3>2
  <2> HIDE DEF q
  <2> QED BY <1>1, <2>1, <2>2, <2>3 DEF InPlace
<1>11. LeftInv(<<>>)
  BY <1>1, <1>3 DEF LeftInv
<1> QED BY <1>2, <1>4, <1>5, <1>6, <1>7, <1>8, <1>9, <1>10, <1>11 DEF RInv, StateInv

-----------------------------------------------------------------------------
(* The theorems.                                                           *)

LEMMA RecvStep ==
  ASSUME Steady, RInv(<<>>), [RecvNext]_recvVars
  PROVE  RInv(<<>>)' /\ [Next]_vars
PROOF
<1>1. <<>> \in Seq(Byte)
  OBVIOUS
<1>2. ASSUME NEW p \in PeerFrames, PeerSend(p) PROVE RInv(<<>>)' /\ [Next]_vars
  BY <1>2, SendsStep
<1>3. CASE HandleRecv
  <2>1. RInv(<<>>)' /\ Handled
    BY <1>1, <1>3, HandleStep
  <2> QED BY <2>1 DEF Handled, Next
<1>4. CASE \/ RecvHandshake \/ RecvApp
           \/ \E n \in 1..Len(wire) : RecvCall(n)
           \/ UNCHANGED recvVars
  BY <1>1, <1>4, OtherStep
<1> QED BY <1>2, <1>3, <1>4 DEF RecvNext

\* The bytes stored, those not looked at and those not read are always those
\* of the frames that have not been handled, from the first one on.
THEOREM BytesInPlace ==
  ASSUME Steady
  PROVE  RecvSpec => []RInv(<<>>)
PROOF
<1>1. RecvInit => RInv(<<>>)
  BY InitRInv
<1>2. RInv(<<>>) /\ [RecvNext]_recvVars => RInv(<<>>)'
  BY RecvStep
<1> QED BY <1>1, <1>2, PTL DEF RecvSpec

\* The frames handle_recv cuts from the bytes are a history of Connection,
\* however the bytes were cut into reads: what is proved of Connection is
\* true of the connection that reads them.
THEOREM FramesAreHistory ==
  ASSUME Steady
  PROVE  RecvSpec => ConnectionSpec
PROOF
<1>1. RecvInit => Init
  BY DEF RecvInit
<1>2. RInv(<<>>) /\ [RecvNext]_recvVars => [Next]_vars
  BY RecvStep
<1>3. RecvSpec => []RInv(<<>>)
  BY BytesInPlace
<1> QED BY <1>1, <1>2, <1>3, PTL DEF RecvSpec, ConnectionSpec, Spec

\* NEEDS_MORE_DATA is up whenever a call has returned in the middle of a
\* frame.
THEOREM PartialIsReported ==
  ASSUME Steady
  PROVE  RecvSpec => []IncompleteIsReported
PROOF
<1>1. RInv(<<>>) => IncompleteIsReported
  BY DEF RInv, StateInv, ReportInv
<1>2. RecvSpec => []RInv(<<>>)
  BY BytesInPlace
<1> QED BY <1>1, <1>2, PTL

\* handle_recv never returns -1 without a reason the host can see.
THEOREM MinusOneIsExplained ==
  ASSUME Steady
  PROVE  RecvSpec => []MinusOneExplained
PROOF
<1>1. RInv(<<>>) => MinusOneExplained
  BY DEF RInv, StateInv, ReportInv
<1>2. RecvSpec => []RInv(<<>>)
  BY BytesInPlace
<1> QED BY <1>1, <1>2, PTL

\* rawdata is long enough for what is stored in it.
LEMMA InvStored ==
  ASSUME RInv(<<>>)
  PROVE  StoredBytesFit
PROOF
<1>1. /\ TypeOK /\ StuckFrame /\ RecvTypes /\ CallInv /\ CurrentInv /\ PeerInv
  BY DEF RInv, IInv, StateInv
<1>2. RecvTypeOK
  BY <1>1 DEF RecvTypes, RecvTypeOK
<1>3. ASSUME current # NoFrame, ~ stuck
      PROVE  /\ Len(current.raw) <= current.rawdata_sz
             /\ current.state = sw_loaded_mask => /\ Len(current.raw) < Size(current)
                                                  /\ Size(current) <= current.rawdata_sz
  <2>1. Aligned
    BY <1>1, <1>3 DEF CallInv, Aligned
  <2>2. current \in ReadFrame /\ current.rawdata_sz >= 15
    BY <1>1, <1>3, <2>1 DEF RecvTypes, CurrentInv
  <2>3. current.raw \in Seq(Byte) /\ current.rawdata_sz \in Nat /\ Len(current.raw) \in Nat
    <3>1. current.raw \in Seq(Byte) /\ current.rawdata_sz \in Nat
      BY <2>2, ReadFrameType
    <3> QED BY <3>1
  <2>4. CASE current.raw = <<>>
    <3>1. current.state = sw_start /\ Len(current.raw) = 0
      BY <1>1, <1>3, <2>1, <2>4 DEF CurrentInv
    <3> QED BY <2>3, <3>1 DEF sw_start, sw_loaded_mask
  <2>5. CASE current.raw # <<>>
    <3> DEFINE p == peer[Len(rx) + 1]
    <3>1. /\ Len(rx) < Len(peer) /\ HeaderState(current, p) /\ Len(current.raw) < FrameLength(p)
      BY <1>1, <1>3, <2>1, <2>5 DEF CurrentInv
    <3>2. p \in PeerFrames
      <4>1. Len(rx) \in Nat /\ Len(peer) \in Nat /\ peer \in Seq(PeerFrames)
        BY <1>1 DEF TypeOK, RecvTypes
      <4>2. Len(rx) + 1 \in 1..Len(peer)
        BY <3>1, <4>1
      <4> QED BY <4>1, <4>2, ElementOfSeq
    <3> HIDE DEF p
    <3>3. CASE current.state = sw_loaded_mask
      <4>1. /\ Size(current) = FrameLength(p) /\ FrameLength(p) \in Nat
            /\ FrameLength(p) <= current.rawdata_sz
        BY <2>2, <3>1, <3>2, <3>3, LoadedRight
      <4> DEFINE a == Len(current.raw)
                 b == FrameLength(p)
                 c == current.rawdata_sz
      <4>2. a \in Nat /\ b \in Nat /\ c \in Nat /\ a < b /\ b <= c /\ Size(current) = b
        BY <2>3, <3>1, <4>1
      <4> HIDE DEF a, b, c
      <4>3. a <= c
        BY ONLY <4>2
      <4> QED BY <4>2, <4>3 DEF a, b, c
    <3>4. CASE current.state # sw_loaded_mask
      <4>1. \/ Len(current.raw) <= 1 \/ Len(current.raw) < Offset(p)
            \/ Len(current.raw) < Offset(p) + MASK_LENGTH
        BY <3>1, <3>4 DEF HeaderState
      <4>2. Offset(p) \in 2..10
        BY <3>2, OffsetRange
      <4> DEFINE a == Len(current.raw)
                 o == Offset(p)
                 c == current.rawdata_sz
      <4>3. a \in Nat /\ o \in 2..10 /\ c \in Nat /\ c >= 15 /\ (a <= 1 \/ a < o \/ a < o + 4)
        BY <2>2, <2>3, <4>1, <4>2 DEF MASK_LENGTH
      <4> HIDE DEF a, o, c
      <4>4. a <= c
        BY ONLY <4>3
      <4> QED BY <3>4, <4>4 DEF a, c
    <3> QED BY <3>3, <3>4
  <2> QED BY <2>4, <2>5
<1>4. ASSUME stuck
      PROVE  /\ Size(current) <= current.rawdata_sz
             /\ Len(current.raw) = Size(current) + (Looked - ends[Len(rx)])
  <2>1. /\ Len(rx) \in 1..Len(peer) /\ Size(current) <= current.rawdata_sz
        /\ Len(current.raw) + (Len(buf) + (Len(wire) + Len(<<>>))) =
             Size(current) + (Sent - ends[Len(rx)])
    BY <1>4 DEF RInv, LeftInv
  <2>2. current \in ReadFrame
    BY <1>1, <1>4 DEF CallInv, RecvTypes
  <2>3. /\ Len(buf) \in Nat /\ Len(wire) \in Nat /\ Sent \in Nat /\ ends[Len(rx)] \in Nat
        /\ Size(current) \in Nat /\ Len(current.raw) \in Nat
    <3>1. PICK r : Chain(r)
      BY DEF RInv
    <3> QED BY <2>1, <2>2, <3>1, LeftTypes DEF RInv
  <2> DEFINE a == Len(current.raw)
             b == Len(buf)
             c == Len(wire)
             s == Size(current)
             m == Sent
             k == ends[Len(rx)]
             z == Len(<<>>)
  <2>4. /\ a \in Nat /\ b \in Nat /\ c \in Nat /\ s \in Nat /\ m \in Nat /\ k \in Nat /\ z = 0
        /\ a + (b + (c + z)) = s + (m - k)
    BY <2>1, <2>3
  <2>5. Looked = m - c - b
    BY DEF Looked, Taken
  <2> HIDE DEF a, b, c, s, m, k, z
  <2>6. a = s + ((m - c - b) - k)
    BY ONLY <2>4
  <2> QED BY <2>1, <2>5, <2>6 DEF a, s, k
<1> QED BY <1>2, <1>3, <1>4 DEF StoredBytesFit

\* In whatever pieces a frame arrives, rawdata holds what is stored of it and,
\* once its length is known, has room for all of it: a frame reused after a
\* control frame and the fresh one of a continuation included.  A frame that
\* dispatch_message has left in place had room for all of itself, and stores
\* since, with no more room made, every byte handle_recv looks at: exactly as
\* many as the peer has sent after it and handle_recv has looked at, so that
\* rawdata holds them only while they are no more than the room left.
THEOREM StoredFits ==
  ASSUME Steady
  PROVE  RecvSpec => []StoredBytesFit
PROOF
<1>1. RInv(<<>>) => StoredBytesFit
  BY InvStored
<1>2. RecvSpec => []RInv(<<>>)
  BY BytesInPlace
<1> QED BY <1>1, <1>2, PTL

\* A sequence whose elements are the first of another is a prefix of it.
LEMMA PrefixOfElements ==
  ASSUME NEW S, NEW s \in Seq(S), NEW t \in Seq(S), Len(s) <= Len(t),
         \A i \in 1..Len(s) : s[i] = t[i]
  PROVE  IsPrefix(s, t)
PROOF
<1> DEFINE n == Len(s)
           u == SubSeq(t, 1, n)
<1>1. n \in Nat /\ 1 \in Nat /\ 1 <= 1 /\ \A i \in 1..n : 1 + i - 1 = i
  OBVIOUS
<1> HIDE DEF n
<1>2. /\ u \in Seq(S) /\ Len(u) = IF 1 <= n THEN n - 1 + 1 ELSE 0
      /\ \A i \in 1..(n - 1 + 1) : u[i] = t[1 + i - 1]
  BY <1>1, SubSeqType DEF n
<1>3. n - 1 + 1 = n /\ (IF 1 <= n THEN n - 1 + 1 ELSE 0) = n
  BY <1>1
<1>4. Len(u) = n /\ \A i \in 1..n : u[i] = s[i]
  BY <1>1, <1>2, <1>3 DEF n
<1> HIDE DEF u
<1>5. u = s
  BY <1>2, <1>4, SeqEqual DEF n
<1>6. SubSeq(s, 1, Len(s)) = s
  BY SubSeqFull
<1> QED BY <1>5, <1>6 DEF IsPrefix, u, n

LEMMA InvPrefix ==
  ASSUME IInv, StateInv
  PROVE  IsPrefix(rx, [k \in DOMAIN peer |-> FrameOf(peer[k])])
PROOF
<1> DEFINE sent == [k \in DOMAIN peer |-> FrameOf(peer[k])]
<1>1. /\ rx \in Seq(Frame) /\ peer \in Seq(PeerFrames) /\ Len(rx) \in Nat /\ Len(peer) \in Nat
      /\ Len(rx) <= Len(peer) /\ \A k \in 1..Len(rx) : rx[k] = FrameOf(peer[k])
      /\ DOMAIN peer = 1..Len(peer)
  BY DEF IInv, TypeOK, StateInv, RecvTypes, PeerInv
<1>2. \A k \in 1..Len(peer) : FrameOf(peer[k]) \in Frame
  <2> TAKE k \in 1..Len(peer)
  <2>1. peer[k] \in PeerFrames
    BY <1>1, ElementOfSeq
  <2> QED BY <2>1, PeerAssumption, FramesAssumption
<1>3. sent = [k \in 1..Len(peer) |-> FrameOf(peer[k])]
  BY <1>1
<1>4. sent \in Seq(Frame) /\ Len(sent) = Len(peer) /\ \A k \in 1..Len(peer) : sent[k] = FrameOf(peer[k])
  BY <1>1, <1>2, <1>3
<1> HIDE DEF sent
<1>5. \A k \in 1..Len(rx) : k \in 1..Len(peer)
  BY <1>1
<1>6. \A k \in 1..Len(rx) : rx[k] = sent[k]
  BY <1>1, <1>4, <1>5
<1>7. IsPrefix(rx, sent)
  BY <1>1, <1>4, <1>6, PrefixOfElements
<1> QED BY <1>7 DEF sent

\* The lengths of what remains, before and after the k-th frame.
LEMMA RemainingLengths ==
  ASSUME IInv, StateInv, NEW r, Chain(r), InPlace(r, <<>>), Aligned, buf = <<>>
  PROVE  /\ \A k \in 1..Len(rx) : Len(wire) <= Len(r[k + 1])
         /\ \A k \in (Len(rx) + 1)..Len(peer) : Len(r[k + 1]) < Len(wire)
PROOF
<1>1. /\ Len(rx) \in Nat /\ Len(peer) \in Nat /\ Len(rx) <= Len(peer) /\ wire \in Seq(Byte)
      /\ Raw \in Seq(Byte) /\ Len(wire) \in Nat /\ Len(Raw) \in Nat
  <2>1. rx \in Seq(Frame) /\ peer \in Seq(PeerFrames) /\ wire \in Seq(Byte) /\ Raw \in Seq(Byte)
    BY OpenedRight DEF IInv, TypeOK, StateInv, RecvTypes
  <2> QED BY <2>1 DEF StateInv, PeerInv
<1>2. /\ r \in [1..(Len(peer) + 1) -> Seq(Byte)]
      /\ \A j \in 1..(Len(peer) + 1), k \in 1..(Len(peer) + 1) : j <= k => Len(r[k]) <= Len(r[j])
  BY DEF Chain
<1>3. r[Len(rx) + 1] = Raw \o wire
  <2>1. <<>> \o (wire \o <<>>) = wire
    <3>1. wire \o <<>> = wire /\ <<>> \o wire = wire
      BY <1>1, ConcatEmptySeq
    <3> QED BY <3>1
  <2> QED BY <2>1 DEF InPlace
<1>4. Len(r[Len(rx) + 1]) = Len(Raw) + Len(wire)
  <2>1. Joined(Raw \o wire, Raw, wire)
    BY <1>1, ConcatJoins
  <2> QED BY <1>3, <2>1 DEF Joined
<1>5. \A k \in 1..(Len(peer) + 1) : Len(r[k]) \in Nat
  BY <1>2
<1>6. ASSUME NEW k \in 1..Len(rx) PROVE Len(wire) <= Len(r[k + 1])
  <2>1. k + 1 \in 1..(Len(peer) + 1) /\ Len(rx) + 1 \in 1..(Len(peer) + 1) /\ k + 1 <= Len(rx) + 1
    BY <1>1
  <2>2. Len(r[Len(rx) + 1]) <= Len(r[k + 1]) /\ Len(r[k + 1]) \in Nat
    BY <1>2, <1>5, <2>1
  <2> DEFINE a == Len(r[k + 1])
             b == Len(Raw)
             c == Len(wire)
  <2>3. a \in Nat /\ b \in Nat /\ c \in Nat /\ b + c <= a
    BY <1>1, <1>4, <2>2
  <2> HIDE DEF a, b, c
  <2>4. c <= a
    BY ONLY <2>3
  <2> QED BY <2>4 DEF a, c
<1>7. ASSUME NEW k \in (Len(rx) + 1)..Len(peer) PROVE Len(r[k + 1]) < Len(wire)
  <2> DEFINE p == peer[Len(rx) + 1]
             v == r[Len(rx) + 2]
             e == Encode(p)
  <2>1. /\ Len(rx) + 1 \in 1..Len(peer) /\ Len(rx) < Len(peer) /\ k + 1 \in 1..(Len(peer) + 1)
        /\ Len(rx) + 2 \in 1..(Len(peer) + 1) /\ Len(rx) + 2 <= k + 1
        /\ Len(rx) + 1 + 1 = Len(rx) + 2
    BY <1>1
  <2>2. p \in PeerFrames
    <3>1. peer \in Seq(PeerFrames)
      BY DEF StateInv, RecvTypes
    <3> QED BY <2>1, <3>1, ElementOfSeq
  <2>3. v \in Seq(Byte) /\ r[Len(rx) + 1] = e \o v
    <3>1. r[Len(rx) + 1] = e \o r[Len(rx) + 1 + 1]
      BY <2>1 DEF Chain
    <3> QED BY <1>2, <2>1, <3>1
  <2>4. e \in Seq(Byte) /\ Len(e) = FrameLength(p) /\ FrameLength(p) \in Nat
    BY <2>2, EncodeBytes, OffsetRange
  <2>5. Len(r[Len(rx) + 1]) = FrameLength(p) + Len(v)
    <3> HIDE DEF e, v
    <3>1. Joined(e \o v, e, v)
      BY <2>3, <2>4, ConcatJoins
    <3> QED BY <2>3, <2>4, <3>1 DEF Joined
  <2>6. Len(Raw) < FrameLength(p)
    <3>1. CASE Raw = <<>>
      <4>1. /\ Offset(p) \in 2..10 /\ Len(p.data) \in Nat
            /\ FrameLength(p) = Offset(p) + 4 + Len(p.data)
        BY <2>2, OffsetRange
      <4> DEFINE o == Offset(p)
                 n == Len(p.data)
                 l == FrameLength(p)
      <4> HIDE DEF o, n, l
      <4>2. o \in 2..10 /\ n \in Nat /\ l = o + 4 + n
        BY <4>1 DEF o, n, l
      <4>3. l > 0
        BY ONLY <4>2
      <4>4. Len(Raw) = 0
        BY <3>1
      <4> QED BY <4>3, <4>4 DEF l
    <3>2. CASE Raw # <<>>
      <4>1. current # NoFrame /\ current.raw = Raw
        BY <3>2 DEF Raw
      <4> QED BY <3>2, <4>1 DEF StateInv, CurrentInv
    <3> QED BY <3>1, <3>2
  <2>7. Len(r[k + 1]) <= Len(v) /\ Len(r[k + 1]) \in Nat /\ Len(v) \in Nat
    BY <1>2, <1>5, <2>1
  <2> DEFINE a == Len(r[k + 1])
             b == Len(Raw)
             c == Len(wire)
             d == Len(v)
             l == FrameLength(p)
  <2>8. /\ a \in Nat /\ b \in Nat /\ c \in Nat /\ d \in Nat /\ l \in Nat
        /\ b + c = l + d /\ b < l /\ a <= d
    BY <1>1, <1>4, <2>4, <2>5, <2>6, <2>7
  <2> HIDE DEF a, b, c, d, l
  <2>9. a < c
    BY ONLY <2>8
  <2> QED BY <2>9 DEF a, c
<1> QED BY <1>6, <1>7

LEMMA InvHandled ==
  ASSUME RInv(<<>>)
  PROVE  EveryFrameHandled
PROOF
<1>1. IInv /\ StateInv
  BY DEF RInv
<1>2. IsPrefix(rx, [k \in DOMAIN peer |-> FrameOf(peer[k])])
  BY <1>1, InvPrefix
<1>3. ASSUME call = "none", "SENT_CLOSE" \notin flags, NEW k \in DOMAIN peer
      PROVE  k \in DOMAIN rx <=> Complete(k)
  <2>1. Aligned /\ buf = <<>>
    BY <1>1, <1>3 DEF IInv, StuckFrame, FlagsAgree, StateInv, CallInv, Aligned
  <2>2. PICK r : Chain(r) /\ InPlace(r, <<>>)
    BY DEF RInv
  <2>3. /\ \A j \in 1..Len(rx) : Len(wire) <= Len(r[j + 1])
        /\ \A j \in (Len(rx) + 1)..Len(peer) : Len(r[j + 1]) < Len(wire)
    BY <1>1, <2>1, <2>2, RemainingLengths
  <2>4. /\ rx \in Seq(Frame) /\ peer \in Seq(PeerFrames) /\ ends \in Seq(Nat) /\ wire \in Seq(Byte)
    BY <1>1 DEF IInv, TypeOK, StateInv, RecvTypes
  <2>5. /\ Len(rx) \in Nat /\ Len(peer) \in Nat /\ Len(wire) \in Nat
        /\ DOMAIN rx = 1..Len(rx) /\ DOMAIN peer = 1..Len(peer)
    BY <2>4
  <2>6. k \in 1..Len(peer) /\ (k \in 1..Len(rx) \/ k \in (Len(rx) + 1)..Len(peer))
        /\ (k \in (Len(rx) + 1)..Len(peer) => k \notin 1..Len(rx))
    BY <1>3, <2>5
  <2>7. ends[k] = Sent - Len(r[k + 1])
    BY <2>2, <2>6 DEF Chain
  <2>8. Sent \in Nat /\ Len(r[k + 1]) \in Nat
    <3>1. r[k + 1] \in Seq(Byte)
      <4>1. k + 1 \in 1..(Len(peer) + 1)
        BY <2>5, <2>6
      <4> QED BY <2>2, <4>1 DEF Chain
    <3>2. Sent \in Nat
      BY <2>4, SentNat
    <3> QED BY <3>1, <3>2
  <2> DEFINE a == Sent
             b == Len(r[k + 1])
             c == Len(wire)
  <2>9. Complete(k) <=> a - b <= a - c
    BY <2>7 DEF Complete, Taken
  <2>10. a \in Nat /\ b \in Nat /\ c \in Nat
    BY <2>5, <2>8
  <2>11. (k \in 1..Len(rx) => c <= b) /\ (k \in (Len(rx) + 1)..Len(peer) => b < c)
    BY <2>3
  <2> HIDE DEF a, b, c
  <2>12. a - b <= a - c <=> c <= b
    BY ONLY <2>10
  <2>13. ~ (b < c /\ c <= b)
    BY ONLY <2>10
  <2> QED BY ONLY <2>5, <2>6, <2>9, <2>11, <2>12, <2>13, Zenon
<1> QED BY <1>2, <1>3 DEF EveryFrameHandled

\* However the bytes of the frames were cut into reads, the frames handled
\* are the frames sent, and when handle_recv returns none of the complete
\* ones has been left out.
THEOREM FramesHandled ==
  ASSUME Steady
  PROVE  RecvSpec => []EveryFrameHandled
PROOF
<1>1. RInv(<<>>) => EveryFrameHandled
  BY InvHandled
<1>2. RecvSpec => []RInv(<<>>)
  BY BytesInPlace
<1> QED BY <1>1, <1>2, PTL

-----------------------------------------------------------------------------
(* The echo server: what one step delivers and makes.                      *)

\* Nothing is delivered and no data frame made; or one message is delivered
\* and made into a frame at once.
Quiet ==
  /\ delivered' = delivered
  /\ made' = made \/ \E g \in Frame : ~ IsData(g) /\ made' = Append(made, g)
EchoesMessage ==
  \E m \in Message, g \in Frame :
    /\ g.b0 = FIN + m.opcode /\ g.data = m.payload
    /\ delivered' = Append(delivered, m) /\ made' = Append(made, g)

LEMMA CloseQuiet ==
  ASSUME IInv, NEW fl, NEW code \in Code, NEW reason \in Seq(Byte), MakeClose(fl, code, reason),
         delivered' = delivered
  PROVE  Quiet
PROOF
<1>1. TypeOK
  BY DEF IInv
<1>2. IF Writable(fl)
      THEN \E g \in Frame : g.b0 = CLOSE /\ CodeOf(g.data) = code /\ made' = Append(made, g)
      ELSE made' = made
  BY <1>1, CloseAdds
<1>3. \A g \in Frame : g.b0 = CLOSE => ~ IsData(g)
  BY DEF IsData
<1> QED BY <1>2, <1>3 DEF Quiet

LEMMA ErrorQuiet ==
  ASSUME IInv, NEW fl, NEW code \in Code, Error(fl, code)
  PROVE  Quiet
PROOF
<1> DEFINE fl1 == fl \cup {"PROCESSING_ERROR"}
<1>1. MakeClose(fl1, code, <<>>) /\ delivered' = delivered /\ <<>> \in Seq(Byte)
  BY DEF Error
<1> HIDE DEF fl1
<1> QED BY <1>1, CloseQuiet

LEMMA FailQuiet ==
  ASSUME IInv, Fail(flags)
  PROVE  Quiet
PROOF
<1> DEFINE fl == flags \cup {"SHOULD_CLOSE"}
           code == 1002
<1>1. Error(fl, code) /\ code \in Code
  BY CodeRange DEF Fail
<1> HIDE DEF fl, code
<1> QED BY <1>1, ErrorQuiet

\* libwebsock_dispatch_message with the callback of the echo server.
LEMMA DispatchEchoes ==
  ASSUME IInv, Receiving, Callbacks = {"echo"}, "CONTINUOUS" \notin flags,
         NEW fs \in Seq(Frame), fs[1].b0 \in {TEXT, BINARY, FIN + TEXT, FIN + BINARY},
         Dispatch(fs)
  PROVE  Quiet \/ EchoesMessage
PROOF
<1> DEFINE fl == flags \ {"RECEIVING_FRAGMENT"}
           m  == [opcode |-> fs[1].b0 % 16, payload |-> Payload(fs)]
<1>1. TypeOK
  BY DEF IInv
<1>2. CASE IgnoreMessage(fl, fs)
  BY <1>2 DEF IgnoreMessage, Quiet
<1>3. CASE Error(fl, 1007)
  <2> DEFINE code == 1007
  <2>1. Error(fl, code) /\ code \in Code
    BY <1>3, CodeRange
  <2> HIDE DEF fl, code
  <2> QED BY <2>1, ErrorQuiet
<1>4. CASE /\ "SENT_CLOSE" \notin flags
           /\ delivered' = Append(delivered, m)
           /\ OnMessage("echo", fl, m)
  <2>1. m \in Message /\ FIN + m.opcode \in Byte /\ m.payload \in Seq(Byte)
    <3>1. fs[1].b0 % 16 \in {1, 2}
      BY DEF TEXT, BINARY, FIN
    <3>2. Payload(fs) \in Seq(Byte)
      BY PayloadType
    <3> DEFINE o == fs[1].b0 % 16
               q == Payload(fs)
    <3>3. o \in {1, 2} /\ q \in Seq(Byte) /\ m = [opcode |-> o, payload |-> q]
      BY <3>1, <3>2
    <3> HIDE DEF o, q, m
    <3>4. m.opcode = o /\ m.payload = q /\ m \in Message
      BY <3>3 DEF Message, TEXT, BINARY
    <3>5. \A n \in {1, 2} : FIN + n \in Byte
      BY SMT DEF FIN, Byte
    <3>6. FIN + o \in Byte
      BY ONLY <3>3, <3>5
    <3> QED BY <3>3, <3>4, <3>6
  <2>2. Writable(fl)
    BY <1>4 DEF Writable, Receiving
  <2>3. "CONTINUOUS" \notin fl
    OBVIOUS
  <2>4. Fragment(fl, FIN + m.opcode, m.payload)
    <3> HIDE DEF fl, m
    <3> QED BY <1>4, <2>3 DEF OnMessage
  <2> HIDE DEF fl, m
  <2>5. PICK g \in Frame : g.b0 = FIN + m.opcode /\ g.data = m.payload /\ made' = Append(made, g)
    BY <1>1, <2>1, <2>2, <2>4, FragmentAdds
  <2> QED BY <1>4, <2>1, <2>5 DEF EchoesMessage
<1>5. "SENT_CLOSE" \notin fl => "SENT_CLOSE" \notin flags
  OBVIOUS
<1> HIDE DEF fl, m
<1> QED BY <1>2, <1>3, <1>4, <1>5 DEF Dispatch, fl, m

\* A control frame delivers nothing and is answered by control frames only.
LEMMA ControlQuiet ==
  ASSUME IInv, NEW f \in Frame, Control(f)
  PROVE  Quiet
PROOF
<1>0. TypeOK /\ f.data \in Seq(Byte)
  BY DEF IInv, Frame
<1>1. CASE delivered' = delivered /\ made' = made
  BY <1>1 DEF Quiet
<1>2. CASE Error(flags, 1002)
  <2> DEFINE code == 1002
  <2>1. Error(flags, code) /\ code \in Code
    BY <1>2, CodeRange
  <2> HIDE DEF code
  <2> QED BY <2>1, ErrorQuiet
<1>3. CASE Ping(f.data)
  <2>1. Fragment(flags, PONG, f.data) /\ delivered' = delivered /\ PONG \in Byte
    BY <1>3 DEF Ping, PONG, Byte
  <2>2. made' = made \/ \E g \in Frame : g.b0 = PONG /\ made' = Append(made, g)
    BY <1>0, <2>1, FragmentAdds
  <2>3. \A g \in Frame : g.b0 = PONG => ~ IsData(g)
    BY DEF IsData
  <2> QED BY <2>1, <2>2, <2>3 DEF Quiet
<1>4. CASE Close(f.data)
  <2> DEFINE info == NewCloseInfo(f.data)
             fl == flags \cup {"RECEIVED_CLOSE"}
  <2>1. info \in CloseInfo \cup {None}
    BY <1>0, CloseInfoType
  <2>2. Fail(flags) => Quiet
    BY FailQuiet
  <2>3. CASE OnClose(fl, info) /\ delivered' = delivered
    <3> HIDE DEF fl, info
    <3>1. CASE info = None
      <4> DEFINE code == 1000
      <4>1. MakeClose(fl, code, <<>>) /\ code \in Code /\ <<>> \in Seq(Byte)
        BY <2>3, <3>1, CodeRange DEF OnClose
      <4> HIDE DEF code
      <4> QED BY <2>3, <4>1, CloseQuiet
    <3>2. CASE info # None
      <4>1. info.code \in Code /\ info.reason \in Seq(Byte)
        BY <2>1, <3>2 DEF CloseInfo
      <4>2. MakeClose(fl, info.code, info.reason)
        BY <2>3, <3>2 DEF OnClose
      <4> QED BY <2>3, <4>1, <4>2, CloseQuiet
    <3> QED BY <3>1, <3>2
  <2> HIDE DEF info, fl
  <2> QED BY <1>1, <1>2, <1>4, <2>2, <2>3 DEF Close, info, fl
<1> QED BY <1>1, <1>2, <1>3, <1>4 DEF Control

LEMMA ReceiveEchoes ==
  ASSUME IInv, Callbacks = {"echo"}, "CONTINUOUS" \notin flags, NEW f \in RxFrames, Receive(f)
  PROVE  Quiet \/ EchoesMessage
PROOF
<1>1. f \in Frame /\ Receiving /\ ~ stuck /\ HandleFrame(f)
  BY FramesAssumption DEF Receive
<1>2. CASE Control(f)
  BY <1>1, <1>2, ControlQuiet
<1>3. CASE NewContinuation(f)
  BY <1>3 DEF NewContinuation, Quiet
<1>4. CASE HandlerOf(f) = "dispatch" /\ Dispatch(Append(frames, f))
  <2> DEFINE fs == Append(frames, f)
  <2>1. fs \in Seq(Frame) /\ fs[1].b0 \in {TEXT, BINARY, FIN + TEXT, FIN + BINARY}
    BY <1>1, <1>4, DispatchedList
  <2>2. Dispatch(fs)
    BY <1>4
  <2> HIDE DEF fs
  <2> QED BY <1>1, <2>1, <2>2, DispatchEchoes
<1>5. CASE Fail(flags)
  BY <1>5, FailQuiet
<1> QED BY <1>1, <1>2, <1>3, <1>4, <1>5 DEF HandleFrame

LEMMA RedispatchEchoes ==
  ASSUME IInv, Callbacks = {"echo"}, "CONTINUOUS" \notin flags, Redispatch
  PROVE  Quiet \/ EchoesMessage
PROOF
<1>1. Receiving
  BY DEF Redispatch
<1>2. CASE Dispatch(frames)
  <2>1. frames \in Seq(Frame) /\ frames[1].b0 \in {TEXT, BINARY, FIN + TEXT, FIN + BINARY}
    BY DEF Redispatch, IInv, TypeOK, StuckFrame, FragmentState
  <2> QED BY <1>1, <1>2, <2>1, DispatchEchoes
<1>3. CASE Fail(flags)
  BY <1>3, FailQuiet
<1> QED BY <1>2, <1>3 DEF Redispatch

-----------------------------------------------------------------------------
(* Sequences that grow one element at a time.                              *)

\* Of a list of sequences each of which is the one before it, or that and one
\* element more, each is a prefix of those after it.
LEMMA GrowingPrefixes ==
  ASSUME NEW S, NEW l \in Nat, NEW h \in [0..l -> Seq(S)],
         \A k \in 1..l : h[k] = h[k - 1] \/ \E e \in S : h[k] = Append(h[k - 1], e),
         NEW n \in 0..l
  PROVE  IsPrefix(h[n], h[l])
PROOF
<1> DEFINE bad == {m \in Nat : n <= m /\ m <= l /\ ~ IsPrefix(h[n], h[m])}
<1>1. bad \in SUBSET Nat
  OBVIOUS
<1>2. bad = {}
  <2> SUFFICES ASSUME bad # {} PROVE FALSE
    OBVIOUS
  <2>1. PICK m \in bad : \A k \in bad : m <= k
    BY <1>1, LeastNat
  <2>2. m \in Nat /\ n <= m /\ m <= l /\ ~ IsPrefix(h[n], h[m])
    OBVIOUS
  <2>3. h[n] \in Seq(S)
    OBVIOUS
  <2>4. m # n
    BY <2>2, <2>3, PrefixSelf
  <2>5. m \in 1..l /\ m - 1 \in 0..l /\ m - 1 \in Nat /\ n <= m - 1 /\ m - 1 <= l /\ ~ (m <= m - 1)
    BY <2>2, <2>4
  <2>6. m - 1 \notin bad
    BY <2>1, <2>5
  <2>7. IsPrefix(h[n], h[m - 1])
    BY <2>5, <2>6
  <2>8. h[m] # h[m - 1]
    BY <2>2, <2>7
  <2>9. PICK e \in S : h[m] = Append(h[m - 1], e)
    BY <2>5, <2>8
  <2> DEFINE t == h[m - 1]
  <2>10. t \in Seq(S) /\ IsPrefix(h[n], t)
    BY <2>5, <2>7
  <2> HIDE DEF t
  <2>11. IsPrefix(h[n], Append(t, e))
    BY <2>3, <2>10, PrefixLonger
  <2> QED BY <2>2, <2>9, <2>11 DEF t
<1>3. l \in Nat /\ n <= l /\ l <= l
  OBVIOUS
<1> QED BY <1>2, <1>3

\* A sequence, with its elements but the last k.
LEMMA OneMore ==
  ASSUME NEW S, NEW s \in Seq(S), NEW k \in 1..Len(s)
  PROVE  /\ SubSeq(s, 1, k - 1) \in Seq(S) /\ s[k] \in S
         /\ SubSeq(s, 1, k) = Append(SubSeq(s, 1, k - 1), s[k])
PROOF
<1> DEFINE a == SubSeq(s, 1, k - 1)
           b == SubSeq(s, 1, k)
           c == Append(a, s[k])
<1>1. /\ k - 1 \in Nat /\ k \in Nat /\ 1 \in Nat /\ 1 <= 1 /\ k <= Len(s) /\ k - 1 <= Len(s)
      /\ (IF 1 <= k - 1 THEN k - 1 - 1 + 1 ELSE 0) = k - 1
      /\ (IF 1 <= k THEN k - 1 + 1 ELSE 0) = k
      /\ k - 1 - 1 + 1 = k - 1 /\ k - 1 + 1 = k
  OBVIOUS
<1>2. s[k] \in S
  BY ElementOfSeq
<1>3. a \in Seq(S) /\ Len(a) = k - 1 /\ \A i \in 1..(k - 1) : a[i] = s[1 + i - 1]
  BY <1>1, SubSeqType
<1>4. b \in Seq(S) /\ Len(b) = k /\ \A i \in 1..k : b[i] = s[1 + i - 1]
  BY <1>1, SubSeqType
<1> HIDE DEF a, b
<1>5. /\ c \in Seq(S) /\ Len(c) = k - 1 + 1 /\ \A i \in 1..(k - 1) : c[i] = a[i]
      /\ c[k - 1 + 1] = s[k]
  BY <1>2, <1>3, AppendProperties
<1> HIDE DEF c
<1>6. \A i \in 1..k : 1 + i - 1 = i /\ (i \in 1..(k - 1) \/ i = k)
  BY <1>1
<1>7. \A i \in 1..(k - 1) : i \in 1..k
  BY <1>1
<1>8. \A i \in 1..k : b[i] = c[i]
  BY <1>1, <1>3, <1>4, <1>5, <1>6, <1>7
<1>9. Len(b) = Len(c)
  BY <1>1, <1>4, <1>5
<1>10. b = c
  BY <1>4, <1>5, <1>8, <1>9, SeqEqual
<1> QED BY <1>2, <1>3, <1>10 DEF a, b, c

\* A sequence over a set is one over every larger set.
LEMMA SeqWider ==
  ASSUME NEW S, NEW T, S \subseteq T, NEW s \in Seq(S)
  PROVE  s \in Seq(T)
PROOF
<1>1. Len(s) \in Nat /\ DOMAIN s = 1..Len(s) /\ \A i \in 1..Len(s) : s[i] \in S
  BY LenProperties, ElementOfSeq
<1>2. s \in [1..Len(s) -> T]
  <2>1. s = [i \in 1..Len(s) |-> s[i]]
    BY <1>1, SeqDef
  <2>2. [i \in 1..Len(s) |-> s[i]] \in [1..Len(s) -> T]
    BY <1>1
  <2> QED BY <2>1, <2>2
<1> QED BY <1>1, <1>2, SeqDef

LEMMA PrefixThrough ==
  ASSUME NEW A, NEW B, NEW C, NEW s \in Seq(A), NEW t \in Seq(B), NEW u \in Seq(C),
         IsPrefix(s, t), IsPrefix(t, u)
  PROVE  IsPrefix(s, u)
PROOF
<1> DEFINE R == A \cup B \cup C
<1>0. s \in Seq(R) /\ t \in Seq(R) /\ u \in Seq(R)
  <2>1. A \subseteq R /\ B \subseteq R /\ C \subseteq R
    OBVIOUS
  <2> HIDE DEF R
  <2> QED BY <2>1, SeqWider
<1> HIDE DEF R
<1>1. /\ Len(s) <= Len(t) /\ Len(t) <= Len(u)
      /\ SubSeq(s, 1, Len(s)) = SubSeq(t, 1, Len(s))
      /\ SubSeq(t, 1, Len(t)) = SubSeq(u, 1, Len(t))
  BY DEF IsPrefix
<1>2. Len(s) \in Nat /\ Len(t) \in Nat /\ Len(u) \in Nat /\ 1 \in Nat /\ 1 <= 1
  BY <1>0, LenProperties
<1>3. Len(s) <= Len(u)
  BY <1>1, <1>2
<1>4. \A n \in Nat : n - 1 + 1 = n
  OBVIOUS
<1>5. \A i \in 1..Len(s) : SubSeq(t, 1, Len(s))[i] = t[1 + i - 1]
  <2> DEFINE n == Len(s)
  <2>1. n \in Nat /\ n <= Len(t) /\ n - 1 + 1 = n
    BY <1>1, <1>2
  <2> HIDE DEF n
  <2>2. \A i \in 1..(n - 1 + 1) : SubSeq(t, 1, n)[i] = t[1 + i - 1]
    BY <1>0, <1>2, <2>1, SubSeqType
  <2> QED BY <2>1, <2>2 DEF n
<1>6. \A i \in 1..Len(t) : SubSeq(u, 1, Len(t))[i] = u[1 + i - 1]
  <2> DEFINE n == Len(t)
  <2>1. n \in Nat /\ n <= Len(u) /\ n - 1 + 1 = n
    BY <1>1, <1>2
  <2> HIDE DEF n
  <2>2. \A i \in 1..(n - 1 + 1) : SubSeq(u, 1, n)[i] = u[1 + i - 1]
    BY <1>0, <1>2, <2>1, SubSeqType
  <2> QED BY <2>1, <2>2 DEF n
<1>7. SubSeq(s, 1, Len(s)) = s /\ SubSeq(t, 1, Len(t)) = t
  BY <1>0, SubSeqFull
<1>8. \A i \in 1..Len(s) : 1 + i - 1 = i /\ i \in 1..Len(t)
  BY <1>1, <1>2
<1>9. \A i \in 1..Len(s) : s[i] = u[i]
  BY <1>1, <1>5, <1>6, <1>7, <1>8
<1> QED BY <1>0, <1>3, <1>9, PrefixOfElements

-----------------------------------------------------------------------------
(* The messages in the first frames of a sequence.                         *)

LEMMA MessagesOfFirst ==
  ASSUME NEW s \in Seq(Frame), NEW n \in 0..Len(s)
  PROVE  IsPrefix(Messages(SubSeq(s, 1, n)), Messages(s))
PROOF
<1> DEFINE l == Len(s)
           h == [k \in 0..l |-> Messages(SubSeq(s, 1, k))]
<1>1. l \in Nat /\ l \in 0..l /\ n \in 0..l /\ SubSeq(s, 1, l) = s
  BY SubSeqFull
<1>2. \A k \in 0..l : SubSeq(s, 1, k) \in Seq(Frame)
  <2> TAKE k \in 0..l
  <2>1. k \in Nat /\ 1 \in Nat /\ 1 <= 1 /\ k <= Len(s)
    BY <1>1
  <2> QED BY <2>1, SubSeqType
<1>3. \A k \in 0..l : Messages(SubSeq(s, 1, k)) \in Seq(Wholes)
  <2> TAKE k \in 0..l
  <2>1. [b0 |-> 0, data |-> <<>>] \in Frame
    BY DEF Frame, Byte
  <2> QED BY <1>2, <2>1, MessagesAppend
<1>4. h \in [0..l -> Seq(Wholes)]
  BY <1>3
<1>5. ASSUME NEW k \in 1..l
      PROVE  h[k] = h[k - 1] \/ \E e \in Wholes : h[k] = Append(h[k - 1], e)
  <2> DEFINE t == SubSeq(s, 1, k - 1)
             f == s[k]
             w == Whole(Append(Pending(t), f))
  <2>1. t \in Seq(Frame) /\ f \in Frame /\ SubSeq(s, 1, k) = Append(t, f)
    BY OneMore
  <2>2. h[k] = Messages(SubSeq(s, 1, k)) /\ h[k - 1] = Messages(t)
    <3>1. k \in 0..l /\ k - 1 \in 0..l
      BY <1>1
    <3> QED BY <3>1
  <2> HIDE DEF t, f, h
  <2>3. /\ Pending(t) \in Seq(Frame)
        /\ Messages(Append(t, f)) = IF IsData(f) /\ IsFinal(f) THEN Append(Messages(t), w)
                                    ELSE Messages(t)
    BY <2>1, MessagesAppend
  <2>4. w \in Wholes
    <3>1. Append(Pending(t), f) \in Seq(Frame)
      BY <2>1, <2>3, AppendProperties
    <3> QED BY <3>1 DEF Wholes
  <2> HIDE DEF w
  <2> QED BY <2>1, <2>2, <2>3, <2>4
<1>6. h[n] = Messages(SubSeq(s, 1, n)) /\ h[l] = Messages(s)
  BY <1>1
<1> HIDE DEF h, l
<1>7. IsPrefix(h[n], h[l])
  BY <1>1, <1>4, <1>5, GrowingPrefixes
<1> QED BY <1>6, <1>7

-----------------------------------------------------------------------------
(* What a peer reads out of the data frames made for it.                   *)

ReplyOf(g) == [opcode |-> g.b0 % 16, payload |-> g.data]
RepliesIn(data) == [i \in DOMAIN data |-> ReplyOf(data[i])]
Replies(fs) == RepliesIn(DataFrames(fs))
Reply == {ReplyOf(g) : g \in Frame}

LEMMA RepliesInAppend ==
  ASSUME NEW data \in Seq(Frame), NEW g \in Frame
  PROVE  /\ RepliesIn(data) \in Seq(Reply) /\ ReplyOf(g) \in Reply
         /\ RepliesIn(Append(data, g)) = Append(RepliesIn(data), ReplyOf(g))
PROOF
<1>1. \A d \in Seq(Frame) : /\ RepliesIn(d) \in Seq(Reply) /\ Len(RepliesIn(d)) = Len(d)
                            /\ \A i \in 1..Len(d) : RepliesIn(d)[i] = ReplyOf(d[i])
  <2> TAKE d \in Seq(Frame)
  <2> DEFINE n == Len(d)
             e == [i \in 1..n |-> ReplyOf(d[i])]
  <2>1. n \in Nat /\ DOMAIN d = 1..n /\ \A i \in 1..n : d[i] \in Frame
    BY LenProperties, ElementOfSeq
  <2>2. RepliesIn(d) = e
    BY <2>1 DEF RepliesIn
  <2>3. e \in [1..n -> Reply] /\ \A i \in 1..n : e[i] = ReplyOf(d[i])
    BY <2>1 DEF Reply
  <2> HIDE DEF e
  <2>4. e \in Seq(Reply) /\ Len(e) = n
    BY <2>1, <2>3, FunctionIsSeq
  <2> QED BY <2>2, <2>3, <2>4
<1> DEFINE t == Append(data, g)
           r == RepliesIn(data)
           n == Len(data)
           q == ReplyOf(g)
<1>2. /\ t \in Seq(Frame) /\ Len(t) = n + 1 /\ n \in Nat
      /\ \A i \in 1..n : t[i] = data[i]
      /\ t[n + 1] = g
  BY AppendProperties, LenProperties
<1>3. q \in Reply
  BY DEF Reply
<1> HIDE DEF t
<1>4. r \in Seq(Reply) /\ Len(r) = n /\ \A i \in 1..n : r[i] = ReplyOf(data[i])
  BY <1>1
<1> DEFINE u == RepliesIn(t)
           v == Append(r, q)
<1>5. u \in Seq(Reply) /\ Len(u) = n + 1 /\ \A i \in 1..(n + 1) : u[i] = ReplyOf(t[i])
  BY <1>1, <1>2
<1> HIDE DEF r, u
<1>6. /\ v \in Seq(Reply) /\ Len(v) = n + 1 /\ \A i \in 1..n : v[i] = r[i]
      /\ v[n + 1] = q
  BY <1>3, <1>4, AppendProperties
<1> HIDE DEF v
<1>7. \A i \in 1..(n + 1) : i \in 1..n \/ i = n + 1
  BY <1>2
<1>8. \A i \in 1..(n + 1) : u[i] = v[i]
  <2> TAKE i \in 1..(n + 1)
  <2>1. CASE i \in 1..n
    BY <1>2, <1>4, <1>5, <1>6, <2>1
  <2>2. CASE i = n + 1
    BY <1>2, <1>5, <1>6, <2>2
  <2> QED BY <1>7, <2>1, <2>2
<1>9. u = v
  <2> HIDE DEF n
  <2> QED BY <1>5, <1>6, <1>8, SeqEqual
<1> QED BY <1>3, <1>4, <1>9 DEF u, v, r, q, t

LEMMA RepliesAppend ==
  ASSUME NEW s \in Seq(Frame), NEW g \in Frame
  PROVE  /\ Replies(s) \in Seq(Reply) /\ ReplyOf(g) \in Reply
         /\ Replies(Append(s, g)) = IF IsData(g) THEN Append(Replies(s), ReplyOf(g))
                                    ELSE Replies(s)
PROOF
<1> DEFINE data == DataFrames(s)
<1>1. /\ data \in Seq(Frame)
      /\ DataFrames(Append(s, g)) = IF IsData(g) THEN Append(data, g) ELSE data
  BY DataAppend
<1> HIDE DEF data
<1>2. /\ RepliesIn(data) \in Seq(Reply) /\ ReplyOf(g) \in Reply
      /\ RepliesIn(Append(data, g)) = Append(RepliesIn(data), ReplyOf(g))
  BY <1>1, RepliesInAppend
<1> QED BY <1>1, <1>2 DEF Replies, data

LEMMA RepliesOfFirst ==
  ASSUME NEW s \in Seq(Frame), NEW n \in 0..Len(s)
  PROVE  IsPrefix(Replies(SubSeq(s, 1, n)), Replies(s))
PROOF
<1> DEFINE l == Len(s)
           h == [k \in 0..l |-> Replies(SubSeq(s, 1, k))]
<1>1. l \in Nat /\ l \in 0..l /\ n \in 0..l /\ SubSeq(s, 1, l) = s
  BY SubSeqFull
<1>2. \A k \in 0..l : SubSeq(s, 1, k) \in Seq(Frame)
  <2> TAKE k \in 0..l
  <2>1. k \in Nat /\ 1 \in Nat /\ 1 <= 1 /\ k <= Len(s)
    BY <1>1
  <2> QED BY <2>1, SubSeqType
<1>3. \A k \in 0..l : Replies(SubSeq(s, 1, k)) \in Seq(Reply)
  <2> TAKE k \in 0..l
  <2>1. [b0 |-> 0, data |-> <<>>] \in Frame
    BY DEF Frame, Byte
  <2> QED BY <1>2, <2>1, RepliesAppend
<1>4. h \in [0..l -> Seq(Reply)]
  BY <1>3
<1>5. ASSUME NEW k \in 1..l
      PROVE  h[k] = h[k - 1] \/ \E e \in Reply : h[k] = Append(h[k - 1], e)
  <2> DEFINE t == SubSeq(s, 1, k - 1)
             g == s[k]
  <2>1. t \in Seq(Frame) /\ g \in Frame /\ SubSeq(s, 1, k) = Append(t, g)
    BY OneMore
  <2>2. h[k] = Replies(SubSeq(s, 1, k)) /\ h[k - 1] = Replies(t)
    <3>1. k \in 0..l /\ k - 1 \in 0..l
      BY <1>1
    <3> QED BY <3>1
  <2> HIDE DEF t, g, h
  <2>3. /\ ReplyOf(g) \in Reply
        /\ Replies(Append(t, g)) = IF IsData(g) THEN Append(Replies(t), ReplyOf(g))
                                   ELSE Replies(t)
    BY <2>1, RepliesAppend
  <2> QED BY <2>1, <2>2, <2>3
<1>6. h[n] = Replies(SubSeq(s, 1, n)) /\ h[l] = Replies(s)
  BY <1>1
<1> HIDE DEF h, l
<1>7. IsPrefix(h[n], h[l])
  BY <1>1, <1>4, <1>5, GrowingPrefixes
<1> QED BY <1>6, <1>7

-----------------------------------------------------------------------------
(* The invariant of the echo server.                                       *)

\* What has been made for a peer to read is what has been delivered.
EchoInv == Replies(made) = delivered

LEMMA EchoKept ==
  ASSUME IInv, EchoInv, Quiet \/ EchoesMessage \/ (made' = made /\ delivered' = delivered)
  PROVE  EchoInv'
PROOF
<1>1. made \in Seq(Frame) /\ Replies(made) = delivered
  BY DEF IInv, TypeOK, EchoInv
<1>2. CASE made' = made /\ delivered' = delivered
  BY <1>1, <1>2 DEF EchoInv
<1>3. ASSUME NEW g \in Frame, ~ IsData(g), made' = Append(made, g), delivered' = delivered
      PROVE  EchoInv'
  <2>1. Replies(Append(made, g)) = Replies(made)
    BY <1>1, <1>3, RepliesAppend
  <2> QED BY <1>1, <1>3, <2>1 DEF EchoInv
<1>4. ASSUME NEW m \in Message, NEW g \in Frame, g.b0 = FIN + m.opcode, g.data = m.payload,
             delivered' = Append(delivered, m), made' = Append(made, g)
      PROVE  EchoInv'
  <2>1. m.opcode \in {1, 2} /\ m = [opcode |-> m.opcode, payload |-> m.payload]
    BY DEF Message, TEXT, BINARY
  <2>2. g.b0 % 16 = m.opcode /\ IsData(g)
    BY <1>4, <2>1 DEF FIN, IsData, CLOSE, PING, PONG
  <2>3. ReplyOf(g) = m
    BY <1>4, <2>1, <2>2 DEF ReplyOf
  <2>4. Replies(Append(made, g)) = Append(Replies(made), ReplyOf(g))
    BY <1>1, <2>2, RepliesAppend
  <2> QED BY <1>1, <1>4, <2>3, <2>4 DEF EchoInv
<1> QED BY <1>2, <1>3, <1>4 DEF Quiet, EchoesMessage

\* While the peer is sending, nothing has been lost.
HostInv ==
  /\ \E lost \in Seq(Byte) : RInv(lost) /\ (line = "sending" => lost = <<>>)
  /\ EchoInv
  /\ written \in 0..Len(made)

\* A server that only echoes, and an application that calls nothing itself.
Echoing == Callbacks = {"echo"} /\ {"init_text", "init_binary"} \cap AppCalls = {}

LEMMA MadeGrows ==
  ASSUME IInv, Quiet \/ EchoesMessage \/ (made' = made /\ delivered' = delivered),
         written \in 0..Len(made), written' = written
  PROVE  written' \in 0..Len(made')
PROOF
<1>1. made \in Seq(Frame) /\ Len(made) \in Nat
  BY LenProperties DEF IInv, TypeOK
<1>2. ASSUME NEW g \in Frame, made' = Append(made, g) PROVE Len(made') = Len(made) + 1
  BY <1>1, <1>2, AppendProperties
<1>3. Len(made') = Len(made) \/ Len(made') = Len(made) + 1
  BY <1>2 DEF Quiet, EchoesMessage
<1> QED BY <1>1, <1>3

LEMMA HostStep ==
  ASSUME Echoing, HostInv, [HostNext]_hostVars
  PROVE  HostInv' /\ [Next]_vars
PROOF
<1>1. Steady
  BY DEF Echoing, Steady
<1>2. PICK lost \in Seq(Byte) : RInv(lost) /\ (line = "sending" => lost = <<>>)
  BY DEF HostInv
<1>3. IInv /\ StateInv /\ "CONTINUOUS" \notin flags /\ EchoInv /\ written \in 0..Len(made)
  BY <1>2 DEF HostInv, RInv, StateInv, CallInv, Echoing
<1>4. made \in Seq(Frame) /\ Len(made) \in Nat
  BY <1>3, LenProperties DEF IInv, TypeOK
<1>5. ASSUME RInv(lost)', [Next]_vars, line' = "sending" => line = "sending",
             UNCHANGED vars, written' = written \/ written' = Len(made)
      PROVE  HostInv' /\ [Next]_vars
  <2>1. made' = made /\ delivered' = delivered
    BY <1>5 DEF vars
  <2>2. EchoInv'
    BY <1>3, <2>1, EchoKept
  <2>3. written' \in 0..Len(made')
    BY <1>3, <1>4, <1>5, <2>1
  <2> QED BY <1>2, <1>5, <2>2, <2>3 DEF HostInv
<1>6. CASE PeerSends
  <2>1. PICK p \in PeerFrames : PeerSend(p)
    BY <1>6 DEF PeerSends
  <2>2. RInv(<<>>) /\ lost = <<>>
    BY <1>2, <1>6 DEF PeerSends
  <2>3. RInv(<<>>)' /\ [Next]_vars
    BY <2>1, <2>2, SendsStep
  <2>4. UNCHANGED vars /\ UNCHANGED <<written, line>>
    BY <1>6, <2>1 DEF PeerSend, PeerSends, socket
  <2> QED BY <1>5, <2>2, <2>3, <2>4
<1>7. CASE PeerFallsSilent
  <2>1. PICK n \in 0..Len(wire) : wire' = SubSeq(wire, 1, n)
    BY <1>7 DEF PeerFallsSilent
  <2>2. /\ line = "sending" /\ line' = "silent" /\ call = "none" /\ written' = written
        /\ UNCHANGED <<vars, peer, ends, buf, call, current, needs_more, result>>
    BY <1>7 DEF PeerFallsSilent
  <2>3. UNCHANGED vars /\ [Next]_vars
    BY <2>2
  <2>4. PICK r : Chain(r) /\ InPlace(r, <<>>)
    BY <1>2, <2>2 DEF RInv
  <2>5. /\ StateInv' /\ Chain(r)'
        /\ \E gone \in Seq(Byte) : gone = SubSeq(wire, n + 1, Len(wire)) /\ InPlace(r, gone)'
    BY <1>3, <2>1, <2>2, <2>4, SilentStep
  <2>6. IInv'
    BY <1>3, <2>3, NextStep
  <2>7. PICK gone \in Seq(Byte) : gone = SubSeq(wire, n + 1, Len(wire)) /\ InPlace(r, gone)'
    BY <2>5
  <2>8. RInv(gone)'
    <3>1. LeftInv(<<>>) /\ StateInv
      BY <1>2, <2>2 DEF RInv
    <3>2. LeftInv(gone)'
      BY <2>1, <2>2, <2>7, <3>1, LeftSilent
    <3> QED BY <2>5, <2>6, <2>7, <3>2 DEF RInv
  <2>9. made' = made /\ delivered' = delivered
    BY <2>3 DEF vars
  <2>10. EchoInv'
    BY <1>3, <2>9, EchoKept
  <2> QED BY <1>3, <2>2, <2>3, <2>8, <2>9, <2>10 DEF HostInv
<1>8. CASE HostHandshake
  <2>1. RecvHandshake /\ UNCHANGED <<written, line>>
    BY <1>8 DEF HostHandshake, socket
  <2>2. RInv(lost)' /\ [Next]_vars
    BY <1>1, <1>2, <2>1, OtherStep
  <2>3. made' = made /\ delivered' = delivered
    BY <2>1 DEF RecvHandshake, PopulateHandshake
  <2>4. EchoInv'
    BY <1>3, <2>3, EchoKept
  <2> QED BY <1>2, <1>3, <2>1, <2>2, <2>3, <2>4 DEF HostInv
<1>9. CASE HostRead
  <2>1. PICK n \in 1..Len(wire) : RecvCall(n)
    BY <1>9 DEF HostRead
  <2>2. RInv(lost)' /\ [Next]_vars
    BY <1>1, <1>2, <2>1, OtherStep
  <2>3. UNCHANGED vars /\ UNCHANGED <<written, line>>
    BY <1>9, <2>1 DEF RecvCall, HostRead, socket
  <2> QED BY <1>5, <2>2, <2>3
<1>10. CASE HostCall
  <2>1. RInv(lost)' /\ Handled
    BY <1>1, <1>2, <1>10, HandleStep DEF HostCall
  <2>2. [Next]_vars
    BY <2>1 DEF Handled, Next
  <2>3. Quiet \/ EchoesMessage \/ (made' = made /\ delivered' = delivered)
    <3>1. ASSUME NEW f \in RxFrames, Receive(f) PROVE Quiet \/ EchoesMessage
      BY <1>3, <3>1, ReceiveEchoes DEF Echoing
    <3>2. CASE Redispatch
      BY <1>3, <3>2, RedispatchEchoes DEF Echoing
    <3>3. CASE UNCHANGED vars
      BY <3>3 DEF vars
    <3> QED BY <2>1, <3>1, <3>2, <3>3 DEF Handled
  <2>4. EchoInv'
    BY <1>3, <2>3, EchoKept
  <2>5. written' = written /\ line' = line
    BY <1>10 DEF HostCall
  <2>6. written' \in 0..Len(made')
    BY <1>3, <2>3, <2>5, MadeGrows
  <2> QED BY <1>2, <2>1, <2>2, <2>4, <2>5, <2>6 DEF HostInv
<1>11. CASE /\ UNCHANGED recvVars
            /\ line' = "sending" => line = "sending"
            /\ written' = written \/ written' = Len(made)
  <2>1. RInv(lost)' /\ [Next]_vars
    BY <1>1, <1>2, <1>11, OtherStep
  <2>2. UNCHANGED vars
    BY <1>11 DEF recvVars
  <2> QED BY <1>5, <1>11, <2>1, <2>2
<1>12. CASE \/ PeerHangsUp \/ HostSkips \/ HostWrites \/ HostEnds \/ UNCHANGED hostVars
  BY <1>11, <1>12 DEF PeerHangsUp, HostSkips, HostWrites, HostEnds, hostVars, socket
<1> QED BY <1>6, <1>7, <1>8, <1>9, <1>10, <1>12 DEF HostNext, Server

\* What has been written is what the peer reads out of the frames written,
\* which is a beginning of what was delivered, which is a beginning of what
\* was sent.
LEMMA InvEchoes ==
  ASSUME HostInv, MessagesIntact
  PROVE  EchoInOrder
PROOF
<1> DEFINE sent == [k \in DOMAIN peer |-> FrameOf(peer[k])]
           out == SubSeq(made, 1, written)
<1>1. PICK lost \in Seq(Byte) : RInv(lost)
  BY DEF HostInv
<1>2. IInv /\ StateInv /\ Replies(made) = delivered /\ written \in 0..Len(made)
  BY <1>1 DEF HostInv, RInv, EchoInv
<1>3. made \in Seq(Frame) /\ rx \in Seq(Frame) /\ delivered \in Seq(Message)
  BY <1>2 DEF IInv, TypeOK
<1>4. IsPrefix(Replies(out), delivered)
  BY <1>2, <1>3, RepliesOfFirst
<1>5. IsPrefix(delivered, Messages(rx))
  BY DEF MessagesIntact
<1>6. sent \in Seq(Frame)
  <2> DEFINE n == Len(peer)
  <2>1. peer \in Seq(PeerFrames)
    BY <1>2 DEF StateInv, RecvTypes
  <2>2. n \in Nat /\ DOMAIN peer = 1..n /\ \A k \in 1..n : peer[k] \in PeerFrames
    BY <2>1, LenProperties, ElementOfSeq
  <2>3. \A p \in PeerFrames : FrameOf(p) \in Frame
    BY PeerAssumption, FramesAssumption
  <2>4. sent \in [1..n -> Frame]
    BY <2>2, <2>3
  <2> HIDE DEF sent
  <2> QED BY <2>2, <2>4, FunctionIsSeq
<1>7. IsPrefix(rx, sent)
  BY <1>2, InvPrefix
<1> HIDE DEF sent, out
<1>8. Len(rx) \in 0..Len(sent) /\ rx = SubSeq(sent, 1, Len(rx))
  <2>1. Len(rx) <= Len(sent) /\ SubSeq(rx, 1, Len(rx)) = SubSeq(sent, 1, Len(rx))
    BY <1>7 DEF IsPrefix
  <2>2. SubSeq(rx, 1, Len(rx)) = rx
    BY <1>3, SubSeqFull
  <2>3. Len(rx) \in Nat /\ Len(sent) \in Nat
    BY <1>3, <1>6, LenProperties
  <2> QED BY <2>1, <2>2, <2>3
<1>9. IsPrefix(Messages(rx), Messages(sent))
  <2> DEFINE n == Len(rx)
  <2>1. n \in 0..Len(sent) /\ rx = SubSeq(sent, 1, n)
    BY <1>8
  <2> HIDE DEF n
  <2>2. IsPrefix(Messages(SubSeq(sent, 1, n)), Messages(sent))
    BY <1>6, <2>1, MessagesOfFirst
  <2> QED BY <2>1, <2>2
<1>10. /\ Replies(out) \in Seq(Reply) /\ Messages(rx) \in Seq(Wholes)
       /\ Messages(sent) \in Seq(Wholes)
  <2>1. [b0 |-> 0, data |-> <<>>] \in Frame
    BY DEF Frame, Byte
  <2>2. out \in Seq(Frame)
    <3>1. written \in Nat /\ written <= Len(made) /\ 1 \in Nat /\ 1 <= 1
      BY <1>2, <1>3, LenProperties
    <3> QED BY <1>3, <3>1, SubSeqType DEF out
  <2> QED BY <1>3, <1>6, <2>1, <2>2, MessagesAppend, RepliesAppend
<1>11. IsPrefix(delivered, Messages(sent))
  BY <1>3, <1>5, <1>9, <1>10, PrefixThrough
<1>12. IsPrefix(Replies(out), Messages(sent))
  BY <1>3, <1>4, <1>10, <1>11, PrefixThrough
<1> QED BY <1>12 DEF EchoInOrder, Replies, RepliesIn, ReplyOf, sent, out

\* From the bytes of the peer to the frames written: every message is echoed
\* whole, once and in order, however its bytes are cut into reads, whatever
\* comes between and behind its fragments, and wherever in a frame the peer
\* falls silent or hangs up.
THEOREM EchoesInOrder ==
  ASSUME Echoing
  PROVE  HostSpec => []EchoInOrder
PROOF
<1>1. HostInit => HostInv
  <2> SUFFICES ASSUME HostInit PROVE HostInv
    OBVIOUS
  <2>1. RecvInit /\ written = 0
    BY DEF HostInit
  <2>2. RInv(<<>>) /\ <<>> \in Seq(Byte)
    BY <2>1, InitRInv
  <2>3. made = <<>> /\ delivered = <<>>
    BY <2>1 DEF RecvInit, Init
  <2>4. Replies(<<>>) = <<>>
    <3>1. DataFrames(<<>>) = <<>>
      BY FilterEmpty DEF DataFrames
    <3> QED BY <3>1 DEF Replies, RepliesIn
  <2>5. written \in 0..Len(made)
    BY <2>1, <2>3
  <2>6. Replies(made) = delivered
    BY <2>3, <2>4
  <2> QED BY <2>2, <2>5, <2>6 DEF HostInv, EchoInv
<1>2. HostInv /\ [HostNext]_hostVars => HostInv' /\ [Next]_vars
  BY HostStep
<1>3. HostInit => Init
  BY DEF HostInit, RecvInit
<1>4. HostInv /\ MessagesIntact => EchoInOrder
  BY InvEchoes
<1>5. Spec => []MessagesIntact
  BY MessagesWhole
<1> QED BY <1>1, <1>2, <1>3, <1>4, <1>5, PTL DEF HostSpec, Spec
=============================================================================
